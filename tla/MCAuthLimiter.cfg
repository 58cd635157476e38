CONSTANTS
  a1 = a1  a2 = a2  a3 = a3
  ip1 = ip1  ip2 = ip2
  u1 = u1  u2 = u2
  c1 = c1  c2 = c2
  ClientKeys = {ip1, ip2}
  PrincipalKeys = {u1, u2}
  CredentialKeys = {c1, c2}
  Attempts <- MCAttempts
  ClientOf <- MCClientOf
  PrincipalOf <- MCPrincipalOf
  CredentialOf <- MCCredentialOf
  IngressClients = {ip1}
  RawLimits <- MCLimits
  MaxTime = 2
SPECIFICATION Spec
INVARIANTS PermitsAccounted BackendRateBounded
PROPERTIES AdmissionImplemented
