----------------------------- MODULE AuthLimiter -----------------------------
(***************************************************************************)
(* internal/authn: the layered limiter in front of the identity backend.   *)
(* Each method runs under Limiter.mu and is one action.  Time advances in  *)
(* ticks, and a bucket is refilled at each tick rather than when it is     *)
(* next looked at; both give the same tokens whenever it is looked at.  An *)
(* entry that is not in a keyed limiter has a full bucket: that is what    *)
(* refill gives a new one.                                                 *)
(***************************************************************************)
EXTENDS Integers, Sequences, FiniteSets

CONSTANTS
  Attempts,      \* callers of TryAcquire, each with at most one permit at a time
  ClientKeys, PrincipalKeys, CredentialKeys,
  ClientOf, PrincipalOf, CredentialOf,  \* the digests of each attempt
  IngressClients,  \* clients whose requests pass the early per-client limit
  RawLimits,     \* the Limits the limiter may be configured with
  MaxTime        \* bound on the ticks of a behaviour

(* A Limits has a concurrency, a rate and a burst for each of the first four. *)
Bounds == [max : Int, rate : Int, burst : Int]
Limits == [total : Bounds, reserved : Bounds, perClient : Bounds, perPrincipal : Bounds,
           ingress : [rate : Int, burst : Int], maxKeys : Int, trustedTTL : Int]

ASSUME LimiterAssumption ==
  /\ IsFiniteSet(Attempts)
  /\ ClientOf \in [Attempts -> ClientKeys]
  /\ PrincipalOf \in [Attempts -> PrincipalKeys]
  /\ CredentialOf \in [Attempts -> CredentialKeys]
  /\ IngressClients \subseteq ClientKeys
  /\ MaxTime \in Nat
  /\ \A raw \in RawLimits : raw \in Limits
  /\ \E most \in RawLimits : \A raw \in RawLimits : raw.total.max <= most.total.max

VARIABLES
  limits,      \* the normalized Limits
  shared, reserved,            \* resourcePool: inFlight and tokens
  clients, principals,         \* keyedLimiter: lru (front first), inFlight, tokens
  ingress,
  trusted,     \* trustedLRU, front first
  validFor,    \* ticks a trusted credential is still valid for, -1 once expired
  permit,      \* per attempt: the pool its permit is from, or "none"
  time, granted, \* history: ticks passed, permits granted per pool,
  marked         \* and when each credential was last marked authenticated

vars == <<limits, shared, reserved, clients, principals, ingress, trusted,
          validFor, permit, time, granted, marked>>
history == <<granted, marked>>

Smaller(a, b) == IF a < b THEN a ELSE b
Larger(a, b) == IF a > b THEN a ELSE b

-----------------------------------------------------------------------------
(* NewLimiter *)

Minute == 60
AtLeastOne(n) == IF n <= 0 THEN 1 ELSE n

ClampReserve(n, total) == IF n <= 0 THEN 0 ELSE Smaller(n, total - 1)

Positive(b) == [f \in DOMAIN b |-> AtLeastOne(b[f])]

NormalizeLimits(raw) ==
  LET total == Positive(raw.total)
      clamped == [f \in DOMAIN total |-> ClampReserve(raw.reserved[f], total[f])]
      possible == \A f \in DOMAIN total : total[f] > 1 /\ clamped[f] > 0
  IN [raw EXCEPT !.total = total,
                 !.reserved = [f \in DOMAIN total |->
                                 IF possible THEN clamped[f] ELSE 0],
                 !.perClient = Positive(@), !.perPrincipal = Positive(@),
                 !.ingress = Positive(@), !.maxKeys = AtLeastOne(@),
                 !.trustedTTL = IF @ <= 0 THEN Minute ELSE @]

SharedLimits == [f \in DOMAIN limits.total |-> limits.total[f] - limits.reserved[f]]

EmptyKeyed(keys, burst) ==
  [lru |-> <<>>, inFlight |-> [k \in keys |-> 0], tokens |-> [k \in keys |-> burst]]

Init ==
  /\ \E raw \in RawLimits : limits = NormalizeLimits(raw)
  /\ shared = [inFlight |-> 0, tokens |-> SharedLimits.burst]
  /\ reserved = [inFlight |-> 0, tokens |-> limits.reserved.burst]
  /\ clients = EmptyKeyed(ClientKeys, limits.perClient.burst)
  /\ principals = EmptyKeyed(PrincipalKeys, limits.perPrincipal.burst)
  /\ ingress = EmptyKeyed(ClientKeys, limits.ingress.burst)
  /\ trusted = <<>>
  /\ validFor = [c \in CredentialKeys |-> -1]
  /\ permit = [a \in Attempts |-> "none"]
  /\ time = 0
  /\ granted = [shared |-> 0, reserved |-> 0]
  /\ marked = [c \in CredentialKeys |-> -1]

-----------------------------------------------------------------------------
(* keyedLimiter *)

Entries(keyed) == {keyed.lru[i] : i \in 1 .. Len(keyed.lru)}
PlaceOf(s, k) == CHOOSE i \in 1 .. Len(s) : s[i] = k
Without(s, k) ==
  IF \E i \in 1 .. Len(s) : s[i] = k
  THEN SubSeq(s, 1, PlaceOf(s, k) - 1) \o SubSeq(s, PlaceOf(s, k) + 1, Len(s))
  ELSE s
ToFront(s, k) == <<k>> \o Without(s, k)

(* The least recently used entry without work in flight, if there is one.    *)
IdleAny(keyed) == 1 .. Len(keyed.lru)
Idle(keyed) == {i \in 1 .. Len(keyed.lru) : keyed.inFlight[keyed.lru[i]] = 0}
Oldest(keyed) == keyed.lru[CHOOSE i \in Idle(keyed) : \A j \in Idle(keyed) : j <= i]

(* state(key) finds no place: the caller gets nil and nothing changes. *)
NoState(keyed, k) ==
  /\ k \notin Entries(keyed)
  /\ Len(keyed.lru) >= limits.maxKeys
  /\ Idle(keyed) = {}

(* state(key): the limiter afterwards.  At most one entry makes room. *)
Touched(keyed, k, burst) ==
  IF NoState(keyed, k) THEN keyed
  ELSE IF k \in Entries(keyed) \/ Len(keyed.lru) < limits.maxKeys
  THEN [keyed EXCEPT !.lru = ToFront(@, k)]
  ELSE LET v == Oldest(keyed)
       IN [lru |-> ToFront(Without(keyed.lru, v), k),
           inFlight |-> [keyed.inFlight EXCEPT ![v] = 0],
           tokens |-> [keyed.tokens EXCEPT ![v] = burst]]

KeyAvailable(keyed, k, max) ==
  keyed.inFlight[k] < max /\ keyed.tokens[k] >= 1

KeyAcquire(keyed, k) ==
  [keyed EXCEPT !.inFlight[k] = @ + 1, !.tokens[k] = @ - 1]

KeyRelease(keyed, k) == [keyed EXCEPT !.inFlight[k] = Larger(@ - 1, 0)]

PoolAvailableByTokens(pool, lim) ==
  (\A f \in DOMAIN lim : lim[f] > 0) /\ pool.tokens >= 1

(* resourcePool; a pool without capacity is never available *)
PoolAvailable(pool, lim) ==
  /\ \A f \in DOMAIN lim : lim[f] > 0
  /\ pool.inFlight < lim.max /\ pool.tokens >= 1

PoolAcquireWithoutToken(pool) == [pool EXCEPT !.inFlight = @ + 1]
PoolAcquire(pool) == [inFlight |-> pool.inFlight + 1, tokens |-> pool.tokens - 1]

-----------------------------------------------------------------------------
(* The methods of Limiter *)

(* allow takes a token and gives its concurrency slot back at once. *)
AllowIngress(k) ==
  LET seen == Touched(ingress, k, limits.ingress.burst) IN
  /\ ingress' = IF NoState(ingress, k) \/ ~KeyAvailable(seen, k, 1) THEN seen
                ELSE KeyRelease(KeyAcquire(seen, k), k)
  /\ UNCHANGED <<limits, shared, reserved, clients, principals, trusted,
                 validFor, permit, time, history>>

RefundIngress(k) ==
  LET seen == Touched(ingress, k, limits.ingress.burst) IN
  /\ ingress' = IF NoState(ingress, k) THEN seen
                ELSE [seen EXCEPT !.tokens[k] = Smaller(@ + 1, limits.ingress.burst)]
  /\ UNCHANGED <<limits, shared, reserved, clients, principals, trusted,
                 validFor, permit, time, history>>

InTrusted(c) == \E i \in 1 .. Len(trusted) : trusted[i] = c

(* TryAcquire, its three outcomes *)
KeysAdmit(a) ==
  LET c == ClientOf[a]
      p == PrincipalOf[a]
  IN /\ ~NoState(clients, c) /\ ~NoState(principals, p)
     /\ KeyAvailable(Touched(clients, c, limits.perClient.burst), c,
                     limits.perClient.max)
     /\ KeyAvailable(Touched(principals, p, limits.perPrincipal.burst), p,
                     limits.perPrincipal.max)

(* isTrustedLocked: an expired entry is deleted, a valid one is used. *)
TrustedAfter(c) ==
  IF ~InTrusted(c) THEN trusted
  ELSE IF validFor[c] < 0 THEN Without(trusted, c) ELSE ToFront(trusted, c)

IsTrusted(c) == InTrusted(c) /\ validFor[c] >= 0

RefuseByKey(a) ==
  /\ permit[a] = "none" /\ ~KeysAdmit(a)
  /\ clients' = Touched(clients, ClientOf[a], limits.perClient.burst)
  /\ principals' = Touched(principals, PrincipalOf[a], limits.perPrincipal.burst)
  /\ UNCHANGED <<limits, shared, reserved, ingress, trusted, validFor, permit,
                 time, history>>

RefuseByPool(a) ==
  /\ permit[a] = "none" /\ KeysAdmit(a)
  /\ ~PoolAvailable(shared, SharedLimits)
  /\ ~IsTrusted(CredentialOf[a]) \/ ~PoolAvailable(reserved, limits.reserved)
  /\ clients' = Touched(clients, ClientOf[a], limits.perClient.burst)
  /\ principals' = Touched(principals, PrincipalOf[a], limits.perPrincipal.burst)
  /\ trusted' = TrustedAfter(CredentialOf[a])
  /\ UNCHANGED <<limits, shared, reserved, ingress, validFor, permit, time,
                 history>>

GrantKeys(a) ==
  /\ clients' = KeyAcquire(Touched(clients, ClientOf[a], limits.perClient.burst),
                           ClientOf[a])
  /\ principals' = KeyAcquire(Touched(principals, PrincipalOf[a],
                                      limits.perPrincipal.burst), PrincipalOf[a])

GrantShared(a) ==
  /\ permit[a] = "none" /\ KeysAdmit(a)
  /\ PoolAvailable(shared, SharedLimits)
  /\ GrantKeys(a)
  /\ shared' = PoolAcquire(shared)
  /\ permit' = [permit EXCEPT ![a] = "shared"]
  /\ granted' = [granted EXCEPT !.shared = @ + 1]
  /\ UNCHANGED <<limits, reserved, ingress, trusted, validFor, time, marked>>

GrantReserved(a) ==
  /\ permit[a] = "none" /\ KeysAdmit(a)
  /\ ~PoolAvailable(shared, SharedLimits)
  /\ IsTrusted(CredentialOf[a]) /\ PoolAvailable(reserved, limits.reserved)
  /\ GrantKeys(a)
  /\ trusted' = TrustedAfter(CredentialOf[a])
  /\ reserved' = PoolAcquire(reserved)
  /\ permit' = [permit EXCEPT ![a] = "reserved"]
  /\ granted' = [granted EXCEPT !.reserved = @ + 1]
  /\ UNCHANGED <<limits, shared, ingress, validFor, time, marked>>

TryAcquire(a) ==
  RefuseByKey(a) \/ RefuseByPool(a) \/ GrantShared(a) \/ GrantReserved(a)

(* The release function that TryAcquire returned. *)
LessInFlight(pool) == [pool EXCEPT !.inFlight = Larger(@ - 1, 0)]

Release(a) ==
  /\ permit[a] # "none"
  /\ clients' = KeyRelease(clients, ClientOf[a])
  /\ principals' = KeyRelease(principals, PrincipalOf[a])
  /\ shared' = IF permit[a] = "shared" THEN LessInFlight(shared) ELSE shared
  /\ reserved' = IF permit[a] = "reserved" THEN LessInFlight(reserved) ELSE reserved
  /\ permit' = [permit EXCEPT ![a] = "none"]
  /\ UNCHANGED <<limits, ingress, trusted, validFor, time, history>>

(* Called while the permit is held, after the identity backend accepted.     *)
MarkAuthenticated(a) ==
  LET c == CredentialOf[a] IN
  /\ permit[a] # "none"
  /\ trusted' = IF InTrusted(c) \/ Len(trusted) < limits.maxKeys
                THEN ToFront(trusted, c)
                ELSE ToFront(SubSeq(trusted, 1, limits.maxKeys - 1), c)
  /\ validFor' = [validFor EXCEPT ![c] = limits.trustedTTL]
  /\ marked' = [marked EXCEPT ![c] = time]
  /\ UNCHANGED <<limits, shared, reserved, clients, principals, ingress,
                 permit, time, granted>>

(* refill *)
Refilled(tokens, rate, burst) == Smaller(tokens + rate, burst)
RefilledKeys(keyed, lim) ==
  [keyed EXCEPT !.tokens = [k \in DOMAIN @ |-> Refilled(@[k], lim.rate, lim.burst)]]

Tick ==
  /\ time < MaxTime
  /\ time' = time + 1
  /\ shared' = [shared EXCEPT !.tokens =
                  Refilled(@, SharedLimits.rate, SharedLimits.burst)]
  /\ reserved' = [reserved EXCEPT !.tokens =
                    Refilled(@, limits.reserved.rate, limits.reserved.burst)]
  /\ clients' = RefilledKeys(clients, limits.perClient)
  /\ principals' = RefilledKeys(principals, limits.perPrincipal)
  /\ ingress' = RefilledKeys(ingress, limits.ingress)
  /\ validFor' = [c \in CredentialKeys |-> Larger(validFor[c] - 1, -1)]
  /\ UNCHANGED <<limits, trusted, permit, history>>

Next ==
  \/ \E k \in IngressClients : AllowIngress(k) \/ RefundIngress(k)
  \/ \E a \in Attempts : TryAcquire(a) \/ Release(a) \/ MarkAuthenticated(a)
  \/ Tick

Spec == Init /\ [][Next]_vars

-----------------------------------------------------------------------------
Pools == {"shared", "reserved"}
HeldFrom(pool) == {a \in Attempts : permit[a] = pool}
HoldersOf(keyOf, k) == {a \in Attempts : permit[a] # "none" /\ keyOf[a] = k}

WithinMaxKeys(keyed) ==
  /\ Len(keyed.lru) <= limits.maxKeys
  /\ \A i, j \in 1 .. Len(keyed.lru) : keyed.lru[i] = keyed.lru[j] => i = j

(* Every permit handed out by TryAcquire and not yet released is counted once  *)
(* for its client, once for its principal and once in the pool it came from,   *)
(* and nothing else is counted: release gives back to where it was taken from, *)
(* whatever entries the LRU lists evicted in between to keep to MaxKeys.       *)
PermitsAccounted ==
  /\ \A k \in ClientKeys : clients.inFlight[k] = Cardinality(HoldersOf(ClientOf, k))
  /\ \A k \in PrincipalKeys :
       principals.inFlight[k] = Cardinality(HoldersOf(PrincipalOf, k))
  /\ shared.inFlight = Cardinality(HeldFrom("shared"))
  /\ reserved.inFlight = Cardinality(HeldFrom("reserved"))
  /\ \A keyed \in {clients, principals, ingress} : WithinMaxKeys(keyed)
  /\ Len(trusted) <= limits.maxKeys

(* The identity backend is called at most Burst + n * Rate times in n ticks,   *)
(* both pools together, whoever calls and whatever is evicted; the untrusted   *)
(* share is bounded by what is left after the reserve, and whatever was        *)
(* configured, normalizeLimits leaves something for it.                        *)
BackendRateBounded ==
  /\ \A f \in DOMAIN limits.total : SharedLimits[f] > 0
  /\ granted.shared <= SharedLimits.burst + time * SharedLimits.rate
  /\ granted.shared + granted.reserved <= limits.total.burst + time * limits.total.rate

Capacities == {NormalizeLimits(raw).total.max : raw \in RawLimits}

Abstract == INSTANCE Admission WITH
  Holders <- Attempts,
  Capacity <- CHOOSE n \in Capacities : \A m \in Capacities : m <= n,
  held <- {a \in Attempts : permit[a] # "none"}

(* The limiter implements Admission with the configured total concurrency as   *)
(* its capacity: refusals change no permit, and both pools, the keyed limits   *)
(* and the trusted fallback together never exceed the total.  The reserve goes *)
(* only to a credential the backend accepted within the last                   *)
(* TrustedCredentialTTL, however it moved in the trusted list.                 *)
AdmissionImplemented ==
  /\ Abstract!Spec
  /\ [][\A a \in Attempts :
          permit[a] = "none" /\ permit'[a] = "reserved" =>
            /\ marked[CredentialOf[a]] >= 0
            /\ time - marked[CredentialOf[a]] <= limits.trustedTTL]_vars
=============================================================================
