--------------------------- MODULE Authentication ---------------------------
(***************************************************************************)
(* Credential checks of the gateway: Server.GroupsForCredentialsContext    *)
(* with the group cache of internal/groupcache, the coalescing of equal    *)
(* lookups and the limiter (through Admission) in front of LDAP.           *)
(*                                                                         *)
(* A step is one critical section: a cache method (Cache.mu), a limiter    *)
(* method, a section under groupLookupMu, or a channel operation.  A group *)
(* set is abstracted to the credential it was fetched with.  Expiry is     *)
(* counted down in ticks: -1 is a time strictly after "expires".           *)
(***************************************************************************)
EXTENDS Integers, FiniteSets

CONSTANTS
  Requests, Lookups,
  Upns, Passwords, Creds,  \* Creds: pairs of a upn and a password
  None,
  TTL, MaxEntries, Capacity,
  MaxLife,   \* ticks that LDAP timeouts leave to one lookup
  MaxWait    \* bound: ticks a caller is followed for

ASSUME AuthAssumption ==
  /\ Creds \subseteq Upns \X Passwords
  /\ None \notin Lookups \cup Creds
  /\ {TTL, MaxLife, MaxWait} \subseteq Nat
  /\ {MaxEntries, Capacity} \subseteq Nat \ {0}

VARIABLES
  data,      \* Cache.data: per upn an entry, or None
  rejected,  \* Cache.rejectedCredentials: ticks left per credential, or None
  groupLookups,  \* Server.groupLookups: per credential the running lookup, or None
  lookup,    \* the groupLookup objects and their goroutines
  request,   \* the callers
  held,      \* lookups that hold a permit of the limiter
  answer     \* what the last step answered to a caller, if it did

vars == <<data, rejected, groupLookups, lookup, request, held, answer>>

Limiter == INSTANCE Admission WITH Holders <- Lookups

Upn(c) == c[1]
Outcomes == {"ok", "rejected", "limited", "error"}
FreeLookup == [pc |-> "free", cred |-> None, result |-> "none", groups |-> None,
               age |-> 0, life |-> 0]
IdleRequest == [pc |-> "idle", cred |-> None, on |-> None, cancelled |-> FALSE,
                waited |-> 0]
NoAnswer == [result |-> "none", cred |-> None, groups |-> None, age |-> 0, waited |-> 0]
Silent == answer' = NoAnswer

Init ==
  /\ data = [u \in Upns |-> None]
  /\ rejected = [c \in Creds |-> None]
  /\ groupLookups = [c \in Creds |-> None]
  /\ lookup = [l \in Lookups |-> FreeLookup]
  /\ request = [r \in Requests |-> IdleRequest]
  /\ Limiter!Init
  /\ answer = NoAnswer

-----------------------------------------------------------------------------
(* internal/groupcache *)

Entry(u) == data[u]
Expired(u) == Entry(u).left < 0

HitByUpn(c) == Entry(Upn(c)) # None /\ ~Expired(Upn(c))
Hit(c) ==
  /\ Entry(Upn(c)) # None /\ ~Expired(Upn(c))
  /\ Entry(Upn(c)).cred = c

(* Get: an expired entry is deleted, a hit is remembered as seen now. *)
AfterGet(c) ==
  IF Entry(Upn(c)) = None THEN data
  ELSE IF Expired(Upn(c)) THEN [data EXCEPT ![Upn(c)] = None]
  ELSE IF Hit(c) THEN [data EXCEPT ![Upn(c)].seen = 0]
  ELSE data

IsRejected(c) == rejected[c] # None /\ rejected[c] >= 0

AfterRejected(c) ==
  IF rejected[c] # None /\ rejected[c] < 0 THEN [rejected EXCEPT ![c] = None]
  ELSE rejected

Live(u) == Entry(u) # None /\ ~Expired(u)

(* evictOneOldestLocked: any of the entries that expire first and, of those,  *)
(* were seen longest ago.                                                     *)
OldestOf(upns) ==
  {u \in upns : \A v \in upns :
     \/ Entry(u).left < Entry(v).left
     \/ Entry(u).left = Entry(v).left /\ Entry(u).seen >= Entry(v).seen}

Kept(keep, c, entry) ==
  [u \in Upns |-> IF u = Upn(c) THEN entry ELSE IF u \in keep THEN data[u] ELSE None]

NewEntry(c, age) == [cred |-> c, left |-> TTL, seen |-> 0, age |-> age]

Set(c, age) ==
  LET live == {u \in Upns : Live(u)}
      room == Upn(c) \in live \/ Cardinality(live) < MaxEntries
      evicted == IF room THEN {{}} ELSE {{v} : v \in OldestOf(live)}
  IN /\ \E gone \in evicted : data' = Kept(live \ gone, c, NewEntry(c, age))
     /\ rejected' = [rejected EXCEPT ![c] = None]

Reject(c) ==
  LET live == {d \in Creds : IsRejected(d)}
      room == c \in live \/ Cardinality(live) < MaxEntries
      oldest == {d \in live : \A e \in live : rejected[d] <= rejected[e]}
      after(keep) == [d \in Creds |-> IF d = c THEN TTL
                                      ELSE IF d \in keep THEN rejected[d] ELSE None]
  IN /\ \/ room /\ rejected' = after(live)
        \/ ~room /\ \E v \in oldest : rejected' = after(live \ {v})
     /\ UNCHANGED data

-----------------------------------------------------------------------------
(* A caller: WithAuth, authenticatePopBasic and the admin login *)

Arrive(r, c) ==
  /\ request[r].pc = "idle"
  /\ request' = [request EXCEPT ![r] = [IdleRequest EXCEPT !.pc = "get", !.cred = c]]
  /\ Silent /\ UNCHANGED <<data, rejected, groupLookups, lookup, held>>

(* The context of a caller ends.  Only "get" and "wait" look at it, so an end *)
(* in between is one that comes as "wait" begins.                             *)
Cancel(r) ==
  /\ request[r].pc \in {"get", "wait"} /\ ~request[r].cancelled
  /\ request' = [request EXCEPT ![r].cancelled = TRUE]
  /\ Silent /\ UNCHANGED <<data, rejected, groupLookups, lookup, held>>

(* The response: ErrLimited asks the client to slow down, every other error  *)
(* is a denial.                                                              *)
Status(result) ==
  CASE result = "ok" -> "ok" [] result = "limited" -> "slowdown" [] OTHER -> "denied"

(* A lookup that is done and that no caller refers to is garbage.            *)
Collected(lookups, requests) ==
  [l \in Lookups |-> IF lookups[l].pc = "done" /\ \A r \in Requests : requests[r].on # l
                     THEN FreeLookup ELSE lookups[l]]

Respond(r, result, groups, age) ==
  /\ answer' = [result |-> Status(result), cred |-> request[r].cred,
                groups |-> groups, age |-> age, waited |-> request[r].waited]
  /\ request' = [request EXCEPT ![r] = IdleRequest]
  /\ lookup' = Collected(lookup, request')

(* Refused before the credentials are looked at: the early limit, or a       *)
(* signature or credentials that are missing, unreadable, late or wrong.     *)
TurnAway(r) ==
  /\ request[r].pc = "idle"
  /\ \E result \in {"limited", "error"} : Respond(r, result, None, 0)
  /\ UNCHANGED <<data, rejected, groupLookups, held>>

RequestGone(r) ==
  /\ request[r].pc = "get" /\ request[r].cancelled
  /\ Respond(r, "error", None, 0)
  /\ UNCHANGED <<data, rejected, groupLookups, held>>

RequestHit(r) ==
  LET c == request[r].cred IN
  /\ request[r].pc = "get" /\ ~request[r].cancelled /\ Hit(c)
  /\ data' = AfterGet(c)
  /\ Respond(r, "ok", Entry(Upn(c)).cred, Entry(Upn(c)).age)
  /\ UNCHANGED <<rejected, groupLookups, held>>

RequestMiss(r) ==
  LET c == request[r].cred IN
  /\ request[r].pc = "get" /\ ~request[r].cancelled /\ ~Hit(c)
  /\ data' = AfterGet(c)
  /\ request' = [request EXCEPT ![r].pc = "rejected"]
  /\ Silent /\ UNCHANGED <<rejected, groupLookups, lookup, held>>

RequestRejected(r) ==
  LET c == request[r].cred IN
  /\ request[r].pc = "rejected" /\ IsRejected(c)
  /\ Respond(r, "rejected", None, 0)
  /\ UNCHANGED <<data, rejected, groupLookups, held>>

RequestNotRejected(r) ==
  LET c == request[r].cred IN
  /\ request[r].pc = "rejected" /\ ~IsRejected(c)
  /\ rejected' = AfterRejected(c)
  /\ request' = [request EXCEPT ![r].pc = "start"]
  /\ Silent /\ UNCHANGED <<data, groupLookups, lookup, held>>

(* startGroupLookup *)
Join(r) ==
  LET l == groupLookups[request[r].cred] IN
  /\ request[r].pc = "start" /\ l # None
  /\ request' = [request EXCEPT ![r].pc = "wait", ![r].on = l]
  /\ Silent /\ UNCHANGED <<data, rejected, groupLookups, lookup, held>>

StartsAlways(c) == TRUE
Starts(c) == groupLookups[c] = None

StartLookup(r) ==
  LET c == request[r].cred IN
  /\ request[r].pc = "start" /\ Starts(c)
  /\ \E l \in Lookups :
       /\ lookup[l] = FreeLookup
       /\ lookup' = [lookup EXCEPT ![l].pc = "get", ![l].cred = c]
       /\ groupLookups' = [groupLookups EXCEPT ![c] = l]
       /\ request' = [request EXCEPT ![r].pc = "wait", ![r].on = l]
  /\ Silent /\ UNCHANGED <<data, rejected, held>>

(* The select of the caller, and the check after it.                          *)
Authenticates(r) == lookup[request[r].on].pc = "done" /\ ~request[r].cancelled

WaitDone(r) ==
  LET l == request[r].on IN
  /\ request[r].pc = "wait" /\ Authenticates(r)
  /\ Respond(r, lookup[l].result, lookup[l].groups, lookup[l].age)
  /\ UNCHANGED <<data, rejected, groupLookups, held>>

WaitCancelled(r) ==
  /\ request[r].pc = "wait" /\ request[r].cancelled
  /\ Respond(r, "error", None, 0)
  /\ UNCHANGED <<data, rejected, groupLookups, held>>

-----------------------------------------------------------------------------
(* The goroutine of a lookup: lookupCredentialGroups *)

Returned(l, result, groups, age, pc) ==
  [lookup EXCEPT ![l].pc = pc, ![l].result = result, ![l].groups = groups,
                 ![l].age = age]

LookupGet(l) ==
  LET c == lookup[l].cred IN
  /\ lookup[l].pc = "get"
  /\ data' = AfterGet(c)
  /\ lookup' = IF Hit(c)
               THEN Returned(l, "ok", Entry(Upn(c)).cred, Entry(Upn(c)).age, "finish")
               ELSE [lookup EXCEPT ![l].pc = "rejected"]
  /\ Silent /\ UNCHANGED <<rejected, groupLookups, request, held>>

LookupRejected(l) ==
  LET c == lookup[l].cred IN
  /\ lookup[l].pc = "rejected"
  /\ rejected' = AfterRejected(c)
  /\ lookup' = IF IsRejected(c) THEN Returned(l, "rejected", None, 0, "finish")
               ELSE [lookup EXCEPT ![l].pc = "acquire"]
  /\ Silent /\ UNCHANGED <<data, groupLookups, request, held>>

LookupAdmitted(l) ==
  /\ lookup[l].pc = "acquire"
  /\ Limiter!Grant(l)
  /\ lookup' = [lookup EXCEPT ![l].pc = "fetch"]
  /\ Silent /\ UNCHANGED <<data, rejected, groupLookups, request>>

LookupLimited(l) ==
  /\ lookup[l].pc = "acquire"
  /\ Limiter!Refuse(l)
  /\ lookup' = Returned(l, "limited", None, 0, "finish")
  /\ Silent /\ UNCHANGED <<data, rejected, groupLookups, request>>

(* LDAP: the bind succeeds and returns groups, is rejected, or fails          *)
LookupFetched(l) ==
  /\ lookup[l].pc = "fetch"
  /\ lookup' = Returned(l, "ok", lookup[l].cred, lookup[l].age, "store")
  /\ Silent /\ UNCHANGED <<data, rejected, groupLookups, request, held>>

LookupRefused(l) ==
  /\ lookup[l].pc = "fetch"
  /\ lookup' = Returned(l, "rejected", None, 0, "store")
  /\ Silent /\ UNCHANGED <<data, rejected, groupLookups, request, held>>

LookupFailedKeepsPermit(l) ==
  /\ lookup[l].pc = "fetch"
  /\ lookup' = Returned(l, "error", None, 0, "finish")
  /\ Silent /\ UNCHANGED <<data, rejected, groupLookups, request, held>>

LookupFailed(l) ==
  /\ lookup[l].pc = "fetch"
  /\ lookup' = Returned(l, "error", None, 0, "release")
  /\ Silent /\ UNCHANGED <<data, rejected, groupLookups, request, held>>

(* Set and MarkAuthenticated, or Reject                                       *)
LookupStore(l) ==
  /\ lookup[l].pc = "store"
  /\ \/ lookup[l].result = "ok" /\ Set(lookup[l].cred, lookup[l].age)
     \/ lookup[l].result = "rejected" /\ Reject(lookup[l].cred)
  /\ lookup' = [lookup EXCEPT ![l].pc = "release"]
  /\ Silent /\ UNCHANGED <<groupLookups, request, held>>

LookupRelease(l) ==
  /\ lookup[l].pc = "release"
  /\ Limiter!Release(l)
  /\ lookup' = [lookup EXCEPT ![l].pc = "finish"]
  /\ Silent /\ UNCHANGED <<data, rejected, groupLookups, request>>

LookupFinish(l) ==
  /\ lookup[l].pc = "finish"
  /\ groupLookups' = [groupLookups EXCEPT ![lookup[l].cred] = None]
  /\ lookup' = Collected([lookup EXCEPT ![l].pc = "done", ![l].life = 0], request)
  /\ Silent /\ UNCHANGED <<data, rejected, request, held>>

-----------------------------------------------------------------------------
Running(l) == lookup[l].pc \notin {"free", "done"}
Active(r) == request[r].pc # "idle"
Older(n) == IF n > TTL + 3 * MaxLife THEN n ELSE n + 1  \* ages beyond it are alike

Tick ==
  /\ \A l \in Lookups : Running(l) => lookup[l].life < MaxLife
  /\ \A r \in Requests : Active(r) => request[r].waited < MaxWait
  /\ data' = [u \in Upns |-> IF data[u] = None THEN None
                ELSE IF data[u].left <= 0
                THEN [data[u] EXCEPT !.left = -1, !.seen = 0, !.age = 0]
                ELSE [data[u] EXCEPT !.left = @ - 1, !.seen = @ + 1, !.age = Older(@)]]
  /\ rejected' = [c \in Creds |-> IF rejected[c] = None \/ rejected[c] = -1
                                  THEN rejected[c] ELSE rejected[c] - 1]
  /\ lookup' = [l \in Lookups |->
       [lookup[l] EXCEPT !.life = IF Running(l) THEN @ + 1 ELSE @,
          !.age = IF lookup[l].result = "ok" \/ lookup[l].pc = "fetch"
                  THEN Older(@) ELSE @]]
  /\ request' = [r \in Requests |->
       [request[r] EXCEPT !.waited = IF Active(r) THEN @ + 1 ELSE @]]
  /\ Silent /\ UNCHANGED <<groupLookups, held>>

RequestProceeds(r) ==
  \/ RequestGone(r) \/ RequestHit(r) \/ RequestMiss(r) \/ RequestRejected(r)
  \/ RequestNotRejected(r) \/ Join(r) \/ StartLookup(r) \/ WaitDone(r)
  \/ WaitCancelled(r)

RequestNext(r) ==
  (\E c \in Creds : Arrive(r, c)) \/ TurnAway(r) \/ Cancel(r) \/ RequestProceeds(r)

LookupNext(l) ==
  \/ LookupGet(l) \/ LookupRejected(l) \/ LookupAdmitted(l) \/ LookupLimited(l)
  \/ LookupFetched(l) \/ LookupRefused(l) \/ LookupFailed(l) \/ LookupStore(l)
  \/ LookupRelease(l) \/ LookupFinish(l)

Next == (\E r \in Requests : RequestNext(r)) \/ (\E l \in Lookups : LookupNext(l)) \/ Tick

Spec == Init /\ [][Next]_vars

-----------------------------------------------------------------------------
(* Nobody waits in vain and nothing is left behind, whatever LDAP and the     *)
(* limiter say and whoever gave up: a caller waits for a lookup of its own    *)
(* credential that is still running or holds its result; the running lookups  *)
(* are exactly the registered ones, so a credential is looked up once at a    *)
(* time and can be looked up again afterwards; a lookup has a permit of the   *)
(* limiter exactly from TryAcquire to its release; and both caches keep to    *)
(* MaxEntries (startGroupLookup, lookupCredentialGroups, Cache.Set, Reject).  *)
NobodyStranded ==
  /\ \A r \in Requests : request[r].pc = "wait" =>
       LET l == lookup[request[r].on]
       IN  l.cred = request[r].cred /\ (l.pc = "done" => l.result \in Outcomes)
  /\ \A l \in Lookups, c \in Creds :
       groupLookups[c] = l <=> (Running(l) /\ lookup[l].cred = c)
  /\ held = {l \in Lookups : lookup[l].pc \in {"fetch", "store", "release"}}
  /\ Cardinality({u \in Upns : data[u] # None}) <= MaxEntries
  /\ Cardinality({c \in Creds : rejected[c] # None}) <= MaxEntries

(* A request is let through only with the groups LDAP returned for exactly    *)
(* its user and password, although the cache is keyed by the user alone and   *)
(* requests with other passwords of that user come and go; and LDAP returned  *)
(* them at most the TTL and two lookups before the request arrived: hits do   *)
(* not prolong an entry.                                                      *)
OwnRecentGroups ==
  answer.result = "ok" =>
    /\ answer.groups = answer.cred
    /\ answer.age <= TTL + 2 * MaxLife + answer.waited

(* A credential is never both accepted and rejected by the cache: Reject      *)
(* leaves the positive entry alone, so this rests on lookups of a credential  *)
(* not overlapping and on both caches being asked before LDAP.                *)
OneVerdict ==
  \A c \in Creds : ~(Hit(c) /\ IsRejected(c))
=============================================================================
