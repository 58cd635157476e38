----------------------------- MODULE AuthProofs -----------------------------
(* Safety of Authentication, for any requests, lookups, users, credentials,    *)
(* lifetimes and cache sizes.                                                  *)
EXTENDS Authentication, FiniteSetTheorems, TLAPS

Life == {"get", "rejected", "acquire", "fetch", "store", "release", "finish"}
Entries == [cred : Creds, left : Int, seen : Nat, age : Nat]
LookupType == [pc : Life \cup {"free", "done"}, cred : Creds \cup {None},
               result : Outcomes \cup {"none"}, groups : Creds \cup {None},
               age : Nat, life : Nat]
RequestType == [pc : {"idle", "get", "rejected", "start", "wait"},
                cred : Creds \cup {None}, on : Lookups \cup {None},
                cancelled : BOOLEAN, waited : Nat]

(* A lookup object: what it fetched is as old as its goroutine at most, what   *)
(* it found in the cache as the entry was; and a result names its groups.      *)
Sound(k) ==
  /\ k \in LookupType
  /\ k.pc # "free" => k.cred \in Creds
  /\ k.pc \in Life => k.life <= MaxLife
  /\ k.pc \in Life \ {"finish"} => k.age <= k.life
  /\ k.pc = "finish" => k.age <= TTL + MaxLife + k.life
  /\ k.pc = "store" => k.result \in {"ok", "rejected"}
  /\ k.pc \in {"release", "finish", "done"} => k.result \in Outcomes
  /\ k.result = "ok" => k.groups = k.cred

AllSound == lookup \in [Lookups -> LookupType] /\ \A l \in Lookups : Sound(lookup[l])

(* The registered lookups are those that run.                                  *)
Registered ==
  /\ groupLookups \in [Creds -> Lookups \cup {None}]
  /\ \A l \in Lookups, c \in Creds :
       groupLookups[c] = l <=> (Running(l) /\ lookup[l].cred = c)

Holding == {"fetch", "store", "release"}
Permits == held = {l \in Lookups : lookup[l].pc \in Holding}

(* The lookup that a caller waits for is of its credential, and not collected. *)
Waits(q) ==
  q.pc = "wait" =>
    /\ q.on \in Lookups /\ lookup[q.on].pc # "free" /\ lookup[q.on].cred = q.cred
    /\ lookup[q.on].pc = "done" => lookup[q.on].age <= TTL + 2 * MaxLife + q.waited

Waiting ==
  /\ request \in [Requests -> RequestType]
  /\ \A r \in Requests : /\ request[r].pc # "idle" => request[r].cred \in Creds
                         /\ Waits(request[r])

Known == {u \in Upns : data[u] # None}
Denied == {c \in Creds : rejected[c] # None}

Caches ==
  /\ data \in [Upns -> Entries \cup {None}] /\ rejected \in [Creds -> Int \cup {None}]
  /\ \A u \in Upns : data[u] # None /\ data[u].left >= 0 =>
       data[u].age + data[u].left <= TTL + MaxLife
  /\ IsFiniteSet(Known) /\ Cardinality(Known) <= MaxEntries
  /\ IsFiniteSet(Denied) /\ Cardinality(Denied) <= MaxEntries

(* A lookup that missed in the cache cannot hit until it has stored.           *)
Missing == {"rejected", "acquire", "fetch", "store"}
Verdicts ==
  /\ \A l \in Lookups : lookup[l].pc \in Missing => ~Hit(lookup[l].cred)
  /\ OneVerdict

Serving == AllSound /\ Registered /\ Permits /\ Waiting /\ Caches /\ Verdicts /\ OwnRecentGroups

-----------------------------------------------------------------------------
(* The bounds are natural numbers, and a credential has its user. *)
LEMMA ConstantFacts ==
  /\ TTL \in Nat /\ MaxLife \in Nat /\ MaxWait \in Nat
  /\ MaxEntries \in Nat /\ MaxEntries >= 1
  /\ \A c \in Creds : Upn(c) \in Upns
  /\ None \notin Lookups /\ None \notin Creds
<1>1. TTL \in Nat /\ MaxLife \in Nat /\ MaxWait \in Nat
  BY AuthAssumption, Zenon
<1>2. MaxEntries \in Nat \ {0}
  BY AuthAssumption, Zenon
<1>3. \A c \in Creds : c \in Upns \X Passwords
  BY AuthAssumption, Zenon
<1>4. \A c \in Upns \X Passwords : c[1] \in Upns
  BY Zenon
<1>5. QED
  BY <1>1, <1>2, <1>3, <1>4, AuthAssumption DEF Upn

(* A step after which the caches answer no more than before. *)
Fewer == \A d \in Creds : (Hit(d)' => Hit(d)) /\ (IsRejected(d)' => IsRejected(d))

(* Taking entries out keeps the caches in order. *)
LEMMA Shrinks ==
  ASSUME Caches,
         data' \in [Upns -> Entries \cup {None}], rejected' \in [Creds -> Int \cup {None}],
         \A u \in Upns : data'[u] # None =>
           /\ data[u] # None
           /\ data'[u].left >= 0 => data'[u].age + data'[u].left <= TTL + MaxLife,
         \A c \in Creds : rejected'[c] # None => rejected[c] # None
  PROVE  Caches'
<1>1. Known' \subseteq Known /\ Denied' \subseteq Denied
  BY Zenon DEF Known, Denied
<1>2. /\ IsFiniteSet(Known) /\ Cardinality(Known) <= MaxEntries
      /\ IsFiniteSet(Denied) /\ Cardinality(Denied) <= MaxEntries
  BY Zenon DEF Caches
<1>3. ASSUME NEW S, NEW T, IsFiniteSet(S), T \subseteq S, Cardinality(S) <= MaxEntries
      PROVE  IsFiniteSet(T) /\ Cardinality(T) <= MaxEntries
  <2>1. /\ IsFiniteSet(T) /\ Cardinality(T) <= Cardinality(S)
    BY <1>3, FS_Subset, Zenon
  <2>2. Cardinality(T) \in Nat /\ Cardinality(S) \in Nat
    BY <1>3, <2>1, FS_CardinalityType, Zenon
  <2>3. QED
    BY <1>3, <2>1, <2>2, ConstantFacts
<1>4. IsFiniteSet(Known') /\ Cardinality(Known') <= MaxEntries
  BY <1>1, <1>2, <1>3, Zenon
<1>5. IsFiniteSet(Denied') /\ Cardinality(Denied') <= MaxEntries
  BY <1>1, <1>2, <1>3, Zenon
<1>6. QED
  BY <1>4, <1>5, Zenon DEF Caches

(* Get deletes an expired entry, or marks one as seen. *)
LEMMA GetKeeps ==
  ASSUME Caches, NEW c \in Creds, data' = AfterGet(c), rejected' = rejected
  PROVE  Caches' /\ Fewer
<1> DEFINE u == Upn(c)
<1>1. /\ data \in [Upns -> Entries \cup {None}] /\ rejected \in [Creds -> Int \cup {None}]
      /\ \A v \in Upns : data[v] # None /\ data[v].left >= 0 =>
           data[v].age + data[v].left <= TTL + MaxLife
  BY Zenon DEF Caches
<1>2. u \in Upns
  BY ConstantFacts, Zenon
<1>3. data' \in [Upns -> Entries \cup {None}] /\ \A v \in Upns :
        \/ data'[v] = data[v]
        \/ data'[v] = None
        \/ /\ data[v] # None /\ data'[v].left = data[v].left
           /\ data'[v].age = data[v].age /\ data'[v].cred = data[v].cred
  <2>1. CASE data' = data
    BY <1>1, <2>1, Zenon
  <2>2. CASE data' = [data EXCEPT ![u] = None]
    BY <1>1, <1>2, <2>2, Zenon
  <2>3. CASE data[u] # None /\ data' = [data EXCEPT ![u].seen = 0]
    <3>1. data[u] \in Entries
      BY <1>1, <1>2, <2>3, Zenon
    <3>2. [data[u] EXCEPT !.seen = 0] \in Entries
      BY <3>1, Zenon DEF Entries
    <3>3. /\ [data[u] EXCEPT !.seen = 0].left = data[u].left
          /\ [data[u] EXCEPT !.seen = 0].age = data[u].age
          /\ [data[u] EXCEPT !.seen = 0].cred = data[u].cred
      BY <3>1, Zenon DEF Entries
    <3> DEFINE e == [data[u] EXCEPT !.seen = 0]
    <3>4. data' = [data EXCEPT ![u] = e]
      BY <2>3, Zenon
    <3> HIDE DEF e
    <3>5. data' \in [Upns -> Entries \cup {None}]
      BY <1>1, <1>2, <3>2, <3>4, Zenon DEF e
    <3>6. data'[u] = e /\ \A v \in Upns : v # u => data'[v] = data[v]
      BY <1>1, <1>2, <3>4, Zenon
    <3>7. QED
      BY <2>3, <3>3, <3>5, <3>6, Zenon DEF e
  <2>4. QED
    BY <2>1, <2>2, <2>3, Zenon DEF AfterGet, Entry
<1>4. Caches'
  BY <1>1, <1>3, Shrinks, Zenon
<1>5. Fewer
  <2> SUFFICES ASSUME NEW d \in Creds PROVE (Hit(d)' => Hit(d)) /\ (IsRejected(d)' => IsRejected(d))
    BY Zenon DEF Fewer
  <2>1. Upn(d) \in Upns
    BY ConstantFacts, Zenon
  <2>2. Hit(d)' => Hit(d)
    BY <1>3, <2>1, Zenon DEF Hit, Entry, Expired, Upn
  <2>3. QED
    BY <2>2, Zenon DEF IsRejected
<1>6. QED
  BY <1>4, <1>5, Zenon

(* Rejected deletes a verdict that has expired. *)
LEMMA RejectedKeeps ==
  ASSUME Caches, NEW c \in Creds, rejected' = AfterRejected(c), data' = data
  PROVE  Caches' /\ Fewer
<1>1. /\ data \in [Upns -> Entries \cup {None}] /\ rejected \in [Creds -> Int \cup {None}]
      /\ \A v \in Upns : data[v] # None /\ data[v].left >= 0 =>
           data[v].age + data[v].left <= TTL + MaxLife
  BY Zenon DEF Caches
<1>2. /\ rejected' \in [Creds -> Int \cup {None}]
      /\ \A d \in Creds : rejected'[d] = rejected[d] \/ rejected'[d] = None
  BY <1>1, Zenon DEF AfterRejected
<1>3. Caches'
  BY <1>1, <1>2, Shrinks, Zenon
<1>4. Fewer
  BY <1>2, Zenon DEF Fewer, Hit, Entry, Expired, IsRejected
<1>5. QED
  BY <1>3, <1>4, Zenon

(* An insertion into a map of limited size that deletes one element when it    *)
(* has to.                                                                     *)
LEMMA InsertBounded ==
  ASSUME NEW L, IsFiniteSet(L), Cardinality(L) <= MaxEntries, NEW x, NEW T,
         \/ x \in L /\ T \subseteq L
         \/ Cardinality(L) < MaxEntries /\ T \subseteq L \cup {x}
         \/ \E v \in L : T \subseteq (L \ {v}) \cup {x}
  PROVE  IsFiniteSet(T) /\ Cardinality(T) <= MaxEntries
<1>1. ASSUME NEW S, IsFiniteSet(S), T \subseteq S, Cardinality(S) <= MaxEntries
      PROVE  IsFiniteSet(T) /\ Cardinality(T) <= MaxEntries
  <2>1. /\ IsFiniteSet(T) /\ Cardinality(T) <= Cardinality(S)
    BY <1>1, FS_Subset, Zenon
  <2>2. Cardinality(T) \in Nat /\ Cardinality(S) \in Nat
    BY <1>1, <2>1, FS_CardinalityType, Zenon
  <2>3. QED
    BY <1>1, <2>1, <2>2, ConstantFacts
<1>2. CASE x \in L /\ T \subseteq L
  BY <1>1, <1>2, Zenon
<1>3. CASE Cardinality(L) < MaxEntries /\ T \subseteq L \cup {x}
  <2>1. /\ IsFiniteSet(L \cup {x})
        /\ Cardinality(L \cup {x}) = Cardinality(L) \/ Cardinality(L \cup {x}) = Cardinality(L) + 1
    BY FS_AddElement, Zenon
  <2>2. Cardinality(L) \in Nat
    BY FS_CardinalityType, Zenon
  <2>3. Cardinality(L \cup {x}) <= MaxEntries
    BY <1>3, <2>1, <2>2, ConstantFacts
  <2>4. QED
    BY <1>1, <1>3, <2>1, <2>3, Zenon
<1>4. ASSUME NEW v \in L, T \subseteq (L \ {v}) \cup {x}
      PROVE  IsFiniteSet(T) /\ Cardinality(T) <= MaxEntries
  <2> DEFINE M == L \ {v}
  <2>1. IsFiniteSet(M) /\ Cardinality(M) = Cardinality(L) - 1
    BY FS_RemoveElement, Zenon
  <2>2. Cardinality(L) \in Nat /\ Cardinality(M) \in Nat
    BY <2>1, FS_CardinalityType, Zenon
  <2> HIDE DEF M
  <2>3. /\ IsFiniteSet(M \cup {x})
        /\ Cardinality(M \cup {x}) = Cardinality(M) \/ Cardinality(M \cup {x}) = Cardinality(M) + 1
    BY <2>1, FS_AddElement, Zenon
  <2>4. Cardinality(M \cup {x}) <= MaxEntries
    BY <2>1, <2>2, <2>3, ConstantFacts
  <2>5. T \subseteq M \cup {x}
    BY <1>4, Zenon DEF M
  <2>6. QED
    BY <1>1, <2>3, <2>4, <2>5, Zenon
<1>5. QED
  BY <1>2, <1>3, <1>4, Zenon

(* A subset of a small set is small. *)
LEMMA SubsetBounded ==
  ASSUME NEW S, IsFiniteSet(S), NEW T \in SUBSET S, Cardinality(S) <= MaxEntries
  PROVE  IsFiniteSet(T) /\ Cardinality(T) <= MaxEntries
<1>1. /\ IsFiniteSet(T) /\ Cardinality(T) <= Cardinality(S)
  BY FS_Subset, Zenon
<1>2. Cardinality(T) \in Nat /\ Cardinality(S) \in Nat
  BY <1>1, FS_CardinalityType, Zenon
<1>3. QED
  BY <1>1, <1>2, ConstantFacts

(* Set makes its credential a hit, no other, and clears its rejection.         *)
LEMMA SetKeeps ==
  ASSUME Caches, NEW c \in Creds, NEW age \in Nat, age <= MaxLife, Set(c, age)
  PROVE  /\ Caches'
         /\ \A d \in Creds : d # c /\ Hit(d)' => Hit(d)
         /\ \A d \in Creds : IsRejected(d)' => d # c /\ IsRejected(d)
<1> DEFINE live == {u \in Upns : Live(u)}
           room == Upn(c) \in live \/ Cardinality(live) < MaxEntries
<1>1. /\ data \in [Upns -> Entries \cup {None}] /\ rejected \in [Creds -> Int \cup {None}]
      /\ \A v \in Upns : data[v] # None /\ data[v].left >= 0 =>
           data[v].age + data[v].left <= TTL + MaxLife
      /\ IsFiniteSet(Known) /\ Cardinality(Known) <= MaxEntries
      /\ IsFiniteSet(Denied) /\ Cardinality(Denied) <= MaxEntries
  BY Zenon DEF Caches
<1>2. Upn(c) \in Upns
  BY ConstantFacts, Zenon
<1>3. rejected' = [rejected EXCEPT ![c] = None]
  BY Zenon DEF Set
<1>4. PICK gone : /\ data' = Kept(live \ gone, c, NewEntry(c, age))
                  /\ room \/ \E v \in live : gone = {v}
  <2>1. PICK gone \in (IF room THEN {{}} ELSE {{v} : v \in OldestOf(live)}) :
               data' = Kept(live \ gone, c, NewEntry(c, age))
    BY Zenon DEF Set
  <2>2. OldestOf(live) \subseteq live
    BY Zenon DEF OldestOf
  <2>3. QED
    BY <2>1, <2>2, Zenon
<1>5. \A u \in Upns : data'[u] = IF u = Upn(c) THEN NewEntry(c, age)
                                 ELSE IF u \in live \ gone THEN data[u] ELSE None
  BY <1>4, Zenon DEF Kept
<1>6. live \subseteq Known /\ \A u \in live : Live(u)
  BY Zenon DEF Known, Live, Entry
<1>7. IsFiniteSet(live) /\ Cardinality(live) <= MaxEntries
  BY <1>1, <1>6, SubsetBounded, Zenon
<1>8. NewEntry(c, age) \in Entries /\ NewEntry(c, age).age + NewEntry(c, age).left <= TTL + MaxLife
      /\ NewEntry(c, age).cred = c
  BY ConstantFacts DEF NewEntry, Entries
<1> HIDE DEF live
<1>9. data' \in [Upns -> Entries \cup {None}]
  <2>1. data' = [u \in Upns |-> IF u = Upn(c) THEN NewEntry(c, age)
                                ELSE IF u \in live \ gone THEN data[u] ELSE None]
    BY <1>4, Zenon DEF Kept
  <2>2. QED
    BY <1>1, <1>8, <2>1, Zenon
<1>10. IsFiniteSet(Known') /\ Cardinality(Known') <= MaxEntries
  <2>1. \A u \in Known' : u = Upn(c) \/ u \in live \ gone
    BY <1>5, Zenon DEF Known
  <2>2. CASE Upn(c) \in live
    BY <1>7, <2>1, <2>2, InsertBounded, Zenon
  <2>3. CASE Cardinality(live) < MaxEntries
    <3>1. Known' \subseteq live \cup {Upn(c)}
      BY <2>1, Zenon
    <3>2. QED
      BY <1>7, <2>3, <3>1, InsertBounded, Zenon
  <2>4. CASE \E v \in live : gone = {v}
    <3>1. PICK v \in live : Known' \subseteq (live \ {v}) \cup {Upn(c)}
      BY <2>1, <2>4, Zenon
    <3>2. QED
      BY <1>7, <3>1, InsertBounded, Zenon
  <2>5. QED
    BY <1>4, <2>2, <2>3, <2>4, Zenon
<1>11. IsFiniteSet(Denied') /\ Cardinality(Denied') <= MaxEntries
  <2>1. Denied' \subseteq Denied
    BY <1>1, <1>3, Zenon DEF Denied
  <2>2. QED
    BY <1>1, <2>1, SubsetBounded, Zenon
<1>12. Caches'
  <2>1. rejected' \in [Creds -> Int \cup {None}]
    BY <1>1, <1>3, Zenon
  <2>2. \A u \in Upns : data'[u] # None /\ data'[u].left >= 0 =>
          data'[u].age + data'[u].left <= TTL + MaxLife
    BY <1>1, <1>5, <1>8, Zenon
  <2>3. QED
    BY <1>9, <1>10, <1>11, <2>1, <2>2, Zenon DEF Caches
<1>13. ASSUME NEW d \in Creds, d # c, Hit(d)' PROVE Hit(d)
  <2>1. Upn(d) \in Upns
    BY ConstantFacts, Zenon
  <2>2. data'[Upn(d)] # None /\ ~(data'[Upn(d)].left < 0) /\ data'[Upn(d)].cred = d
    BY <1>13, Zenon DEF Hit, Entry, Expired, Upn
  <2>3. data'[Upn(d)] = data[Upn(d)]
    BY <1>5, <1>8, <1>13, <2>1, <2>2, Zenon
  <2>4. QED
    BY <2>2, <2>3, Zenon DEF Hit, Entry, Expired
<1>14. ASSUME NEW d \in Creds, IsRejected(d)' PROVE d # c /\ IsRejected(d)
  BY <1>1, <1>3, <1>14, Zenon DEF IsRejected
<1>15. QED
  BY <1>12, <1>13, <1>14, Zenon

(* Reject makes its credential a rejected one, no other.                       *)
LEMMA RejectKeeps ==
  ASSUME Caches, NEW c \in Creds, Reject(c)
  PROVE  /\ Caches'
         /\ \A d \in Creds : Hit(d)' => Hit(d)
         /\ \A d \in Creds : d # c /\ IsRejected(d)' => IsRejected(d)
<1> DEFINE live == {d \in Creds : IsRejected(d)}
           room == c \in live \/ Cardinality(live) < MaxEntries
           after(keep) == [d \in Creds |-> IF d = c THEN TTL
                                           ELSE IF d \in keep THEN rejected[d] ELSE None]
<1>1. /\ data \in [Upns -> Entries \cup {None}] /\ rejected \in [Creds -> Int \cup {None}]
      /\ IsFiniteSet(Denied) /\ Cardinality(Denied) <= MaxEntries
  BY Zenon DEF Caches
<1>2. data' = data
  BY Zenon DEF Reject
<1>3. PICK keep : /\ rejected' = after(keep)
                  /\ (room /\ keep = live) \/ \E v \in live : keep = live \ {v}
  <2>1. \/ room /\ rejected' = after(live)
        \/ \E v \in {d \in live : \A e \in live : rejected[d] <= rejected[e]} :
             rejected' = after(live \ {v})
    BY Zenon DEF Reject
  <2>2. QED
    BY <2>1, Zenon
<1>4. live \subseteq Denied /\ keep \subseteq live
  BY <1>3, Zenon DEF Denied, IsRejected
<1>5. \A d \in live : IsRejected(d)
  BY Zenon
<1>6. IsFiniteSet(live) /\ Cardinality(live) <= MaxEntries
  BY <1>1, <1>4, SubsetBounded, Zenon
<1>7. \A d \in Creds : rejected'[d] = IF d = c THEN TTL ELSE IF d \in keep THEN rejected[d] ELSE None
  BY <1>3, Zenon
<1>8. rejected' \in [Creds -> Int \cup {None}]
  BY <1>1, <1>3, ConstantFacts
<1> HIDE DEF live
<1>9. IsFiniteSet(Denied') /\ Cardinality(Denied') <= MaxEntries
  <2>1. \A d \in Denied' : d = c \/ d \in keep
    BY <1>7, Zenon DEF Denied
  <2>2. CASE c \in live
    BY <1>4, <1>6, <2>1, <2>2, InsertBounded, Zenon
  <2>3. CASE Cardinality(live) < MaxEntries
    <3>1. Denied' \subseteq live \cup {c}
      BY <1>4, <2>1, Zenon
    <3>2. QED
      BY <1>6, <2>3, <3>1, InsertBounded, Zenon
  <2>4. CASE \E v \in live : keep = live \ {v}
    <3>1. PICK v \in live : Denied' \subseteq (live \ {v}) \cup {c}
      BY <2>1, <2>4, Zenon
    <3>2. QED
      BY <1>6, <3>1, InsertBounded, Zenon
  <2>5. QED
    BY <1>3, <2>2, <2>3, <2>4, Zenon
<1>10. Known' = Known
  BY <1>2, Zenon DEF Known
<1>11. Caches'
  BY <1>2, <1>8, <1>9, <1>10, Zenon DEF Caches
<1>12. \A d \in Creds : Hit(d)' => Hit(d)
  BY <1>2, Zenon DEF Hit, Entry, Expired
<1>13. \A d \in Creds : d # c /\ IsRejected(d)' => IsRejected(d)
  BY <1>4, <1>5, <1>7, Zenon DEF IsRejected
<1>14. QED
  BY <1>11, <1>12, <1>13, Zenon

(* The passing of time expires entries and verdicts.                           *)
LEMMA TickCaches ==
  ASSUME Caches, Tick
  PROVE  Caches' /\ Fewer
<1>1. /\ data \in [Upns -> Entries \cup {None}] /\ rejected \in [Creds -> Int \cup {None}]
      /\ \A v \in Upns : data[v] # None /\ data[v].left >= 0 =>
           data[v].age + data[v].left <= TTL + MaxLife
  BY Zenon DEF Caches
<1>2. /\ data' = [u \in Upns |-> IF data[u] = None THEN None
                ELSE IF data[u].left <= 0
                THEN [data[u] EXCEPT !.left = -1, !.seen = 0, !.age = 0]
                ELSE [data[u] EXCEPT !.left = @ - 1, !.seen = @ + 1, !.age = Older(@)]]
      /\ rejected' = [c \in Creds |-> IF rejected[c] = None \/ rejected[c] = -1
                                      THEN rejected[c] ELSE rejected[c] - 1]
  BY Zenon DEF Tick
<1>3. \A n \in Nat : Older(n) \in Nat /\ Older(n) <= n + 1
  BY ConstantFacts DEF Older
<1>4. ASSUME NEW u \in Upns, data[u] # None
      PROVE  /\ data'[u] \in Entries
             /\ data'[u].cred = data[u].cred
             /\ data'[u].left >= 0 => /\ data[u].left >= 0
                                      /\ data'[u].age + data'[u].left <= TTL + MaxLife
  <2>1. data[u] \in Entries
    BY <1>1, <1>4, Zenon
  <2>2. CASE data[u].left <= 0
    <3>1. data'[u] = [data[u] EXCEPT !.left = -1, !.seen = 0, !.age = 0]
      BY <1>2, <1>4, <2>2, Zenon
    <3>2. data'[u] = [cred |-> data[u].cred, left |-> -1, seen |-> 0, age |-> 0]
      BY <2>1, <3>1, Zenon DEF Entries
    <3>3. QED
      BY <2>1, <3>2, SMTT(30) DEF Entries
  <2>3. CASE ~(data[u].left <= 0)
    <3>1. data'[u] = [data[u] EXCEPT !.left = @ - 1, !.seen = @ + 1, !.age = Older(@)]
      BY <1>2, <1>4, <2>3, Zenon
    <3>2. data'[u] = [cred |-> data[u].cred, left |-> data[u].left - 1,
                      seen |-> data[u].seen + 1, age |-> Older(data[u].age)]
      BY <2>1, <3>1, Zenon DEF Entries
    <3>3. /\ data[u].cred \in Creds /\ data[u].left \in Int /\ data[u].seen \in Nat
          /\ data[u].age \in Nat
      BY <2>1, Zenon DEF Entries
    <3>4. data[u].age + data[u].left <= TTL + MaxLife
      BY <1>1, <1>4, <2>3, <3>3
    <3>5. Older(data[u].age) \in Nat /\ Older(data[u].age) <= data[u].age + 1
      BY <1>3, <3>3, Zenon
    <3>6. Older(data[u].age) + (data[u].left - 1) <= TTL + MaxLife
      BY <3>3, <3>4, <3>5, ConstantFacts
    <3>7. data'[u] \in Entries
      BY <3>2, <3>3, <3>5 DEF Entries
    <3>8. /\ data'[u].cred = data[u].cred /\ data'[u].left = data[u].left - 1
          /\ data'[u].age = Older(data[u].age)
      BY <3>2
    <3>9. QED
      BY <2>3, <3>3, <3>6, <3>7, <3>8
  <2>4. QED
    BY <2>2, <2>3, Zenon
<1>5. \A u \in Upns : data[u] = None => data'[u] = None
  BY <1>2, Zenon
<1>6. data' \in [Upns -> Entries \cup {None}]
  <2>1. \A u \in Upns : data'[u] \in Entries \cup {None}
    BY <1>4, <1>5, Zenon
  <2>2. data' = [u \in Upns |-> data'[u]]
    BY <1>2, Zenon
  <2>3. QED
    BY <2>1, <2>2, Zenon
<1>7. /\ rejected' \in [Creds -> Int \cup {None}]
      /\ \A c \in Creds : rejected'[c] # None => rejected[c] # None
      /\ \A c \in Creds : IsRejected(c)' => IsRejected(c)
  <2>1. ASSUME NEW c \in Creds
        PROVE  /\ rejected'[c] \in Int \cup {None}
               /\ rejected'[c] # None => rejected[c] # None
               /\ IsRejected(c)' => IsRejected(c)
    <3>1. rejected'[c] = IF rejected[c] = None \/ rejected[c] = -1 THEN rejected[c] ELSE rejected[c] - 1
      BY <1>2, Zenon
    <3>2. CASE rejected[c] = None \/ rejected[c] = -1
      BY <3>1, <3>2 DEF IsRejected
    <3>3. CASE rejected[c] # None /\ rejected[c] # -1
      <4>1. rejected[c] \in Int
        BY <1>1, <3>3, Zenon
      <4>2. rejected'[c] = rejected[c] - 1
        BY <3>1, <3>3, Zenon
      <4>3. QED
        BY <3>3, <4>1, <4>2 DEF IsRejected
    <3>4. QED
      BY <3>2, <3>3, Zenon
  <2>2. rejected' = [c \in Creds |-> rejected'[c]]
    BY <1>2, Zenon
  <2>3. QED
    BY <2>1, <2>2, Zenon
<1>8. Caches'
  BY <1>4, <1>5, <1>6, <1>7, Shrinks, Zenon
<1>9. Fewer
  <2> SUFFICES ASSUME NEW d \in Creds PROVE (Hit(d)' => Hit(d)) /\ (IsRejected(d)' => IsRejected(d))
    BY Zenon DEF Fewer
  <2>1. Upn(d) \in Upns
    BY ConstantFacts, Zenon
  <2>2. Hit(d)' => Hit(d)
    <3>1. SUFFICES ASSUME Hit(d)' PROVE Hit(d)
      BY Zenon
    <3>2. data'[Upn(d)] # None /\ ~(data'[Upn(d)].left < 0) /\ data'[Upn(d)].cred = d
      BY <3>1, Zenon DEF Hit, Entry, Expired, Upn
    <3>3. data[Upn(d)] # None /\ data'[Upn(d)] \in Entries /\ data[Upn(d)] \in Entries
      BY <1>1, <1>4, <1>5, <2>1, <3>2, Zenon
    <3>4. data'[Upn(d)].left \in Int /\ data[Upn(d)].left \in Int
      BY <3>3, Zenon DEF Entries
    <3>5. data[Upn(d)].left >= 0 /\ data[Upn(d)].cred = d
      BY <1>4, <2>1, <3>2, <3>3, <3>4
    <3>6. QED
      BY <3>3, <3>4, <3>5 DEF Hit, Entry, Expired
  <2>3. IsRejected(d)' => IsRejected(d)
    BY <1>7, Zenon
  <2>4. QED
    BY <2>2, <2>3, Zenon
<1>10. QED
  BY <1>8, <1>9, Zenon

-----------------------------------------------------------------------------
(* A lookup object after a step of its goroutine. *)
At(l, pc, result, groups, age) ==
  [pc |-> pc, cred |-> lookup[l].cred, result |-> result, groups |-> groups,
   age |-> age, life |-> lookup[l].life]

(* Returned, which changes four fields of a lookup, as one change of the  *)
(* lookup.                                                                *)
LEMMA ReturnedShape ==
  ASSUME AllSound, NEW l \in Lookups, NEW x, NEW y, NEW z, NEW w,
         lookup' = Returned(l, y, z, w, x)
  PROVE  lookup' = [lookup EXCEPT ![l] = At(l, x, y, z, w)]
<1>1. lookup \in [Lookups -> LookupType]
  BY Zenon DEF AllSound
<1> DEFINE k == lookup[l]
           R(a, b, c, d, e, f) ==
             [pc |-> a, cred |-> b, result |-> c, groups |-> d, age |-> e, life |-> f]
<1>2. k = R(k.pc, k.cred, k.result, k.groups, k.age, k.life)
  BY <1>1, Zenon DEF LookupType
<1>3. [lookup EXCEPT ![l].pc = x, ![l].result = y, ![l].groups = z, ![l].age = w]
        = [lookup EXCEPT ![l] = [[[[k EXCEPT !.pc = x] EXCEPT !.result = y]
                                  EXCEPT !.groups = z] EXCEPT !.age = w]]
  BY <1>1, Zenon
<1> HIDE DEF k
<1>4. ASSUME NEW a, NEW b, NEW c, NEW d, NEW e, NEW f
      PROVE  /\ [R(a, b, c, d, e, f) EXCEPT !.pc = x] = R(x, b, c, d, e, f)
             /\ [R(a, b, c, d, e, f) EXCEPT !.result = y] = R(a, b, y, d, e, f)
             /\ [R(a, b, c, d, e, f) EXCEPT !.groups = z] = R(a, b, c, z, e, f)
             /\ [R(a, b, c, d, e, f) EXCEPT !.age = w] = R(a, b, c, d, w, f)
  OBVIOUS
<1> DEFINE k1 == [k EXCEPT !.pc = x]
           k2 == [k1 EXCEPT !.result = y]
           k3 == [k2 EXCEPT !.groups = z]
<1> HIDE DEF R
<1>5. k1 = R(x, k.cred, k.result, k.groups, k.age, k.life)
  BY <1>2, <1>4
<1> HIDE DEF k1
<1>6. k2 = R(x, k.cred, y, k.groups, k.age, k.life)
  BY <1>4, <1>5
<1> HIDE DEF k2
<1>7. k3 = R(x, k.cred, y, z, k.age, k.life)
  BY <1>4, <1>6
<1> HIDE DEF k3
<1>8. [k3 EXCEPT !.age = w] = R(x, k.cred, y, z, w, k.life)
  BY <1>4, <1>7
<1>9. QED
  BY <1>3, <1>8, Zenon DEF Returned, At, R, k, k1, k2, k3

(* A lookup that goes on to its next step, in the same form. *)
LEMMA ProceedShape ==
  ASSUME AllSound, NEW l \in Lookups, NEW x, lookup' = [lookup EXCEPT ![l].pc = x]
  PROVE  lookup' = [lookup EXCEPT ![l] = At(l, x, lookup[l].result, lookup[l].groups, lookup[l].age)]
<1>1. lookup[l] \in LookupType /\ lookup \in [Lookups -> LookupType]
  BY Zenon DEF AllSound
<1>2. [lookup[l] EXCEPT !.pc = x] = At(l, x, lookup[l].result, lookup[l].groups, lookup[l].age)
  BY <1>1 DEF At, LookupType
<1>3. QED
  BY <1>1, <1>2, Zenon

(* A running lookup stays in order in its next state, if that is in order.     *)
Fitting(l, pc, result, groups, age) ==
  /\ pc \in Life /\ result \in Outcomes \cup {"none"}
  /\ groups \in Creds \cup {None} /\ age \in Nat
  /\ pc # "finish" => age <= lookup[l].life
  /\ pc = "finish" => age <= TTL + MaxLife + lookup[l].life
  /\ pc = "store" => result \in {"ok", "rejected"}
  /\ pc \in {"release", "finish"} => result \in Outcomes
  /\ result = "ok" => groups = lookup[l].cred

(* A lookup moved to a fitting place is sound, and still of its           *)
(* credential.                                                            *)
LEMMA AtSound ==
  ASSUME AllSound, NEW l \in Lookups, lookup[l].pc \in Life,
         NEW pc, NEW result, NEW groups, NEW age, Fitting(l, pc, result, groups, age)
  PROVE  /\ Sound(At(l, pc, result, groups, age))
         /\ At(l, pc, result, groups, age).pc = pc
         /\ At(l, pc, result, groups, age).cred = lookup[l].cred
<1> DEFINE k == At(l, pc, result, groups, age)
<1>1. Sound(lookup[l]) /\ lookup[l] \in LookupType
  BY Zenon DEF AllSound
<1>2. lookup[l].cred \in Creds /\ lookup[l].life \in Nat /\ lookup[l].life <= MaxLife
  <2>1. lookup[l].pc # "free"
    BY Zenon DEF Life
  <2>2. QED
    BY <1>1, <2>1, Zenon DEF Sound, LookupType
<1>3. /\ k.pc = pc /\ k.cred = lookup[l].cred /\ k.result = result /\ k.groups = groups
      /\ k.age = age /\ k.life = lookup[l].life
  BY Zenon DEF At
<1>4. k \in LookupType
  BY <1>2, Zenon DEF At, LookupType, Fitting
<1> HIDE DEF k
<1>5. pc # "done"
  BY Zenon DEF Life, Fitting
<1>6. Sound(k)
  BY <1>2, <1>3, <1>4, <1>5, Zenon DEF Sound, Fitting
<1>7. QED
  BY <1>3, <1>6, Zenon DEF k

(* A step of a running lookup that does not end it.                            *)
LEMMA Advance ==
  ASSUME AllSound, Registered, Waiting, Permits,
         NEW l \in Lookups, lookup[l].pc \in Life,
         NEW k, Sound(k), k.pc \in Life, k.cred = lookup[l].cred,
         lookup' = [lookup EXCEPT ![l] = k],
         request' = request, groupLookups' = groupLookups,
         held' = IF k.pc \in Holding THEN held \cup {l} ELSE held \ {l}
  PROVE  AllSound' /\ Registered' /\ Waiting' /\ Permits'
<1>1. lookup \in [Lookups -> LookupType] /\ \A m \in Lookups : Sound(lookup[m])
  BY Zenon DEF AllSound
<1>2. k \in LookupType
  BY Zenon DEF Sound
<1>3. /\ lookup' \in [Lookups -> LookupType] /\ lookup'[l] = k
      /\ \A m \in Lookups : m # l => lookup'[m] = lookup[m]
  BY <1>1, <1>2, Zenon
<1>4. AllSound'
  <2>1. \A m \in Lookups : Sound(lookup'[m])
    BY <1>1, <1>3, Zenon
  <2>2. QED
    BY <1>3, <2>1, Zenon DEF AllSound, Sound
<1>5. \A m \in Lookups : Running(m)' <=> Running(m)
  <2>1. Running(l) /\ Running(l)'
    BY <1>3, Zenon DEF Running, Life
  <2>2. QED
    BY <1>3, <2>1, Zenon DEF Running
<1>6. \A m \in Lookups : lookup'[m].cred = lookup[m].cred
  BY <1>3, Zenon
<1>7. Registered'
  BY <1>5, <1>6 DEF Registered
<1>8. Permits'
  BY <1>3, Zenon DEF Permits
<1>9. Waiting'
  <2>1. \A m \in Lookups : /\ lookup[m].pc # "free" => lookup'[m].pc # "free"
                           /\ lookup'[m].pc = "done" => lookup[m].pc = "done" /\ lookup'[m] = lookup[m]
    BY <1>3, Zenon DEF Life
  <2>2. ASSUME NEW r \in Requests PROVE Waits(request[r])'
    <3>1. Waits(request[r])
      BY Zenon DEF Waiting
    <3>2. QED
      BY <1>6, <2>1, <3>1 DEF Waits
  <2>3. QED
    BY <2>2, Zenon DEF Waiting
<1>10. QED
  BY <1>4, <1>7, <1>8, <1>9, Zenon

(* What the caches say stays consistent when they say less.                    *)
LEMMA VerdictsKeep ==
  ASSUME Verdicts, Fewer, AllSound',
         \A m \in Lookups : lookup'[m].pc \in Missing =>
           \/ lookup[m].pc \in Missing /\ lookup'[m].cred = lookup[m].cred
           \/ ~Hit(lookup'[m].cred)
  PROVE  Verdicts'
<1>1. OneVerdict'
  BY Zenon DEF Verdicts, OneVerdict, Fewer
<1>2. ASSUME NEW m \in Lookups, lookup'[m].pc \in Missing PROVE ~Hit(lookup[m].cred)'
  <2>1. Sound(lookup[m])' /\ lookup'[m].pc # "free"
    BY <1>2, Zenon DEF AllSound, Missing
  <2>2. lookup'[m].cred \in Creds
    BY <2>1, Zenon DEF Sound
  <2>3. ~Hit(lookup'[m].cred)
    BY <1>2, Zenon DEF Verdicts
  <2> DEFINE c == lookup'[m].cred
  <2>4. c \in Creds /\ ~Hit(c)
    BY <2>2, <2>3, Zenon
  <2>5. Hit(lookup[m].cred)' <=> (data'[Upn(c)] # None /\ ~(data'[Upn(c)].left < 0) /\ data'[Upn(c)].cred = c)
    BY Zenon DEF Hit, Entry, Expired, Upn
  <2> HIDE DEF c
  <2>6. ~(data'[Upn(c)] # None /\ ~(data'[Upn(c)].left < 0) /\ data'[Upn(c)].cred = c)
    BY <2>4, Zenon DEF Fewer, Hit, Entry, Expired, Upn
  <2>7. QED
    BY <2>5, <2>6, Zenon
<1>3. QED
  BY <1>1, <1>2, Zenon DEF Verdicts

(* A step without an answer says nothing about groups. *)
LEMMA SilentAnswers ==
  ASSUME Silent
  PROVE  OwnRecentGroups'
BY Zenon DEF Silent, NoAnswer, OwnRecentGroups

(* The fields of a lookup that runs. *)
LEMMA RunningFacts ==
  ASSUME AllSound, NEW l \in Lookups, lookup[l].pc \in Life
  PROVE  /\ lookup \in [Lookups -> LookupType]
         /\ lookup[l].cred \in Creds /\ lookup[l].result \in Outcomes \cup {"none"}
         /\ lookup[l].groups \in Creds \cup {None} /\ lookup[l].age \in Nat
         /\ lookup[l].life \in Nat /\ lookup[l].life <= MaxLife
         /\ lookup[l].result = "ok" => lookup[l].groups = lookup[l].cred
         /\ lookup[l].pc # "finish" => lookup[l].age <= lookup[l].life
<1>1. Sound(lookup[l]) /\ lookup[l] \in LookupType /\ lookup \in [Lookups -> LookupType]
  BY Zenon DEF AllSound
<1>2. lookup[l].pc # "free"
  BY Zenon DEF Life
<1>3. QED
  BY <1>1, <1>2, Zenon DEF Sound, LookupType

(* A step of a running lookup by which the caches answer no more than before.  *)
LEMMA Steps ==
  ASSUME Serving, NEW l \in Lookups, lookup[l].pc \in Life,
         NEW k, Sound(k), k.pc \in Life, k.cred = lookup[l].cred,
         lookup' = [lookup EXCEPT ![l] = k],
         request' = request, groupLookups' = groupLookups, Silent,
         held' = (IF k.pc \in Holding THEN held \cup {l} ELSE held \ {l}),
         Caches', Fewer,
         k.pc \in Missing => lookup[l].pc \in Missing \/ ~Hit(lookup[l].cred)
  PROVE  Serving'
<1>1. AllSound /\ Registered /\ Waiting /\ Permits /\ Verdicts
  BY Zenon DEF Serving
<1>2. AllSound' /\ Registered' /\ Waiting' /\ Permits'
  BY <1>1, Advance, Zenon
<1>3. lookup'[l] = k /\ \A m \in Lookups : m # l => lookup'[m] = lookup[m]
  BY <1>1, Zenon DEF AllSound
<1>4. Verdicts'
  BY <1>1, <1>2, <1>3, VerdictsKeep, Zenon
<1>5. QED
  BY <1>2, <1>4, SilentAnswers, Zenon DEF Serving

(* The permits that are held say where each lookup is. *)
LEMMA HeldFacts ==
  ASSUME Permits, NEW l \in Lookups
  PROVE  /\ lookup[l].pc \in Holding => held = held \cup {l}
         /\ lookup[l].pc \notin Holding => held = held \ {l}
BY Zenon DEF Permits

(* The lookup's own look into the cache: a hit is as old as the entry     *)
(* was.                                                                   *)
LEMMA LookupGetKeeps ==
  ASSUME Serving, NEW l \in Lookups, LookupGet(l)
  PROVE  Serving'
<1> DEFINE c == lookup[l].cred
<1>1. /\ lookup[l].pc = "get" /\ lookup[l].pc \in Life /\ lookup[l].pc \notin Holding
      /\ data' = AfterGet(c) /\ rejected' = rejected
      /\ request' = request /\ groupLookups' = groupLookups /\ Silent /\ held' = held
  BY Zenon DEF LookupGet, Life, Holding
<1>2. AllSound /\ Caches /\ Permits
  BY Zenon DEF Serving
<1>3. /\ c \in Creds /\ lookup[l].result \in Outcomes \cup {"none"}
      /\ lookup[l].groups \in Creds \cup {None} /\ lookup[l].age \in Nat
      /\ lookup[l].life \in Nat /\ lookup[l].age <= lookup[l].life
      /\ lookup[l].result = "ok" => lookup[l].groups = c
      /\ lookup \in [Lookups -> LookupType]
  BY <1>1, <1>2, RunningFacts, Zenon
<1>4. Caches' /\ Fewer
  BY <1>1, <1>2, <1>3, GetKeeps, Zenon
<1>5. held' = held \ {l}
  BY <1>1, <1>2, HeldFacts, Zenon
<1>6. CASE Hit(c)
  <2> DEFINE e == data[Upn(c)]
             k == At(l, "finish", "ok", e.cred, e.age)
  <2>1. lookup' = Returned(l, "ok", e.cred, e.age, "finish")
    BY <1>6, Zenon DEF LookupGet, Entry
  <2>2. lookup' = [lookup EXCEPT ![l] = k]
    BY <1>2, <2>1, ReturnedShape
  <2>3. e # None /\ ~(e.left < 0) /\ e.cred = c /\ Upn(c) \in Upns
    BY <1>3, <1>6, ConstantFacts, Zenon DEF Hit, Entry, Expired
  <2>4. e \in Entries
    BY <1>2, <2>3, Zenon DEF Caches
  <2>5. e.age \in Nat /\ e.left \in Int
    BY <2>4, Zenon DEF Entries
  <2>6. e.age + e.left <= TTL + MaxLife
    BY <1>2, <2>3, <2>5 DEF Caches
  <2>7. e.age <= TTL + MaxLife + lookup[l].life
    BY <1>3, <2>3, <2>5, <2>6, ConstantFacts
  <2> HIDE DEF e
  <2>fit. Fitting(l, "finish", "ok", e.cred, e.age)
    BY <1>1, <1>2, <1>3, <2>3, <2>5, <2>7, ConstantFacts, Zenon DEF Life, Outcomes, Fitting
  <2>8. Sound(k) /\ k.pc = "finish" /\ k.cred = lookup[l].cred
    BY <1>1, <1>2, <2>fit, AtSound
  <2> HIDE DEF k
  <2>9. k.pc \in Life /\ k.pc \notin Holding /\ k.pc \notin Missing
    BY <2>8, Zenon DEF Life, Holding, Missing
  <2>10. QED
    BY <1>1, <1>4, <1>5, <2>2, <2>8, <2>9, Steps, Zenon
<1>7. CASE ~Hit(c)
  <2> DEFINE k == At(l, "rejected", lookup[l].result, lookup[l].groups, lookup[l].age)
  <2>1. lookup' = [lookup EXCEPT ![l].pc = "rejected"]
    BY <1>7, Zenon DEF LookupGet
  <2>2. lookup' = [lookup EXCEPT ![l] = k]
    BY <1>2, <2>1, ProceedShape, Zenon
  <2>fit. Fitting(l, "rejected", lookup[l].result, lookup[l].groups, lookup[l].age)
    BY <1>1, <1>2, <1>3, ConstantFacts, Zenon DEF Life, Outcomes, Fitting
  <2>3. Sound(k) /\ k.pc = "rejected" /\ k.cred = lookup[l].cred
    BY <1>1, <1>2, <2>fit, AtSound
  <2> HIDE DEF k
  <2>4. k.pc \in Life /\ k.pc \notin Holding
    BY <2>3, Zenon DEF Life, Holding
  <2>5. QED
    BY <1>1, <1>4, <1>5, <1>7, <2>2, <2>3, <2>4, Steps, Zenon
<1>8. QED
  BY <1>6, <1>7, Zenon

(* The lookup's own look at the rejections ends it or lets it go on to    *)
(* LDAP.                                                                  *)
LEMMA LookupRejectedKeeps ==
  ASSUME Serving, NEW l \in Lookups, LookupRejected(l)
  PROVE  Serving'
<1> DEFINE c == lookup[l].cred
<1>1. /\ lookup[l].pc = "rejected" /\ lookup[l].pc \in Life /\ lookup[l].pc \notin Holding
      /\ lookup[l].pc \in Missing
      /\ rejected' = AfterRejected(c) /\ data' = data
      /\ request' = request /\ groupLookups' = groupLookups /\ Silent /\ held' = held
  BY Zenon DEF LookupRejected, Life, Holding, Missing
<1>2. AllSound /\ Caches /\ Permits
  BY Zenon DEF Serving
<1>3. /\ c \in Creds /\ lookup[l].result \in Outcomes \cup {"none"}
      /\ lookup[l].groups \in Creds \cup {None} /\ lookup[l].age \in Nat
      /\ lookup[l].life \in Nat /\ lookup[l].age <= lookup[l].life
      /\ lookup[l].result = "ok" => lookup[l].groups = c
      /\ lookup \in [Lookups -> LookupType]
  BY <1>1, <1>2, RunningFacts, Zenon
<1>4. Caches' /\ Fewer
  BY <1>1, <1>2, <1>3, RejectedKeeps, Zenon
<1>5. held' = held \ {l}
  BY <1>1, <1>2, HeldFacts, Zenon
<1>6. PICK k : /\ lookup' = [lookup EXCEPT ![l] = k]
               /\ Sound(k) /\ k.pc \in {"finish", "acquire"} /\ k.cred = lookup[l].cred
  <2>1. CASE IsRejected(c)
    <3>1. lookup' = Returned(l, "rejected", None, 0, "finish")
      BY <2>1, Zenon DEF LookupRejected
    <3>2. lookup' = [lookup EXCEPT ![l] = At(l, "finish", "rejected", None, 0)]
      BY <1>2, <3>1, ReturnedShape, Zenon
    <3>3. 0 <= TTL + MaxLife + lookup[l].life
      BY <1>3, ConstantFacts
    <3>fit. Fitting(l, "finish", "rejected", None, 0)
      BY <1>1, <1>2, <1>3, <3>3, ConstantFacts, Zenon DEF Life, Outcomes, Fitting
    <3>4. /\ Sound(At(l, "finish", "rejected", None, 0))
          /\ At(l, "finish", "rejected", None, 0).pc = "finish"
          /\ At(l, "finish", "rejected", None, 0).cred = lookup[l].cred
      BY <1>1, <1>2, <3>fit, AtSound
    <3>5. QED
      BY <3>2, <3>4, Zenon
  <2>2. CASE ~IsRejected(c)
    <3> DEFINE k == At(l, "acquire", lookup[l].result, lookup[l].groups, lookup[l].age)
    <3>1. lookup' = [lookup EXCEPT ![l].pc = "acquire"]
      BY <2>2, Zenon DEF LookupRejected
    <3>2. lookup' = [lookup EXCEPT ![l] = k]
      BY <1>2, <3>1, ProceedShape, Zenon
    <3>fit. Fitting(l, "acquire", lookup[l].result, lookup[l].groups, lookup[l].age)
      BY <1>1, <1>2, <1>3, ConstantFacts, Zenon DEF Life, Outcomes, Fitting
    <3>3. Sound(k) /\ k.pc = "acquire" /\ k.cred = lookup[l].cred
      BY <1>1, <1>2, <3>fit, AtSound
    <3>4. QED
      BY <3>2, <3>3, Zenon
  <2>3. QED
    BY <2>1, <2>2, Zenon
<1>7. k.pc \in Life /\ k.pc \notin Holding
  BY <1>6, Zenon DEF Life, Holding
<1>8. QED
  BY <1>1, <1>4, <1>5, <1>6, <1>7, Steps, Zenon

(* The steps of a lookup that leave the caches alone.                          *)
LEMMA LookupAloneKeeps ==
  ASSUME Serving, NEW l \in Lookups,
         \/ LookupAdmitted(l) \/ LookupLimited(l) \/ LookupFetched(l) \/ LookupRefused(l)
         \/ LookupFailed(l) \/ LookupRelease(l)
  PROVE  Serving'
<1>1. /\ lookup[l].pc \in Life /\ lookup[l].pc # "finish" /\ data' = data /\ rejected' = rejected
      /\ request' = request /\ groupLookups' = groupLookups /\ Silent
  BY Zenon DEF LookupAdmitted, LookupLimited, LookupFetched, LookupRefused, LookupFailed, LookupRelease, Life
<1>2. AllSound /\ Caches /\ Permits
  BY Zenon DEF Serving
<1>3. /\ lookup[l].cred \in Creds /\ lookup[l].result \in Outcomes \cup {"none"}
      /\ lookup[l].groups \in Creds \cup {None} /\ lookup[l].age \in Nat
      /\ lookup[l].life \in Nat /\ lookup[l].age <= lookup[l].life
      /\ lookup[l].result = "ok" => lookup[l].groups = lookup[l].cred
      /\ lookup \in [Lookups -> LookupType]
      /\ lookup[l].pc = "release" => lookup[l].result \in Outcomes
  <2>1. Sound(lookup[l])
    BY <1>2, Zenon DEF AllSound
  <2>2. lookup[l].pc = "release" => lookup[l].result \in Outcomes
    BY <2>1, Zenon DEF Sound
  <2>3. QED
    BY <1>1, <1>2, <2>2, RunningFacts, Zenon
<1>4. Caches' /\ Fewer
  BY <1>1, <1>2, Zenon DEF Caches, Known, Denied, Fewer, Hit, Entry, Expired, IsRejected
<1>5. 0 <= TTL + MaxLife + lookup[l].life /\ lookup[l].age <= TTL + MaxLife + lookup[l].life
      /\ 0 <= lookup[l].life
  BY <1>3, ConstantFacts
<1>6. PICK k : /\ lookup' = [lookup EXCEPT ![l] = k]
               /\ Sound(k) /\ k.pc \in Life /\ k.cred = lookup[l].cred
               /\ held' = IF k.pc \in Holding THEN held \cup {l} ELSE held \ {l}
               /\ k.pc \in Missing => lookup[l].pc \in Missing
  <2>1. CASE LookupAdmitted(l)
    <3> DEFINE k == At(l, "fetch", lookup[l].result, lookup[l].groups, lookup[l].age)
    <3>1. /\ lookup[l].pc = "acquire" /\ lookup' = [lookup EXCEPT ![l].pc = "fetch"]
          /\ held' = held \cup {l}
      BY <2>1, Zenon DEF LookupAdmitted, Limiter!Grant
    <3>2. lookup' = [lookup EXCEPT ![l] = k]
      BY <1>2, <3>1, ProceedShape, Zenon
    <3>fit. Fitting(l, "fetch", lookup[l].result, lookup[l].groups, lookup[l].age)
      BY <1>1, <1>2, <1>3, ConstantFacts, Zenon DEF Life, Outcomes, Fitting
    <3>3. Sound(k) /\ k.pc = "fetch" /\ k.cred = lookup[l].cred
      BY <1>1, <1>2, <3>fit, AtSound
    <3> HIDE DEF k
    <3>4. QED
      BY <3>1, <3>2, <3>3, Zenon DEF Life, Holding, Missing
  <2>2. CASE LookupLimited(l)
    <3> DEFINE k == At(l, "finish", "limited", None, 0)
    <3>1. /\ lookup[l].pc = "acquire" /\ held' = held
          /\ lookup' = Returned(l, "limited", None, 0, "finish")
      BY <2>2, Zenon DEF LookupLimited, Limiter!Refuse
    <3>2. lookup' = [lookup EXCEPT ![l] = k]
      BY <1>2, <3>1, ReturnedShape
    <3>fit. Fitting(l, "finish", "limited", None, 0)
      BY <1>1, <1>2, <1>3, <1>5, ConstantFacts, Zenon DEF Life, Outcomes, Fitting
    <3>3. Sound(k) /\ k.pc = "finish" /\ k.cred = lookup[l].cred
      BY <1>1, <1>2, <3>fit, AtSound, SMTT(30)
    <3> HIDE DEF k
    <3>4. lookup[l].pc \notin Holding
      BY <3>1, Zenon DEF Holding
    <3>5. held' = held \ {l}
      BY <1>2, <3>1, <3>4, HeldFacts, Zenon
    <3>6. QED
      BY <3>2, <3>3, <3>5, Zenon DEF Life, Holding, Missing
  <2>3. CASE LookupFetched(l)
    <3> DEFINE k == At(l, "store", "ok", lookup[l].cred, lookup[l].age)
    <3>1. /\ lookup[l].pc = "fetch" /\ held' = held
          /\ lookup' = Returned(l, "ok", lookup[l].cred, lookup[l].age, "store")
      BY <2>3, Zenon DEF LookupFetched
    <3>2. lookup' = [lookup EXCEPT ![l] = k]
      BY <1>2, <3>1, ReturnedShape
    <3>fit. Fitting(l, "store", "ok", lookup[l].cred, lookup[l].age)
      BY <1>1, <1>2, <1>3, <1>5, ConstantFacts, Zenon DEF Life, Outcomes, Fitting
    <3>3. Sound(k) /\ k.pc = "store" /\ k.cred = lookup[l].cred
      BY <1>1, <1>2, <3>fit, AtSound
    <3> HIDE DEF k
    <3>4. held' = held \cup {l}
      BY <1>2, <3>1, HeldFacts, Zenon DEF Holding
    <3>5. QED
      BY <3>1, <3>2, <3>3, <3>4, Zenon DEF Life, Holding, Missing
  <2>4. CASE LookupRefused(l)
    <3> DEFINE k == At(l, "store", "rejected", None, 0)
    <3>1. /\ lookup[l].pc = "fetch" /\ held' = held
          /\ lookup' = Returned(l, "rejected", None, 0, "store")
      BY <2>4, Zenon DEF LookupRefused
    <3>2. lookup' = [lookup EXCEPT ![l] = k]
      BY <1>2, <3>1, ReturnedShape
    <3>fit. Fitting(l, "store", "rejected", None, 0)
      BY <1>1, <1>2, <1>3, <1>5, ConstantFacts, Zenon DEF Life, Outcomes, Fitting
    <3>3. Sound(k) /\ k.pc = "store" /\ k.cred = lookup[l].cred
      BY <1>1, <1>2, <3>fit, AtSound
    <3> HIDE DEF k
    <3>4. held' = held \cup {l}
      BY <1>2, <3>1, HeldFacts, Zenon DEF Holding
    <3>5. QED
      BY <3>1, <3>2, <3>3, <3>4, Zenon DEF Life, Holding, Missing
  <2>5. CASE LookupFailed(l)
    <3> DEFINE k == At(l, "release", "error", None, 0)
    <3>1. /\ lookup[l].pc = "fetch" /\ held' = held
          /\ lookup' = Returned(l, "error", None, 0, "release")
      BY <2>5, Zenon DEF LookupFailed
    <3>2. lookup' = [lookup EXCEPT ![l] = k]
      BY <1>2, <3>1, ReturnedShape
    <3>fit. Fitting(l, "release", "error", None, 0)
      BY <1>1, <1>2, <1>3, <1>5, ConstantFacts, Zenon DEF Life, Outcomes, Fitting
    <3>3. Sound(k) /\ k.pc = "release" /\ k.cred = lookup[l].cred
      BY <1>1, <1>2, <3>fit, AtSound
    <3> HIDE DEF k
    <3>4. held' = held \cup {l}
      BY <1>2, <3>1, HeldFacts, Zenon DEF Holding
    <3>5. QED
      BY <3>1, <3>2, <3>3, <3>4, Zenon DEF Life, Holding, Missing
  <2>6. CASE LookupRelease(l)
    <3> DEFINE k == At(l, "finish", lookup[l].result, lookup[l].groups, lookup[l].age)
    <3>1. /\ lookup[l].pc = "release" /\ held' = held \ {l}
          /\ lookup' = [lookup EXCEPT ![l].pc = "finish"]
      BY <2>6, Zenon DEF LookupRelease, Limiter!Release
    <3>2. lookup' = [lookup EXCEPT ![l] = k]
      BY <1>2, <3>1, ProceedShape, Zenon
    <3>fit. Fitting(l, "finish", lookup[l].result, lookup[l].groups, lookup[l].age)
      BY <1>1, <1>2, <1>3, <1>5, <3>1, ConstantFacts, Zenon DEF Life, Outcomes, Fitting
    <3>3. Sound(k) /\ k.pc = "finish" /\ k.cred = lookup[l].cred
      BY <1>1, <1>2, <3>fit, AtSound
    <3> HIDE DEF k
    <3>4. QED
      BY <3>1, <3>2, <3>3, Zenon DEF Life, Holding, Missing
  <2>7. QED
    BY <2>1, <2>2, <2>3, <2>4, <2>5, <2>6, Zenon
<1>7. QED
  BY <1>1, <1>4, <1>6, Steps, Zenon

(* OneVerdict and the misses, from their meaning for each credential. *)
LEMMA VerdictsHold ==
  ASSUME AllSound',
         \A d \in Creds : ~(Hit(d)' /\ IsRejected(d)'),
         \A m \in Lookups, d \in Creds :
           lookup'[m].pc \in Missing /\ lookup'[m].cred = d => ~Hit(d)'
  PROVE  Verdicts'
<1>1. OneVerdict'
  BY Zenon DEF OneVerdict
<1>2. ASSUME NEW m \in Lookups, lookup'[m].pc \in Missing PROVE ~Hit(lookup[m].cred)'
  <2>1. Sound(lookup[m])' /\ lookup'[m].pc # "free"
    BY <1>2, Zenon DEF AllSound, Missing
  <2> DEFINE c == lookup'[m].cred
  <2>2. c \in Creds
    BY <2>1, Zenon DEF Sound
  <2>3. Hit(lookup[m].cred)' <=> (data'[Upn(c)] # None /\ ~(data'[Upn(c)].left < 0) /\ data'[Upn(c)].cred = c)
    BY Zenon DEF Hit, Entry, Expired, Upn
  <2>4. ASSUME NEW d \in Creds, d = c PROVE ~Hit(d)'
    BY <1>2, <2>4, Zenon
  <2> HIDE DEF c
  <2>5. ~(data'[Upn(c)] # None /\ ~(data'[Upn(c)].left < 0) /\ data'[Upn(c)].cred = c)
    BY <2>2, <2>4, Zenon DEF Hit, Entry, Expired, Upn
  <2>6. QED
    BY <2>3, <2>5, Zenon
<1>3. QED
  BY <1>1, <1>2, Zenon DEF Verdicts

(* Set or Reject: the one lookup of the credential has missed in the cache     *)
(* before, and after Set no other lookup counts on a miss.                     *)
LEMMA LookupStoreKeeps ==
  ASSUME Serving, NEW l \in Lookups, LookupStore(l)
  PROVE  Serving'
<1> DEFINE c == lookup[l].cred
           k == At(l, "release", lookup[l].result, lookup[l].groups, lookup[l].age)
<1>1. /\ lookup[l].pc = "store" /\ lookup[l].pc \in Life /\ lookup[l].pc \in Holding
      /\ lookup[l].pc \in Missing /\ lookup' = [lookup EXCEPT ![l].pc = "release"]
      /\ request' = request /\ groupLookups' = groupLookups /\ Silent /\ held' = held
  BY Zenon DEF LookupStore, Life, Holding, Missing
<1>2. AllSound /\ Registered /\ Waiting /\ Caches /\ Permits /\ Verdicts
  BY Zenon DEF Serving
<1>3. /\ c \in Creds /\ lookup[l].result \in {"ok", "rejected"}
      /\ lookup[l].groups \in Creds \cup {None} /\ lookup[l].age \in Nat
      /\ lookup[l].life \in Nat /\ lookup[l].life <= MaxLife /\ lookup[l].age <= lookup[l].life
      /\ lookup[l].result = "ok" => lookup[l].groups = c
  <2>1. Sound(lookup[l])
    BY <1>2, Zenon DEF AllSound
  <2>2. lookup[l].result \in {"ok", "rejected"}
    BY <1>1, <2>1, Zenon DEF Sound
  <2>3. QED
    BY <1>1, <1>2, <2>2, RunningFacts, Zenon
<1>4. lookup[l].age <= MaxLife
  BY <1>3, ConstantFacts
<1>5. lookup' = [lookup EXCEPT ![l] = k]
  BY <1>1, <1>2, ProceedShape, Zenon
<1>6. Fitting(l, "release", lookup[l].result, lookup[l].groups, lookup[l].age)
  BY <1>3, ConstantFacts, Zenon DEF Life, Outcomes, Fitting
<1>7. Sound(k) /\ k.pc = "release" /\ k.cred = lookup[l].cred
  BY <1>1, <1>2, <1>6, AtSound
<1>8. lookup'[l] = k /\ \A m \in Lookups : m # l => lookup'[m] = lookup[m]
  BY <1>2, <1>5, Zenon DEF AllSound
<1> HIDE DEF k
<1>9. held' = held \cup {l} /\ k.pc \in Holding /\ k.pc \in Life /\ k.pc \notin Missing
  <2>1. k.pc \in Holding /\ k.pc \in Life /\ k.pc \notin Missing
    BY <1>7, Zenon DEF Holding, Life, Missing
  <2>2. QED
    BY <1>1, <1>2, <2>1, HeldFacts, Zenon
<1>10. AllSound' /\ Registered' /\ Waiting' /\ Permits'
  BY <1>1, <1>2, <1>5, <1>7, <1>9, Advance, Zenon
<1>11. ~Hit(c)
  BY <1>1, <1>2, Zenon DEF Verdicts
<1>12. \A m \in Lookups, d \in Creds : lookup'[m].pc \in Missing /\ lookup'[m].cred = d =>
         d # c /\ lookup[m].pc \in Missing /\ lookup[m].cred = d
  <2> SUFFICES ASSUME NEW m \in Lookups, NEW d \in Creds, lookup'[m].pc \in Missing, lookup'[m].cred = d
               PROVE  d # c /\ lookup[m].pc \in Missing /\ lookup[m].cred = d
    BY Zenon
  <2>1. m # l /\ lookup'[m] = lookup[m]
    BY <1>8, <1>9, Zenon
  <2>2. Running(m) /\ Running(l)
    BY <1>1, <2>1, Zenon DEF Running, Missing
  <2>3. groupLookups[d] = m /\ groupLookups[c] = l
    BY <1>2, <1>3, <2>1, <2>2, Zenon DEF Registered
  <2>4. QED
    BY <2>1, <2>3, Zenon
<1>13. \A m \in Lookups : lookup[m].pc \in Missing => ~Hit(lookup[m].cred)
  BY <1>2, Zenon DEF Verdicts
<1>14. \A d \in Creds : ~(Hit(d) /\ IsRejected(d))
  BY <1>2, Zenon DEF Verdicts, OneVerdict
<1> HIDE DEF c
<1>15. Caches' /\ Verdicts'
  <2>1. CASE Set(c, lookup[l].age)
    <3>1. /\ Caches'
          /\ \A d \in Creds : d # c /\ Hit(d)' => Hit(d)
          /\ \A d \in Creds : IsRejected(d)' => d # c /\ IsRejected(d)
      BY <1>2, <1>3, <1>4, <2>1, SetKeeps, Zenon
    <3>2. \A d \in Creds : ~(Hit(d)' /\ IsRejected(d)')
      BY <1>14, <3>1, Zenon
    <3>3. \A m \in Lookups, d \in Creds :
            lookup'[m].pc \in Missing /\ lookup'[m].cred = d => ~Hit(d)'
      BY <1>12, <1>13, <3>1, Zenon
    <3>4. QED
      BY <1>10, <3>1, <3>2, <3>3, VerdictsHold, Zenon
  <2>2. CASE Reject(c)
    <3>1. /\ Caches'
          /\ \A d \in Creds : Hit(d)' => Hit(d)
          /\ \A d \in Creds : d # c /\ IsRejected(d)' => IsRejected(d)
      BY <1>2, <1>3, <2>2, RejectKeeps, Zenon
    <3>2. \A d \in Creds : ~(Hit(d)' /\ IsRejected(d)')
      BY <1>11, <1>14, <3>1, Zenon
    <3>3. \A m \in Lookups, d \in Creds :
            lookup'[m].pc \in Missing /\ lookup'[m].cred = d => ~Hit(d)'
      BY <1>12, <1>13, <3>1, Zenon
    <3>4. QED
      BY <1>10, <3>1, <3>2, <3>3, VerdictsHold, Zenon
  <2>3. QED
    BY <2>1, <2>2, Zenon DEF LookupStore, c
<1>16. QED
  BY <1>1, <1>10, <1>15, SilentAnswers, Zenon DEF Serving

-----------------------------------------------------------------------------
(* Collected frees only what is done and what nobody refers to. *)
LEMMA CollectFacts ==
  ASSUME NEW L \in [Lookups -> LookupType], \A m \in Lookups : Sound(L[m]),
         NEW Q, NEW C, C = Collected(L, Q)
  PROVE  /\ C \in [Lookups -> LookupType] /\ \A m \in Lookups : Sound(C[m])
         /\ \A m \in Lookups : \/ C[m] = L[m]
                               \/ /\ L[m].pc = "done" /\ C[m] = FreeLookup
                                  /\ \A r \in Requests : Q[r].on # m
<1>1. FreeLookup \in LookupType
  BY Zenon DEF FreeLookup, LookupType
<1>2. Sound(FreeLookup)
  BY <1>1, Zenon DEF Sound, FreeLookup, Life
<1>3. QED
  BY <1>1, <1>2, Zenon DEF Collected

(* The end of a lookup's goroutine. *)
LEMMA LookupFinishKeeps ==
  ASSUME Serving, NEW l \in Lookups, LookupFinish(l)
  PROVE  Serving'
<1> DEFINE c == lookup[l].cred
           k == [pc |-> "done", cred |-> c, result |-> lookup[l].result,
                 groups |-> lookup[l].groups, age |-> lookup[l].age, life |-> 0]
           L == [lookup EXCEPT ![l] = k]
<1>1. /\ lookup[l].pc = "finish" /\ lookup[l].pc \in Life /\ lookup[l].pc \notin Holding
      /\ groupLookups' = [groupLookups EXCEPT ![c] = None]
      /\ lookup' = Collected([lookup EXCEPT ![l].pc = "done", ![l].life = 0], request)
      /\ request' = request /\ data' = data /\ rejected' = rejected /\ Silent /\ held' = held
  BY Zenon DEF LookupFinish, Life, Holding
<1>2. AllSound /\ Registered /\ Waiting /\ Caches /\ Permits /\ Verdicts
  BY Zenon DEF Serving
<1>3. /\ c \in Creds /\ lookup[l].result \in Outcomes
      /\ lookup[l].groups \in Creds \cup {None} /\ lookup[l].age \in Nat
      /\ lookup[l].age <= TTL + 2 * MaxLife
      /\ lookup[l].result = "ok" => lookup[l].groups = c
      /\ lookup \in [Lookups -> LookupType] /\ lookup[l] \in LookupType
  <2>1. Sound(lookup[l])
    BY <1>2, Zenon DEF AllSound
  <2>2. lookup[l].result \in Outcomes /\ lookup[l].age <= TTL + MaxLife + lookup[l].life
    BY <1>1, <2>1, Zenon DEF Sound
  <2>3. /\ c \in Creds /\ lookup[l].groups \in Creds \cup {None} /\ lookup[l].age \in Nat
        /\ lookup[l].life \in Nat /\ lookup[l].life <= MaxLife
        /\ lookup[l].result = "ok" => lookup[l].groups = c
        /\ lookup \in [Lookups -> LookupType]
    BY <1>1, <1>2, RunningFacts, Zenon
  <2>4. lookup[l].age <= TTL + 2 * MaxLife
    BY <2>2, <2>3, ConstantFacts
  <2>5. QED
    BY <2>2, <2>3, <2>4, Zenon
<1>4. [lookup EXCEPT ![l].pc = "done", ![l].life = 0] = L
  <2>1. [lookup EXCEPT ![l].pc = "done", ![l].life = 0]
          = [lookup EXCEPT ![l] = [[lookup[l] EXCEPT !.pc = "done"] EXCEPT !.life = 0]]
    BY <1>3, Zenon
  <2>2. [[lookup[l] EXCEPT !.pc = "done"] EXCEPT !.life = 0] = k
    <3> DEFINE j == lookup[l]
    <3>1. j \in LookupType
      BY <1>3, Zenon
    <3> DEFINE R(a, b, d, e, f, g) ==
                 [pc |-> a, cred |-> b, result |-> d, groups |-> e, age |-> f, life |-> g]
    <3>2. j = R(j.pc, j.cred, j.result, j.groups, j.age, j.life)
      BY <3>1, Zenon DEF LookupType
    <3> HIDE DEF j
    <3>3. ASSUME NEW a, NEW b, NEW d, NEW e, NEW f, NEW g
          PROVE  /\ [R(a, b, d, e, f, g) EXCEPT !.pc = "done"] = R("done", b, d, e, f, g)
                 /\ [R(a, b, d, e, f, g) EXCEPT !.life = 0] = R(a, b, d, e, f, 0)
      OBVIOUS
    <3> DEFINE j1 == [j EXCEPT !.pc = "done"]
    <3> HIDE DEF R
    <3>4. j1 = R("done", j.cred, j.result, j.groups, j.age, j.life)
      BY <3>2, <3>3
    <3> HIDE DEF j1
    <3>5. [j1 EXCEPT !.life = 0] = R("done", j.cred, j.result, j.groups, j.age, 0)
      BY <3>3, <3>4
    <3>6. QED
      BY <3>5, Zenon DEF j, j1, R
  <2>3. QED
    BY <2>1, <2>2, Zenon
<1>5. k \in LookupType
  BY <1>3, Zenon DEF LookupType
<1>6. k.pc = "done" /\ k.cred = c /\ k.result = lookup[l].result /\ k.groups = lookup[l].groups
      /\ k.age = lookup[l].age
  BY Zenon
<1> HIDE DEF k
<1>7. Sound(k)
  BY <1>3, <1>5, <1>6, Zenon DEF Sound, Life
<1>8. /\ L \in [Lookups -> LookupType] /\ L[l] = k
      /\ \A m \in Lookups : m # l => L[m] = lookup[m]
  BY <1>3, <1>5, Zenon
<1> HIDE DEF L
<1>9. \A m \in Lookups : Sound(L[m])
  BY <1>2, <1>7, <1>8, Zenon DEF AllSound
<1>10. /\ lookup' \in [Lookups -> LookupType] /\ \A m \in Lookups : Sound(lookup'[m])
       /\ \A m \in Lookups : \/ lookup'[m] = L[m]
                             \/ /\ L[m].pc = "done" /\ lookup'[m] = FreeLookup
                                /\ \A r \in Requests : request[r].on # m
  <2>1. lookup' = Collected(L, request)
    BY <1>1, <1>4, Zenon
  <2>2. QED
    BY <1>8, <1>9, <2>1, CollectFacts
<1>11. AllSound'
  BY <1>10, Zenon DEF AllSound, Sound
<1>12. /\ \A m \in Lookups : lookup'[m].pc \notin {"free", "done"} => m # l /\ lookup'[m] = lookup[m]
       /\ \A m \in Lookups : m # l /\ lookup[m].pc # "done" => lookup'[m] = lookup[m]
       /\ lookup'[l].pc \in {"free", "done"}
  BY <1>6, <1>8, <1>10 DEF FreeLookup
<1>13. Registered'
  <2>1. groupLookups' \in [Creds -> Lookups \cup {None}]
    BY <1>1, <1>2, <1>3, Zenon DEF Registered
  <2>2. ASSUME NEW m \in Lookups, NEW d \in Creds
        PROVE  groupLookups'[d] = m <=> (Running(m)' /\ lookup'[m].cred = d)
    <3>1. Running(l)
      BY <1>1, Zenon DEF Running
    <3>2. groupLookups[c] = l /\ (groupLookups[d] = m <=> (Running(m) /\ lookup[m].cred = d))
      BY <1>2, <1>3, <3>1, Zenon DEF Registered
    <3>3. groupLookups'[d] = IF d = c THEN None ELSE groupLookups[d]
      BY <1>1, <1>2, <1>3, Zenon DEF Registered
    <3>4. Running(m)' <=> (m # l /\ Running(m) /\ lookup'[m] = lookup[m])
      BY <1>12, Zenon DEF Running
    <3>5. None # m
      BY ConstantFacts, Zenon
    <3> HIDE DEF c
    <3>6. CASE d = c
      BY <3>2, <3>3, <3>4, <3>5, <3>6, Zenon
    <3>7. CASE d # c
      <4>1. lookup[l].cred # d
        BY <3>7, Zenon DEF c
      <4>2. (Running(m)' /\ lookup'[m].cred = d) <=> (Running(m) /\ lookup[m].cred = d)
        <5>1. m # l /\ lookup[m].pc # "done" => lookup'[m] = lookup[m]
          BY <1>12, Zenon
        <5>2. CASE m = l
          BY <3>4, <4>1, <5>2, Zenon
        <5>3. CASE m # l /\ Running(m)
          BY <3>4, <5>1, <5>3, Zenon DEF Running
        <5>4. CASE ~Running(m)
          BY <3>4, <5>4, Zenon
        <5>5. QED
          BY <5>2, <5>3, <5>4, Zenon
      <4>3. QED
        BY <3>2, <3>3, <3>7, <4>2, Zenon
    <3>8. QED
      BY <3>6, <3>7, Zenon
  <2>3. QED
    BY <2>1, <2>2, Zenon DEF Registered
<1>14. Permits'
  <2>1. \A m \in Lookups : lookup'[m].pc \in Holding <=> lookup[m].pc \in Holding
    BY <1>1, <1>12, Zenon DEF Holding
  <2>2. QED
    BY <1>1, <1>2, <2>1, Zenon DEF Permits
<1>15. Waiting'
  <2>1. ASSUME NEW r \in Requests PROVE Waits(request[r])'
    <3>1. Waits(request[r]) /\ request[r] \in RequestType
      BY <1>2, Zenon DEF Waiting
    <3>2. request[r].waited \in Nat
      BY <3>1, Zenon DEF RequestType
    <3>3. SUFFICES ASSUME request[r].pc = "wait"
                   PROVE  /\ request[r].on \in Lookups /\ lookup'[request[r].on].pc # "free"
                          /\ lookup'[request[r].on].cred = request[r].cred
                          /\ lookup'[request[r].on].pc = "done" =>
                               lookup'[request[r].on].age <= TTL + 2 * MaxLife + request[r].waited
      BY <1>1, Zenon DEF Waits
    <3>4. /\ request[r].on \in Lookups /\ lookup[request[r].on].pc # "free"
          /\ lookup[request[r].on].cred = request[r].cred
          /\ lookup[request[r].on].pc = "done" =>
               lookup[request[r].on].age <= TTL + 2 * MaxLife + request[r].waited
      BY <3>1, <3>3, Zenon DEF Waits
    <3>5. lookup'[request[r].on] = L[request[r].on]
      BY <1>10, <3>4, Zenon
    <3>6. CASE request[r].on = l
      <4>1. lookup[l].age <= TTL + 2 * MaxLife + request[r].waited
        BY <1>3, <3>2, ConstantFacts, SMTT(30)
      <4>2. QED
        BY <1>6, <1>8, <3>4, <3>5, <3>6, <4>1, Zenon
    <3>7. CASE request[r].on # l
      BY <1>8, <3>4, <3>5, <3>7, Zenon
    <3>8. QED
      BY <3>6, <3>7, Zenon
  <2>2. QED
    BY <1>1, <1>2, <2>1, Zenon DEF Waiting
<1>16. Caches' /\ Fewer
  BY <1>1, <1>2, Zenon DEF Caches, Known, Denied, Fewer, Hit, Entry, Expired, IsRejected
<1>17. Verdicts'
  <2>1. \A m \in Lookups : lookup'[m].pc \in Missing => lookup'[m] = lookup[m]
    BY <1>12, Zenon DEF Missing
  <2>2. QED
    BY <1>2, <1>11, <1>16, <2>1, VerdictsKeep, Zenon
<1>18. QED
  BY <1>1, <1>11, <1>13, <1>14, <1>15, <1>16, <1>17, SilentAnswers, Zenon DEF Serving

-----------------------------------------------------------------------------
(* A caller that moves on without an answer. *)
LEMMA Moves ==
  ASSUME Serving, NEW r \in Requests, NEW q \in RequestType,
         q.pc # "idle" => q.cred \in Creds, Waits(q),
         request' = [request EXCEPT ![r] = q], lookup' = lookup,
         groupLookups' = groupLookups, held' = held, Silent, Caches', Fewer
  PROVE  Serving'
<1>1. AllSound /\ Registered /\ Waiting /\ Permits /\ Verdicts
  BY Zenon DEF Serving
<1>2. AllSound' /\ Registered' /\ Permits'
  BY <1>1, ZenonT(40) DEF AllSound, Sound, Registered, Permits, Running
<1>3. /\ request' \in [Requests -> RequestType] /\ request'[r] = q
      /\ \A s \in Requests : s # r => request'[s] = request[s]
  BY <1>1, Zenon DEF Waiting
<1>4. \A s \in Requests : Waits(request'[s])
  BY <1>1, <1>3, Zenon DEF Waiting
<1>5. \A s \in Requests : Waits(request[s])'
  BY <1>4, Zenon DEF Waits
<1>6. Waiting'
  BY <1>1, <1>3, <1>5, Zenon DEF Waiting
<1>7. Verdicts'
  BY <1>1, <1>2, VerdictsKeep, Zenon
<1>8. QED
  BY <1>2, <1>6, <1>7, SilentAnswers, Zenon DEF Serving

(* A caller that is answered: nobody else loses the lookup it waits for.       *)
LEMMA Answers ==
  ASSUME Serving, NEW r \in Requests, NEW result, NEW groups, NEW age,
         Respond(r, result, groups, age),
         result = "ok" => groups = request[r].cred /\ age <= TTL + 2 * MaxLife + request[r].waited,
         groupLookups' = groupLookups, held' = held, Caches', Fewer
  PROVE  Serving'
<1>1. AllSound /\ Registered /\ Waiting /\ Permits /\ Verdicts
  BY Zenon DEF Serving
<1>2. /\ answer' = [result |-> Status(result), cred |-> request[r].cred,
                    groups |-> groups, age |-> age, waited |-> request[r].waited]
      /\ request' = [request EXCEPT ![r] = IdleRequest]
      /\ lookup' = Collected(lookup, request')
  BY Zenon DEF Respond
<1>3. IdleRequest \in RequestType /\ IdleRequest.pc = "idle"
  BY Zenon DEF IdleRequest, RequestType
<1>4. /\ request' \in [Requests -> RequestType] /\ request'[r] = IdleRequest
      /\ \A s \in Requests : s # r => request'[s] = request[s]
  BY <1>1, <1>2, <1>3, Zenon DEF Waiting
<1>5. lookup \in [Lookups -> LookupType] /\ \A m \in Lookups : Sound(lookup[m])
  BY <1>1, Zenon DEF AllSound
<1>6. /\ lookup' \in [Lookups -> LookupType] /\ \A m \in Lookups : Sound(lookup'[m])
      /\ \A m \in Lookups : \/ lookup'[m] = lookup[m]
                            \/ /\ lookup[m].pc = "done" /\ lookup'[m] = FreeLookup
                               /\ \A s \in Requests : request'[s].on # m
  <2> DEFINE Q == request'
             C == lookup'
  <2>1. C = Collected(lookup, Q)
    BY <1>2, Zenon
  <2> HIDE DEF Q, C
  <2>2. /\ C \in [Lookups -> LookupType] /\ \A m \in Lookups : Sound(C[m])
        /\ \A m \in Lookups : \/ C[m] = lookup[m]
                              \/ /\ lookup[m].pc = "done" /\ C[m] = FreeLookup
                                 /\ \A s \in Requests : Q[s].on # m
    BY <1>5, <2>1, CollectFacts, SMTT(30)
  <2>3. QED
    BY <2>2, Zenon DEF Q, C
<1>7. AllSound'
  BY <1>6, Zenon DEF AllSound, Sound
<1>8. \A m \in Lookups : \/ lookup'[m] = lookup[m]
                         \/ lookup[m].pc = "done" /\ lookup'[m].pc = "free"
  BY <1>6 DEF FreeLookup
<1>9. Registered'
  <2>1. \A m \in Lookups : /\ Running(m)' <=> Running(m)
                           /\ Running(m) => lookup'[m].cred = lookup[m].cred
    BY <1>8, Zenon DEF Running
  <2>2. QED
    BY <1>1, <2>1 DEF Registered
<1>10. Permits'
  <2>1. \A m \in Lookups : lookup'[m].pc \in Holding <=> lookup[m].pc \in Holding
    BY <1>8, Zenon DEF Holding
  <2>2. QED
    BY <1>1, <2>1, Zenon DEF Permits
<1>11. Waiting'
  <2>1. ASSUME NEW s \in Requests PROVE Waits(request[s])'
    <3>1. CASE s = r
      BY <1>3, <1>4, <3>1, Zenon DEF Waits
    <3>2. CASE s # r
      <4>1. Waits(request[s]) /\ request'[s] = request[s]
        BY <1>1, <1>4, <3>2, Zenon DEF Waiting
      <4>2. request[s].on \in Lookups => lookup'[request[s].on] = lookup[request[s].on]
        BY <1>6, <4>1, Zenon
      <4>3. QED
        BY <4>1, <4>2, Zenon DEF Waits
    <3>3. QED
      BY <3>1, <3>2, Zenon
  <2>2. \A s \in Requests : request'[s].pc # "idle" => request'[s].cred \in Creds
    BY <1>1, <1>3, <1>4, Zenon DEF Waiting
  <2>3. QED
    BY <1>4, <2>1, <2>2, Zenon DEF Waiting
<1>12. Verdicts'
  <2>1. \A m \in Lookups : lookup'[m].pc \in Missing => lookup'[m] = lookup[m]
    BY <1>8, Zenon DEF Missing
  <2>2. QED
    BY <1>1, <1>7, <2>1, VerdictsKeep, Zenon
<1>13. OwnRecentGroups'
  <2>1. Status(result) = "ok" => result = "ok"
    BY Zenon DEF Status
  <2>2. /\ answer'.result = Status(result) /\ answer'.cred = request[r].cred
        /\ answer'.groups = groups /\ answer'.age = age /\ answer'.waited = request[r].waited
    BY <1>2, Zenon
  <2>3. QED
    BY <2>1, <2>2, Zenon DEF OwnRecentGroups
<1>14. QED
  BY <1>7, <1>9, <1>10, <1>11, <1>12, <1>13, Zenon DEF Serving

(* A step that leaves the caches alone. *)
LEMMA QuietCaches ==
  ASSUME Caches, data' = data, rejected' = rejected
  PROVE  Caches' /\ Fewer
BY Zenon DEF Caches, Known, Denied, Fewer, Hit, Entry, Expired, IsRejected

(* The types of a caller's fields. *)
LEMMA RequestFacts ==
  ASSUME Waiting, NEW r \in Requests
  PROVE  /\ request \in [Requests -> RequestType] /\ request[r] \in RequestType
         /\ request[r].pc \in {"idle", "get", "rejected", "start", "wait"}
         /\ request[r].pc # "idle" => request[r].cred \in Creds
         /\ request[r].on \in Lookups \cup {None} /\ request[r].cancelled \in BOOLEAN
         /\ request[r].waited \in Nat /\ Waits(request[r])
BY Zenon DEF Waiting, RequestType

(* Refusals and other answers without groups. *)
LEMMA RefusalKeeps ==
  ASSUME Serving, NEW r \in Requests,
         TurnAway(r) \/ RequestGone(r) \/ RequestRejected(r) \/ WaitCancelled(r)
  PROVE  Serving'
<1>1. /\ \E result \in {"limited", "error", "rejected"} : Respond(r, result, None, 0)
      /\ data' = data /\ rejected' = rejected /\ groupLookups' = groupLookups /\ held' = held
  BY Zenon DEF TurnAway, RequestGone, RequestRejected, WaitCancelled
<1>2. PICK result \in {"limited", "error", "rejected"} : Respond(r, result, None, 0)
  BY <1>1, Zenon
<1>3. result # "ok" /\ Caches
  BY Zenon DEF Serving
<1>4. Caches' /\ Fewer
  BY <1>1, <1>3, QuietCaches, Zenon
<1>5. QED
  BY <1>1, <1>2, <1>3, <1>4, Answers, Zenon

(* A caller that hits is answered with the entry's groups, which are of   *)
(* its credential.                                                        *)
LEMMA RequestHitKeeps ==
  ASSUME Serving, NEW r \in Requests, RequestHit(r)
  PROVE  Serving'
<1> DEFINE c == request[r].cred
           e == data[Upn(c)]
<1>1. /\ request[r].pc = "get" /\ Hit(c) /\ data' = AfterGet(c) /\ rejected' = rejected
      /\ groupLookups' = groupLookups /\ held' = held /\ Respond(r, "ok", e.cred, e.age)
  BY Zenon DEF RequestHit, Entry
<1>2. Waiting /\ Caches
  BY Zenon DEF Serving
<1>3. c \in Creds /\ request[r].waited \in Nat
  BY <1>1, <1>2, RequestFacts, Zenon
<1>4. Caches' /\ Fewer
  BY <1>1, <1>2, <1>3, GetKeeps, Zenon
<1>5. e # None /\ ~(e.left < 0) /\ e.cred = c /\ Upn(c) \in Upns
  BY <1>1, <1>3, ConstantFacts, Zenon DEF Hit, Entry, Expired
<1>6. e \in Entries
  BY <1>2, <1>5, Zenon DEF Caches
<1>7. e.age \in Nat /\ e.left \in Int
  BY <1>6, Zenon DEF Entries
<1>8. e.age + e.left <= TTL + MaxLife
  BY <1>2, <1>5, <1>7 DEF Caches
<1> HIDE DEF e
<1>9. e.age <= TTL + 2 * MaxLife + request[r].waited
  BY <1>3, <1>5, <1>7, <1>8, ConstantFacts, SMTT(30)
<1>10. QED
  BY <1>1, <1>4, <1>5, <1>9, Answers, Zenon

(* A caller whose lookup ended gets its result, which is of its           *)
(* credential.                                                            *)
LEMMA WaitDoneKeeps ==
  ASSUME Serving, NEW r \in Requests, WaitDone(r)
  PROVE  Serving'
<1> DEFINE l == request[r].on
<1>1. /\ request[r].pc = "wait" /\ lookup[l].pc = "done"
      /\ Respond(r, lookup[l].result, lookup[l].groups, lookup[l].age)
      /\ data' = data /\ rejected' = rejected /\ groupLookups' = groupLookups /\ held' = held
  BY Zenon DEF WaitDone, Authenticates
<1>2. AllSound /\ Waiting /\ Caches
  BY Zenon DEF Serving
<1>3. Waits(request[r])
  BY <1>2, RequestFacts, Zenon
<1>4. /\ l \in Lookups /\ lookup[l].cred = request[r].cred
      /\ lookup[l].age <= TTL + 2 * MaxLife + request[r].waited
  BY <1>1, <1>3, Zenon DEF Waits
<1> HIDE DEF l
<1>5. lookup[l].result = "ok" => lookup[l].groups = request[r].cred
  BY <1>2, <1>4, Zenon DEF AllSound, Sound
<1>6. Caches' /\ Fewer
  BY <1>1, <1>2, QuietCaches, Zenon
<1>7. QED
  BY <1>1, <1>4, <1>5, <1>6, Answers, Zenon

(* The steps of a caller up to the lookup it waits for. *)
LEMMA MoveKeeps ==
  ASSUME Serving, NEW r \in Requests,
         \/ \E c \in Creds : Arrive(r, c)
         \/ Cancel(r) \/ RequestMiss(r) \/ RequestNotRejected(r) \/ Join(r)
  PROVE  Serving'
<1>1. /\ lookup' = lookup /\ groupLookups' = groupLookups /\ held' = held /\ Silent
  BY Zenon DEF Arrive, Cancel, RequestMiss, RequestNotRejected, Join
<1>2. Waiting /\ Caches /\ Registered
  BY Zenon DEF Serving
<1>3. /\ request \in [Requests -> RequestType] /\ request[r] \in RequestType
      /\ request[r].pc # "idle" => request[r].cred \in Creds
      /\ request[r].on \in Lookups \cup {None} /\ request[r].cancelled \in BOOLEAN
      /\ request[r].waited \in Nat /\ Waits(request[r])
  BY <1>2, RequestFacts, Zenon
<1>4. Caches' /\ Fewer
  <2>1. CASE RequestMiss(r)
    <3>1. /\ request[r].cred \in Creds /\ data' = AfterGet(request[r].cred) /\ rejected' = rejected
      BY <1>3, <2>1, Zenon DEF RequestMiss
    <3>2. QED
      BY <1>2, <3>1, GetKeeps, Zenon
  <2>2. CASE RequestNotRejected(r)
    <3>1. /\ request[r].cred \in Creds /\ rejected' = AfterRejected(request[r].cred) /\ data' = data
      BY <1>3, <2>2, Zenon DEF RequestNotRejected
    <3>2. QED
      BY <1>2, <3>1, RejectedKeeps, Zenon
  <2>3. CASE (\E c \in Creds : Arrive(r, c)) \/ Cancel(r) \/ Join(r)
    <3>1. data' = data /\ rejected' = rejected
      BY <2>3, Zenon DEF Arrive, Cancel, Join
    <3>2. QED
      BY <1>2, <3>1, QuietCaches, Zenon
  <2>4. QED
    BY <2>1, <2>2, <2>3, Zenon
<1>5. ASSUME NEW q \in RequestType, q.pc # "idle" => q.cred \in Creds, Waits(q),
             request' = [request EXCEPT ![r] = q]
      PROVE  Serving'
  BY <1>1, <1>4, <1>5, Moves, Zenon
<1>6. ASSUME NEW c \in Creds, Arrive(r, c) PROVE Serving'
  <2> DEFINE q == [IdleRequest EXCEPT !.pc = "get", !.cred = c]
  <2>1. request' = [request EXCEPT ![r] = q]
    BY <1>6, Zenon DEF Arrive
  <2>2. IdleRequest \in RequestType
    BY Zenon DEF IdleRequest, RequestType
  <2>3. q \in RequestType /\ q.pc = "get" /\ q.cred = c
    <3> DEFINE q0 == IdleRequest
               q1 == [q0 EXCEPT !.pc = "get"]
    <3>1. q = [q1 EXCEPT !.cred = c]
      BY Zenon
    <3> HIDE DEF q0
    <3>2. q0 \in RequestType
      BY <2>2, Zenon DEF q0
    <3>3. q1 \in RequestType /\ q1.pc = "get"
      BY <3>2, Zenon DEF RequestType
    <3> HIDE DEF q1
    <3>4. [q1 EXCEPT !.cred = c] \in RequestType
      BY <3>3, Zenon DEF RequestType
    <3>5. [q1 EXCEPT !.cred = c].pc = "get" /\ [q1 EXCEPT !.cred = c].cred = c
      BY <3>3, Zenon DEF RequestType
    <3>6. QED
      BY <3>1, <3>4, <3>5, Zenon
  <2> HIDE DEF q
  <2>4. Waits(q)
    BY <2>3, Zenon DEF Waits
  <2>5. QED
    BY <1>5, <2>1, <2>3, <2>4, Zenon
<1>7. CASE Cancel(r)
  <2> DEFINE q == [request[r] EXCEPT !.cancelled = TRUE]
  <2>1. request' = [request EXCEPT ![r] = q]
    BY <1>3, <1>7, Zenon DEF Cancel
  <2>2. q \in RequestType
    BY <1>3, Zenon DEF RequestType
  <2>3. /\ q.pc = request[r].pc /\ q.cred = request[r].cred /\ q.on = request[r].on
        /\ q.waited = request[r].waited
    BY <1>3, Zenon DEF RequestType
  <2> HIDE DEF q
  <2>4. Waits(q)
    BY <1>3, <2>3, Zenon DEF Waits
  <2>5. QED
    BY <1>3, <1>5, <2>1, <2>2, <2>3, <2>4, Zenon
<1>8. ASSUME NEW x \in {"rejected", "start"}, request[r].pc # "idle",
             request' = [request EXCEPT ![r].pc = x]
      PROVE  Serving'
  <2> DEFINE q == [request[r] EXCEPT !.pc = x]
  <2>1. request' = [request EXCEPT ![r] = q]
    BY <1>3, <1>8, Zenon
  <2>2. q \in RequestType
    BY <1>3, Zenon DEF RequestType
  <2>3. q.pc = x /\ q.cred = request[r].cred
    BY <1>3, Zenon DEF RequestType
  <2> HIDE DEF q
  <2>4. Waits(q)
    BY <2>3, Zenon DEF Waits
  <2>5. QED
    BY <1>3, <1>5, <1>8, <2>1, <2>2, <2>3, <2>4, Zenon
<1>9. CASE RequestMiss(r)
  BY <1>8, <1>9, Zenon DEF RequestMiss
<1>10. CASE RequestNotRejected(r)
  BY <1>8, <1>10, Zenon DEF RequestNotRejected
<1>11. CASE Join(r)
  <2> DEFINE l == groupLookups[request[r].cred]
             q == [[request[r] EXCEPT !.pc = "wait"] EXCEPT !.on = l]
  <2>1. /\ request[r].pc = "start" /\ l # None
        /\ request' = [request EXCEPT ![r].pc = "wait", ![r].on = l]
    BY <1>11, Zenon DEF Join
  <2>2. request' = [request EXCEPT ![r] = q]
    BY <1>3, <2>1, Zenon
  <2>3. l \in Lookups /\ Running(l) /\ lookup[l].cred = request[r].cred
    BY <1>2, <1>3, <2>1 DEF Registered
  <2> HIDE DEF l
  <2>4. q \in RequestType
    BY <1>3, <2>3, Zenon DEF RequestType
  <2>5. q.pc = "wait" /\ q.cred = request[r].cred /\ q.on = l
    BY <1>3, Zenon DEF RequestType
  <2> HIDE DEF q
  <2>6. Waits(q)
    BY <2>3, <2>5, Zenon DEF Waits, Running
  <2>7. QED
    BY <1>3, <1>5, <2>1, <2>2, <2>4, <2>5, <2>6, Zenon
<1>12. QED
  BY <1>6, <1>7, <1>9, <1>10, <1>11, Zenon

(* The first caller of a credential starts its lookup and registers it.        *)
LEMMA StartKeeps ==
  ASSUME Serving, NEW r \in Requests, StartLookup(r)
  PROVE  Serving'
<1> DEFINE c == request[r].cred
<1>1. /\ request[r].pc = "start" /\ groupLookups[c] = None /\ Silent
      /\ data' = data /\ rejected' = rejected /\ held' = held
  BY Zenon DEF StartLookup, Starts
<1>2. PICK l \in Lookups :
        /\ lookup[l] = FreeLookup
        /\ lookup' = [lookup EXCEPT ![l].pc = "get", ![l].cred = c]
        /\ groupLookups' = [groupLookups EXCEPT ![c] = l]
        /\ request' = [request EXCEPT ![r].pc = "wait", ![r].on = l]
  BY Zenon DEF StartLookup
<1>3. AllSound /\ Registered /\ Waiting /\ Caches /\ Permits /\ Verdicts
  BY Zenon DEF Serving
<1>4. /\ request \in [Requests -> RequestType] /\ request[r] \in RequestType /\ c \in Creds
      /\ request[r].waited \in Nat
  BY <1>1, <1>3, RequestFacts, Zenon
<1>5. lookup \in [Lookups -> LookupType] /\ \A m \in Lookups : Sound(lookup[m])
  BY <1>3, Zenon DEF AllSound
<1> DEFINE k == [[lookup[l] EXCEPT !.pc = "get"] EXCEPT !.cred = c]
           q == [[request[r] EXCEPT !.pc = "wait"] EXCEPT !.on = l]
<1> HIDE DEF c
<1>6. lookup' = [lookup EXCEPT ![l] = k] /\ request' = [request EXCEPT ![r] = q]
  BY <1>2, <1>4, <1>5, Zenon
<1>7. lookup[l].result = "none" /\ lookup[l].age = 0 /\ lookup[l].life = 0 /\ lookup[l].pc = "free"
  BY <1>2 DEF FreeLookup
<1>8. /\ k \in LookupType
  BY <1>4, <1>5, Zenon DEF LookupType, Life
<1>9. k.pc = "get" /\ k.cred = c /\ k.result = "none" /\ k.age = 0 /\ k.life = 0
  BY <1>5, <1>7, Zenon DEF LookupType
<1>10. q \in RequestType /\ q.pc = "wait" /\ q.on = l /\ q.cred = c
  <2>1. q \in RequestType
    BY <1>4, Zenon DEF RequestType
  <2>2. QED
    BY <1>4, Zenon DEF RequestType, c
<1> HIDE DEF k, q
<1>11. Sound(k)
  BY <1>4, <1>8, <1>9, ConstantFacts DEF Sound, Life
<1>12. /\ lookup' \in [Lookups -> LookupType] /\ lookup'[l] = k
       /\ \A m \in Lookups : m # l => lookup'[m] = lookup[m]
  BY <1>5, <1>6, <1>8, Zenon
<1>13. /\ request' \in [Requests -> RequestType] /\ request'[r] = q
       /\ \A s \in Requests : s # r => request'[s] = request[s]
  BY <1>4, <1>6, <1>10, Zenon
<1>14. AllSound'
  <2>1. \A m \in Lookups : Sound(lookup'[m])
    BY <1>5, <1>11, <1>12, Zenon
  <2>2. QED
    BY <1>12, <2>1, Zenon DEF AllSound, Sound
<1>15. Registered'
  <2>1. groupLookups \in [Creds -> Lookups \cup {None}]
    BY <1>3, Zenon DEF Registered
  <2>2. groupLookups' \in [Creds -> Lookups \cup {None}]
    BY <1>2, <2>1, Zenon
  <2>3. ASSUME NEW m \in Lookups, NEW d \in Creds
        PROVE  groupLookups'[d] = m <=> (Running(m)' /\ lookup'[m].cred = d)
    <3>1. groupLookups[d] = m <=> (Running(m) /\ lookup[m].cred = d)
      BY <1>3, Zenon DEF Registered
    <3>2. groupLookups'[d] = IF d = c THEN l ELSE groupLookups[d]
      BY <1>2, <1>4, <2>1, Zenon
    <3>3. None # m /\ ~Running(l) /\ groupLookups[c] = None
      BY <1>1, <1>7, ConstantFacts, Zenon DEF Running, c
    <3>4. CASE m = l
      <4>1. Running(m)' /\ lookup'[m].cred = c
        BY <1>9, <1>12, <3>4, Zenon DEF Running
      <4>2. QED
        BY <3>1, <3>2, <3>3, <3>4, <4>1, Zenon
    <3>5. CASE m # l
      <4>1. lookup'[m] = lookup[m] /\ (Running(m)' <=> Running(m))
        BY <1>12, <3>5, Zenon DEF Running
      <4>2. QED
        BY <3>1, <3>2, <3>3, <3>5, <4>1, Zenon
    <3>6. QED
      BY <3>4, <3>5, Zenon
  <2>4. QED
    BY <2>2, <2>3, Zenon DEF Registered
<1>16. Permits'
  <2>1. \A m \in Lookups : lookup'[m].pc \in Holding <=> lookup[m].pc \in Holding
    BY <1>7, <1>9, <1>12, Zenon DEF Holding
  <2>2. QED
    BY <1>1, <1>3, <2>1, Zenon DEF Permits
<1>17. Waiting'
  <2>1. ASSUME NEW s \in Requests PROVE Waits(request[s])'
    <3>1. CASE s = r
      BY <1>9, <1>10, <1>12, <1>13, <3>1, Zenon DEF Waits
    <3>2. CASE s # r
      <4>1. Waits(request[s]) /\ request'[s] = request[s]
        BY <1>3, <1>13, <3>2, Zenon DEF Waiting
      <4>2. request[s].pc = "wait" => request[s].on # l
        BY <1>7, <4>1, Zenon DEF Waits
      <4>3. QED
        BY <1>12, <4>1, <4>2, Zenon DEF Waits
    <3>3. QED
      BY <3>1, <3>2, Zenon
  <2>2. \A s \in Requests : request'[s].pc # "idle" => request'[s].cred \in Creds
    BY <1>3, <1>4, <1>10, <1>13, Zenon DEF Waiting
  <2>3. QED
    BY <1>13, <2>1, <2>2, Zenon DEF Waiting
<1>18. Caches' /\ Fewer
  BY <1>1, <1>3, QuietCaches, Zenon
<1>19. Verdicts'
  <2>1. \A m \in Lookups : lookup'[m].pc \in Missing => lookup'[m] = lookup[m]
    BY <1>9, <1>12, Zenon DEF Missing
  <2>2. QED
    BY <1>3, <1>14, <1>18, <2>1, VerdictsKeep, Zenon
<1>20. QED
  BY <1>1, <1>14, <1>15, <1>16, <1>17, <1>18, <1>19, SilentAnswers, Zenon DEF Serving

(* Time passes: no lookup outlives its LDAP timeouts.                          *)
LEMMA TickKeeps ==
  ASSUME Serving, Tick
  PROVE  Serving'
<1>1. AllSound /\ Registered /\ Waiting /\ Caches /\ Permits /\ Verdicts
  BY Zenon DEF Serving
<1>2. /\ \A l \in Lookups : Running(l) => lookup[l].life < MaxLife
      /\ groupLookups' = groupLookups /\ held' = held /\ Silent
      /\ lookup' = [l \in Lookups |->
           [lookup[l] EXCEPT !.life = IF Running(l) THEN @ + 1 ELSE @,
              !.age = IF lookup[l].result = "ok" \/ lookup[l].pc = "fetch"
                      THEN Older(@) ELSE @]]
      /\ request' = [r \in Requests |->
           [request[r] EXCEPT !.waited = IF Active(r) THEN @ + 1 ELSE @]]
  BY Zenon DEF Tick
<1>3. \A n \in Nat : Older(n) \in Nat /\ Older(n) <= n + 1
  BY ConstantFacts DEF Older
<1>4. lookup \in [Lookups -> LookupType] /\ \A m \in Lookups : Sound(lookup[m])
  BY <1>1, Zenon DEF AllSound
<1>5. ASSUME NEW l \in Lookups
      PROVE  /\ lookup'[l] \in LookupType /\ Sound(lookup'[l])
             /\ lookup'[l].pc = lookup[l].pc /\ lookup'[l].cred = lookup[l].cred
             /\ lookup'[l].age <= lookup[l].age + 1
  <2> DEFINE k == lookup[l]
             life == IF Running(l) THEN k.life + 1 ELSE k.life
             age == IF k.result = "ok" \/ k.pc = "fetch" THEN Older(k.age) ELSE k.age
             k1 == [k EXCEPT !.life = life]
             k2 == [k1 EXCEPT !.age = age]
  <2>1. k \in LookupType /\ Sound(k)
    BY <1>4, Zenon
  <2>2. k.age \in Nat /\ k.life \in Nat
    BY <2>1, Zenon DEF LookupType
  <2>3. life \in Nat /\ age \in Nat /\ age <= k.age + 1
    BY <1>3, <2>2, SMTT(30)
  <2>4. lookup'[l] = k2
    BY <1>2, <2>1, Zenon DEF LookupType
  <2>5. (Running(l) => life = k.life + 1 /\ life <= MaxLife) /\ (~Running(l) => life = k.life)
    <3>1. Running(l) => k.life < MaxLife
      BY <1>2, Zenon
    <3>2. QED
      BY <2>2, <3>1, ConstantFacts, SMTT(30)
  <2>6. k.pc \in Life => Running(l)
    BY Zenon DEF Running, Life
  <2> HIDE DEF k, life, age
  <2>7. /\ k1 \in LookupType /\ k1.pc = k.pc /\ k1.cred = k.cred /\ k1.result = k.result
        /\ k1.groups = k.groups /\ k1.life = life
    <3>1. k1 \in LookupType
      BY <2>1, <2>3, Zenon DEF LookupType
    <3>2. k1.pc = k.pc /\ k1.cred = k.cred
      BY <2>1, Zenon DEF LookupType
    <3>3. k1.result = k.result /\ k1.groups = k.groups
      BY <2>1, Zenon DEF LookupType
    <3>4. k1.life = life
      BY <2>1, Zenon DEF LookupType
    <3>5. QED
      BY <3>1, <3>2, <3>3, <3>4, Zenon
  <2> HIDE DEF k1
  <2>8. /\ k2 \in LookupType /\ k2.pc = k.pc /\ k2.cred = k.cred /\ k2.result = k.result
        /\ k2.groups = k.groups /\ k2.life = life /\ k2.age = age
    <3>1. k2 \in LookupType
      BY <2>3, <2>7, Zenon DEF LookupType
    <3>2. k2.pc = k1.pc /\ k2.cred = k1.cred
      BY <2>7, Zenon DEF LookupType
    <3>3. k2.result = k1.result /\ k2.groups = k1.groups
      BY <2>7, Zenon DEF LookupType
    <3>4. k2.life = k1.life /\ k2.age = age
      BY <2>7, Zenon DEF LookupType
    <3>5. QED
      BY <2>7, <3>1, <3>2, <3>3, <3>4, Zenon
  <2> HIDE DEF k2
  <2>9. Sound(k2)
    <3>1. /\ k.pc # "free" => k.cred \in Creds
          /\ k.pc = "store" => k.result \in {"ok", "rejected"}
          /\ k.pc \in {"release", "finish", "done"} => k.result \in Outcomes
          /\ k.result = "ok" => k.groups = k.cred
      BY <2>1, Zenon DEF Sound
    <3>2. k.pc \in Life => life <= MaxLife
      BY <2>5, <2>6, Zenon
    <3>3. ASSUME k.pc \in Life \ {"finish"} PROVE age <= life
      <4>1. k.age <= k.life
        BY <2>1, <3>3, Zenon DEF Sound
      <4>2. QED
        BY <2>2, <2>3, <2>5, <2>6, <3>3, <4>1
    <3>4. ASSUME k.pc = "finish" PROVE age <= TTL + MaxLife + life
      <4>1. k.age <= TTL + MaxLife + k.life /\ k.pc \in Life
        BY <2>1, <3>4, Zenon DEF Sound, Life
      <4>2. QED
        BY <2>2, <2>3, <2>5, <2>6, <4>1, ConstantFacts
    <3>5. QED
      BY <2>8, <3>1, <3>2, <3>3, <3>4, Zenon DEF Sound
  <2>10. QED
    BY <2>3, <2>4, <2>8, <2>9, Zenon DEF k
<1>6. lookup' \in [Lookups -> LookupType]
  <2>1. lookup' = [l \in Lookups |-> lookup'[l]]
    BY <1>2, Zenon
  <2>2. QED
    BY <1>5, <2>1, Zenon
<1>7. AllSound'
  BY <1>5, <1>6, Zenon DEF AllSound, Sound
<1>8. \A l \in Lookups : lookup'[l].pc = lookup[l].pc /\ lookup'[l].cred = lookup[l].cred
  BY <1>5, Zenon
<1>9. Registered' /\ Permits'
  <2>1. \A l \in Lookups : Running(l)' <=> Running(l)
    BY <1>8, Zenon DEF Running
  <2>2. Registered'
    <3>1. groupLookups' = groupLookups
      BY <1>2, Zenon
    <3>2. QED
      BY <1>1, <1>8, <3>1, SMTT(30) DEF Registered, Running
  <2>3. QED
    BY <1>1, <1>2, <1>8, <2>2, Zenon DEF Permits
<1>10. ASSUME NEW r \in Requests
       PROVE  /\ request'[r] \in RequestType
              /\ request'[r].pc = request[r].pc /\ request'[r].cred = request[r].cred
              /\ request'[r].on = request[r].on
              /\ request[r].pc # "idle" => request'[r].waited = request[r].waited + 1
  <2> DEFINE q == request[r]
             w == IF Active(r) THEN q.waited + 1 ELSE q.waited
  <2>1. q \in RequestType
    BY <1>1, Zenon DEF Waiting
  <2>2. w \in Nat
    BY <2>1, SMTT(30) DEF RequestType
  <2>3. request'[r] = [q EXCEPT !.waited = w]
    BY <1>2, <2>1, Zenon DEF RequestType
  <2>4. q.pc # "idle" => w = q.waited + 1
    BY Zenon DEF Active
  <2> HIDE DEF q, w
  <2>5. [q EXCEPT !.waited = w] \in RequestType
    BY <2>1, <2>2, Zenon DEF RequestType
  <2>6. /\ [q EXCEPT !.waited = w].pc = q.pc /\ [q EXCEPT !.waited = w].cred = q.cred
        /\ [q EXCEPT !.waited = w].on = q.on /\ [q EXCEPT !.waited = w].waited = w
    BY <2>1, Zenon DEF RequestType
  <2>7. QED
    BY <2>3, <2>4, <2>5, <2>6, Zenon DEF q
<1>11. Waiting'
  <2>1. request' \in [Requests -> RequestType]
    <3>1. request' = [r \in Requests |-> request'[r]]
      BY <1>2, Zenon
    <3>2. QED
      BY <1>10, <3>1, Zenon
  <2>2. ASSUME NEW r \in Requests PROVE Waits(request[r])'
    <3>1. Waits(request[r]) /\ request[r] \in RequestType
      BY <1>1, Zenon DEF Waiting
    <3>2. request[r].waited \in Nat
      BY <3>1, Zenon DEF RequestType
    <3>3. SUFFICES ASSUME request[r].pc = "wait"
                   PROVE  /\ request[r].on \in Lookups /\ lookup'[request[r].on].pc # "free"
                          /\ lookup'[request[r].on].cred = request[r].cred
                          /\ lookup'[request[r].on].pc = "done" =>
                               lookup'[request[r].on].age <= TTL + 2 * MaxLife + (request[r].waited + 1)
      BY <1>10, Zenon DEF Waits
    <3> DEFINE m == request[r].on
    <3>4. /\ m \in Lookups /\ lookup[m].pc # "free" /\ lookup[m].cred = request[r].cred
          /\ lookup[m].pc = "done" => lookup[m].age <= TTL + 2 * MaxLife + request[r].waited
      BY <3>1, <3>3, Zenon DEF Waits
    <3> HIDE DEF m
    <3>5. /\ lookup'[m].pc = lookup[m].pc /\ lookup'[m].cred = lookup[m].cred
          /\ lookup'[m].age <= lookup[m].age + 1 /\ lookup'[m].age \in Nat /\ lookup[m].age \in Nat
      BY <1>4, <1>5, <3>4, Zenon DEF LookupType
    <3>6. lookup'[m].pc = "done" => lookup'[m].age <= TTL + 2 * MaxLife + (request[r].waited + 1)
      BY <3>2, <3>4, <3>5, ConstantFacts, SMTT(30)
    <3>7. QED
      BY <3>4, <3>5, <3>6, Zenon DEF m
  <2>3. \A r \in Requests : request'[r].pc # "idle" => request'[r].cred \in Creds
    BY <1>1, <1>10, Zenon DEF Waiting
  <2>4. QED
    BY <2>1, <2>2, <2>3, Zenon DEF Waiting
<1>12. Caches' /\ Fewer
  BY <1>1, TickCaches, Zenon
<1>13. Verdicts'
  BY <1>1, <1>7, <1>8, <1>12, VerdictsKeep, Zenon
<1>14. QED
  BY <1>2, <1>7, <1>9, <1>11, <1>12, <1>13, SilentAnswers, Zenon DEF Serving

-----------------------------------------------------------------------------
(* The server starts with empty caches and without lookups. *)
LEMMA InitServing == Init => Serving
<1> SUFFICES ASSUME Init PROVE Serving
  BY Zenon
<1>1. /\ data = [u \in Upns |-> None] /\ rejected = [c \in Creds |-> None]
      /\ groupLookups = [c \in Creds |-> None] /\ lookup = [l \in Lookups |-> FreeLookup]
      /\ request = [r \in Requests |-> IdleRequest] /\ held = {} /\ answer = NoAnswer
  BY Zenon DEF Init, Limiter!Init
<1>2. FreeLookup \in LookupType /\ FreeLookup.pc = "free" /\ FreeLookup.result = "none"
  BY Zenon DEF FreeLookup, LookupType
<1>3. IdleRequest \in RequestType /\ IdleRequest.pc = "idle"
  BY Zenon DEF IdleRequest, RequestType
<1>4. AllSound
  <2>1. Sound(FreeLookup)
    BY <1>2, Zenon DEF Sound, Life
  <2>2. QED
    BY <1>1, <1>2, <2>1, Zenon DEF AllSound
<1>5. Registered
  BY <1>1, <1>2, ConstantFacts, Zenon DEF Registered, Running
<1>6. Permits
  BY <1>1, <1>2, Zenon DEF Permits, Holding
<1>7. Waiting
  BY <1>1, <1>3, Zenon DEF Waiting, Waits
<1>8. Known = {} /\ Denied = {}
  BY <1>1, Zenon DEF Known, Denied
<1>9. Caches
  <2>1. data \in [Upns -> Entries \cup {None}] /\ rejected \in [Creds -> Int \cup {None}]
    BY <1>1, Zenon
  <2>2. Cardinality({}) <= MaxEntries /\ IsFiniteSet({})
    BY FS_EmptySet, ConstantFacts
  <2>3. \A u \in Upns : data[u] = None
    BY <1>1, Zenon
  <2>4. QED
    BY <1>8, <2>1, <2>2, <2>3, Zenon DEF Caches
<1>10. Verdicts
  <2>1. \A c \in Creds : ~Hit(c)
    BY <1>1, ConstantFacts, Zenon DEF Hit, Entry
  <2>2. QED
    BY <1>1, <1>2, <2>1, Zenon DEF Verdicts, OneVerdict, Missing
<1>11. OwnRecentGroups
  BY <1>1, Zenon DEF OwnRecentGroups, NoAnswer
<1>12. QED
  BY <1>4, <1>5, <1>6, <1>7, <1>9, <1>10, <1>11, Zenon DEF Serving

(* Every step keeps the service in order. *)
LEMMA StepServing == Serving /\ [Next]_vars => Serving'
<1> SUFFICES ASSUME Serving, [Next]_vars PROVE Serving'
  BY Zenon
<1>1. ASSUME NEW r \in Requests, RequestNext(r) PROVE Serving'
  <2>1. CASE TurnAway(r) \/ RequestGone(r) \/ RequestRejected(r) \/ WaitCancelled(r)
    BY <2>1, RefusalKeeps, Zenon
  <2>2. CASE RequestHit(r)
    BY <2>2, RequestHitKeeps, Zenon
  <2>3. CASE WaitDone(r)
    BY <2>3, WaitDoneKeeps, Zenon
  <2>4. CASE StartLookup(r)
    BY <2>4, StartKeeps, Zenon
  <2>5. CASE (\E c \in Creds : Arrive(r, c)) \/ Cancel(r) \/ RequestMiss(r)
             \/ RequestNotRejected(r) \/ Join(r)
    BY <2>5, MoveKeeps, Zenon
  <2>6. QED
    BY <1>1, <2>1, <2>2, <2>3, <2>4, <2>5, Zenon DEF RequestNext, RequestProceeds
<1>2. ASSUME NEW l \in Lookups, LookupNext(l) PROVE Serving'
  <2>1. CASE LookupGet(l)
    BY <2>1, LookupGetKeeps, Zenon
  <2>2. CASE LookupRejected(l)
    BY <2>2, LookupRejectedKeeps, Zenon
  <2>3. CASE \/ LookupAdmitted(l) \/ LookupLimited(l) \/ LookupFetched(l) \/ LookupRefused(l)
             \/ LookupFailed(l) \/ LookupRelease(l)
    BY <2>3, LookupAloneKeeps, Zenon
  <2>4. CASE LookupStore(l)
    BY <2>4, LookupStoreKeeps, Zenon
  <2>5. CASE LookupFinish(l)
    BY <2>5, LookupFinishKeeps, Zenon
  <2>6. QED
    BY <1>2, <2>1, <2>2, <2>3, <2>4, <2>5, Zenon DEF LookupNext
<1>3. CASE Tick
  BY <1>3, TickKeeps, Zenon
<1>4. CASE UNCHANGED vars
  <2>1. /\ data' = data /\ rejected' = rejected /\ groupLookups' = groupLookups
        /\ lookup' = lookup /\ request' = request /\ held' = held /\ answer' = answer
    BY <1>4, Zenon DEF vars
  <2>2. AllSound' /\ Registered' /\ Permits'
    BY <2>1 DEF Serving, AllSound, Sound, Registered, Running, Permits
  <2>3. Waiting'
    BY <2>1, Zenon DEF Serving, Waiting, Waits
  <2>4. Caches' /\ Fewer
    BY <2>1, QuietCaches, Zenon DEF Serving
  <2>5. Verdicts'
    BY <2>1, <2>2, <2>4, VerdictsKeep, Zenon DEF Serving
  <2>6. OwnRecentGroups'
    BY <2>1, Zenon DEF Serving, OwnRecentGroups
  <2>7. QED
    BY <2>2, <2>3, <2>4, <2>5, <2>6, Zenon DEF Serving
<1>5. QED
  BY <1>1, <1>2, <1>3, <1>4, Zenon DEF Next

(* The inductive invariant holds in every reachable state. *)
LEMMA AlwaysServing == Spec => []Serving
<1>1. Init => Serving
  BY InitServing, Zenon
<1>2. Serving /\ [Next]_vars => Serving'
  BY StepServing, Zenon
<1>3. QED
  BY <1>1, <1>2, PTL DEF Spec

-----------------------------------------------------------------------------
(* Callers that wait are served from a lookup of their own credential,         *)
(* registered and running lookups are the same, permits are held exactly       *)
(* while LDAP is asked, and both caches keep to MaxEntries, whatever the       *)
(* number of callers, lookups, users and passwords.                            *)
THEOREM NobodyIsStranded == Spec => []NobodyStranded
<1>1. Serving => NobodyStranded
  <2> SUFFICES ASSUME Serving PROVE NobodyStranded
    BY Zenon
  <2>1. AllSound /\ Registered /\ Permits /\ Waiting /\ Caches
    BY Zenon DEF Serving
  <2>2. ASSUME NEW r \in Requests, request[r].pc = "wait"
        PROVE  LET l == lookup[request[r].on]
               IN  l.cred = request[r].cred /\ (l.pc = "done" => l.result \in Outcomes)
    <3>1. Waits(request[r])
      BY <2>1, Zenon DEF Waiting
    <3>2. request[r].on \in Lookups /\ lookup[request[r].on].cred = request[r].cred
      BY <2>2, <3>1, Zenon DEF Waits
    <3>3. Sound(lookup[request[r].on])
      BY <2>1, <3>2, Zenon DEF AllSound
    <3>4. QED
      BY <3>2, <3>3, Zenon DEF Sound
  <2>3. held = {l \in Lookups : lookup[l].pc \in {"fetch", "store", "release"}}
    BY <2>1, Zenon DEF Permits, Holding
  <2>4. QED
    BY <2>1, <2>2, <2>3, Zenon DEF NobodyStranded, Registered, Caches, Known, Denied
<1>2. QED
  BY <1>1, AlwaysServing, PTL

(* A caller is let through only with the groups LDAP returned for its own user *)
(* and password, not longer ago than the TTL, two lookups and its own wait.    *)
THEOREM GroupsAreOwnAndRecent == Spec => []OwnRecentGroups
<1>1. Serving => OwnRecentGroups
  BY Zenon DEF Serving
<1>2. QED
  BY <1>1, AlwaysServing, PTL

(* The two caches never both have a verdict on a credential. *)
THEOREM VerdictsAreConsistent == Spec => []OneVerdict
<1>1. Serving => OneVerdict
  BY Zenon DEF Serving, Verdicts
<1>2. QED
  BY <1>1, AlwaysServing, PTL
=============================================================================
