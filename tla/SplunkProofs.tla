----------------------------- MODULE SplunkProofs -----------------------------
EXTENDS SplunkHEC, FiniteSetTheorems, SequenceTheorems, WellFoundedInduction, TLAPS

(* Induction along a sequence, on the set of positions where a fact holds. *)
LEMMA Along ==
  ASSUME NEW n \in Nat, NEW S, 0 \in S, \A i \in 1 .. n : i - 1 \in S => i \in S
  PROVE  0 .. n \subseteq S
<1> DEFINE Bad == {i \in 0 .. n : i \notin S}
<1>1. SUFFICES ASSUME Bad # {} PROVE FALSE
  BY Zenon
<1>2. Bad \subseteq Nat
  OBVIOUS
<1>3. PICK x \in Bad : \A y \in Bad : ~(<<y, x>> \in OpToRel(<, Nat))
  BY <1>1, <1>2, WFMin, NatLessThanWellFounded, Zenon
<1>4. \A y \in Bad : ~(y < x)
  BY <1>2, <1>3, Zenon DEF OpToRel
<1>5. x \in 1 .. n /\ x - 1 \notin Bad /\ x - 1 \in 0 .. n
  BY <1>4
<1>6. QED
  BY <1>5, Zenon

Solves(F, n, X, base, step) ==
  /\ F \in [0 .. n -> X] /\ F[0] = base
  /\ \A i \in 1 .. n : F[i] = step[i][F[i - 1]]

(* A recursive definition along a sequence has a solution. *)
LEMMA Recursion ==
  ASSUME NEW n \in Nat, NEW X, NEW base \in X, NEW step \in [1 .. n -> [X -> X]]
  PROVE  \E F : Solves(F, n, X, base, step)
<1> DEFINE Upto(k, F) == F[0] = base /\ \A i \in 1 .. k : F[i] = step[i][F[i - 1]]
           S == {k \in 0 .. n : \E F \in [0 .. n -> X] : Upto(k, F)}
<1>1. 0 \in S
  <2>1. Upto(0, [i \in 0 .. n |-> base]) /\ [i \in 0 .. n |-> base] \in [0 .. n -> X]
    OBVIOUS
  <2> HIDE DEF Upto
  <2>2. \E F \in [0 .. n -> X] : Upto(0, F)
    BY <2>1, Zenon
  <2>3. QED
    BY <2>2
<1>2. ASSUME NEW k \in 1 .. n, k - 1 \in S PROVE k \in S
  <2>1. PICK F \in [0 .. n -> X] : Upto(k - 1, F)
    BY <1>2, Zenon
  <2> DEFINE G == [F EXCEPT ![k] = step[k][F[k - 1]]]
  <2>2. G \in [0 .. n -> X] /\ G[k] = step[k][F[k - 1]] /\ \A i \in 0 .. n : i # k => G[i] = F[i]
    OBVIOUS
  <2> HIDE DEF G
  <2>3. G[0] = base
    BY <2>1, <2>2
  <2>4. ASSUME NEW i \in 1 .. k PROVE G[i] = step[i][G[i - 1]]
    <3>1. G[i - 1] = F[i - 1]
      BY <2>2
    <3>2. CASE i = k
      BY <2>2, <3>1, <3>2, Zenon
    <3>3. CASE i # k
      <4>1. i \in 1 .. k - 1 /\ i \in 0 .. n
        BY <3>3
      <4>2. QED
        BY <2>1, <2>2, <3>1, <3>3, <4>1, Zenon
    <3>4. QED
      BY <3>2, <3>3, Zenon
  <2>5. Upto(k, G)
    BY <2>3, <2>4, Zenon
  <2>6. QED
    BY <2>2, <2>5
<1> HIDE DEF S
<1>3. 0 .. n \subseteq S
  <2>1. \A k \in 1 .. n : k - 1 \in S => k \in S
    BY <1>2, Zenon
  <2>2. QED
    BY <1>1, <2>1, Along, Zenon
<1>4. QED
  <2>1. n \in S
    BY <1>3
  <2>2. QED
    BY <2>1, Zenon DEF S, Solves

-----------------------------------------------------------------------------
Events == 1 .. NumEvents

(* Bytes is the sum of the sizes, computed along the sequence. *)
LEMMA BytesSum ==
  ASSUME NEW s \in Seq(Events)
  PROVE  \E sum \in [0 .. Len(s) -> Nat] :
           /\ sum[0] = 0 /\ Bytes(s) = sum[Len(s)]
           /\ \A i \in 1 .. Len(s) : sum[i] = sum[i - 1] + Size[s[i]]
<1> DEFINE Eq(F) == F = [i \in 0 .. Len(s) |-> IF i = 0 THEN 0 ELSE F[i - 1] + Size[s[i]]]
           sum == CHOOSE F : Eq(F)
           step == [i \in 1 .. Len(s) |-> [x \in Nat |-> x + Size[s[i]]]]
<1>1. Len(s) \in Nat /\ \A i \in 1 .. Len(s) : Size[s[i]] \in Nat
  BY SplunkAssumption DEF Events
<1>2. step \in [1 .. Len(s) -> [Nat -> Nat]]
  BY <1>1
<1>3. PICK F : Solves(F, Len(s), Nat, 0, step)
  <2> HIDE DEF step
  <2>1. 0 \in Nat /\ Len(s) \in Nat
    BY <1>1, Zenon
  <2>2. QED
    BY <1>2, <2>1, Recursion, Zenon
<1>4. ASSUME NEW i \in 1 .. Len(s) PROVE F[i] = F[i - 1] + Size[s[i]]
  <2>0. i - 1 \in 0 .. Len(s)
    BY <1>1
  <2> HIDE DEF step
  <2>1. F[i - 1] \in Nat
    BY <2>0, <1>3, Zenon DEF Solves
  <2> USE DEF step
  <2>2. step[i][F[i - 1]] = F[i - 1] + Size[s[i]]
    BY <2>1, Zenon
  <2> HIDE DEF step
  <2>3. QED
    BY <1>3, <2>2, Zenon DEF Solves
<1>5. Eq(F)
  BY <1>1, <1>3, <1>4 DEF Solves
<1>6. Eq(sum)
  <2> HIDE DEF Eq
  <2>1. QED
    BY <1>5, Zenon
<1>7. Bytes(s) = sum[Len(s)]
  BY Zenon DEF Bytes
<1>8. /\ sum \in [0 .. Len(s) -> Nat]
      /\ sum[0] = 0
      /\ \A i \in 1 .. Len(s) : sum[i] = sum[i - 1] + Size[s[i]]
  <2> HIDE DEF sum
  <2>0. sum = [i \in 0 .. Len(s) |-> IF i = 0 THEN 0 ELSE sum[i - 1] + Size[s[i]]]
    BY <1>6, Zenon
  <2>6. \A i \in 0 .. Len(s) : sum[i] = IF i = 0 THEN 0 ELSE sum[i - 1] + Size[s[i]]
    BY <2>0, Zenon
  <2>1. sum[0] = 0 /\ \A i \in 1 .. Len(s) : sum[i] = sum[i - 1] + Size[s[i]]
    BY <1>1, <2>6
  <2> DEFINE S == {i \in 0 .. Len(s) : sum[i] \in Nat}
  <2>2. 0 \in S
    BY <1>1, <2>1
  <2>7. ASSUME NEW i \in 1 .. Len(s), i - 1 \in S PROVE i \in S
    BY <1>1, <2>1, <2>7
  <2> HIDE DEF S
  <2>3. 0 .. Len(s) \subseteq S
    BY <1>1, <2>2, <2>7, Along, Zenon
  <2>4. \A i \in 0 .. Len(s) : sum[i] \in Nat
    BY <2>3, Zenon DEF S
  <2>5. QED
    BY <1>6, <2>1, <2>4, Zenon
<1> HIDE DEF sum
<1>9. QED
  BY <1>7, <1>8, Zenon

(* No events take no bytes. *)
LEMMA BytesEmpty == Bytes(<<>>) = 0
<1>1. <<>> \in Seq(Events) /\ Len(<<>>) = 0
  OBVIOUS
<1>2. PICK sum \in [0 .. Len(<<>>) -> Nat] : sum[0] = 0 /\ Bytes(<<>>) = sum[Len(<<>>)]
  BY <1>1, BytesSum, Zenon
<1>3. QED
  BY <1>1, <1>2, Zenon

(* One more event takes its size more. *)
LEMMA BytesAppend ==
  ASSUME NEW s \in Seq(Events), NEW e \in Events
  PROVE  Bytes(s) \in Nat /\ Bytes(Append(s, e)) = Bytes(s) + Size[e]
<1> DEFINE t == Append(s, e)
           n == Len(s)
<1>1. /\ t \in Seq(Events) /\ n \in Nat /\ Len(t) = n + 1 /\ t[n + 1] = e
      /\ \A i \in 1 .. n : t[i] = s[i]
  OBVIOUS
<1> HIDE DEF t, n
<1>2. PICK a \in [0 .. n -> Nat] :
        a[0] = 0 /\ Bytes(s) = a[n] /\ \A i \in 1 .. n : a[i] = a[i - 1] + Size[s[i]]
  BY BytesSum, Zenon DEF n
<1>3. PICK b \in [0 .. Len(t) -> Nat] :
        b[0] = 0 /\ Bytes(t) = b[Len(t)] /\ \A i \in 1 .. Len(t) : b[i] = b[i - 1] + Size[t[i]]
  BY <1>1, BytesSum, Zenon
<1> DEFINE S == {i \in 0 .. n : a[i] = b[i]}
<1>4. 0 \in S
  BY <1>1, <1>2, <1>3
<1>5. ASSUME NEW i \in 1 .. n, i - 1 \in S PROVE i \in S
  <2>1. i \in 1 .. Len(t) /\ t[i] = s[i] /\ a[i - 1] = b[i - 1]
    BY <1>1, <1>5, SMTT(30)
  <2>2. a[i] = a[i - 1] + Size[s[i]] /\ b[i] = b[i - 1] + Size[t[i]]
    BY <1>2, <1>3, <2>1, Zenon
  <2>3. QED
    BY <1>1, <2>1, <2>2
<1> HIDE DEF S
<1>6. 0 .. n \subseteq S
  BY <1>1, <1>4, <1>5, Along, Zenon
<1>7. a[n] = b[n]
  <2>1. n \in 0 .. n
    BY <1>1
  <2>2. QED
    BY <1>6, <2>1, Zenon DEF S
<1>8. b[n + 1] = b[n] + Size[e]
  <2>1. n + 1 \in 1 .. Len(t) /\ (n + 1) - 1 = n
    BY <1>1
  <2>2. b[n + 1] = b[(n + 1) - 1] + Size[t[n + 1]]
    BY <1>3, <2>1, Zenon
  <2>3. QED
    BY <1>1, <2>1, <2>2, Zenon
<1>9. QED
  BY <1>1, <1>2, <1>3, <1>7, <1>8 DEF t

(* What remains of a queue is not larger than the queue. *)
LEMMA BytesSuffix ==
  ASSUME NEW s \in Seq(Events), NEW k \in 0 .. Len(s)
  PROVE  Bytes(SubSeq(s, k + 1, Len(s))) <= Bytes(s)
<1> DEFINE t == SubSeq(s, k + 1, Len(s))
           n == Len(s)
<1>1. n \in Nat /\ k \in 0 .. n
  OBVIOUS
<1>2. t \in Seq(Events) /\ Len(t) = n - k /\ \A i \in 1 .. n - k : t[i] = s[k + i]
  BY <1>1
<1> HIDE DEF t, n
<1>3. PICK a \in [0 .. n -> Nat] :
        a[0] = 0 /\ Bytes(s) = a[n] /\ \A i \in 1 .. n : a[i] = a[i - 1] + Size[s[i]]
  BY BytesSum, Zenon DEF n
<1>4. PICK b \in [0 .. Len(t) -> Nat] :
        b[0] = 0 /\ Bytes(t) = b[Len(t)] /\ \A i \in 1 .. Len(t) : b[i] = b[i - 1] + Size[t[i]]
  BY <1>2, BytesSum, Zenon
<1> DEFINE S == {i \in 0 .. n - k : a[k] + b[i] = a[k + i]}
<1>5. 0 \in S
  BY <1>1, <1>2, <1>3, <1>4
<1>6. ASSUME NEW i \in 1 .. n - k, i - 1 \in S PROVE i \in S
  <2>1. /\ i \in 1 .. Len(t) /\ t[i] = s[k + i] /\ k + i \in 1 .. n /\ (k + i) - 1 \in 0 .. n
        /\ k + (i - 1) = (k + i) - 1 /\ i - 1 \in 0 .. Len(t) /\ i \in 0 .. Len(t)
    BY <1>1, <1>2
  <2>2. a[k] + b[i - 1] = a[(k + i) - 1]
    BY <1>6, <2>1, Zenon
  <2>3. a[k + i] = a[(k + i) - 1] + Size[s[k + i]] /\ b[i] = b[i - 1] + Size[s[k + i]]
    BY <1>3, <1>4, <2>1, Zenon
  <2>4. Size[s[k + i]] \in Nat /\ a[k] \in Nat /\ b[i - 1] \in Nat /\ b[i] \in Nat
    <3>1. s[k + i] \in Events
      BY <2>1 DEF n
    <3>2. Size[s[k + i]] \in Nat
      BY <3>1, SplunkAssumption, Zenon DEF Events
    <3>3. QED
      BY <1>1, <2>1, <3>2, Zenon
  <2>5. a[k] + b[i] = a[k + i]
    BY <2>2, <2>3, <2>4, SMTT(30)
  <2>6. QED
    BY <2>5
<1> HIDE DEF S
<1>7. 0 .. n - k \subseteq S
  <2>1. n - k \in Nat
    BY <1>1
  <2>2. QED
    BY <1>5, <1>6, <2>1, Along, Zenon
<1>8. a[k] + b[n - k] = a[n]
  <2>1. n - k \in 0 .. n - k /\ k + (n - k) = n
    BY <1>1
  <2>2. n - k \in S
    BY <1>7, <2>1, Zenon
  <2>3. QED
    BY <2>1, <2>2, Zenon DEF S
<1>9. a[k] \in Nat /\ b[n - k] \in Nat /\ a[n] \in Nat
  BY <1>1, <1>2, <1>3, <1>4
<1>10. Bytes(t) <= Bytes(s)
  BY <1>2, <1>3, <1>4, <1>8, <1>9
<1>11. QED
  BY <1>10, Zenon DEF t, n

-----------------------------------------------------------------------------
(* All of a comes before all of b. *)
Before(a, b) == \A i \in 1 .. Len(a), j \in 1 .. Len(b) : a[i] < b[j]

(* Events are numbered as they are logged. *)
LEMMA EventsAreNumbers == \A s \in Seq(Events) : s \in Seq(Nat)
<1>1. \A e \in Events : e \in Nat
  BY DEF Events
<1>2. QED
  BY <1>1

(* What it means to be in a queue. *)
LEMMA ToSetFacts ==
  ASSUME NEW X, NEW s \in Seq(X)
  PROVE  \A x : x \in ToSet(s) <=> \E i \in 1 .. Len(s) : s[i] = x
BY DEF ToSet

(* A later event at the end keeps the order. *)
LEMMA AppendIncreasing ==
  ASSUME NEW s \in Seq(Nat), NEW e \in Nat, Increasing(s), \A i \in 1 .. Len(s) : s[i] < e
  PROVE  Increasing(Append(s, e))
BY DEF Increasing

(* What Restored keeps: all that was not sent, in front, and of the rest as    *)
(* much as fits, in its order.                                                 *)
RestoredOK(kept, events, current, i) ==
  /\ kept \in Seq(Events)
  /\ Len(kept) <= Len(events) + i
  /\ ToSet(events) \subseteq ToSet(kept)
  /\ \A j \in 1 .. Len(kept) :
       \/ \E m \in 1 .. Len(events) : kept[j] = events[m]
       \/ \E m \in 1 .. i : kept[j] = current[m]
  /\ Increasing(kept)
  /\ Bytes(kept) <= MaxPending

(* restorePending keeps what was not sent, in order, then what still fits *)
(* of the newer events.                                                   *)
LEMMA RestoredFacts ==
  ASSUME NEW events \in Seq(Events), NEW current \in Seq(Events),
         Increasing(events), Increasing(current), Before(events, current),
         Bytes(events) <= MaxPending
  PROVE  RestoredOK(Restored(events, current), events, current, Len(current))
<1> DEFINE n == Len(current)
           X == Seq(Events)
           Eq(F) == F = [i \in 0 .. n |->
                           IF i = 0 THEN events ELSE Enqueued(F[i - 1], current[i])]
           kept == CHOOSE F : Eq(F)
           step == [i \in 1 .. n |-> [x \in X |-> Enqueued(x, current[i])]]
<1>1. n \in Nat /\ \A i \in 1 .. n : current[i] \in Events
  OBVIOUS
<1>2. step \in [1 .. n -> [X -> X]]
  BY <1>1 DEF Enqueued
<1>3. PICK F : Solves(F, n, X, events, step)
  <2> HIDE DEF step, n, X
  <2>1. events \in X
    BY Zenon DEF X
  <2>2. QED
    BY <1>1, <1>2, <2>1, Recursion, Zenon
<1>4. ASSUME NEW i \in 1 .. n PROVE F[i] = Enqueued(F[i - 1], current[i])
  <2>1. i - 1 \in 0 .. n
    BY <1>1
  <2> HIDE DEF step, X
  <2>2. F[i - 1] \in X
    BY <1>3, <2>1, Zenon DEF Solves
  <2> USE DEF step
  <2>3. step[i][F[i - 1]] = Enqueued(F[i - 1], current[i])
    BY <2>2, Zenon
  <2> HIDE DEF step
  <2>4. QED
    BY <1>3, <2>3, Zenon DEF Solves
<1> HIDE DEF n
<1>5. Eq(F)
  BY <1>1, <1>3, <1>4 DEF Solves
<1>6. Eq(kept)
  <2> HIDE DEF Eq
  <2>1. QED
    BY <1>5, Zenon
<1>7. Restored(events, current) = kept[n]
  BY Zenon DEF Restored, n
<1> HIDE DEF kept
<1>8. \A i \in 0 .. n : kept[i] = IF i = 0 THEN events ELSE Enqueued(kept[i - 1], current[i])
  <2>1. kept = [i \in 0 .. n |-> IF i = 0 THEN events ELSE Enqueued(kept[i - 1], current[i])]
    BY <1>6, Zenon
  <2>2. QED
    BY <2>1, Zenon
<1> DEFINE S == {i \in 0 .. n : RestoredOK(kept[i], events, current, i)}
<1>9. 0 \in S
  <2>1. kept[0] = events /\ 0 \in 0 .. n
    BY <1>1, <1>8
  <2>2. RestoredOK(events, events, current, 0)
    BY DEF RestoredOK
  <2>3. QED
    BY <2>1, <2>2, Zenon
<1>10. ASSUME NEW i \in 1 .. n, i - 1 \in S PROVE i \in S
  <2> DEFINE k == kept[i - 1]
             e == current[i]
  <2>1. RestoredOK(k, events, current, i - 1) /\ kept[i] = Enqueued(k, e) /\ i \in 0 .. n
    BY <1>1, <1>8, <1>10
  <2>2. e \in Events
    BY <1>1, Zenon
  <2> HIDE DEF k
  <2>3. ASSUME NEW j \in 1 .. Len(k) PROVE k[j] < e
    <3>1. \/ \E m \in 1 .. Len(events) : k[j] = events[m]
          \/ \E m \in 1 .. i - 1 : k[j] = current[m]
      BY <2>1, Zenon DEF RestoredOK
    <3>2. \A m \in 1 .. Len(events) : events[m] < e
      BY Zenon DEF Before, n
    <3>3. \A m \in 1 .. i - 1 : m \in 1 .. Len(current) /\ m < i
      BY <1>1 DEF n
    <3>4. \A m \in 1 .. i - 1 : current[m] < e
      BY <3>3, Zenon DEF Increasing, n
    <3>5. QED
      BY <3>1, <3>2, <3>4, Zenon
  <2> HIDE DEF e
  <2>4. CASE Bytes(k) + Size[e] > MaxPending
    <3>1. \A m \in 1 .. i - 1 : m \in 1 .. i
      BY <1>1
    <3>3. Len(k) <= Len(events) + i
      BY <1>1, <2>1 DEF RestoredOK
    <3>4. RestoredOK(k, events, current, i)
      BY <2>1, <3>1, <3>3, Zenon DEF RestoredOK
    <3>2. QED
      BY <2>1, <2>4, <3>4, Zenon DEF Enqueued
  <2>5. CASE ~(Bytes(k) + Size[e] > MaxPending)
    <3> DEFINE a == Append(k, e)
    <3>1. k \in Seq(Events) /\ k \in Seq(Nat) /\ e \in Nat
      BY <2>1, <2>2, EventsAreNumbers DEF RestoredOK, Events
    <3>2. /\ a \in Seq(Events) /\ Len(a) = Len(k) + 1 /\ a[Len(k) + 1] = e
          /\ \A j \in 1 .. Len(k) : a[j] = k[j]
      BY <2>2, <3>1
    <3>3. Increasing(a)
      BY <2>1, <2>3, <3>1, AppendIncreasing, Zenon DEF RestoredOK
    <3>4. Bytes(a) <= MaxPending
      <4>1. Bytes(k) \in Nat /\ Bytes(a) = Bytes(k) + Size[e] /\ Size[e] \in Nat /\ MaxPending \in Nat
        BY <2>2, <3>1, BytesAppend, SplunkAssumption, Zenon DEF Events
      <4>2. QED
        BY <2>5, <4>1
    <3> HIDE DEF a
    <3>5. ToSet(k) \subseteq ToSet(a)
      <4>1. \A x : x \in ToSet(k) <=> \E j \in 1 .. Len(k) : k[j] = x
        BY <3>1, ToSetFacts, Zenon
      <4>2. \A x : x \in ToSet(a) <=> \E j \in 1 .. Len(a) : a[j] = x
        BY <3>2, ToSetFacts, Zenon
      <4>3. \A j \in 1 .. Len(k) : j \in 1 .. Len(a)
        BY <3>1, <3>2
      <4>4. QED
        BY <3>2, <4>1, <4>2, <4>3, Zenon
    <3>6. ASSUME NEW j \in 1 .. Len(a)
          PROVE  \/ \E m \in 1 .. Len(events) : a[j] = events[m]
                 \/ \E m \in 1 .. i : a[j] = current[m]
      <4>1. CASE j = Len(k) + 1
        BY <1>1, <3>2, <4>1 DEF e
      <4>2. CASE j \in 1 .. Len(k)
        <5>1. \A m \in 1 .. i - 1 : m \in 1 .. i
          BY <1>1
        <5>2. QED
          BY <2>1, <3>2, <4>2, <5>1, Zenon DEF RestoredOK
      <4>3. QED
        BY <3>1, <3>2, <4>1, <4>2
    <3>7. Len(a) <= Len(events) + i
      BY <1>1, <2>1, <3>1, <3>2 DEF RestoredOK
    <3>8. RestoredOK(a, events, current, i)
      BY <2>1, <3>2, <3>3, <3>4, <3>5, <3>6, <3>7, Zenon DEF RestoredOK
    <3>9. kept[i] = a
      BY <2>1, <2>5, Zenon DEF Enqueued, a
    <3>10. QED
      BY <2>1, <3>8, <3>9, Zenon
  <2>6. QED
    BY <2>4, <2>5, Zenon
<1> HIDE DEF S
<1>11. 0 .. n \subseteq S
  BY <1>1, <1>9, <1>10, Along, Zenon
<1>12. n \in S
  BY <1>1, <1>11
<1>13. RestoredOK(kept[n], events, current, n)
  BY <1>12, Zenon DEF S
<1>14. QED
  BY <1>7, <1>13, Zenon DEF n

-----------------------------------------------------------------------------
(* An increasing sequence has as many elements as positions. *)
LEMMA CountFacts ==
  ASSUME NEW s \in Seq(Events), Increasing(s)
  PROVE  IsFiniteSet(ToSet(s)) /\ Cardinality(ToSet(s)) = Len(s)
<1> DEFINE n == Len(s)
           T == ToSet(s)
<1>1. n \in Nat /\ s \in [1 .. n -> Events] /\ \A i \in 1 .. n : s[i] \in Nat
  <2>1. n \in Nat /\ s \in [1 .. n -> Events]
    BY LenProperties, Zenon
  <2>2. QED
    BY <2>1 DEF Events
<1>2. \A x : x \in T <=> \E i \in 1 .. n : s[i] = x
  BY ToSetFacts, Zenon
<1>3. \A i, j \in 1 .. n : i < j => s[i] < s[j]
  BY Zenon DEF Increasing
<1>4. DOMAIN s = 1 .. n
  BY <1>1, Zenon
<1> HIDE DEF T, n
<1>5. s \in [1 .. n -> T]
  BY <1>1, <1>2, Zenon
<1>6. \A i, j \in 1 .. n : s[i] = s[j] => i = j
  <2> SUFFICES ASSUME NEW i \in 1 .. n, NEW j \in 1 .. n, s[i] = s[j], i # j PROVE FALSE
    BY Zenon
  <2>1. i < j \/ j < i
    BY <1>1
  <2>2. s[i] \in Nat /\ s[j] \in Nat
    BY <1>1, Zenon
  <2>3. QED
    BY <1>3, <2>1, <2>2
<1>7. s \in Bijection(1 .. n, T)
  BY <1>2, <1>4, <1>5, <1>6, Zenon DEF Bijection, Injection, Surjection, IsInjective
<1>8. ExistsBijection(1 .. n, T)
  BY <1>7, Zenon DEF ExistsBijection
<1>9. IsFiniteSet(1 .. n) /\ Cardinality(1 .. n) = n
  BY <1>1, FS_Interval
<1>10. QED
  BY <1>8, <1>9, FS_Bijection, Zenon DEF T, n

(* What the collector has after a batch: the batch too, still in order if its  *)
(* new events come after everything received before.                           *)
ReceiveOK(got, before, batch, i) ==
  /\ got \in Seq(Events)
  /\ \A x : x \in ToSet(got) <=> (x \in ToSet(before) \/ \E m \in 1 .. i : batch[m] = x)
  /\ Increasing(got)

(* The collector stores a batch after everything older, and events that   *)
(* it has already once.                                                   *)
LEMMA ReceiveFacts ==
  ASSUME received \in Seq(Events), NEW batch \in Seq(Events),
         Increasing(received), Increasing(batch),
         \A m \in 1 .. Len(batch) : batch[m] \in ToSet(received)
           \/ \A e \in ToSet(received) : e < batch[m]
  PROVE  ReceiveOK(Receive(batch), received, batch, Len(batch))
<1> DEFINE n == Len(batch)
           X == Seq(Events)
           next(x, i) == IF batch[i] \in ToSet(x) THEN x ELSE Append(x, batch[i])
           Eq(F) == F = [i \in 0 .. n |-> IF i = 0 THEN received ELSE next(F[i - 1], i)]
           got == CHOOSE F : Eq(F)
           step == [i \in 1 .. n |-> [x \in X |-> next(x, i)]]
<1>1. n \in Nat /\ \A i \in 1 .. n : batch[i] \in Events
  OBVIOUS
<1>2. step \in [1 .. n -> [X -> X]]
  BY <1>1
<1>3. Receive(batch) = got[n]
  BY Zenon DEF Receive
<1> HIDE DEF next
<1>4. PICK F : Solves(F, n, X, received, step)
  <2> HIDE DEF step, n, X
  <2>1. received \in X
    BY Zenon DEF X
  <2>2. QED
    BY <1>1, <1>2, <2>1, Recursion, Zenon
<1>5. ASSUME NEW i \in 1 .. n PROVE F[i] = next(F[i - 1], i)
  <2>1. i - 1 \in 0 .. n
    BY <1>1
  <2> HIDE DEF step, X
  <2>2. F[i - 1] \in X
    BY <1>4, <2>1, Zenon DEF Solves
  <2> USE DEF step
  <2>3. step[i][F[i - 1]] = next(F[i - 1], i)
    BY <2>2, Zenon
  <2> HIDE DEF step
  <2>4. QED
    BY <1>4, <2>3, Zenon DEF Solves
<1> HIDE DEF n
<1>6. Eq(F)
  BY <1>1, <1>4, <1>5 DEF Solves
<1>7. Eq(got)
  <2> HIDE DEF Eq
  <2>1. QED
    BY <1>6, Zenon
<1> HIDE DEF got
<1>8. \A i \in 0 .. n : got[i] = IF i = 0 THEN received ELSE next(got[i - 1], i)
  <2>1. got = [i \in 0 .. n |-> IF i = 0 THEN received ELSE next(got[i - 1], i)]
    BY <1>7, Zenon
  <2>2. QED
    BY <2>1, Zenon
<1> DEFINE S == {i \in 0 .. n : ReceiveOK(got[i], received, batch, i)}
<1>9. 0 \in S
  <2>1. got[0] = received /\ 0 \in 0 .. n
    BY <1>1, <1>8
  <2>2. ReceiveOK(received, received, batch, 0)
    BY DEF ReceiveOK
  <2>3. QED
    BY <2>1, <2>2, Zenon
<1>10. ASSUME NEW i \in 1 .. n, i - 1 \in S PROVE i \in S
  <2> DEFINE k == got[i - 1]
             e == batch[i]
  <2>1. /\ ReceiveOK(k, received, batch, i - 1) /\ i \in 0 .. n /\ e \in Events
        /\ got[i] = IF e \in ToSet(k) THEN k ELSE Append(k, e)
    BY <1>1, <1>8, <1>10 DEF next
  <2>2. \A x : (\E m \in 1 .. i : batch[m] = x) <=> ((\E m \in 1 .. i - 1 : batch[m] = x) \/ x = e)
    <3>1. \A m \in 1 .. i : m \in 1 .. i - 1 \/ m = i
      BY <1>1
    <3>2. i \in 1 .. i /\ \A m \in 1 .. i - 1 : m \in 1 .. i
      BY <1>1
    <3>3. QED
      BY <3>1, <3>2, Zenon
  <2> HIDE DEF k
  <2>3. CASE e \in ToSet(k)
    <3>1. ReceiveOK(k, received, batch, i)
      BY <2>1, <2>2, <2>3, Zenon DEF ReceiveOK
    <3>2. QED
      BY <2>1, <2>3, <3>1, Zenon
  <2>4. CASE e \notin ToSet(k)
    <3> DEFINE a == Append(k, e)
    <3>1. k \in Seq(Events) /\ k \in Seq(Nat) /\ e \in Nat
      BY <2>1, EventsAreNumbers DEF ReceiveOK, Events
    <3>2. \A j \in 1 .. Len(k) : k[j] < e
      <4>1. \A m \in 1 .. i - 1 : batch[m] < e
        <5>1. \A m \in 1 .. i - 1 : m \in 1 .. Len(batch) /\ m < i /\ i \in 1 .. Len(batch)
          BY <1>1 DEF n
        <5>2. QED
          BY <5>1, Zenon DEF Increasing
      <4>2. e \notin ToSet(received)
        BY <2>1, <2>4, Zenon DEF ReceiveOK
      <4>3. \A x \in ToSet(received) : x < e
        BY <4>2, Zenon DEF n
      <4>4. \A j \in 1 .. Len(k) : k[j] \in ToSet(k)
        BY <3>1, ToSetFacts, Zenon
      <4>5. QED
        BY <2>1, <4>1, <4>3, <4>4, Zenon DEF ReceiveOK
    <3>3. Increasing(a)
      BY <2>1, <3>1, <3>2, AppendIncreasing, Zenon DEF ReceiveOK
    <3>4. a \in Seq(Events)
      BY <2>1, <3>1
    <3>5. \A x : x \in ToSet(a) <=> (x \in ToSet(k) \/ x = e)
      <4>1. \A x : x \in ToSet(k) <=> \E j \in 1 .. Len(k) : k[j] = x
        BY <3>1, ToSetFacts, Zenon
      <4>2. \A x : x \in ToSet(a) <=> \E j \in 1 .. Len(a) : a[j] = x
        BY <3>4, ToSetFacts, Zenon
      <4>3. Len(a) = Len(k) + 1 /\ a[Len(k) + 1] = e /\ \A j \in 1 .. Len(k) : a[j] = k[j]
        BY <2>1, <3>1
      <4>4. /\ \A j \in 1 .. Len(k) : j \in 1 .. Len(a)
            /\ Len(k) + 1 \in 1 .. Len(a)
            /\ \A j \in 1 .. Len(a) : j \in 1 .. Len(k) \/ j = Len(k) + 1
        BY <3>1, <4>3
      <4> HIDE DEF a
      <4>5. QED
        BY <4>1, <4>2, <4>3, <4>4, Zenon
    <3>6. got[i] = a
      BY <2>1, <2>4, Zenon
    <3> HIDE DEF a
    <3>7. ReceiveOK(a, received, batch, i)
      BY <2>1, <2>2, <3>3, <3>4, <3>5, Zenon DEF ReceiveOK
    <3>8. QED
      BY <2>1, <3>6, <3>7, Zenon
  <2>5. QED
    BY <2>3, <2>4, Zenon
<1> HIDE DEF S
<1>11. 0 .. n \subseteq S
  BY <1>1, <1>9, <1>10, Along, Zenon
<1>12. n \in S
  BY <1>1, <1>11
<1>13. ReceiveOK(got[n], received, batch, n)
  BY <1>12, Zenon DEF S
<1>14. QED
  BY <1>3, <1>13, Zenon DEF n

-----------------------------------------------------------------------------
(* A batch is a nonempty front part of what is in hand; the rest follows it. *)
LEMMA BatchCount ==
  ASSUME NEW s \in Seq(Events), s # <<>>
  PROVE  BatchEventCount(s) \in 1 .. Len(s)
<1> DEFINE fit == {m \in 1 .. Len(s) : m = 1 \/ Fits(s, m)}
           gaps == {Len(s) - m : m \in fit}
<1>1. Len(s) \in Nat /\ Len(s) >= 1
  OBVIOUS
<1>2. gaps \subseteq Nat /\ Len(s) - 1 \in gaps
  <2>1. 1 \in fit
    BY <1>1
  <2>2. \A m \in fit : Len(s) - m \in Nat
    BY <1>1
  <2> HIDE DEF fit
  <2>3. QED
    BY <2>1, <2>2, Zenon
<1>3. PICK x \in gaps : \A y \in gaps : ~(<<y, x>> \in OpToRel(<, Nat))
  BY <1>2, WFMin, NatLessThanWellFounded, Zenon
<1>4. \A y \in gaps : ~(y < x)
  BY <1>2, <1>3, Zenon DEF OpToRel
<1>5. PICK m \in fit : x = Len(s) - m
  BY Zenon
<1>6. m = Len(s) \/ ~Fits(s, m + 1)
  <2> SUFFICES ASSUME m # Len(s), Fits(s, m + 1) PROVE FALSE
    BY Zenon
  <2>1. m + 1 \in fit
    BY <1>1, <1>5
  <2>2. Len(s) - (m + 1) \in gaps
    BY <2>1, Zenon
  <2>3. Len(s) - (m + 1) < x
    BY <1>1, <1>5
  <2>4. QED
    BY <1>4, <2>2, <2>3, Zenon
<1>7. m \in 1 .. Len(s) /\ (m = 1 \/ Fits(s, m))
  BY <1>5, Zenon
<1> HIDE DEF fit, gaps
<1>8. QED
  BY <1>6, <1>7, Zenon DEF BatchEventCount

(* A queue split into a batch and the rest. *)
LEMMA SplitFacts ==
  ASSUME NEW s \in Seq(Events), NEW n \in 1 .. Len(s), Increasing(s)
  PROVE  LET batch == SubSeq(s, 1, n)
             rest == SubSeq(s, n + 1, Len(s))
         IN /\ batch \in Seq(Events) /\ rest \in Seq(Events) /\ Len(batch) = n
            /\ Increasing(batch) /\ Increasing(rest) /\ Before(batch, rest)
            /\ \A x : x \in ToSet(s) <=> x \in ToSet(batch) \/ x \in ToSet(rest)
            /\ \A x : ~(x \in ToSet(batch) /\ x \in ToSet(rest))
<1> DEFINE batch == SubSeq(s, 1, n)
           rest == SubSeq(s, n + 1, Len(s))
<1>1. Len(s) \in Nat /\ n \in Nat
  OBVIOUS
<1>2. batch \in Seq(Events) /\ Len(batch) = n /\ \A i \in 1 .. n : batch[i] = s[i]
  BY <1>1
<1>3. /\ rest \in Seq(Events) /\ Len(rest) = Len(s) - n
      /\ \A i \in 1 .. Len(s) - n : rest[i] = s[n + i]
  BY <1>1
<1> HIDE DEF batch, rest
<1>4. \A i, j \in 1 .. Len(s) : i < j => s[i] < s[j]
  BY Zenon DEF Increasing
<1>5. Increasing(batch)
  BY <1>1, <1>2, <1>4 DEF Increasing
<1>6. \A i \in 1 .. Len(s) - n : n + i \in 1 .. Len(s) /\ n < n + i
  BY <1>1
<1>7. Increasing(rest)
  BY <1>1, <1>3, <1>4, <1>6, SMTT(30) DEF Increasing
<1>8. Before(batch, rest)
  <2> SUFFICES ASSUME NEW i \in 1 .. n, NEW j \in 1 .. Len(s) - n PROVE batch[i] < rest[j]
    BY <1>2, <1>3, Zenon DEF Before
  <2>1. i \in 1 .. Len(s) /\ n + j \in 1 .. Len(s) /\ i < n + j
    BY <1>1, <1>6
  <2>2. QED
    BY <1>2, <1>3, <1>4, <2>1, Zenon
<1>9. \A x : x \in ToSet(s) <=> \E i \in 1 .. Len(s) : s[i] = x
  BY ToSetFacts, Zenon
<1>10. \A x : x \in ToSet(batch) <=> \E i \in 1 .. n : batch[i] = x
  BY <1>2, ToSetFacts, Zenon
<1>11. \A x : x \in ToSet(rest) <=> \E i \in 1 .. Len(s) - n : rest[i] = x
  <2>1. \A x : x \in ToSet(rest) <=> \E i \in 1 .. Len(rest) : rest[i] = x
    BY <1>3, ToSetFacts, Zenon
  <2>2. QED
    BY <1>3, <2>1, Zenon
<1>12. \A x : x \in ToSet(s) <=> x \in ToSet(batch) \/ x \in ToSet(rest)
  <2>1. ASSUME NEW i \in 1 .. Len(s) PROVE s[i] \in ToSet(batch) \/ s[i] \in ToSet(rest)
    <3>1. CASE i \in 1 .. n
      BY <1>2, <1>10, <3>1, Zenon
    <3>2. CASE i \notin 1 .. n
      <4>1. i - n \in 1 .. Len(s) - n /\ n + (i - n) = i
        BY <1>1, <3>2
      <4>2. rest[i - n] = s[i]
        BY <1>3, <4>1, Zenon
      <4>3. QED
        BY <1>11, <4>1, <4>2, Zenon
    <3>3. QED
      BY <3>1, <3>2, Zenon
  <2>2. ASSUME NEW i \in 1 .. n PROVE batch[i] \in ToSet(s)
    BY <1>1, <1>2, <1>9
  <2>3. ASSUME NEW i \in 1 .. Len(s) - n PROVE rest[i] \in ToSet(s)
    BY <1>3, <1>6, <1>9, Zenon
  <2>4. QED
    BY <1>9, <1>10, <1>11, <2>1, <2>2, <2>3, Zenon
<1>13. \A x : ~(x \in ToSet(batch) /\ x \in ToSet(rest))
  <2> SUFFICES ASSUME NEW i \in 1 .. n, NEW j \in 1 .. Len(s) - n, batch[i] = rest[j] PROVE FALSE
    BY <1>10, <1>11, Zenon
  <2>1. batch[i] < rest[j]
    BY <1>2, <1>3, <1>8, Zenon DEF Before
  <2>2. batch[i] \in Events
    BY <1>2
  <2>3. QED
    BY <2>1, <2>2 DEF Events
<1>14. QED
  BY <1>2, <1>3, <1>5, <1>7, <1>8, <1>12, <1>13, Zenon DEF batch, rest

(* Ordered queues of which one comes before the other. *)
LEMMA ConcatIncreasing ==
  ASSUME NEW a \in Seq(Events), NEW b \in Seq(Events), Increasing(a), Increasing(b), Before(a, b)
  PROVE  Increasing(a \o b)
<1> DEFINE c == a \o b
<1>1. /\ c \in Seq(Events) /\ Len(c) = Len(a) + Len(b) /\ Len(a) \in Nat /\ Len(b) \in Nat
      /\ \A i \in 1 .. Len(a) + Len(b) : c[i] = IF i <= Len(a) THEN a[i] ELSE b[i - Len(a)]
  BY ConcatProperties
<1> HIDE DEF c
<1>2. SUFFICES ASSUME NEW i \in 1 .. Len(a) + Len(b), NEW j \in 1 .. Len(a) + Len(b), i < j
               PROVE  c[i] < c[j]
  BY <1>1, Zenon DEF Increasing, c
<1>3. CASE j <= Len(a)
  <2>1. i \in 1 .. Len(a) /\ j \in 1 .. Len(a) /\ c[i] = a[i] /\ c[j] = a[j]
    BY <1>1, <1>2, <1>3
  <2>2. QED
    BY <1>2, <2>1, Zenon DEF Increasing
<1>4. CASE i <= Len(a) /\ ~(j <= Len(a))
  <2>1. i \in 1 .. Len(a) /\ j - Len(a) \in 1 .. Len(b) /\ c[i] = a[i] /\ c[j] = b[j - Len(a)]
    BY <1>1, <1>2, <1>4
  <2>2. QED
    BY <2>1, Zenon DEF Before
<1>5. CASE ~(i <= Len(a))
  <2>1. /\ i - Len(a) \in 1 .. Len(b) /\ j - Len(a) \in 1 .. Len(b)
        /\ i - Len(a) < j - Len(a) /\ ~(j <= Len(a))
    BY <1>1, <1>2, <1>5
  <2>2. c[i] = b[i - Len(a)] /\ c[j] = b[j - Len(a)]
    BY <1>1, <1>5, <2>1, Zenon
  <2>3. QED
    BY <2>1, <2>2, Zenon DEF Increasing
<1>6. QED
  BY <1>1, <1>3, <1>4, <1>5, Zenon

-----------------------------------------------------------------------------
(* The permit keeps flushes apart, and only the one that sends has events.     *)
Stages == {"idle", "waiting", "sending"}

Flushing ==
  /\ handled \in 0 .. NumEvents /\ permit \in BOOLEAN
  /\ pending \in Seq(Events) /\ hand \in [Flushers -> Seq(Events)]
  /\ stage \in [Flushers -> Stages]
  /\ \A f \in Flushers : stage[f] = "sending" => ~permit /\ hand[f] # <<>>
  /\ \A f \in Flushers : stage[f] # "sending" => hand[f] = <<>>
  /\ \A f, g \in Flushers : stage[f] = "sending" /\ stage[g] = "sending" => f = g

(* How far Close is.  While it sends nothing can be queued, since the handler  *)
(* is closed, and nothing be put back, since it has the permit.                *)
Closing ==
  /\ closing # "no" => closed
  /\ closing \in {"flushing", "ok"} => done
  /\ stage["closer"] # "idle" => closing = "flushing"
  /\ stage["closer"] = "sending" => pending = <<>>
  /\ closing = "ok" => pending = <<>> /\ \A f \in Flushers : stage[f] # "sending"

(* If one flush alone sends, what is in hand is in its hand. *)
LEMMA OneSender ==
  ASSUME NEW h \in [Flushers -> Seq(Events)], NEW f \in Flushers,
         \A g \in Flushers : g # f => h[g] = <<>>
  PROVE  UNION {ToSet(h[g]) : g \in Flushers} = ToSet(h[f])
<1>1. ToSet(<<>>) = {}
  BY DEF ToSet
<1>2. \A g \in Flushers : g # f => ToSet(h[g]) = {}
  BY <1>1, Zenon
<1>3. QED
  BY <1>2, Zenon

(* The worker and Close flush. *)
LEMMA FlushersFacts == "worker" \in Flushers /\ "closer" \in Flushers
BY Zenon DEF Flushers

(* What a flush that sends has in hand, and its next batch. *)
LEMMA SendingFacts ==
  ASSUME Flushing, NEW f \in Flushers, stage[f] = "sending",
         NEW s, s = hand[f]
  PROVE  /\ s \in Seq(Events) /\ s # <<>> /\ BatchEventCount(s) \in 1 .. Len(s)
         /\ Batch(f) = SubSeq(s, 1, BatchEventCount(s))
         /\ Len(Batch(f)) = BatchEventCount(s)
         /\ SubSeq(s, BatchEventCount(s) + 1, Len(s)) \in Seq(Events)
<1>1. s \in Seq(Events) /\ s # <<>>
  BY Zenon DEF Flushing
<1>2. BatchEventCount(s) \in 1 .. Len(s)
  BY <1>1, BatchCount, Zenon
<1>3. Batch(f) = SubSeq(s, 1, BatchEventCount(s))
  BY Zenon DEF Batch
<1> DEFINE n == BatchEventCount(s)
<1> HIDE DEF n
<1>4. n \in 1 .. Len(s)
  BY <1>2, Zenon DEF n
<1>5. Len(SubSeq(s, 1, n)) = n /\ SubSeq(s, n + 1, Len(s)) \in Seq(Events)
  BY <1>1, <1>4
<1>6. QED
  BY <1>1, <1>2, <1>3, <1>5, Zenon DEF n

(* What restorePending makes is a queue of events. *)
LEMMA RestoredType ==
  ASSUME NEW events \in Seq(Events), NEW current \in Seq(Events),
         Increasing(events), Increasing(current), Before(events, current),
         Bytes(events) <= MaxPending
  PROVE  Restored(events, current) \in Seq(Events)
BY RestoredFacts, Zenon DEF RestoredOK

-----------------------------------------------------------------------------
(* What is in hand was logged before what is queued, each within the limit. *)
Ordered ==
  /\ Increasing(pending) /\ Bytes(pending) <= MaxPending
  /\ \A f \in Flushers : /\ Increasing(hand[f]) /\ Before(hand[f], pending)
                         /\ Bytes(hand[f]) <= MaxPending

(* Every event handled is in one place. *)
Placed ==
  /\ dropped \in Nat /\ reported \in Nat
  /\ acked \cup ToSet(pending) \cup InHand \cup lost = 1 .. handled
  /\ \A e \in acked : e \notin ToSet(pending) /\ e \notin InHand /\ e \notin lost
  /\ \A e \in ToSet(pending) : e \notin InHand /\ e \notin lost
  /\ \A e \in InHand : e \notin lost
  /\ Cardinality(lost) = reported + dropped

(* An event that is still to be sent was received already, or comes after all  *)
(* that was.                                                                   *)
Seen ==
  /\ received \in Seq(Events) /\ Increasing(received) /\ ToSet(received) \subseteq 1 .. handled
  /\ \A x \in ToSet(pending) \cup InHand :
       x \in ToSet(received) \/ \A e \in ToSet(received) : e < x

Accounting == Flushing /\ Closing /\ Ordered /\ Placed /\ Seen

(* Empty queues are in order. *)
LEMMA EmptyFacts ==
  /\ ToSet(<<>>) = {} /\ Increasing(<<>>) /\ Bytes(<<>>) <= MaxPending
  /\ \A s : Before(<<>>, s) /\ Before(s, <<>>)
<1>1. ToSet(<<>>) = {} /\ Increasing(<<>>)
  BY DEF ToSet, Increasing
<1>2. Bytes(<<>>) <= MaxPending
  BY BytesEmpty, SplunkAssumption
<1>3. \A s : Before(<<>>, s) /\ Before(s, <<>>)
  BY DEF Before
<1>4. QED
  BY <1>1, <1>2, <1>3, Zenon

(* A new handler has nothing to account for. *)
LEMMA InitAccounting == Init => Accounting
<1> SUFFICES ASSUME Init PROVE Accounting
  BY Zenon
<1>1. Flushing
  BY SplunkAssumption DEF Init, Flushing, Stages
<1>2. Closing
  BY FlushersFacts, Zenon DEF Init, Closing
<1>3. hand = [f \in Flushers |-> <<>>] /\ pending = <<>>
  BY Zenon DEF Init
<1>4. InHand = {}
  <2>1. \A f \in Flushers : ToSet(hand[f]) = {}
    BY <1>3, EmptyFacts, Zenon
  <2>2. QED
    BY <2>1, Zenon DEF InHand
<1>5. Ordered
  BY <1>3, EmptyFacts, Zenon DEF Ordered
<1>6. Placed
  BY <1>3, <1>4, EmptyFacts, FS_EmptySet DEF Init, Placed
<1>7. Seen
  BY <1>3, <1>4, EmptyFacts DEF Init, Seen
<1>8. QED
  BY <1>1, <1>2, <1>5, <1>6, <1>7, Zenon DEF Accounting

(* The steps that move no event. *)
Quiet ==
  \/ \E f \in Flushers : Begin(f) \/ GiveUp(f) \/ ContextDone(f)
  \/ WorkerExit \/ Close \/ CloseGivesUp

(* Steps that move no event. *)
LEMMA QuietKeeps ==
  ASSUME Accounting, Quiet
  PROVE  Accounting'
<1>1. Flushing /\ Closing
  BY Zenon DEF Accounting
<1>2. /\ handled' = handled /\ pending' = pending /\ dropped' = dropped /\ permit' = permit
      /\ received' = received /\ acked' = acked /\ lost' = lost /\ reported' = reported
  BY Zenon DEF Quiet, Begin, GiveUp, ContextDone, WorkerExit, Close, CloseGivesUp
<1>3. hand' = hand
  <2>1. ASSUME NEW f \in Flushers, GiveUp(f) PROVE hand' = hand
    <3>1. stage[f] = "waiting" /\ hand' = [hand EXCEPT ![f] = <<>>]
      BY <2>1, Zenon DEF GiveUp, Returned
    <3>2. hand[f] = <<>> /\ hand \in [Flushers -> Seq(Events)]
      BY <1>1, <3>1, Zenon DEF Flushing
    <3>3. QED
      BY <3>1, <3>2, Zenon
  <2>2. QED
    BY <2>1, Zenon DEF Quiet, Begin, ContextDone, WorkerExit, Close, CloseGivesUp
<1>4. /\ stage' \in [Flushers -> Stages]
      /\ \A f \in Flushers : stage'[f] = "sending" <=> stage[f] = "sending"
  <2>1. stage \in [Flushers -> Stages]
    BY <1>1, Zenon DEF Flushing
  <2>2. ASSUME NEW f \in Flushers, NEW x \in {"idle", "waiting"}, stage[f] # "sending",
               stage' = [stage EXCEPT ![f] = x]
        PROVE  /\ stage' \in [Flushers -> Stages]
               /\ \A g \in Flushers : stage'[g] = "sending" <=> stage[g] = "sending"
    BY <2>1, <2>2, Zenon DEF Stages
  <2>3. CASE \E f \in Flushers : Begin(f)
    BY <2>2, <2>3, Zenon DEF Begin
  <2>4. CASE \E f \in Flushers : GiveUp(f)
    BY <2>2, <2>4, Zenon DEF GiveUp, Returned
  <2>5. CASE stage' = stage
    BY <2>1, <2>5, Zenon
  <2>6. QED
    BY <2>3, <2>4, <2>5, Zenon DEF Quiet, ContextDone, WorkerExit, Close, CloseGivesUp
<1>5. Flushing'
  BY <1>1, <1>2, <1>3, <1>4, Zenon DEF Flushing
<1>6. Closing'
  <2>1. CASE \E f \in Flushers : Begin(f)
    <3>1. PICK f \in Flushers : Begin(f)
      BY <2>1, Zenon
    <3>2. CASE f = "closer"
      BY <1>1, <1>2, <1>4, <3>1, <3>2, FlushersFacts, Zenon DEF Begin, MayBegin, Closing, Flushing
    <3>3. CASE f # "closer"
      BY <1>1, <1>2, <1>4, <3>1, <3>3, FlushersFacts, SMTT(30) DEF Begin, Closing, Flushing
    <3>4. QED
      BY <3>2, <3>3, Zenon
  <2>2. CASE \E f \in Flushers : GiveUp(f)
    <3>1. PICK f \in Flushers : GiveUp(f)
      BY <2>2, Zenon
    <3>2. CASE f = "closer"
      BY <1>1, <1>2, <1>4, <3>1, <3>2, FlushersFacts, Zenon DEF GiveUp, Returned, Closing, Flushing
    <3>3. CASE f # "closer"
      BY <1>1, <1>2, <1>4, <3>1, <3>3, FlushersFacts, Zenon DEF GiveUp, Returned, Closing, Flushing
    <3>4. QED
      BY <3>2, <3>3, Zenon
  <2>3. CASE (\E f \in Flushers : ContextDone(f)) \/ WorkerExit
    BY <1>1, <1>2, <2>3, Zenon DEF ContextDone, WorkerExit, Closing
  <2>4. CASE Close
    BY <1>1, <1>2, <2>4, Zenon DEF Close, Closing
  <2>5. CASE CloseGivesUp
    BY <1>1, <1>2, <2>5, Zenon DEF CloseGivesUp, Closing
  <2>6. QED
    BY <2>1, <2>2, <2>3, <2>4, <2>5, Zenon DEF Quiet
<1>7. Ordered' /\ Placed' /\ Seen'
  BY <1>2, <1>3 DEF Accounting, Ordered, Placed, Seen, InHand
<1>8. QED
  BY <1>5, <1>6, <1>7, Zenon DEF Accounting

(* A new event is queued behind all others, or dropped and counted. *)
LEMMA HandleKeeps ==
  ASSUME Accounting, Handle
  PROVE  Accounting'
<1> DEFINE e == handled + 1
<1>1. /\ Flushing /\ Closing /\ Ordered /\ Placed /\ Seen
      /\ handled \in 0 .. NumEvents /\ pending \in Seq(Events)
  BY Zenon DEF Accounting, Flushing
<1>2. /\ handled < NumEvents /\ ~closed /\ handled' = e /\ closed' = closed
      /\ permit' = permit /\ stage' = stage /\ hand' = hand /\ done' = done
      /\ closing' = closing /\ received' = received /\ acked' = acked /\ reported' = reported
  BY Zenon DEF Handle
<1>3. \/ /\ Overflows(e) /\ dropped' = dropped + 1 /\ lost' = lost \cup {e} /\ pending' = pending
      \/ /\ ~Overflows(e) /\ pending' = Append(pending, e)
         /\ dropped' = dropped /\ lost' = lost
  BY Zenon DEF Handle
<1>4. e \in Events /\ e \in Nat /\ e \notin 1 .. handled /\ 1 .. e = (1 .. handled) \cup {e}
      /\ \A x \in 1 .. handled : x < e
  BY <1>1, <1>2, SplunkAssumption DEF Events
<1>e. e \in 0 .. NumEvents
  BY <1>1, <1>2, SplunkAssumption
<1> HIDE DEF e
<1>5. closing = "no" /\ stage["closer"] = "idle"
  BY <1>1, <1>2, Zenon DEF Closing
<1>6. InHand' = InHand
  BY <1>2, Zenon DEF InHand
<1>7. /\ \A x \in ToSet(pending) : x \in 1 .. handled
      /\ \A x \in InHand : x \in 1 .. handled
      /\ \A x \in lost : x \in 1 .. handled
      /\ \A x \in acked : x \in 1 .. handled
  BY <1>1, Zenon DEF Placed
<1>8. CASE Overflows(e) /\ dropped' = dropped + 1 /\ lost' = lost \cup {e} /\ pending' = pending
  <2>1. Flushing'
    BY <1>1, <1>2, <1>8, <1>e, Zenon DEF Flushing
  <2>2. Closing'
    BY <1>1, <1>2, <1>8, Zenon DEF Closing
  <2>3. Ordered'
    BY <1>1, <1>2, <1>8, Zenon DEF Ordered
  <2>4. Cardinality(lost') = reported + dropped + 1
    <3>1. IsFiniteSet(1 .. handled) /\ lost \subseteq 1 .. handled
      BY <1>1, <1>7, FS_Interval
    <3>2. IsFiniteSet(lost)
      BY <3>1, FS_Subset, Zenon
    <3>3. Cardinality(lost \cup {e}) = Cardinality(lost) + 1
      BY <1>4, <1>7, <3>2, FS_AddElement, Zenon
    <3>4. QED
      BY <1>1, <1>8, <3>3, Zenon DEF Placed
  <2>5. Placed'
    <3>1. dropped' \in Nat /\ reported' \in Nat /\ reported' + dropped' = reported + dropped + 1
      BY <1>1, <1>2, <1>8, SMTT(30) DEF Placed
    <3>2. acked' \cup ToSet(pending)' \cup InHand' \cup lost' = 1 .. handled'
      BY <1>1, <1>2, <1>4, <1>6, <1>8, Zenon DEF Placed
    <3>3. QED
      BY <1>1, <1>2, <1>4, <1>6, <1>7, <1>8, <2>4, <3>1, <3>2, SMTT(30) DEF Placed
  <2>6. Seen'
    <3>1. \A x \in 1 .. handled : x \in 1 .. handled'
      BY <1>2, <1>4, SMTT(30)
    <3>2. QED
      BY <1>1, <1>2, <1>6, <1>8, <3>1, Zenon DEF Seen
  <2>7. QED
    BY <2>1, <2>2, <2>3, <2>5, <2>6, SMTT(30) DEF Accounting
<1>9. CASE /\ ~Overflows(e) /\ pending' = Append(pending, e)
           /\ dropped' = dropped /\ lost' = lost
  <2>1. /\ pending' \in Seq(Events) /\ Len(pending') = Len(pending) + 1
        /\ pending'[Len(pending) + 1] = e /\ Len(pending) \in Nat
        /\ \A j \in 1 .. Len(pending) : pending'[j] = pending[j]
    BY <1>1, <1>4, <1>9
  <2>2. \A x : x \in ToSet(pending)' <=> (x \in ToSet(pending) \/ x = e)
    <3>1. \A x : x \in ToSet(pending) <=> \E j \in 1 .. Len(pending) : pending[j] = x
      BY <1>1, ToSetFacts, Zenon
    <3>2. \A x : x \in ToSet(pending') <=> \E j \in 1 .. Len(pending') : pending'[j] = x
      BY <2>1, ToSetFacts, Zenon
    <3>3. /\ \A j \in 1 .. Len(pending) : j \in 1 .. Len(pending')
          /\ Len(pending) + 1 \in 1 .. Len(pending')
          /\ \A j \in 1 .. Len(pending') : j \in 1 .. Len(pending) \/ j = Len(pending) + 1
      BY <2>1
    <3>4. QED
      BY <2>1, <3>1, <3>2, <3>3, Zenon
  <2>3. Flushing'
    BY <1>1, <1>2, <1>e, <2>1, Zenon DEF Flushing
  <2>4. Closing'
    BY <1>2, <1>5, Zenon DEF Closing
  <2>5. Increasing(pending')
    <3>1. \A j \in 1 .. Len(pending) : pending[j] \in ToSet(pending)
      BY <1>1, ToSetFacts, Zenon
    <3>2. pending \in Seq(Nat) /\ \A j \in 1 .. Len(pending) : pending[j] < e
      BY <1>1, <1>4, <1>7, <3>1, EventsAreNumbers, Zenon
    <3>3. QED
      BY <1>1, <1>4, <1>9, <3>2, AppendIncreasing, Zenon DEF Ordered
  <2>6. Bytes(pending') <= MaxPending
    <3>1. Bytes(pending) \in Nat /\ Bytes(Append(pending, e)) = Bytes(pending) + Size[e]
          /\ Size[e] \in Nat /\ MaxPending \in Nat
      BY <1>1, <1>4, BytesAppend, SplunkAssumption, Zenon DEF Events
    <3>2. QED
      BY <1>9, <3>1 DEF Overflows
  <2>7. ASSUME NEW f \in Flushers PROVE Before(hand[f], pending')
    <3>1. hand[f] \in Seq(Events) /\ Before(hand[f], pending)
      BY <1>1, Zenon DEF Flushing, Ordered
    <3>2. \A j \in 1 .. Len(hand[f]) : hand[f][j] \in ToSet(hand[f])
      BY <3>1, ToSetFacts, Zenon
    <3>3. \A j \in 1 .. Len(hand[f]) : hand[f][j] < e
      BY <1>4, <1>7, <3>2, Zenon DEF InHand
    <3>4. \A j \in 1 .. Len(pending') : j \in 1 .. Len(pending) \/ j = Len(pending) + 1
      BY <2>1
    <3>5. QED
      BY <2>1, <3>1, <3>3, <3>4, Zenon DEF Before
  <2>8. Ordered'
    BY <1>1, <1>2, <2>5, <2>6, <2>7, Zenon DEF Ordered
  <2>9. Placed'
    <3>1. acked' \cup ToSet(pending)' \cup InHand' \cup lost' = 1 .. handled'
      BY <1>1, <1>2, <1>4, <1>6, <1>9, <2>2, Zenon DEF Placed
    <3>2. QED
      BY <1>1, <1>2, <1>4, <1>6, <1>7, <1>9, <2>2, <3>1, Zenon DEF Placed
  <2>10. Seen'
    <3>1. \A x \in 1 .. handled : x \in 1 .. handled'
      BY <1>2, <1>4, Zenon
    <3>2. \A x \in ToSet(received) : x < e
      BY <1>1, <1>4, Zenon DEF Seen
    <3>3. QED
      BY <1>1, <1>2, <1>6, <2>2, <3>1, <3>2, SMTT(30) DEF Seen
  <2>11. QED
    BY <2>3, <2>4, <2>8, <2>9, <2>10, Zenon DEF Accounting
<1>10. QED
  BY <1>3, <1>8, <1>9, Zenon

(* A flush takes the whole queue while nobody else has anything in hand. *)
LEMMA TakeKeeps ==
  ASSUME Accounting, NEW f \in Flushers, Take(f)
  PROVE  Accounting'
<1>1. /\ Flushing /\ Closing /\ Ordered /\ Placed /\ Seen
      /\ hand \in [Flushers -> Seq(Events)] /\ pending \in Seq(Events)
      /\ stage \in [Flushers -> Stages]
  BY Zenon DEF Accounting, Flushing
<1>2. /\ stage[f] = "waiting" /\ permit /\ pending' = <<>> /\ dropped' = 0
      /\ reported' = reported + dropped /\ handled' = handled /\ closed' = closed
      /\ done' = done /\ received' = received /\ acked' = acked /\ lost' = lost
  BY Zenon DEF Take, PermitFree
<1>3. \A g \in Flushers : stage[g] # "sending" /\ hand[g] = <<>>
  BY <1>1, <1>2, Zenon DEF Flushing
<1>4. InHand = {}
  <2>1. \A g \in Flushers : ToSet(hand[g]) = {}
    BY <1>3, EmptyFacts, Zenon
  <2>2. QED
    BY <2>1, Zenon DEF InHand
<1>5. dropped' \in Nat /\ reported' \in Nat /\ reported' + dropped' = reported + dropped
  BY <1>1, <1>2 DEF Placed
<1>6. CASE pending = <<>>
  <2>1. /\ stage' = [stage EXCEPT ![f] = "idle"] /\ hand' = [hand EXCEPT ![f] = <<>>]
        /\ closing' = IF f = "closer" THEN "ok" ELSE closing
        /\ permit' = permit
    BY <1>6, Zenon DEF Take, Returned
  <2>2. hand' = hand
    BY <1>1, <1>3, <2>1, Zenon
  <2>3. /\ stage' \in [Flushers -> Stages]
        /\ \A g \in Flushers : stage'[g] # "sending"
        /\ \A g \in Flushers : g # f => stage'[g] = stage[g]
        /\ stage'[f] = "idle"
    BY <1>1, <1>3, <2>1, Zenon DEF Stages
  <2>4. Flushing'
    BY <1>1, <1>2, <1>6, <2>1, <2>2, <2>3, Zenon DEF Flushing
  <2>5. Closing'
    BY <1>1, <1>2, <2>1, <2>3, FlushersFacts, Zenon DEF Closing
  <2>6. Ordered' /\ Seen'
    BY <1>1, <1>2, <1>6, <2>2, Zenon DEF Ordered, Seen, InHand
  <2>7. InHand' = InHand
    BY <2>2, Zenon DEF InHand
  <2>8. Placed'
    BY <1>1, <1>2, <1>5, <1>6, <2>7, Zenon DEF Placed
  <2>9. QED
    BY <2>4, <2>5, <2>6, <2>8, Zenon DEF Accounting
<1>7. CASE pending # <<>>
  <2>1. /\ stage' = [stage EXCEPT ![f] = "sending"] /\ hand' = [hand EXCEPT ![f] = pending]
        /\ closing' = closing /\ permit' = FALSE
    BY <1>7, Zenon DEF Take
  <2>2. /\ stage' \in [Flushers -> Stages]
        /\ stage'[f] = "sending" /\ \A g \in Flushers : g # f => stage'[g] = stage[g]
        /\ hand' \in [Flushers -> Seq(Events)] /\ hand'[f] = pending
        /\ \A g \in Flushers : g # f => hand'[g] = <<>>
    BY <1>1, <1>3, <2>1, Zenon DEF Stages
  <2>3. Flushing'
    <3>1. handled' \in 0 .. NumEvents /\ pending' \in Seq(Events) /\ permit' \in BOOLEAN
      BY <1>1, <1>2, <2>1, Zenon DEF Flushing
    <3>2. \A g \in Flushers : stage'[g] = "sending" <=> g = f
      BY <1>3, <2>2, Zenon
    <3>3. \A g \in Flushers : /\ stage'[g] = "sending" => ~permit' /\ hand'[g] # <<>>
                              /\ stage'[g] # "sending" => hand'[g] = <<>>
      BY <1>7, <2>1, <2>2, <3>2, Zenon
    <3>4. \A g, h \in Flushers : stage'[g] = "sending" /\ stage'[h] = "sending" => g = h
      BY <3>2, Zenon
    <3>5. hand' \in [Flushers -> Seq(Events)] /\ stage' \in [Flushers -> Stages]
      BY <2>2, Zenon
    <3>6. QED
      BY <3>1, <3>3, <3>4, <3>5, Zenon DEF Flushing
  <2>4. Closing'
    BY <1>1, <1>2, <1>7, <2>1, <2>2, FlushersFacts, Zenon DEF Closing
  <2>5. InHand' = ToSet(pending)
    <3>1. UNION {ToSet(hand'[g]) : g \in Flushers} = ToSet(hand'[f])
      BY <2>2, OneSender, Zenon
    <3>2. QED
      BY <2>2, <3>1, Zenon DEF InHand
  <2>6. Ordered'
    BY <1>1, <1>2, <2>2, EmptyFacts, Zenon DEF Ordered
  <2>7. ToSet(pending)' = {}
    BY <1>2, EmptyFacts, Zenon
  <2>8. Placed'
    BY <1>1, <1>2, <1>4, <1>5, <2>5, <2>7, Zenon DEF Placed
  <2>9. Seen'
    BY <1>1, <1>2, <2>5, <2>7, Zenon DEF Seen
  <2>10. QED
    BY <2>3, <2>4, <2>6, <2>8, <2>9, Zenon DEF Accounting
<1>8. QED
  BY <1>6, <1>7, Zenon

(* The collector receives a batch behind all that it has, or for a second time. *)
LEMMA BatchReceived ==
  ASSUME Accounting, NEW f \in Flushers, stage[f] = "sending"
  PROVE  /\ Receive(Batch(f)) \in Seq(Events) /\ Increasing(Receive(Batch(f)))
         /\ ToSet(Receive(Batch(f))) \subseteq 1 .. handled
         /\ \A x \in ToSet(pending) \cup ToSet(hand[f]) :
              \/ x \in ToSet(Receive(Batch(f)))
              \/ \A e \in ToSet(Receive(Batch(f))) : e < x
<1> DEFINE s == hand[f]
           n == BatchEventCount(s)
           b == Batch(f)
           r == SubSeq(s, n + 1, Len(s))
           got == Receive(b)
<1>1. /\ Flushing /\ Ordered /\ Placed /\ Seen /\ pending \in Seq(Events)
  BY Zenon DEF Accounting, Flushing
<1>2. s \in Seq(Events) /\ n \in 1 .. Len(s) /\ b = SubSeq(s, 1, n)
  BY <1>1, SendingFacts, Zenon
<1>3. Increasing(s) /\ Before(s, pending)
  BY <1>1, Zenon DEF Ordered
<1> HIDE DEF s, n
<1>4. /\ b \in Seq(Events) /\ r \in Seq(Events) /\ Increasing(b) /\ Before(b, r)
      /\ \A x : x \in ToSet(s) <=> x \in ToSet(b) \/ x \in ToSet(r)
  BY <1>2, <1>3, SplitFacts
<1> HIDE DEF b, r
<1>5. \A x \in ToSet(s) : x \in InHand
  BY Zenon DEF InHand, s
<1>6. /\ \A x : x \in ToSet(b) <=> \E i \in 1 .. Len(b) : b[i] = x
      /\ \A x : x \in ToSet(r) <=> \E i \in 1 .. Len(r) : r[i] = x
      /\ \A x : x \in ToSet(s) <=> \E i \in 1 .. Len(s) : s[i] = x
      /\ \A x : x \in ToSet(pending) <=> \E i \in 1 .. Len(pending) : pending[i] = x
  BY <1>1, <1>2, <1>4, ToSetFacts, Zenon
<1>7. \A m \in 1 .. Len(b) : b[m] \in ToSet(received) \/ \A e \in ToSet(received) : e < b[m]
  BY <1>1, <1>4, <1>5, <1>6, Zenon DEF Seen
<1>8. ReceiveOK(got, received, b, Len(b))
  BY <1>1, <1>4, <1>7, ReceiveFacts, Zenon DEF Seen
<1> HIDE DEF got
<1>9. /\ got \in Seq(Events) /\ Increasing(got)
      /\ \A x : x \in ToSet(got) <=> x \in ToSet(received) \/ x \in ToSet(b)
  BY <1>6, <1>8, Zenon DEF ReceiveOK
<1>10. ToSet(got) \subseteq 1 .. handled
  <2>1. \A x \in InHand : x \in 1 .. handled
    BY <1>1, Zenon DEF Placed
  <2>2. QED
    BY <1>1, <1>4, <1>5, <1>9, <2>1, Zenon DEF Seen
<1>11. ASSUME NEW x \in ToSet(pending) \cup ToSet(s), x \notin ToSet(got), NEW e \in ToSet(got)
       PROVE  e < x
  <2>1. CASE e \in ToSet(received)
    BY <1>1, <1>5, <1>9, <1>11, <2>1, Zenon DEF Seen
  <2>2. CASE e \in ToSet(b) /\ x \in ToSet(pending)
    BY <1>3, <1>4, <1>6, <2>2 DEF Before
  <2>3. CASE e \in ToSet(b) /\ x \in ToSet(r)
    BY <1>4, <1>6, <2>3, SMTT(30) DEF Before
  <2>4. QED
    BY <1>4, <1>9, <1>11, <2>1, <2>2, <2>3, Zenon
<1>12. QED
  BY <1>9, <1>10, <1>11, Zenon DEF got, b, s

(* An acknowledged batch leaves the sender's hand. *)
LEMMA SendSucceedsKeeps ==
  ASSUME Accounting, NEW f \in Flushers, SendSucceeds(f)
  PROVE  Accounting'
<1> DEFINE s == hand[f]
           n == BatchEventCount(s)
           b == Batch(f)
           r == SubSeq(s, n + 1, Len(s))
<1>1. /\ Flushing /\ Closing /\ Ordered /\ Placed /\ Seen
      /\ hand \in [Flushers -> Seq(Events)] /\ pending \in Seq(Events)
      /\ stage \in [Flushers -> Stages] /\ permit \in BOOLEAN
  BY Zenon DEF Accounting, Flushing
<1>2. /\ stage[f] = "sending" /\ received' = Receive(b) /\ acked' = acked \cup ToSet(b)
      /\ handled' = handled /\ pending' = pending /\ dropped' = dropped /\ closed' = closed
      /\ done' = done /\ lost' = lost /\ reported' = reported
  BY Zenon DEF SendSucceeds
<1>3. /\ s \in Seq(Events) /\ n \in 1 .. Len(s) /\ b = SubSeq(s, 1, n) /\ Len(b) = n
  BY <1>1, <1>2, SendingFacts, Zenon
<1>4. \/ /\ r = <<>> /\ stage' = [stage EXCEPT ![f] = "idle"] /\ hand' = [hand EXCEPT ![f] = <<>>]
         /\ closing' = (IF f = "closer" THEN "ok" ELSE closing) /\ permit' = TRUE
      \/ /\ r # <<>> /\ hand' = [hand EXCEPT ![f] = r]
         /\ stage' = stage /\ closing' = closing /\ permit' = permit
  BY <1>3, Zenon DEF SendSucceeds, Returned, ReleasesPermit
<1>5. Increasing(s) /\ Before(s, pending) /\ Bytes(s) <= MaxPending
  BY <1>1, Zenon DEF Ordered
<1>6. \A g \in Flushers : g # f => stage[g] # "sending" /\ hand[g] = <<>>
  BY <1>1, <1>2, Zenon DEF Flushing
<1>7. InHand = ToSet(s)
  BY <1>1, <1>6, OneSender, Zenon DEF InHand
<1> HIDE DEF n, b
<1>8. /\ b \in Seq(Events) /\ r \in Seq(Events) /\ Increasing(r) /\ Before(b, r)
      /\ \A x : x \in ToSet(s) <=> x \in ToSet(b) \/ x \in ToSet(r)
      /\ \A x : ~(x \in ToSet(b) /\ x \in ToSet(r))
  BY <1>3, <1>5, SplitFacts, Zenon
<1>9. Bytes(r) <= MaxPending
  <2>1. n \in 0 .. Len(s) /\ Len(s) >= 1 /\ s[1] \in Events
    BY <1>3
  <2>2. r[1] \in Events \/ r = <<>>
    BY <1>8
  <2>3. Bytes(s) \in Nat /\ Bytes(r) \in Nat /\ MaxPending \in Nat
    BY <1>3, <1>8, <2>1, BytesAppend, SplunkAssumption, Zenon
  <2>4. Bytes(r) <= Bytes(s)
    BY <1>3, <2>1, BytesSuffix, Zenon
  <2>5. QED
    BY <1>5, <2>3, <2>4
<1> HIDE DEF r
<1>10. /\ hand' \in [Flushers -> Seq(Events)] /\ hand'[f] = r
       /\ \A g \in Flushers : g # f => hand'[g] = <<>>
  BY <1>1, <1>4, <1>6, <1>8, Zenon
<1>11. InHand' = ToSet(r)
  <2>1. UNION {ToSet(hand'[g]) : g \in Flushers} = ToSet(hand'[f])
    BY <1>10, OneSender, Zenon
  <2>2. QED
    BY <1>10, <2>1, Zenon DEF InHand
<1>12. /\ stage' \in [Flushers -> Stages] /\ permit' \in BOOLEAN
       /\ \A g \in Flushers : g # f => stage'[g] = stage[g]
       /\ (r = <<>> /\ stage'[f] = "idle") \/ (r # <<>> /\ stage'[f] = "sending" /\ permit' = permit)
  BY <1>1, <1>2, <1>4, Zenon DEF Stages
<1>13. Flushing'
  <2>1. handled' \in 0 .. NumEvents /\ pending' \in Seq(Events)
    BY <1>1, <1>2, Zenon DEF Flushing
  <2>2. \A g \in Flushers : stage'[g] = "sending" => g = f /\ r # <<>> /\ permit' = permit
    BY <1>6, <1>12, Zenon
  <2>3. ~permit
    BY <1>1, <1>2, Zenon DEF Flushing
  <2>4. \A g \in Flushers : /\ stage'[g] = "sending" => ~permit' /\ hand'[g] # <<>>
                            /\ stage'[g] # "sending" => hand'[g] = <<>>
    BY <1>10, <1>12, <2>2, <2>3, Zenon
  <2>5. \A g, h \in Flushers : stage'[g] = "sending" /\ stage'[h] = "sending" => g = h
    BY <2>2, Zenon
  <2>6. QED
    BY <1>10, <1>12, <2>1, <2>4, <2>5, Zenon DEF Flushing
<1>14. Closing'
  <2>1. closing # "ok"
    BY <1>1, <1>2, Zenon DEF Closing
  <2>2. CASE f = "closer"
    <3>1. closing = "flushing" /\ closed /\ done /\ pending = <<>>
      BY <1>1, <1>2, <2>2, Zenon DEF Closing
    <3>2. QED
      BY <1>2, <1>4, <1>6, <1>12, <2>2, <3>1, Zenon DEF Closing
  <2>3. CASE f # "closer"
    <3>1. closing' = closing /\ stage'["closer"] = stage["closer"]
      BY <1>4, <1>12, <2>3, FlushersFacts, Zenon
    <3>2. QED
      BY <1>1, <1>2, <2>1, <3>1, Zenon DEF Closing
  <2>4. QED
    BY <2>2, <2>3, Zenon
<1>15. Ordered'
  <2>1. Before(r, pending)
    <3>1. /\ \A x : x \in ToSet(r) <=> \E i \in 1 .. Len(r) : r[i] = x
          /\ \A x : x \in ToSet(s) <=> \E i \in 1 .. Len(s) : s[i] = x
      BY <1>3, <1>8, ToSetFacts, Zenon
    <3>2. QED
      BY <1>5, <1>8, <3>1, Zenon DEF Before
  <2>2. \A g \in Flushers : /\ Increasing(hand'[g]) /\ Before(hand'[g], pending)
                            /\ Bytes(hand'[g]) <= MaxPending
    BY <1>8, <1>9, <1>10, <2>1, EmptyFacts, Zenon
  <2>3. QED
    BY <1>1, <1>2, <2>2, Zenon DEF Ordered
<1> HIDE DEF s
<1>16. Placed'
  <2>1. acked' \cup ToSet(pending)' \cup InHand' \cup lost' = 1 .. handled'
    BY <1>1, <1>2, <1>7, <1>8, <1>11, Zenon DEF Placed
  <2>2. QED
    BY <1>1, <1>2, <1>7, <1>8, <1>11, <2>1, Zenon DEF Placed
<1>17. Seen'
  <2>1. /\ received' \in Seq(Events) /\ Increasing(received') /\ ToSet(received') \subseteq 1 .. handled
        /\ \A x \in ToSet(pending) \cup ToSet(s) :
              x \in ToSet(received') \/ \A e \in ToSet(received') : e < x
    BY <1>2, BatchReceived, SMTT(30) DEF b, s
  <2>2. QED
    BY <1>2, <1>8, <1>11, <2>1, Zenon DEF Seen
<1>18. QED
  BY <1>13, <1>14, <1>15, <1>16, <1>17, Zenon DEF Accounting

(* A failed flush puts back all it has, and drops newer events for it. *)
LEMMA SendFailsKeeps ==
  ASSUME Accounting, NEW f \in Flushers, SendFails(f)
  PROVE  Accounting'
<1> DEFINE s == hand[f]
           after == Restored(s, pending)
           S == ToSet(s)
           P == ToSet(pending)
           A == ToSet(after)
<1>1. /\ Flushing /\ Closing /\ Ordered /\ Placed /\ Seen
      /\ hand \in [Flushers -> Seq(Events)] /\ pending \in Seq(Events)
      /\ stage \in [Flushers -> Stages]
  BY Zenon DEF Accounting, Flushing
<1>2. /\ stage[f] = "sending" /\ received' \in {received, Receive(Batch(f))}
      /\ pending' = after /\ dropped' = dropped + (Len(s) + Len(pending) - Len(after))
      /\ lost' = lost \cup ((P \cup S) \ A)
      /\ handled' = handled /\ closed' = closed /\ permit' = TRUE
      /\ done' = done /\ acked' = acked /\ reported' = reported
  BY Zenon DEF SendFails, Unsent, DroppedAfter, ReleasesPermit
<1>3. /\ stage' = [stage EXCEPT ![f] = "idle"] /\ hand' = [hand EXCEPT ![f] = <<>>]
      /\ closing' = IF f = "closer" THEN "failed" ELSE closing
  BY Zenon DEF SendFails, Returned
<1>4. /\ s \in Seq(Events) /\ Increasing(s) /\ Before(s, pending) /\ Bytes(s) <= MaxPending
      /\ Increasing(pending)
  BY <1>1, Zenon DEF Ordered
<1>5. \A g \in Flushers : g # f => stage[g] # "sending" /\ hand[g] = <<>>
  BY <1>1, <1>2, Zenon DEF Flushing
<1>6. InHand = S
  BY <1>1, <1>5, OneSender, Zenon DEF InHand
<1>7. RestoredOK(after, s, pending, Len(pending))
  BY <1>1, <1>4, RestoredFacts, Zenon
<1> HIDE DEF after
<1>8. /\ after \in Seq(Events) /\ Increasing(after) /\ Bytes(after) <= MaxPending
      /\ S \subseteq A
  BY <1>7, Zenon DEF RestoredOK
<1>9. A \subseteq P \cup S
  <2>1. /\ \A x : x \in A <=> \E i \in 1 .. Len(after) : after[i] = x
        /\ \A x : x \in P <=> \E i \in 1 .. Len(pending) : pending[i] = x
        /\ \A x : x \in S <=> \E i \in 1 .. Len(s) : s[i] = x
    BY <1>1, <1>4, <1>8, ToSetFacts, Zenon
  <2>2. QED
    BY <1>7, <2>1, ZenonT(40) DEF RestoredOK
<1>10. /\ IsFiniteSet(S) /\ Cardinality(S) = Len(s) /\ Len(s) \in Nat
       /\ IsFiniteSet(P) /\ Cardinality(P) = Len(pending) /\ Len(pending) \in Nat
       /\ IsFiniteSet(A) /\ Cardinality(A) = Len(after) /\ Len(after) \in Nat
  BY <1>1, <1>4, <1>8, CountFacts, SMTT(30)
<1> HIDE DEF s
<1>11. P \cap S = {}
  BY <1>1, <1>6, Zenon DEF Placed
<1>12. IsFiniteSet(P \cup S) /\ Cardinality(P \cup S) = Len(s) + Len(pending)
  <2>1. /\ IsFiniteSet(P \cup S)
        /\ Cardinality(P \cup S) = Cardinality(P) + Cardinality(S) - Cardinality(P \cap S)
    <3> HIDE DEF P, S
    <3>1. QED
      BY <1>10, FS_Union, Zenon
  <2>2. Cardinality(P \cap S) = 0
    BY <1>11, FS_EmptySet, Zenon
  <2>3. QED
    BY <1>10, <2>1, <2>2
<1>13. /\ IsFiniteSet((P \cup S) \ A)
       /\ Cardinality((P \cup S) \ A) = Len(s) + Len(pending) - Len(after)
  <2>1. (P \cup S) \cap A = A
    BY <1>9, Zenon
  <2> DEFINE U == P \cup S
  <2>2. /\ IsFiniteSet(U \ A)
        /\ Cardinality(U \ A) = Cardinality(U) - Cardinality(U \cap A)
    <3>1. IsFiniteSet(U)
      BY <1>12, Zenon
    <3> HIDE DEF U, A
    <3>2. QED
      BY <1>10, <3>1, FS_Difference, Zenon
  <2>3. Cardinality(U \cap A) = Len(after) /\ Cardinality(U) = Len(s) + Len(pending)
    BY <1>10, <1>12, <2>1, Zenon
  <2>4. Cardinality(U \ A) = Len(s) + Len(pending) - Len(after)
    <3> HIDE DEF U, A
    <3>1. QED
      BY <2>2, <2>3
  <2>5. QED
    BY <2>2, <2>4, Zenon
<1>14. Len(s) + Len(pending) - Len(after) \in Nat
  BY <1>13, FS_CardinalityType, Zenon
<1>15. Cardinality(lost') = Cardinality(lost) + (Len(s) + Len(pending) - Len(after))
  <2>1. IsFiniteSet(lost)
    <3>1. lost \subseteq 1 .. handled /\ handled \in Nat
      BY <1>1 DEF Placed, Flushing
    <3>2. IsFiniteSet(1 .. handled)
      BY <3>1, FS_Interval
    <3>3. QED
      BY <3>1, <3>2, FS_Subset, Zenon
  <2>2. lost \cap ((P \cup S) \ A) = {}
    BY <1>1, <1>6, Zenon DEF Placed
  <2>3. Cardinality(lost) \in Nat /\ Cardinality({}) = 0
    BY <2>1, FS_CardinalityType, FS_EmptySet, Zenon
  <2>4. Cardinality(lost \cup ((P \cup S) \ A))
          = Cardinality(lost) + Cardinality((P \cup S) \ A) - Cardinality({})
    BY <1>13, <2>1, <2>2, FS_Union, SMTT(30)
  <2>5. QED
    BY <1>2, <1>13, <1>14, <2>3, <2>4, SMTT(30)
<1>16. /\ \A g \in Flushers : hand'[g] = <<>> /\ stage'[g] # "sending"
       /\ hand' \in [Flushers -> Seq(Events)] /\ stage' \in [Flushers -> Stages]
       /\ \A g \in Flushers : g # f => stage'[g] = stage[g]
       /\ stage'[f] = "idle"
  BY <1>1, <1>3, <1>5 DEF Stages
<1>17. InHand' = {}
  <2>1. \A g \in Flushers : ToSet(hand'[g]) = {}
    BY <1>16, EmptyFacts, Zenon
  <2>2. QED
    BY <2>1, Zenon DEF InHand
<1>18. Flushing'
  <2>1. handled' \in 0 .. NumEvents /\ pending' \in Seq(Events) /\ permit' \in BOOLEAN
    BY <1>1, <1>2, <1>8, Zenon DEF Flushing
  <2>2. QED
    BY <1>16, <2>1, Zenon DEF Flushing
<1>19. Closing'
  <2>1. closing # "ok"
    BY <1>1, <1>2, Zenon DEF Closing
  <2>2. CASE f = "closer"
    BY <1>1, <1>2, <1>3, <1>16, <2>2, Zenon DEF Closing
  <2>3. CASE f # "closer"
    <3>1. closing' = closing /\ stage'["closer"] = stage["closer"] /\ stage["closer"] # "sending"
      BY <1>3, <1>5, <1>16, <2>3, FlushersFacts, Zenon
    <3>2. QED
      BY <1>1, <1>2, <2>1, <3>1, Zenon DEF Closing
  <2>4. QED
    BY <2>2, <2>3, Zenon
<1>20. Ordered'
  BY <1>2, <1>8, <1>16, EmptyFacts, Zenon DEF Ordered
<1>21. Placed'
  <2>1. dropped' \in Nat /\ reported' \in Nat /\ Cardinality(lost') = reported' + dropped'
    BY <1>1, <1>2, <1>14, <1>15, SMTT(30) DEF Placed
  <2>2. ToSet(pending)' = A
    BY <1>2, Zenon
  <2> HIDE DEF S, P, A
  <2>3. acked \cup P \cup S \cup lost = 1 .. handled
    BY <1>1, <1>6, Zenon DEF Placed, P
  <2>4. acked' \cup ToSet(pending)' \cup InHand' \cup lost' = 1 .. handled'
    BY <1>2, <1>8, <1>9, <1>17, <2>2, <2>3, Zenon
  <2>5. /\ \A x \in acked : x \notin P /\ x \notin S /\ x \notin lost
        /\ \A x \in P \cup S : x \notin lost
    BY <1>1, <1>6, Zenon DEF Placed, P
  <2>6. /\ \A x \in acked' : x \notin ToSet(pending)' /\ x \notin InHand' /\ x \notin lost'
        /\ \A x \in ToSet(pending)' : x \notin InHand' /\ x \notin lost'
    BY <1>2, <1>8, <1>9, <1>17, <2>2, <2>5, Zenon
  <2>7. QED
    BY <1>17, <2>1, <2>4, <2>6, Zenon DEF Placed
<1>22. Seen'
  <2>1. /\ received' \in Seq(Events) /\ Increasing(received') /\ ToSet(received') \subseteq 1 .. handled
        /\ \A x \in P \cup S : x \in ToSet(received') \/ \A e \in ToSet(received') : e < x
    <3>1. CASE received' = received
      BY <1>1, <1>6, <3>1, Zenon DEF Seen
    <3>2. CASE received' = Receive(Batch(f))
      BY <1>2, <3>2, BatchReceived, Zenon DEF s
    <3>3. QED
      BY <1>2, <3>1, <3>2, Zenon
  <2>2. QED
    BY <1>2, <1>9, <1>17, <2>1, Zenon DEF Seen
<1>23. QED
  BY <1>18, <1>19, <1>20, <1>21, <1>22, Zenon DEF Accounting

(* Every step keeps the account. *)
LEMMA StepAccounting == Accounting /\ [Next]_vars => Accounting'
<1> SUFFICES ASSUME Accounting, [Next]_vars PROVE Accounting'
  BY Zenon
<1>1. CASE Handle
  BY <1>1, HandleKeeps, Zenon
<1>2. ASSUME NEW f \in Flushers, Take(f) PROVE Accounting'
  BY <1>2, TakeKeeps, Zenon
<1>3. ASSUME NEW f \in Flushers, SendSucceeds(f) PROVE Accounting'
  BY <1>3, SendSucceedsKeeps, Zenon
<1>4. ASSUME NEW f \in Flushers, SendFails(f) PROVE Accounting'
  BY <1>4, SendFailsKeeps, Zenon
<1>5. CASE Quiet
  BY <1>5, QuietKeeps, Zenon
<1>6. CASE UNCHANGED vars
  <2>1. /\ handled' = handled /\ pending' = pending /\ dropped' = dropped /\ closed' = closed
        /\ permit' = permit /\ stage' = stage /\ hand' = hand /\ done' = done
        /\ closing' = closing /\ received' = received /\ acked' = acked /\ lost' = lost
        /\ reported' = reported
    BY <1>6, Zenon DEF vars
  <2>2. Flushing'
    BY <2>1, Zenon DEF Accounting, Flushing
  <2>3. Closing'
    BY <2>1, Zenon DEF Accounting, Closing
  <2>4. Ordered' /\ Placed' /\ Seen'
    BY <2>1 DEF Accounting, Ordered, Placed, Seen, InHand
  <2>5. QED
    BY <2>2, <2>3, <2>4, Zenon DEF Accounting
<1>7. QED
  BY <1>1, <1>2, <1>3, <1>4, <1>5, <1>6, Zenon DEF Next, FlushNext, Quiet

(* The inductive invariant holds in every reachable state. *)
LEMMA AlwaysAccounting == Spec => []Accounting
<1>1. Init => Accounting
  BY InitAccounting, Zenon
<1>2. Accounting /\ [Next]_vars => Accounting'
  BY StepAccounting, Zenon
<1>3. QED
  BY <1>1, <1>2, PTL DEF Spec

-----------------------------------------------------------------------------
(* An event that Handle took is acknowledged, queued, in the hands of the one  *)
(* flush that runs or dropped, in one of these only; drops are counted; order  *)
(* is kept from Handle to the collector; and the queue keeps to its limit.     *)
(* For any number and sizes of events, limits and callers of Flush.            *)
THEOREM EventsAreAccounted == Spec => []EventsAccounted
<1>1. Accounting => EventsAccounted
  <2> SUFFICES ASSUME Accounting PROVE EventsAccounted
    BY Zenon
  <2>1. Flushing /\ Ordered /\ Placed /\ Seen
    BY Zenon DEF Accounting
  <2> DEFINE places == <<acked, ToSet(pending), InHand, lost>>
  <2>2. places[1] = acked /\ places[2] = ToSet(pending) /\ places[3] = InHand /\ places[4] = lost
    BY Zenon
  <2> HIDE DEF places
  <2>3. \A i \in 1 .. 4 : i = 1 \/ i = 2 \/ i = 3 \/ i = 4
    OBVIOUS
  <2>4. UNION {places[i] : i \in 1 .. 4} = acked \cup ToSet(pending) \cup InHand \cup lost
    <3>1. \A x : x \in UNION {places[i] : i \in 1 .. 4} <=> \E i \in 1 .. 4 : x \in places[i]
      BY Zenon
    <3>2. 1 \in 1 .. 4 /\ 2 \in 1 .. 4 /\ 3 \in 1 .. 4 /\ 4 \in 1 .. 4
      OBVIOUS
    <3>3. \A x : (\E i \in 1 .. 4 : x \in places[i])
                   <=> (x \in acked \/ x \in ToSet(pending) \/ x \in InHand \/ x \in lost)
      BY <2>2, <2>3, <3>2, Zenon
    <3>4. QED
      BY <3>1, <3>3, Zenon
  <2>5. \A i, j \in 1 .. 4 : i # j => places[i] \cap places[j] = {}
    <3>1. /\ acked \cap ToSet(pending) = {} /\ acked \cap InHand = {} /\ acked \cap lost = {}
          /\ ToSet(pending) \cap InHand = {} /\ ToSet(pending) \cap lost = {}
          /\ InHand \cap lost = {}
      BY <2>1, Zenon DEF Placed
    <3>2. QED
      BY <2>2, <2>3, <3>1, Zenon
  <2>6. \A f \in Flushers : Increasing(hand[f] \o pending)
    BY <2>1, ConcatIncreasing, Zenon DEF Flushing, Ordered
  <2>7. /\ UNION {places[i] : i \in 1 .. 4} = 1 .. handled
        /\ Cardinality(lost) = reported + dropped
        /\ Increasing(received) /\ Bytes(pending) <= MaxPending
    BY <2>1, <2>4, Zenon DEF Placed, Seen, Ordered
  <2>8. QED
    BY <2>5, <2>6, <2>7, Zenon DEF EventsAccounted, places
<1>2. QED
  BY <1>1, AlwaysAccounting, PTL

(* Close reports success only when nothing is queued, no flush has events and  *)
(* the worker has returned.                                                    *)
THEOREM CloseIsComplete == Spec => []CloseDelivers
<1>1. Accounting => CloseDelivers
  <2> SUFFICES ASSUME Accounting, closing = "ok"
               PROVE  pending = <<>> /\ InHand = {} /\ done
    BY Zenon DEF CloseDelivers
  <2>1. pending = <<>> /\ done /\ \A f \in Flushers : hand[f] = <<>>
    BY Zenon DEF Accounting, Closing, Flushing
  <2>2. \A f \in Flushers : ToSet(hand[f]) = {}
    BY <2>1, EmptyFacts, Zenon
  <2>3. QED
    BY <2>1, <2>2, Zenon DEF InHand
<1>2. QED
  BY <1>1, AlwaysAccounting, PTL
=============================================================================
