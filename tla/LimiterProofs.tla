---------------------------- MODULE LimiterProofs ----------------------------
(***************************************************************************)
(* Proofs about AuthLimiter for every finite set of attempts, every set of *)
(* keys and every configuration.                                           *)
(***************************************************************************)
EXTENDS AuthLimiter, FiniteSetTheorems, SequenceTheorems, WellFoundedInduction, TLAPS

Fields == {"max", "rate", "burst"}

(* What normalizeLimits makes of a configuration. *)
Normal(l) ==
  /\ DOMAIN l.total = Fields /\ DOMAIN l.reserved = Fields
  /\ \A f \in Fields : /\ l.total[f] \in Nat \ {0}
                       /\ l.reserved[f] \in Nat
                       /\ l.reserved[f] < l.total[f]
  /\ l.perClient.burst \in Nat /\ l.perClient.rate \in Nat
  /\ l.perPrincipal.burst \in Nat /\ l.perPrincipal.rate \in Nat
  /\ l.ingress.burst \in Nat /\ l.ingress.rate \in Nat
  /\ l.maxKeys \in Nat \ {0}
  /\ l.trustedTTL \in Nat

(* Raising values to one leaves no zero and no negative value. *)
LEMMA PositiveFacts ==
  ASSUME NEW b \in Bounds
  PROVE  /\ DOMAIN Positive(b) = Fields
         /\ \A f \in Fields : Positive(b)[f] \in Nat \ {0}
         /\ Positive(b).max = AtLeastOne(b.max)
<1>1. DOMAIN b = Fields /\ \A f \in Fields : b[f] \in Int
  BY Zenon DEF Bounds, Fields
<1>2. QED
  BY <1>1 DEF Positive, AtLeastOne, Fields

(* Whatever is configured, normalizeLimits makes it a usable              *)
(* configuration.                                                         *)
LEMMA NormalizeFacts ==
  ASSUME NEW raw \in Limits
  PROVE  /\ Normal(NormalizeLimits(raw))
         /\ NormalizeLimits(raw).total.max = AtLeastOne(raw.total.max)
<1> DEFINE total == Positive(raw.total)
           clamped == [f \in DOMAIN total |-> ClampReserve(raw.reserved[f], total[f])]
           possible == \A f \in DOMAIN total : total[f] > 1 /\ clamped[f] > 0
           reserve == [f \in DOMAIN total |-> IF possible THEN clamped[f] ELSE 0]
           n == NormalizeLimits(raw)
<1>1. /\ raw.total \in Bounds /\ raw.reserved \in Bounds
      /\ raw.perClient \in Bounds /\ raw.perPrincipal \in Bounds
      /\ raw.ingress \in [rate : Int, burst : Int]
      /\ raw.maxKeys \in Int /\ raw.trustedTTL \in Int
  BY Zenon DEF Limits
<1>2. n = [raw EXCEPT !.total = total, !.reserved = reserve,
                      !.perClient = Positive(@), !.perPrincipal = Positive(@),
                      !.ingress = Positive(@), !.maxKeys = AtLeastOne(@),
                      !.trustedTTL = IF @ <= 0 THEN Minute ELSE @]
  BY Zenon DEF NormalizeLimits
<1> HIDE DEF n, total, reserve
<1>3. /\ n.total = total /\ n.reserved = reserve
      /\ n.perClient = Positive(raw.perClient) /\ n.perPrincipal = Positive(raw.perPrincipal)
      /\ n.ingress = Positive(raw.ingress) /\ n.maxKeys = AtLeastOne(raw.maxKeys)
      /\ n.trustedTTL = IF raw.trustedTTL <= 0 THEN Minute ELSE raw.trustedTTL
  BY <1>2, Zenon DEF Limits
<1>4. /\ DOMAIN total = Fields /\ \A f \in Fields : total[f] \in Nat \ {0}
      /\ total.max = AtLeastOne(raw.total.max)
  BY <1>1, PositiveFacts, Zenon DEF total
<1>5. DOMAIN reserve = Fields
      /\ \A f \in Fields : reserve[f] \in Nat /\ reserve[f] < total[f]
  <2>1. \A f \in Fields : raw.reserved[f] \in Int
    BY <1>1, Zenon DEF Bounds, Fields
  <2>2. \A f \in Fields : clamped[f] \in Nat /\ clamped[f] < total[f]
    BY <1>4, <2>1 DEF ClampReserve, Smaller
  <2> HIDE DEF clamped, possible
  <2>3. QED
    BY <1>4, <2>2 DEF reserve
<1>6. /\ n.perClient.burst \in Nat /\ n.perClient.rate \in Nat
      /\ n.perPrincipal.burst \in Nat /\ n.perPrincipal.rate \in Nat
  BY <1>1, <1>3, PositiveFacts, Zenon DEF Fields
<1>7. n.ingress.burst \in Nat /\ n.ingress.rate \in Nat
  BY <1>1, <1>3 DEF Positive, AtLeastOne
<1>8. n.maxKeys \in Nat \ {0} /\ n.trustedTTL \in Nat
  BY <1>1, <1>3 DEF AtLeastOne, Minute
<1>9. Normal(n) /\ n.total.max = AtLeastOne(raw.total.max)
  BY <1>3, <1>4, <1>5, <1>6, <1>7, <1>8, Zenon DEF Normal
<1>10. QED
  BY <1>9, Zenon DEF n

-----------------------------------------------------------------------------
(* A set of positions that is not empty has a last one. *)
LEMMA LastPosition ==
  ASSUME NEW n \in Nat, NEW S \in SUBSET (1 .. n), S # {}
  PROVE  \E i \in S : \A j \in S : j <= i
<1> DEFINE D == {n - i : i \in S}
           R == OpToRel(<, Nat)
<1>1. D \subseteq Nat /\ D # {}
  <2>1. \A i \in S : n - i \in Nat
    OBVIOUS
  <2>2. D \subseteq Nat
    BY <2>1, Zenon
  <2>3. PICK i \in S : TRUE
    BY Zenon
  <2>4. n - i \in D
    BY <2>3, Zenon
  <2>5. QED
    BY <2>2, <2>4, Zenon
<1>2. PICK x \in D : \A y \in D : ~(<<y, x>> \in R)
  BY <1>1, WFMin, NatLessThanWellFounded, Zenon
<1>3. \A y \in D : ~(y < x)
  BY <1>1, <1>2, Zenon DEF OpToRel
<1>4. PICK i \in S : x = n - i
  BY Zenon
<1>5. ASSUME NEW j \in S PROVE j <= i
  <2>1. n - j \in D
    BY Zenon
  <2>2. ~(n - j < n - i)
    BY <1>3, <1>4, <2>1, Zenon
  <2>3. QED
    BY <2>2
<1>6. QED
  BY <1>5, Zenon

Distinct(s) == \A i, j \in 1 .. Len(s) : s[i] = s[j] => i = j
In(s, k) == \E i \in 1 .. Len(s) : s[i] = k

(* Removing an element of a list. *)
LEMMA WithoutFacts ==
  ASSUME NEW K, NEW s \in Seq(K), NEW k
  PROVE  /\ Without(s, k) \in Seq(K)
         /\ Len(Without(s, k)) = IF In(s, k) THEN Len(s) - 1 ELSE Len(s)
         /\ Distinct(s) => Distinct(Without(s, k)) /\ ~In(Without(s, k), k)
         /\ \A x : In(Without(s, k), x) => In(s, x)
<1>1. CASE ~In(s, k)
  BY <1>1, Zenon DEF Without, In
<1>2. CASE In(s, k)
  <2> DEFINE i == PlaceOf(s, k)
             w == Without(s, k)
  <2>1. i \in 1 .. Len(s) /\ s[i] = k /\ Len(s) \in Nat
    BY <1>2 DEF In, PlaceOf
  <2>2. w = SubSeq(s, 1, i - 1) \o SubSeq(s, i + 1, Len(s))
    BY <1>2, Zenon DEF Without, In
  <2> HIDE DEF i, w
  <2> DEFINE before == SubSeq(s, 1, i - 1)
             after == SubSeq(s, i + 1, Len(s))
  <2>3. /\ before \in Seq(K) /\ Len(before) = i - 1
        /\ \A j \in 1 .. i - 1 : before[j] = s[j]
    BY <2>1
  <2>4. /\ after \in Seq(K) /\ Len(after) = Len(s) - i
        /\ \A j \in 1 .. Len(s) - i : after[j] = s[i + j]
    BY <2>1
  <2>5. w = before \o after
    BY <2>2, Zenon
  <2> HIDE DEF before, after
  <2>6. /\ w \in Seq(K) /\ Len(w) = (i - 1) + (Len(s) - i)
        /\ \A j \in 1 .. (i - 1) + (Len(s) - i) :
              w[j] = IF j <= i - 1 THEN before[j] ELSE after[j - (i - 1)]
    <3>1. /\ before \o after \in Seq(K) /\ Len(before \o after) = Len(before) + Len(after)
          /\ \A j \in 1 .. Len(before) + Len(after) : (before \o after)[j] =
                IF j <= Len(before) THEN before[j] ELSE after[j - Len(before)]
      BY <2>3, <2>4, ConcatProperties, Zenon
    <3>2. QED
      BY <2>3, <2>4, <2>5, <3>1, Zenon
  <2>7. w \in Seq(K) /\ Len(w) = Len(s) - 1
    BY <2>1, <2>6
  <2>8. ASSUME NEW j \in 1 .. Len(w) PROVE w[j] = IF j < i THEN s[j] ELSE s[j + 1]
    <3>1. w[j] = IF j <= i - 1 THEN before[j] ELSE after[j - (i - 1)]
      BY <2>6, Zenon
    <3>2. CASE j < i
      <4>1. j \in 1 .. i - 1
        BY <2>1, <2>7, <3>2
      <4>2. QED
        BY <2>3, <3>1, <3>2, <4>1
    <3>3. CASE ~(j < i)
      <4>1. ~(j <= i - 1) /\ j - (i - 1) \in 1 .. Len(s) - i
        BY <2>1, <2>7, <3>3
      <4>2. i + (j - (i - 1)) = j + 1
        BY <2>1, <2>7
      <4>3. QED
        BY <2>4, <3>1, <3>3, <4>1, <4>2, Zenon
    <3>4. QED
      BY <3>2, <3>3, Zenon
  <2>9. \A x : In(w, x) => In(s, x)
    BY <2>1, <2>7, <2>8 DEF In
  <2>10. Distinct(s) => Distinct(w)
    BY <2>1, <2>7, <2>8 DEF Distinct
  <2>11. Distinct(s) => ~In(w, k)
    BY <2>1, <2>7, <2>8 DEF Distinct, In
  <2>12. QED
    BY <1>2, <2>7, <2>9, <2>10, <2>11, Zenon DEF w
<1>3. QED
  BY <1>1, <1>2, Zenon

(* Using an element of a list, or adding one. *)
LEMMA ToFrontFacts ==
  ASSUME NEW K, NEW s \in Seq(K), NEW k \in K
  PROVE  /\ ToFront(s, k) \in Seq(K)
         /\ Len(ToFront(s, k)) = IF In(s, k) THEN Len(s) ELSE Len(s) + 1
         /\ Distinct(s) => Distinct(ToFront(s, k))
<1> DEFINE w == Without(s, k)
<1>1. /\ w \in Seq(K) /\ Len(w) = IF In(s, k) THEN Len(s) - 1 ELSE Len(s)
      /\ Distinct(s) => Distinct(w) /\ ~In(w, k)
  BY WithoutFacts, Zenon
<1>2. ToFront(s, k) = <<k>> \o w
  BY Zenon DEF ToFront
<1> HIDE DEF w
<1>3. /\ ToFront(s, k) \in Seq(K) /\ Len(ToFront(s, k)) = Len(w) + 1
      /\ ToFront(s, k)[1] = k
      /\ \A j \in 2 .. Len(w) + 1 : ToFront(s, k)[j] = w[j - 1]
  BY <1>1, <1>2
<1>4. Distinct(s) => Distinct(ToFront(s, k))
  <2> SUFFICES ASSUME Distinct(s), NEW i \in 1 .. Len(w) + 1, NEW j \in 1 .. Len(w) + 1,
                      ToFront(s, k)[i] = ToFront(s, k)[j]
               PROVE  i = j
    BY <1>3, Zenon DEF Distinct
  <2>1. Len(w) \in Nat /\ Distinct(w) /\ ~In(w, k)
    BY <1>1
  <2>2. CASE i = 1 \/ j = 1
    BY <1>3, <2>1, <2>2 DEF In
  <2>3. CASE i # 1 /\ j # 1
    <3>1. i - 1 \in 1 .. Len(w) /\ j - 1 \in 1 .. Len(w) /\ w[i - 1] = w[j - 1]
      BY <1>3, <2>1, <2>3
    <3>2. i - 1 = j - 1
      BY <2>1, <3>1, Zenon DEF Distinct
    <3>3. QED
      BY <3>2
  <2>4. QED
    BY <2>2, <2>3, Zenon
<1>5. QED
  BY <1>1, <1>3, <1>4

-----------------------------------------------------------------------------
(* A keyed limiter never holds more than maxKeys entries, each once. *)
KeyedOK(keyed, K) ==
  /\ keyed \in [lru : Seq(K), inFlight : [K -> Nat], tokens : [K -> Int]]
  /\ Len(keyed.lru) <= limits.maxKeys
  /\ Distinct(keyed.lru)

(* state(key) evicts only entries without work in flight, so it changes no     *)
(* count, and it makes room before it adds.                                    *)
LEMMA TouchedFacts ==
  ASSUME NEW K, NEW keyed, KeyedOK(keyed, K), NEW k \in K, NEW burst \in Int,
         limits.maxKeys \in Nat \ {0}
  PROVE  /\ KeyedOK(Touched(keyed, k, burst), K)
         /\ Touched(keyed, k, burst).inFlight = keyed.inFlight
<1> DEFINE t == Touched(keyed, k, burst)
<1>1. /\ keyed.lru \in Seq(K) /\ keyed.inFlight \in [K -> Nat] /\ keyed.tokens \in [K -> Int]
      /\ Len(keyed.lru) <= limits.maxKeys /\ Distinct(keyed.lru)
      /\ Len(keyed.lru) \in Nat
  BY DEF KeyedOK
<1>2. k \in Entries(keyed) <=> In(keyed.lru, k)
  BY <1>1, Zenon DEF Entries, In
<1>3. CASE NoState(keyed, k)
  <2>1. t = keyed
    BY <1>3, Zenon DEF Touched
  <2> HIDE DEF t
  <2>2. KeyedOK(t, K) /\ t.inFlight = keyed.inFlight
    BY <2>1, Zenon
  <2>3. QED
    BY <2>2, Zenon DEF t
<1>4. CASE ~NoState(keyed, k) /\ (k \in Entries(keyed) \/ Len(keyed.lru) < limits.maxKeys)
  <2>1. t = [keyed EXCEPT !.lru = ToFront(@, k)]
    BY <1>4, Zenon DEF Touched
  <2>2. /\ ToFront(keyed.lru, k) \in Seq(K)
        /\ Len(ToFront(keyed.lru, k)) = IF In(keyed.lru, k) THEN Len(keyed.lru) ELSE Len(keyed.lru) + 1
        /\ Distinct(ToFront(keyed.lru, k))
    BY <1>1, ToFrontFacts, Zenon
  <2> HIDE DEF t
  <2>3. t.lru = ToFront(keyed.lru, k) /\ t.inFlight = keyed.inFlight
        /\ t \in [lru : Seq(K), inFlight : [K -> Nat], tokens : [K -> Int]]
    BY <2>1, <2>2, Zenon DEF KeyedOK
  <2>4. Len(t.lru) <= limits.maxKeys
    BY <1>1, <1>2, <1>4, <2>2, <2>3
  <2>5. KeyedOK(t, K) /\ t.inFlight = keyed.inFlight
    BY <2>2, <2>3, <2>4, Zenon DEF KeyedOK
  <2>6. QED
    BY <2>5, Zenon DEF t
<1>5. CASE /\ ~NoState(keyed, k) /\ k \notin Entries(keyed)
           /\ Len(keyed.lru) >= limits.maxKeys
  <2> DEFINE v == Oldest(keyed)
             left == Without(keyed.lru, v)
  <2>1. t = [lru |-> ToFront(left, k), inFlight |-> [keyed.inFlight EXCEPT ![v] = 0],
             tokens |-> [keyed.tokens EXCEPT ![v] = burst]]
    BY <1>1, <1>5 DEF Touched
  <2>2. \E i \in 1 .. Len(keyed.lru) : v = keyed.lru[i] /\ keyed.inFlight[v] = 0
    <3>1. Idle(keyed) \subseteq 1 .. Len(keyed.lru) /\ Idle(keyed) # {}
      BY <1>5, Zenon DEF Idle, NoState
    <3>2. \E i \in Idle(keyed) : \A j \in Idle(keyed) : j <= i
      BY <1>1, <3>1, LastPosition, Zenon
    <3>3. \E i \in Idle(keyed) : v = keyed.lru[i]
      BY <3>2, Zenon DEF Oldest
    <3>4. QED
      BY <3>3, Zenon DEF Idle
  <2> HIDE DEF v
  <2>3. v \in K /\ In(keyed.lru, v) /\ keyed.inFlight[v] = 0
    BY <1>1, <2>2 DEF In
  <2>4. [keyed.inFlight EXCEPT ![v] = 0] = keyed.inFlight
    BY <1>1, <2>3, Zenon
  <2>5. /\ left \in Seq(K) /\ Len(left) = Len(keyed.lru) - 1 /\ Distinct(left)
        /\ ~In(left, k)
    BY <1>1, <1>2, <1>5, <2>3, WithoutFacts, Zenon
  <2> HIDE DEF left, t
  <2>6. /\ ToFront(left, k) \in Seq(K) /\ Len(ToFront(left, k)) = Len(keyed.lru)
        /\ Distinct(ToFront(left, k))
    <3>1. /\ ToFront(left, k) \in Seq(K) /\ Distinct(ToFront(left, k))
          /\ Len(ToFront(left, k)) = IF In(left, k) THEN Len(left) ELSE Len(left) + 1
      BY <2>5, ToFrontFacts, Zenon
    <3>2. QED
      BY <1>1, <2>5, <3>1
  <2>7. [keyed.tokens EXCEPT ![v] = burst] \in [K -> Int]
    BY <1>1, <2>3, Zenon
  <2>8. KeyedOK(t, K) /\ t.inFlight = keyed.inFlight
    BY <1>1, <2>1, <2>4, <2>6, <2>7, Zenon DEF KeyedOK
  <2>9. QED
    BY <2>8, Zenon DEF t
<1>6. QED
  BY <1>1, <1>3, <1>4, <1>5

(* acquire counts one more attempt for its key. *)
LEMMA KeyAcquireFacts ==
  ASSUME NEW K, NEW keyed, KeyedOK(keyed, K), NEW k \in K
  PROVE  /\ KeyedOK(KeyAcquire(keyed, k), K)
         /\ KeyAcquire(keyed, k).inFlight = [keyed.inFlight EXCEPT ![k] = @ + 1]
         /\ KeyAcquire(keyed, k).lru = keyed.lru
<1> DEFINE n == KeyAcquire(keyed, k)
           flights == [keyed.inFlight EXCEPT ![k] = @ + 1]
           left == [keyed.tokens EXCEPT ![k] = @ - 1]
<1>1. keyed.inFlight \in [K -> Nat] /\ keyed.tokens \in [K -> Int] /\ keyed.lru \in Seq(K)
  BY Zenon DEF KeyedOK
<1>2. flights \in [K -> Nat] /\ left \in [K -> Int]
  BY <1>1
<1>3. n = [keyed EXCEPT !.inFlight = flights, !.tokens = left]
  BY Zenon DEF KeyAcquire, KeyedOK
<1> HIDE DEF n, flights, left
<1>4. n.inFlight = flights /\ n.lru = keyed.lru
      /\ n \in [lru : Seq(K), inFlight : [K -> Nat], tokens : [K -> Int]]
  BY <1>2, <1>3, Zenon DEF KeyedOK
<1>5. KeyedOK(n, K)
  BY <1>4, Zenon DEF KeyedOK
<1>6. QED
  BY <1>4, <1>5, Zenon DEF n, flights

(* release counts one attempt less for its key, and never below zero. *)
LEMMA KeyReleaseFacts ==
  ASSUME NEW K, NEW keyed, KeyedOK(keyed, K), NEW k \in K
  PROVE  /\ KeyedOK(KeyRelease(keyed, k), K)
         /\ KeyRelease(keyed, k).inFlight = [keyed.inFlight EXCEPT ![k] = Larger(@ - 1, 0)]
<1> DEFINE n == KeyRelease(keyed, k)
           flights == [keyed.inFlight EXCEPT ![k] = Larger(@ - 1, 0)]
<1>1. keyed.inFlight \in [K -> Nat] /\ keyed.tokens \in [K -> Int] /\ keyed.lru \in Seq(K)
  BY Zenon DEF KeyedOK
<1>2. flights \in [K -> Nat]
  BY <1>1 DEF Larger
<1>3. n = [keyed EXCEPT !.inFlight = flights]
  BY Zenon DEF KeyRelease, KeyedOK
<1> HIDE DEF n, flights
<1>4. n.inFlight = flights /\ n.lru = keyed.lru
      /\ n \in [lru : Seq(K), inFlight : [K -> Nat], tokens : [K -> Int]]
  BY <1>2, <1>3, Zenon DEF KeyedOK
<1>5. KeyedOK(n, K)
  BY <1>4, Zenon DEF KeyedOK
<1>6. QED
  BY <1>4, <1>5, Zenon DEF n, flights

(* Refilling the buckets of a keyed limiter changes no count. *)
LEMMA RefilledKeysFacts ==
  ASSUME NEW K, NEW keyed, KeyedOK(keyed, K), NEW lim, lim.rate \in Nat, lim.burst \in Nat
  PROVE  /\ KeyedOK(RefilledKeys(keyed, lim), K)
         /\ RefilledKeys(keyed, lim).inFlight = keyed.inFlight
<1> DEFINE n == RefilledKeys(keyed, lim)
           filled == [k \in DOMAIN keyed.tokens |->
                        Refilled(keyed.tokens[k], lim.rate, lim.burst)]
<1>1. keyed.inFlight \in [K -> Nat] /\ keyed.tokens \in [K -> Int] /\ keyed.lru \in Seq(K)
  BY Zenon DEF KeyedOK
<1>2. filled \in [K -> Int]
  BY <1>1 DEF Refilled, Smaller
<1>3. n = [keyed EXCEPT !.tokens = filled]
  BY Zenon DEF RefilledKeys, KeyedOK
<1> HIDE DEF n, filled
<1>4. n.inFlight = keyed.inFlight /\ n.lru = keyed.lru
      /\ n \in [lru : Seq(K), inFlight : [K -> Nat], tokens : [K -> Int]]
  BY <1>2, <1>3, Zenon DEF KeyedOK
<1>5. KeyedOK(n, K)
  BY <1>4, Zenon DEF KeyedOK
<1>6. QED
  BY <1>4, <1>5, Zenon DEF n

-----------------------------------------------------------------------------
Pool == [inFlight : Nat, tokens : Nat]

(* What the variables hold. *)
Shape ==
  /\ \E raw \in RawLimits : limits = NormalizeLimits(raw)
  /\ Normal(limits)
  /\ shared \in Pool /\ reserved \in Pool
  /\ KeyedOK(clients, ClientKeys) /\ KeyedOK(principals, PrincipalKeys)
  /\ KeyedOK(ingress, ClientKeys)
  /\ trusted \in Seq(CredentialKeys) /\ Len(trusted) <= limits.maxKeys
  /\ validFor \in [CredentialKeys -> Int] /\ marked \in [CredentialKeys -> Int]
  /\ permit \in [Attempts -> {"none", "shared", "reserved"}]
  /\ time \in Nat
  /\ granted \in [shared : Nat, reserved : Nat]

(* The pools never count more than their share. *)
WithinPools ==
  /\ shared.inFlight <= SharedLimits.max
  /\ reserved.inFlight <= limits.reserved.max

(* What was granted and what could be granted at once is within the rate. *)
Metered ==
  /\ granted.shared + shared.tokens <= SharedLimits.burst + time * SharedLimits.rate
  /\ granted.reserved + reserved.tokens <=
       limits.reserved.burst + time * limits.reserved.rate

(* A credential that is still valid was marked, and its validity is what is    *)
(* left of the TTL.                                                            *)
Remembered ==
  \A c \in CredentialKeys : validFor[c] >= 0 =>
    /\ marked[c] >= 0
    /\ time - marked[c] + validFor[c] = limits.trustedTTL

(* The single limits of a usable configuration. *)
LEMMA LimitFacts ==
  ASSUME Normal(limits)
  PROVE  /\ limits.maxKeys \in Nat \ {0} /\ limits.trustedTTL \in Nat
         /\ limits.perClient.burst \in Nat /\ limits.perClient.rate \in Nat
         /\ limits.perPrincipal.burst \in Nat /\ limits.perPrincipal.rate \in Nat
         /\ limits.ingress.burst \in Nat /\ limits.ingress.rate \in Nat
         /\ DOMAIN SharedLimits = Fields /\ DOMAIN limits.reserved = Fields
         /\ \A f \in Fields : /\ SharedLimits[f] = limits.total[f] - limits.reserved[f]
                              /\ SharedLimits[f] \in Nat \ {0}
                              /\ limits.total[f] \in Nat
                              /\ limits.reserved[f] \in Nat
<1>1. DOMAIN SharedLimits = Fields
      /\ \A f \in Fields : SharedLimits[f] = limits.total[f] - limits.reserved[f]
  BY Zenon DEF SharedLimits, Normal
<1>2. \A f \in Fields : limits.total[f] - limits.reserved[f] \in Nat \ {0}
  BY DEF Normal
<1>3. QED
  BY <1>1, <1>2, Zenon DEF Normal

(* The shared pool has what the reserve leaves, and that is something. *)
LEMMA NamedLimits ==
  ASSUME Normal(limits)
  PROVE  /\ SharedLimits.max = limits.total.max - limits.reserved.max
         /\ SharedLimits.burst = limits.total.burst - limits.reserved.burst
         /\ SharedLimits.rate = limits.total.rate - limits.reserved.rate
         /\ {SharedLimits.max, SharedLimits.burst, SharedLimits.rate} \subseteq Nat \ {0}
         /\ {limits.total.max, limits.total.burst, limits.total.rate} \subseteq Nat
         /\ {limits.reserved.max, limits.reserved.burst, limits.reserved.rate} \subseteq Nat
BY LimitFacts, Zenon DEF Fields

(* A new limiter is well formed and has granted nothing. *)
LEMMA InitShape == Init => Shape /\ WithinPools /\ Metered /\ Remembered
<1> SUFFICES ASSUME Init PROVE Shape /\ WithinPools /\ Metered /\ Remembered
  BY Zenon
<1>1. PICK raw \in RawLimits : limits = NormalizeLimits(raw)
  BY Zenon DEF Init
<1>2. Normal(limits)
  BY <1>1, NormalizeFacts, LimiterAssumption, Zenon
<1>3. ASSUME NEW K, NEW burst \in Nat PROVE KeyedOK(EmptyKeyed(K, burst), K)
  BY <1>2, LimitFacts DEF KeyedOK, EmptyKeyed, Distinct
<1>4. KeyedOK(clients, ClientKeys) /\ KeyedOK(principals, PrincipalKeys)
      /\ KeyedOK(ingress, ClientKeys)
  BY <1>2, <1>3, LimitFacts, Zenon DEF Init
<1>5. shared \in Pool /\ reserved \in Pool
  BY <1>2, NamedLimits, Zenon DEF Init, Pool
<1>6. Shape
  BY <1>1, <1>2, <1>4, <1>5, LimitFacts DEF Init, Shape
<1>7. WithinPools
  BY <1>2, NamedLimits DEF Init, WithinPools
<1>8. Metered
  BY <1>2, NamedLimits DEF Init, Metered
<1>9. Remembered
  BY DEF Init, Remembered
<1>10. QED
  BY <1>6, <1>7, <1>8, <1>9, Zenon

(* The reading of what a method does to the pools, the meters and the trusted  *)
(* credentials, apart from the keyed limiters.                                 *)
LEMMA TrustedAfterFacts ==
  ASSUME Shape, NEW c \in CredentialKeys
  PROVE  TrustedAfter(c) \in Seq(CredentialKeys) /\ Len(TrustedAfter(c)) <= limits.maxKeys
<1>1. trusted \in Seq(CredentialKeys) /\ Len(trusted) <= limits.maxKeys
      /\ limits.maxKeys \in Nat /\ Len(trusted) \in Nat
  BY LimitFacts DEF Shape
<1>2. CASE ~InTrusted(c)
  BY <1>1, <1>2, Zenon DEF TrustedAfter
<1>3. CASE InTrusted(c)
  <2>1. In(trusted, c)
    BY <1>3, Zenon DEF InTrusted, In
  <2>2. Without(trusted, c) \in Seq(CredentialKeys) /\ Len(Without(trusted, c)) = Len(trusted) - 1
    BY <1>1, <2>1, WithoutFacts, Zenon
  <2>3. ToFront(trusted, c) \in Seq(CredentialKeys) /\ Len(ToFront(trusted, c)) = Len(trusted)
    BY <1>1, <2>1, ToFrontFacts, Zenon
  <2>4. QED
    BY <1>1, <1>3, <2>2, <2>3 DEF TrustedAfter
<1>4. QED
  BY <1>2, <1>3, Zenon

-----------------------------------------------------------------------------
(* The counts against the permits held. *)
Counted ==
  /\ \A k \in ClientKeys : clients.inFlight[k] = Cardinality(HoldersOf(ClientOf, k))
  /\ \A k \in PrincipalKeys :
       principals.inFlight[k] = Cardinality(HoldersOf(PrincipalOf, k))
  /\ shared.inFlight = Cardinality(HeldFrom("shared"))
  /\ reserved.inFlight = Cardinality(HeldFrom("reserved"))

Held == {a \in Attempts : permit[a] # "none"}

(* Finitely many attempts hold permits. *)
LEMMA HeldFinite ==
  /\ IsFiniteSet(Held) /\ Cardinality(Held) \in Nat
  /\ \A keyOf, k : IsFiniteSet(HoldersOf(keyOf, k)) /\ Cardinality(HoldersOf(keyOf, k)) \in Nat
  /\ \A pool : IsFiniteSet(HeldFrom(pool)) /\ Cardinality(HeldFrom(pool)) \in Nat
<1>1. ASSUME NEW S \in SUBSET Attempts PROVE IsFiniteSet(S) /\ Cardinality(S) \in Nat
  BY LimiterAssumption, FS_Subset, FS_CardinalityType, Zenon
<1>2. Held \subseteq Attempts
  BY Zenon DEF Held
<1>3. \A keyOf, k : HoldersOf(keyOf, k) \subseteq Attempts
  BY Zenon DEF HoldersOf
<1>4. \A pool : HeldFrom(pool) \subseteq Attempts
  BY Zenon DEF HeldFrom
<1>5. QED
  BY <1>1, <1>2, <1>3, <1>4, Zenon

(* Taking a permit adds its holder to one set of each kind. *)
LEMMA PermitTaken ==
  ASSUME Shape, NEW a \in Attempts, NEW pool \in Pools, permit[a] = "none",
         permit' = [permit EXCEPT ![a] = pool]
  PROVE  /\ permit' \in [Attempts -> {"none", "shared", "reserved"}]
         /\ Held' = Held \cup {a} /\ a \notin Held
         /\ \A keyOf, k : Cardinality(HoldersOf(keyOf, k))' =
              IF k = keyOf[a] THEN Cardinality(HoldersOf(keyOf, k)) + 1
                              ELSE Cardinality(HoldersOf(keyOf, k))
         /\ \A p \in Pools : Cardinality(HeldFrom(p))' =
              IF p = pool THEN Cardinality(HeldFrom(p)) + 1 ELSE Cardinality(HeldFrom(p))
<1>1. /\ permit \in [Attempts -> {"none", "shared", "reserved"}]
      /\ pool \in {"shared", "reserved"} /\ pool # "none"
  BY Zenon DEF Shape, Pools
<1>2. /\ permit' \in [Attempts -> {"none", "shared", "reserved"}]
      /\ Held' = Held \cup {a} /\ a \notin Held
  BY <1>1, Zenon DEF Held
<1>3. ASSUME NEW keyOf, NEW k
      PROVE  Cardinality(HoldersOf(keyOf, k))' =
               IF k = keyOf[a] THEN Cardinality(HoldersOf(keyOf, k)) + 1
                               ELSE Cardinality(HoldersOf(keyOf, k))
  <2>1. CASE k = keyOf[a]
    <3>1. HoldersOf(keyOf, k)' = HoldersOf(keyOf, k) \cup {a} /\ a \notin HoldersOf(keyOf, k)
      BY <1>1, <2>1, Zenon DEF HoldersOf
    <3>2. QED
      BY <2>1, <3>1, HeldFinite, FS_AddElement, Zenon
  <2>2. CASE k # keyOf[a]
    <3>1. HoldersOf(keyOf, k)' = HoldersOf(keyOf, k)
      BY <1>1, <2>2, Zenon DEF HoldersOf
    <3>2. QED
      BY <2>2, <3>1, Zenon
  <2>3. QED
    BY <2>1, <2>2, Zenon
<1>4. ASSUME NEW p \in Pools
      PROVE  Cardinality(HeldFrom(p))' =
               IF p = pool THEN Cardinality(HeldFrom(p)) + 1 ELSE Cardinality(HeldFrom(p))
  <2>1. CASE p = pool
    <3>1. HeldFrom(p)' = HeldFrom(p) \cup {a} /\ a \notin HeldFrom(p)
      BY <1>1, <2>1, Zenon DEF HeldFrom
    <3>2. QED
      BY <2>1, <3>1, HeldFinite, FS_AddElement, Zenon
  <2>2. CASE p # pool
    <3>1. HeldFrom(p)' = HeldFrom(p)
      BY <1>1, <2>2, Zenon DEF HeldFrom, Pools
    <3>2. QED
      BY <2>2, <3>1, Zenon
  <2>3. QED
    BY <2>1, <2>2, Zenon
<1>5. QED
  BY <1>2, <1>3, <1>4, Zenon

(* Releasing it takes the holder out of the same sets, which are not empty. *)
LEMMA PermitReleased ==
  ASSUME Shape, NEW a \in Attempts, permit[a] # "none",
         permit' = [permit EXCEPT ![a] = "none"]
  PROVE  /\ permit' \in [Attempts -> {"none", "shared", "reserved"}]
         /\ Held' = Held \ {a} /\ a \in Held
         /\ \A keyOf, k : Cardinality(HoldersOf(keyOf, k))' =
              IF k = keyOf[a] THEN Larger(Cardinality(HoldersOf(keyOf, k)) - 1, 0)
                              ELSE Cardinality(HoldersOf(keyOf, k))
         /\ \A p \in Pools : Cardinality(HeldFrom(p))' =
              IF p = permit[a] THEN Larger(Cardinality(HeldFrom(p)) - 1, 0)
                               ELSE Cardinality(HeldFrom(p))
<1>1. permit \in [Attempts -> {"none", "shared", "reserved"}]
  BY Zenon DEF Shape
<1>2. /\ permit' \in [Attempts -> {"none", "shared", "reserved"}]
      /\ Held' = Held \ {a} /\ a \in Held
  BY <1>1, Zenon DEF Held
<1>3. ASSUME NEW S, IsFiniteSet(S), a \in S
      PROVE  Cardinality(S \ {a}) = Larger(Cardinality(S) - 1, 0)
  <2>1. /\ IsFiniteSet(S \ {a}) /\ Cardinality(S \ {a}) = Cardinality(S) - 1
        /\ Cardinality(S) \in Nat
    BY <1>3, FS_RemoveElement, FS_CardinalityType, Zenon
  <2>2. Cardinality(S \ {a}) \in Nat
    BY <2>1, FS_CardinalityType, Zenon
  <2>3. QED
    BY <2>1, <2>2 DEF Larger
<1>4. ASSUME NEW keyOf, NEW k
      PROVE  Cardinality(HoldersOf(keyOf, k))' =
               IF k = keyOf[a] THEN Larger(Cardinality(HoldersOf(keyOf, k)) - 1, 0)
                               ELSE Cardinality(HoldersOf(keyOf, k))
  <2>1. CASE k = keyOf[a]
    <3>1. HoldersOf(keyOf, k)' = HoldersOf(keyOf, k) \ {a} /\ a \in HoldersOf(keyOf, k)
      BY <1>1, <2>1, Zenon DEF HoldersOf
    <3>2. QED
      BY <1>3, <2>1, <3>1, HeldFinite, Zenon
  <2>2. CASE k # keyOf[a]
    <3>1. HoldersOf(keyOf, k)' = HoldersOf(keyOf, k)
      BY <1>1, <2>2, Zenon DEF HoldersOf
    <3>2. QED
      BY <2>2, <3>1, Zenon
  <2>3. QED
    BY <2>1, <2>2, Zenon
<1>5. ASSUME NEW p \in Pools
      PROVE  Cardinality(HeldFrom(p))' =
               IF p = permit[a] THEN Larger(Cardinality(HeldFrom(p)) - 1, 0)
                                ELSE Cardinality(HeldFrom(p))
  <2>1. CASE p = permit[a]
    <3>1. HeldFrom(p)' = HeldFrom(p) \ {a} /\ a \in HeldFrom(p)
      BY <1>1, <2>1, Zenon DEF HeldFrom
    <3>2. QED
      BY <1>3, <2>1, <3>1, HeldFinite, Zenon
  <2>2. CASE p # permit[a]
    <3>1. HeldFrom(p)' = HeldFrom(p)
      BY <1>1, <2>2, Zenon DEF HeldFrom, Pools
    <3>2. QED
      BY <2>2, <3>1, Zenon
  <2>3. QED
    BY <2>1, <2>2, Zenon
<1>6. QED
  BY <1>2, <1>4, <1>5, Zenon

-----------------------------------------------------------------------------
(* The inductive invariant. *)
Accounts == Shape /\ Counted /\ WithinPools /\ Metered /\ Remembered

(* The early per-client limit touches nothing but its own keyed limiter. *)
LEMMA IngressKeeps ==
  ASSUME Accounts, NEW k \in IngressClients, AllowIngress(k) \/ RefundIngress(k)
  PROVE  Accounts'
<1> DEFINE seen == Touched(ingress, k, limits.ingress.burst)
<1>1. Shape /\ Normal(limits) /\ KeyedOK(ingress, ClientKeys) /\ k \in ClientKeys
  BY LimiterAssumption, Zenon DEF Accounts, Shape
<1>2. limits.ingress.burst \in Nat /\ limits.maxKeys \in Nat \ {0}
  BY <1>1, LimitFacts, Zenon
<1>3. KeyedOK(seen, ClientKeys)
  BY <1>1, <1>2, TouchedFacts
<1>4. /\ limits' = limits /\ shared' = shared /\ reserved' = reserved
      /\ clients' = clients /\ principals' = principals /\ trusted' = trusted
      /\ validFor' = validFor /\ permit' = permit /\ time' = time
      /\ granted' = granted /\ marked' = marked
  BY Zenon DEF AllowIngress, RefundIngress, history
<1> HIDE DEF seen
<1>5. ASSUME AllowIngress(k) PROVE KeyedOK(ingress', ClientKeys)
  <2>1. KeyedOK(KeyRelease(KeyAcquire(seen, k), k), ClientKeys)
    BY <1>1, <1>3, KeyAcquireFacts, KeyReleaseFacts, Zenon
  <2>2. ingress' = seen \/ ingress' = KeyRelease(KeyAcquire(seen, k), k)
    BY <1>5, Zenon DEF AllowIngress, seen
  <2>3. QED
    BY <1>3, <2>1, <2>2, Zenon
<1>6. ASSUME RefundIngress(k) PROVE KeyedOK(ingress', ClientKeys)
  <2> DEFINE n == [seen EXCEPT !.tokens[k] = Smaller(@ + 1, limits.ingress.burst)]
             left == [seen.tokens EXCEPT ![k] = Smaller(@ + 1, limits.ingress.burst)]
  <2>1. left \in [ClientKeys -> Int]
    BY <1>1, <1>2, <1>3 DEF KeyedOK, Smaller
  <2>2. n = [seen EXCEPT !.tokens = left]
    BY <1>3, Zenon DEF KeyedOK
  <2>3. ingress' = seen \/ ingress' = n
    BY <1>6, Zenon DEF RefundIngress, seen
  <2> HIDE DEF n, left
  <2>4. KeyedOK(n, ClientKeys)
    BY <1>3, <2>1, <2>2, Zenon DEF KeyedOK
  <2>5. QED
    BY <1>3, <2>3, <2>4, Zenon
<1>7. KeyedOK(ingress, ClientKeys)'
  <2>1. KeyedOK(ingress', ClientKeys)
    BY <1>5, <1>6, Zenon
  <2>2. QED
    BY <1>4, <2>1, Zenon DEF KeyedOK
<1>8. Shape'
  BY <1>1, <1>4, <1>7, Zenon DEF Shape, KeyedOK
<1>9. Counted'
  BY <1>4, Zenon DEF Accounts, Counted, HoldersOf, HeldFrom
<1>10. WithinPools' /\ Metered' /\ Remembered'
  BY <1>4, Zenon DEF Accounts, WithinPools, Metered, Remembered, SharedLimits
<1>11. QED
  BY <1>8, <1>9, <1>10, Zenon DEF Accounts

(* Asking for the entries of an attempt. *)
LEMMA KeysTouched ==
  ASSUME Shape, NEW a \in Attempts
  PROVE  LET c == Touched(clients, ClientOf[a], limits.perClient.burst)
             p == Touched(principals, PrincipalOf[a], limits.perPrincipal.burst)
         IN /\ ClientOf[a] \in ClientKeys /\ PrincipalOf[a] \in PrincipalKeys
            /\ KeyedOK(c, ClientKeys) /\ c.inFlight = clients.inFlight
            /\ KeyedOK(p, PrincipalKeys) /\ p.inFlight = principals.inFlight
<1>1. /\ Normal(limits) /\ KeyedOK(clients, ClientKeys) /\ KeyedOK(principals, PrincipalKeys)
      /\ ClientOf[a] \in ClientKeys /\ PrincipalOf[a] \in PrincipalKeys
  BY LimiterAssumption, Zenon DEF Shape
<1>2. /\ limits.perClient.burst \in Int /\ limits.perPrincipal.burst \in Int
      /\ limits.maxKeys \in Nat \ {0}
  BY <1>1, LimitFacts
<1>3. QED
  BY <1>1, <1>2, TouchedFacts, SMTT(30)

(* A refusal moves entries and forgets expired credentials; it counts nothing. *)
LEMMA RefusalKeeps ==
  ASSUME Accounts, NEW a \in Attempts, RefuseByKey(a) \/ RefuseByPool(a)
  PROVE  Accounts'
<1>1. Shape /\ CredentialOf[a] \in CredentialKeys
  BY LimiterAssumption, Zenon DEF Accounts
<1>2. /\ limits' = limits /\ shared' = shared /\ reserved' = reserved
      /\ ingress' = ingress /\ validFor' = validFor /\ permit' = permit
      /\ time' = time /\ granted' = granted /\ marked' = marked
      /\ clients' = Touched(clients, ClientOf[a], limits.perClient.burst)
      /\ principals' = Touched(principals, PrincipalOf[a], limits.perPrincipal.burst)
      /\ trusted' = trusted \/ trusted' = TrustedAfter(CredentialOf[a])
  BY Zenon DEF RefuseByKey, RefuseByPool, history
<1>3. /\ KeyedOK(clients', ClientKeys) /\ clients'.inFlight = clients.inFlight
      /\ KeyedOK(principals', PrincipalKeys) /\ principals'.inFlight = principals.inFlight
  BY <1>1, <1>2, KeysTouched, Zenon
<1>4. trusted' \in Seq(CredentialKeys) /\ Len(trusted') <= limits.maxKeys
  BY <1>1, <1>2, TrustedAfterFacts, Zenon DEF Shape
<1>5. Shape'
  BY <1>1, <1>2, <1>3, <1>4, Zenon DEF Shape, KeyedOK
<1>6. Counted'
  BY <1>2, <1>3, Zenon DEF Accounts, Counted, HoldersOf, HeldFrom
<1>7. WithinPools' /\ Metered' /\ Remembered'
  BY <1>2, Zenon DEF Accounts, WithinPools, Metered, Remembered, SharedLimits
<1>8. QED
  BY <1>5, <1>6, <1>7, Zenon DEF Accounts

(* What both grants do to the keyed limiters. *)
LEMMA KeysGranted ==
  ASSUME Accounts, NEW a \in Attempts, NEW pool \in Pools, permit[a] = "none",
         permit' = [permit EXCEPT ![a] = pool], GrantKeys(a), limits' = limits
  PROVE  /\ KeyedOK(clients, ClientKeys)' /\ KeyedOK(principals, PrincipalKeys)'
         /\ \A k \in ClientKeys :
              clients'.inFlight[k] = Cardinality(HoldersOf(ClientOf, k))'
         /\ \A k \in PrincipalKeys :
              principals'.inFlight[k] = Cardinality(HoldersOf(PrincipalOf, k))'
<1> DEFINE c == Touched(clients, ClientOf[a], limits.perClient.burst)
           p == Touched(principals, PrincipalOf[a], limits.perPrincipal.burst)
<1>1. Shape /\ Counted
  BY Zenon DEF Accounts
<1>2. ClientOf[a] \in ClientKeys /\ KeyedOK(c, ClientKeys) /\ c.inFlight = clients.inFlight
  BY <1>1, KeysTouched, Zenon
<1>3. /\ PrincipalOf[a] \in PrincipalKeys /\ KeyedOK(p, PrincipalKeys)
       /\ p.inFlight = principals.inFlight
  BY <1>1, KeysTouched, Zenon
<1>4. clients' = KeyAcquire(c, ClientOf[a]) /\ principals' = KeyAcquire(p, PrincipalOf[a])
  BY Zenon DEF GrantKeys
<1> HIDE DEF c, p
<1>5. /\ KeyedOK(clients', ClientKeys) /\ KeyedOK(principals', PrincipalKeys)
      /\ clients'.inFlight = [clients.inFlight EXCEPT ![ClientOf[a]] = @ + 1]
      /\ principals'.inFlight = [principals.inFlight EXCEPT ![PrincipalOf[a]] = @ + 1]
  <2>1. /\ KeyedOK(KeyAcquire(c, ClientOf[a]), ClientKeys)
        /\ KeyAcquire(c, ClientOf[a]).inFlight = [c.inFlight EXCEPT ![ClientOf[a]] = @ + 1]
    BY <1>2, KeyAcquireFacts
  <2>2. /\ KeyedOK(KeyAcquire(p, PrincipalOf[a]), PrincipalKeys)
        /\ KeyAcquire(p, PrincipalOf[a]).inFlight =
             [p.inFlight EXCEPT ![PrincipalOf[a]] = @ + 1]
    BY <1>3, KeyAcquireFacts
  <2>3. QED
    BY <1>2, <1>3, <1>4, <2>1, <2>2, Zenon
<1>6. clients.inFlight \in [ClientKeys -> Nat] /\ principals.inFlight \in [PrincipalKeys -> Nat]
  BY <1>1, Zenon DEF Shape, KeyedOK
<1>7. \A keyOf, k : Cardinality(HoldersOf(keyOf, k))' =
              IF k = keyOf[a] THEN Cardinality(HoldersOf(keyOf, k)) + 1
                              ELSE Cardinality(HoldersOf(keyOf, k))
  BY <1>1, PermitTaken, Zenon
<1>8. ASSUME NEW k \in ClientKeys
      PROVE  clients'.inFlight[k] = Cardinality(HoldersOf(ClientOf, k))'
  <2>1. clients.inFlight[k] = Cardinality(HoldersOf(ClientOf, k))
    BY <1>1, Zenon DEF Counted
  <2>2. QED
    BY <1>5, <1>6, <1>7, <2>1
<1>9. ASSUME NEW k \in PrincipalKeys
      PROVE  principals'.inFlight[k] = Cardinality(HoldersOf(PrincipalOf, k))'
  <2>1. principals.inFlight[k] = Cardinality(HoldersOf(PrincipalOf, k))
    BY <1>1, Zenon DEF Counted
  <2>2. QED
    BY <1>5, <1>6, <1>7, <2>1
<1>10. QED
  BY <1>5, <1>8, <1>9, Zenon DEF KeyedOK

(* A permit from the shared pool. *)
LEMMA GrantSharedKeeps ==
  ASSUME Accounts, NEW a \in Attempts, GrantShared(a)
  PROVE  Accounts'
<1>1. Shape /\ Counted /\ Normal(limits) /\ shared \in Pool /\ reserved \in Pool
  BY Zenon DEF Accounts, Shape
<1>2. /\ permit[a] = "none" /\ permit' = [permit EXCEPT ![a] = "shared"]
      /\ GrantKeys(a) /\ limits' = limits /\ reserved' = reserved /\ ingress' = ingress
      /\ trusted' = trusted /\ validFor' = validFor /\ time' = time /\ marked' = marked
      /\ shared' = [inFlight |-> shared.inFlight + 1, tokens |-> shared.tokens - 1]
      /\ granted' = [granted EXCEPT !.shared = @ + 1]
      /\ shared.inFlight < SharedLimits.max /\ shared.tokens >= 1
  BY Zenon DEF GrantShared, PoolAvailable, PoolAcquire
<1>3. "shared" \in Pools /\ "reserved" \in Pools
  BY Zenon DEF Pools
<1>4. /\ KeyedOK(clients, ClientKeys)' /\ KeyedOK(principals, PrincipalKeys)'
      /\ \A k \in ClientKeys : clients'.inFlight[k] = Cardinality(HoldersOf(ClientOf, k))'
      /\ \A k \in PrincipalKeys :
            principals'.inFlight[k] = Cardinality(HoldersOf(PrincipalOf, k))'
  BY <1>2, <1>3, KeysGranted, Zenon
<1>5. /\ permit' \in [Attempts -> {"none", "shared", "reserved"}]
      /\ Cardinality(HeldFrom("shared"))' = Cardinality(HeldFrom("shared")) + 1
      /\ Cardinality(HeldFrom("reserved"))' = Cardinality(HeldFrom("reserved"))
  BY <1>1, <1>2, <1>3, PermitTaken, Zenon
<1>6. shared' \in Pool /\ shared'.inFlight = shared.inFlight + 1
      /\ shared'.tokens = shared.tokens - 1
  BY <1>1, <1>2 DEF Pool
<1>7. granted' \in [shared : Nat, reserved : Nat] /\ granted \in [shared : Nat, reserved : Nat]
      /\ granted'.shared = granted.shared + 1 /\ granted'.reserved = granted.reserved
  <2>1. granted \in [shared : Nat, reserved : Nat]
    BY <1>1, Zenon DEF Shape
  <2>2. granted' = [granted EXCEPT !.shared = @ + 1]
    BY <1>2, Zenon
  <2>3. QED
    BY <2>1, <2>2
<1>8. Shape'
  BY <1>1, <1>2, <1>4, <1>5, <1>6, <1>7, Zenon DEF Shape, KeyedOK
<1>9. Counted'
  BY <1>1, <1>2, <1>4, <1>5, <1>6, Zenon DEF Counted
<1>10. SharedLimits' = SharedLimits
  BY <1>2, Zenon DEF SharedLimits
<1>11. SharedLimits.max \in Nat /\ shared.inFlight \in Nat /\ shared.tokens \in Nat
  BY <1>1, NamedLimits, Zenon DEF Pool
<1>12. WithinPools'
  BY <1>2, <1>6, <1>10, <1>11 DEF Accounts, WithinPools
<1>13. Metered'
  <2>1. granted'.shared + shared'.tokens = granted.shared + shared.tokens
    BY <1>6, <1>7, <1>11
  <2>2. QED
    BY <1>2, <1>7, <1>10, <2>1, Zenon DEF Accounts, Metered
<1>14. Remembered'
  BY <1>2, Zenon DEF Accounts, Remembered
<1>15. QED
  BY <1>8, <1>9, <1>12, <1>13, <1>14, Zenon DEF Accounts

(* A permit from the reserve. *)
LEMMA GrantReservedKeeps ==
  ASSUME Accounts, NEW a \in Attempts, GrantReserved(a)
  PROVE  Accounts'
<1>1. /\ Shape /\ Counted /\ Normal(limits) /\ shared \in Pool /\ reserved \in Pool
      /\ CredentialOf[a] \in CredentialKeys
  BY LimiterAssumption, Zenon DEF Accounts, Shape
<1>2. /\ permit[a] = "none" /\ permit' = [permit EXCEPT ![a] = "reserved"]
      /\ GrantKeys(a) /\ limits' = limits /\ shared' = shared /\ ingress' = ingress
      /\ trusted' = TrustedAfter(CredentialOf[a])
      /\ validFor' = validFor /\ time' = time /\ marked' = marked
      /\ reserved' = [inFlight |-> reserved.inFlight + 1, tokens |-> reserved.tokens - 1]
      /\ granted' = [granted EXCEPT !.reserved = @ + 1]
      /\ reserved.inFlight < limits.reserved.max /\ reserved.tokens >= 1
  BY Zenon DEF GrantReserved, PoolAvailable, PoolAcquire
<1>3. "shared" \in Pools /\ "reserved" \in Pools
  BY Zenon DEF Pools
<1>4. /\ KeyedOK(clients, ClientKeys)' /\ KeyedOK(principals, PrincipalKeys)'
      /\ \A k \in ClientKeys : clients'.inFlight[k] = Cardinality(HoldersOf(ClientOf, k))'
      /\ \A k \in PrincipalKeys :
            principals'.inFlight[k] = Cardinality(HoldersOf(PrincipalOf, k))'
  BY <1>2, <1>3, KeysGranted, Zenon
<1>5. /\ permit' \in [Attempts -> {"none", "shared", "reserved"}]
      /\ Cardinality(HeldFrom("reserved"))' = Cardinality(HeldFrom("reserved")) + 1
      /\ Cardinality(HeldFrom("shared"))' = Cardinality(HeldFrom("shared"))
  BY <1>1, <1>2, <1>3, PermitTaken, Zenon
<1>6. reserved' \in Pool /\ reserved'.inFlight = reserved.inFlight + 1
      /\ reserved'.tokens = reserved.tokens - 1
  BY <1>1, <1>2 DEF Pool
<1>7. granted' \in [shared : Nat, reserved : Nat] /\ granted \in [shared : Nat, reserved : Nat]
      /\ granted'.reserved = granted.reserved + 1 /\ granted'.shared = granted.shared
  <2>1. granted \in [shared : Nat, reserved : Nat]
    BY <1>1, Zenon DEF Shape
  <2>2. granted' = [granted EXCEPT !.reserved = @ + 1]
    BY <1>2, Zenon
  <2>3. QED
    BY <2>1, <2>2
<1>8. trusted' \in Seq(CredentialKeys) /\ Len(trusted') <= limits.maxKeys
  BY <1>1, <1>2, TrustedAfterFacts, Zenon
<1>9. Shape'
  BY <1>1, <1>2, <1>4, <1>5, <1>6, <1>7, <1>8, Zenon DEF Shape, KeyedOK
<1>10. Counted'
  BY <1>1, <1>2, <1>4, <1>5, <1>6, Zenon DEF Counted
<1>11. SharedLimits' = SharedLimits
  BY <1>2, Zenon DEF SharedLimits
<1>12. limits.reserved.max \in Nat /\ reserved.inFlight \in Nat /\ reserved.tokens \in Nat
  BY <1>1, NamedLimits, Zenon DEF Pool
<1>13. WithinPools'
  BY <1>2, <1>6, <1>11, <1>12 DEF Accounts, WithinPools
<1>14. Metered'
  <2>1. granted'.reserved + reserved'.tokens = granted.reserved + reserved.tokens
    BY <1>6, <1>7, <1>12
  <2>2. QED
    BY <1>2, <1>7, <1>11, <2>1, Zenon DEF Accounts, Metered
<1>15. Remembered'
  BY <1>2, Zenon DEF Accounts, Remembered
<1>16. QED
  BY <1>9, <1>10, <1>13, <1>14, <1>15, Zenon DEF Accounts

(* Release gives back to the two entries and to the pool the permit came from. *)
LEMMA ReleaseKeeps ==
  ASSUME Accounts, NEW a \in Attempts, Release(a)
  PROVE  Accounts'
<1>1. /\ Shape /\ Counted /\ Normal(limits) /\ shared \in Pool /\ reserved \in Pool
      /\ ClientOf[a] \in ClientKeys /\ PrincipalOf[a] \in PrincipalKeys
      /\ permit[a] \in {"none", "shared", "reserved"}
  BY LimiterAssumption, Zenon DEF Accounts, Shape
<1>2. /\ permit[a] # "none" /\ permit' = [permit EXCEPT ![a] = "none"]
      /\ limits' = limits /\ ingress' = ingress /\ trusted' = trusted
      /\ validFor' = validFor /\ time' = time /\ granted' = granted /\ marked' = marked
      /\ clients' = KeyRelease(clients, ClientOf[a])
      /\ principals' = KeyRelease(principals, PrincipalOf[a])
      /\ shared' = IF permit[a] = "shared" THEN LessInFlight(shared) ELSE shared
      /\ reserved' = IF permit[a] = "reserved" THEN LessInFlight(reserved) ELSE reserved
  BY Zenon DEF Release, history
<1>3. "shared" \in Pools /\ "reserved" \in Pools
  BY Zenon DEF Pools
<1>4. /\ permit' \in [Attempts -> {"none", "shared", "reserved"}]
      /\ \A keyOf, k : Cardinality(HoldersOf(keyOf, k))' =
              IF k = keyOf[a] THEN Larger(Cardinality(HoldersOf(keyOf, k)) - 1, 0)
                              ELSE Cardinality(HoldersOf(keyOf, k))
      /\ \A p \in Pools : Cardinality(HeldFrom(p))' =
              IF p = permit[a] THEN Larger(Cardinality(HeldFrom(p)) - 1, 0)
                               ELSE Cardinality(HeldFrom(p))
  BY <1>1, <1>2, PermitReleased, Zenon
<1>5. /\ KeyedOK(clients', ClientKeys)
      /\ clients'.inFlight = [clients.inFlight EXCEPT ![ClientOf[a]] = Larger(@ - 1, 0)]
      /\ clients.inFlight \in [ClientKeys -> Nat]
  <2>1. KeyedOK(clients, ClientKeys) /\ ClientOf[a] \in ClientKeys
    BY <1>1, Zenon DEF Shape
  <2>2. /\ KeyedOK(KeyRelease(clients, ClientOf[a]), ClientKeys)
        /\ KeyRelease(clients, ClientOf[a]).inFlight =
             [clients.inFlight EXCEPT ![ClientOf[a]] = Larger(@ - 1, 0)]
    BY <2>1, KeyReleaseFacts
  <2>3. clients.inFlight \in [ClientKeys -> Nat]
    BY <2>1, Zenon DEF KeyedOK
  <2>4. QED
    BY <1>2, <2>2, <2>3, Zenon
<1>6. /\ KeyedOK(principals', PrincipalKeys)
      /\ principals'.inFlight =
            [principals.inFlight EXCEPT ![PrincipalOf[a]] = Larger(@ - 1, 0)]
      /\ principals.inFlight \in [PrincipalKeys -> Nat]
  <2>1. KeyedOK(principals, PrincipalKeys) /\ PrincipalOf[a] \in PrincipalKeys
    BY <1>1, Zenon DEF Shape
  <2>2. /\ KeyedOK(KeyRelease(principals, PrincipalOf[a]), PrincipalKeys)
        /\ KeyRelease(principals, PrincipalOf[a]).inFlight =
             [principals.inFlight EXCEPT ![PrincipalOf[a]] = Larger(@ - 1, 0)]
    BY <2>1, KeyReleaseFacts
  <2>3. principals.inFlight \in [PrincipalKeys -> Nat]
    BY <2>1, Zenon DEF KeyedOK
  <2>4. QED
    BY <1>2, <2>2, <2>3, Zenon
<1>7. ASSUME NEW pool \in Pool
      PROVE  /\ LessInFlight(pool) \in Pool
             /\ LessInFlight(pool).inFlight = Larger(pool.inFlight - 1, 0)
             /\ LessInFlight(pool).inFlight <= pool.inFlight
             /\ LessInFlight(pool).tokens = pool.tokens
  BY DEF LessInFlight, Pool, Larger
<1>8. /\ shared' \in Pool /\ shared'.inFlight <= shared.inFlight /\ shared'.tokens = shared.tokens
      /\ shared'.inFlight = IF permit[a] = "shared" THEN Larger(shared.inFlight - 1, 0)
                                                    ELSE shared.inFlight
  BY <1>1, <1>2, <1>7 DEF Pool
<1>9. /\ reserved' \in Pool /\ reserved'.inFlight <= reserved.inFlight
      /\ reserved'.tokens = reserved.tokens
      /\ reserved'.inFlight = IF permit[a] = "reserved" THEN Larger(reserved.inFlight - 1, 0)
                                                        ELSE reserved.inFlight
  BY <1>1, <1>2, <1>7, SMTT(30) DEF Pool
<1>10. Shape'
  BY <1>1, <1>2, <1>4, <1>5, <1>6, <1>8, <1>9, ZenonT(40) DEF Shape, KeyedOK
<1>11. Counted'
  <2>1. ASSUME NEW k \in ClientKeys
        PROVE  clients'.inFlight[k] = Cardinality(HoldersOf(ClientOf, k))'
    BY <1>1, <1>4, <1>5 DEF Counted
  <2>2. ASSUME NEW k \in PrincipalKeys
        PROVE  principals'.inFlight[k] = Cardinality(HoldersOf(PrincipalOf, k))'
    BY <1>1, <1>4, <1>6 DEF Counted
  <2>3. shared'.inFlight = Cardinality(HeldFrom("shared"))'
    BY <1>1, <1>3, <1>4, <1>8, SMTT(30) DEF Counted
  <2>4. reserved'.inFlight = Cardinality(HeldFrom("reserved"))'
    BY <1>1, <1>3, <1>4, <1>9 DEF Counted
  <2>5. QED
    BY <2>1, <2>2, <2>3, <2>4, Zenon DEF Counted
<1>12. SharedLimits' = SharedLimits
  BY <1>2, Zenon DEF SharedLimits
<1>13. WithinPools'
  <2>1. {SharedLimits.max, limits.reserved.max, shared.inFlight, reserved.inFlight,
         shared'.inFlight, reserved'.inFlight} \subseteq Nat
    BY <1>1, <1>8, <1>9, NamedLimits, Zenon DEF Pool
  <2>2. QED
    BY <1>2, <1>8, <1>9, <1>12, <2>1 DEF Accounts, WithinPools
<1>14. Metered' /\ Remembered'
  BY <1>2, <1>8, <1>9, <1>12, Zenon DEF Accounts, Metered, Remembered
<1>15. QED
  BY <1>10, <1>11, <1>13, <1>14, Zenon DEF Accounts

(* Marking a credential evicts at most the last of the trusted ones. *)
LEMMA MarkKeeps ==
  ASSUME Accounts, NEW a \in Attempts, MarkAuthenticated(a)
  PROVE  Accounts'
<1> DEFINE c == CredentialOf[a]
           kept == SubSeq(trusted, 1, limits.maxKeys - 1)
<1>1. /\ Shape /\ Normal(limits) /\ c \in CredentialKeys
      /\ trusted \in Seq(CredentialKeys) /\ Len(trusted) <= limits.maxKeys
      /\ Len(trusted) \in Nat /\ time \in Nat
  BY LimiterAssumption DEF Accounts, Shape
<1>2. limits.maxKeys \in Nat \ {0} /\ limits.trustedTTL \in Nat
  BY <1>1, LimitFacts, Zenon
<1>3. /\ trusted' = IF InTrusted(c) \/ Len(trusted) < limits.maxKeys
                    THEN ToFront(trusted, c) ELSE ToFront(kept, c)
      /\ validFor' = [validFor EXCEPT ![c] = limits.trustedTTL]
      /\ marked' = [marked EXCEPT ![c] = time]
      /\ limits' = limits /\ shared' = shared /\ reserved' = reserved
      /\ clients' = clients /\ principals' = principals /\ ingress' = ingress
      /\ permit' = permit /\ time' = time /\ granted' = granted
  BY Zenon DEF MarkAuthenticated
<1>4. trusted' \in Seq(CredentialKeys) /\ Len(trusted') <= limits.maxKeys
  <2>1. CASE InTrusted(c) \/ Len(trusted) < limits.maxKeys
    <3>1. /\ ToFront(trusted, c) \in Seq(CredentialKeys)
          /\ Len(ToFront(trusted, c)) = IF In(trusted, c) THEN Len(trusted) ELSE Len(trusted) + 1
      BY <1>1, ToFrontFacts, Zenon
    <3>2. InTrusted(c) <=> In(trusted, c)
      BY Zenon DEF InTrusted, In
    <3>3. QED
      BY <1>1, <1>2, <1>3, <2>1, <3>1, <3>2
  <2>2. CASE ~(InTrusted(c) \/ Len(trusted) < limits.maxKeys)
    <3>1. kept \in Seq(CredentialKeys) /\ Len(kept) = limits.maxKeys - 1
      BY <1>1, <1>2, <2>2
    <3> HIDE DEF kept
    <3>2. /\ ToFront(kept, c) \in Seq(CredentialKeys)
          /\ Len(ToFront(kept, c)) = IF In(kept, c) THEN Len(kept) ELSE Len(kept) + 1
      BY <1>1, <3>1, ToFrontFacts, Zenon
    <3>3. QED
      BY <1>2, <1>3, <2>2, <3>1, <3>2
  <2>3. QED
    BY <2>1, <2>2, Zenon
<1> HIDE DEF c
<1>5. /\ validFor' \in [CredentialKeys -> Int] /\ marked' \in [CredentialKeys -> Int]
      /\ validFor \in [CredentialKeys -> Int] /\ marked \in [CredentialKeys -> Int]
  BY <1>1, <1>2, <1>3 DEF Shape
<1>6. Shape'
  BY <1>1, <1>3, <1>4, <1>5, Zenon DEF Shape, KeyedOK
<1>7. Counted' /\ WithinPools' /\ Metered'
  BY <1>3, Zenon DEF Accounts, Counted, HoldersOf, HeldFrom, WithinPools, Metered, SharedLimits
<1>8. Remembered'
  <2> SUFFICES ASSUME NEW d \in CredentialKeys, validFor'[d] >= 0
               PROVE  /\ marked'[d] >= 0
                      /\ time' - marked'[d] + validFor'[d] = limits'.trustedTTL
    BY Zenon DEF Remembered
  <2>1. CASE d = c
    <3>1. validFor'[d] = limits.trustedTTL /\ marked'[d] = time
      BY <1>1, <1>3, <1>5, <2>1, Zenon
    <3>2. QED
      BY <1>1, <1>2, <1>3, <3>1
  <2>2. CASE d # c
    <3>1. validFor'[d] = validFor[d] /\ marked'[d] = marked[d]
      BY <1>3, <1>5, <2>2, Zenon
    <3>2. QED
      BY <1>3, <3>1, Zenon DEF Accounts, Remembered
  <2>3. QED
    BY <2>1, <2>2, Zenon
<1>9. QED
  BY <1>6, <1>7, <1>8, Zenon DEF Accounts

(* One more tick earns the rate once more. *)
LEMMA OneMoreTick ==
  ASSUME NEW t \in Nat, NEW r \in Nat
  PROVE  t * r \in Nat /\ (t + 1) * r = t * r + r
OBVIOUS

(* A tick refills the buckets up to the burst and shortens the validities. *)
LEMMA TickKeeps ==
  ASSUME Accounts, Tick
  PROVE  Accounts'
<1>1. /\ Shape /\ Normal(limits) /\ shared \in Pool /\ reserved \in Pool /\ time \in Nat
      /\ KeyedOK(clients, ClientKeys) /\ KeyedOK(principals, PrincipalKeys)
      /\ KeyedOK(ingress, ClientKeys)
      /\ validFor \in [CredentialKeys -> Int] /\ marked \in [CredentialKeys -> Int]
      /\ granted \in [shared : Nat, reserved : Nat]
  BY Zenon DEF Accounts, Shape
<1>2. /\ time' = time + 1 /\ limits' = limits /\ trusted' = trusted /\ permit' = permit
      /\ granted' = granted /\ marked' = marked
      /\ clients' = RefilledKeys(clients, limits.perClient)
      /\ principals' = RefilledKeys(principals, limits.perPrincipal)
      /\ ingress' = RefilledKeys(ingress, limits.ingress)
      /\ validFor' = [c \in CredentialKeys |-> Larger(validFor[c] - 1, -1)]
      /\ shared' = [shared EXCEPT !.tokens =
                      Refilled(@, SharedLimits.rate, SharedLimits.burst)]
      /\ reserved' = [reserved EXCEPT !.tokens =
                        Refilled(@, limits.reserved.rate, limits.reserved.burst)]
  BY Zenon DEF Tick, history
<1>3. KeyedOK(clients', ClientKeys) /\ clients'.inFlight = clients.inFlight
  BY <1>1, <1>2, LimitFacts, RefilledKeysFacts, Zenon
<1>4. KeyedOK(principals', PrincipalKeys) /\ principals'.inFlight = principals.inFlight
  BY <1>1, <1>2, LimitFacts, RefilledKeysFacts, Zenon
<1>5. KeyedOK(ingress', ClientKeys)
  BY <1>1, <1>2, LimitFacts, RefilledKeysFacts, Zenon
<1>6. ASSUME NEW pool \in Pool, NEW rate \in Nat, NEW burst \in Nat
      PROVE  LET n == [pool EXCEPT !.tokens = Refilled(@, rate, burst)]
             IN n \in Pool /\ n.inFlight = pool.inFlight /\ n.tokens <= pool.tokens + rate
  BY DEF Pool, Refilled, Smaller
<1>7. /\ SharedLimits.rate \in Nat /\ SharedLimits.burst \in Nat
      /\ limits.reserved.rate \in Nat /\ limits.reserved.burst \in Nat
  BY <1>1, NamedLimits, Zenon
<1>8. /\ shared' \in Pool /\ shared'.inFlight = shared.inFlight
      /\ shared'.tokens <= shared.tokens + SharedLimits.rate
  BY <1>1, <1>2, <1>6, <1>7, Zenon
<1>9. /\ reserved' \in Pool /\ reserved'.inFlight = reserved.inFlight
      /\ reserved'.tokens <= reserved.tokens + limits.reserved.rate
  BY <1>1, <1>2, <1>6, <1>7, Zenon
<1>10. validFor' \in [CredentialKeys -> Int]
  BY <1>1, <1>2 DEF Larger
<1>11. Shape'
  <2>1. KeyedOK(clients, ClientKeys)' /\ KeyedOK(principals, PrincipalKeys)'
        /\ KeyedOK(ingress, ClientKeys)'
    BY <1>2, <1>3, <1>4, <1>5, Zenon DEF KeyedOK
  <2>2. time' \in Nat /\ Normal(limits')
    BY <1>1, <1>2
  <2>3. QED
    BY <1>1, <1>2, <1>8, <1>9, <1>10, <2>1, <2>2, Zenon DEF Shape
<1>12. Counted'
  BY <1>2, <1>3, <1>4, <1>8, <1>9, Zenon DEF Accounts, Counted, HoldersOf, HeldFrom
<1>13. SharedLimits' = SharedLimits
  BY <1>2, Zenon DEF SharedLimits
<1>14. WithinPools'
  BY <1>2, <1>8, <1>9, <1>13, Zenon DEF Accounts, WithinPools
<1>15. Metered'
  <2>1. {granted.shared, granted.reserved, shared.tokens, reserved.tokens,
         shared'.tokens, reserved'.tokens} \subseteq Nat
    BY <1>1, <1>8, <1>9, Zenon DEF Pool
  <2>2. /\ time * SharedLimits.rate \in Nat
        /\ time' * SharedLimits.rate = time * SharedLimits.rate + SharedLimits.rate
    BY <1>1, <1>2, <1>7, OneMoreTick, Zenon
  <2>3. /\ time * limits.reserved.rate \in Nat
        /\ time' * limits.reserved.rate = time * limits.reserved.rate + limits.reserved.rate
    BY <1>1, <1>2, <1>7, OneMoreTick, Zenon
  <2>4. granted.shared + shared'.tokens <= SharedLimits.burst + time' * SharedLimits.rate
    BY <1>7, <1>8, <2>1, <2>2, SMTT(30) DEF Accounts, Metered
  <2>5. granted.reserved + reserved'.tokens <=
          limits.reserved.burst + time' * limits.reserved.rate
    BY <1>7, <1>9, <2>1, <2>3 DEF Accounts, Metered
  <2>6. QED
    BY <1>2, <1>13, <2>4, <2>5, Zenon DEF Metered
<1>16. Remembered'
  <2> SUFFICES ASSUME NEW c \in CredentialKeys, validFor'[c] >= 0
               PROVE  /\ marked'[c] >= 0
                      /\ time' - marked'[c] + validFor'[c] = limits'.trustedTTL
    BY Zenon DEF Remembered
  <2>1. validFor[c] \in Int /\ marked[c] \in Int /\ limits.trustedTTL \in Nat
    BY <1>1, LimitFacts, Zenon
  <2>2. validFor[c] >= 0 /\ validFor'[c] = validFor[c] - 1
    BY <1>2, <2>1 DEF Larger
  <2>3. marked[c] >= 0 /\ time - marked[c] + validFor[c] = limits.trustedTTL
    BY <2>2, Zenon DEF Accounts, Remembered
  <2>4. QED
    BY <1>1, <1>2, <2>1, <2>2, <2>3
<1>17. QED
  BY <1>11, <1>12, <1>14, <1>15, <1>16, Zenon DEF Accounts

-----------------------------------------------------------------------------
(* A new limiter is in order. *)
LEMMA InitAccounts == Init => Accounts
<1> SUFFICES ASSUME Init PROVE Accounts
  BY Zenon
<1>1. \A keyOf, k : HoldersOf(keyOf, k) = {}
  BY Zenon DEF Init, HoldersOf
<1>2. HeldFrom("shared") = {} /\ HeldFrom("reserved") = {}
  BY Zenon DEF Init, HeldFrom
<1>3. Counted
  BY <1>1, <1>2, FS_EmptySet, Zenon DEF Init, Counted, EmptyKeyed
<1>4. QED
  BY <1>3, InitShape, Zenon DEF Accounts

(* Every step keeps the accounts of the limiter. *)
LEMMA StepAccounts == Accounts /\ [Next]_vars => Accounts'
<1> SUFFICES ASSUME Accounts, [Next]_vars PROVE Accounts'
  BY Zenon
<1>1. ASSUME NEW k \in IngressClients, AllowIngress(k) \/ RefundIngress(k) PROVE Accounts'
  BY <1>1, IngressKeeps, Zenon
<1>2. ASSUME NEW a \in Attempts, TryAcquire(a) PROVE Accounts'
  BY <1>2, RefusalKeeps, GrantSharedKeeps, GrantReservedKeeps, Zenon DEF TryAcquire
<1>3. ASSUME NEW a \in Attempts, Release(a) \/ MarkAuthenticated(a) PROVE Accounts'
  BY <1>3, ReleaseKeeps, MarkKeeps, Zenon
<1>4. CASE Tick
  BY <1>4, TickKeeps, Zenon
<1>5. CASE UNCHANGED vars
  <2>1. /\ limits' = limits /\ shared' = shared /\ reserved' = reserved
        /\ clients' = clients /\ principals' = principals /\ ingress' = ingress
        /\ trusted' = trusted /\ validFor' = validFor /\ permit' = permit
        /\ time' = time /\ granted' = granted /\ marked' = marked
    BY <1>5, Zenon DEF vars
  <2>2. Shape'
    BY <2>1, Zenon DEF Accounts, Shape, KeyedOK
  <2>3. Counted'
    BY <2>1, Zenon DEF Accounts, Counted, HoldersOf, HeldFrom
  <2>4. WithinPools' /\ Metered'
    BY <2>1, Zenon DEF Accounts, WithinPools, Metered, SharedLimits
  <2>5. Remembered'
    BY <2>1, Zenon DEF Accounts, Remembered
  <2>6. QED
    BY <2>2, <2>3, <2>4, <2>5, Zenon DEF Accounts
<1>6. QED
  BY <1>1, <1>2, <1>3, <1>4, <1>5, Zenon DEF Next

(* The inductive invariant holds in every reachable state. *)
LEMMA AlwaysAccounts == Spec => []Accounts
<1>1. Init => Accounts
  BY InitAccounts, Zenon
<1>2. Accounts /\ [Next]_vars => Accounts'
  BY StepAccounts, Zenon
<1>3. QED
  BY <1>1, <1>2, PTL DEF Spec

(* Permits are counted exactly and the lists stay within MaxKeys, for any      *)
(* number of attempts, keys and any configuration.                             *)
THEOREM PermitsAreAccounted == Spec => []PermitsAccounted
<1>1. Accounts => PermitsAccounted
  BY Zenon DEF Accounts, Counted, Shape, KeyedOK, Distinct, PermitsAccounted, WithinMaxKeys
<1>2. QED
  BY <1>1, AlwaysAccounts, PTL

(* The rates of the two pools add up to the total over time. *)
LEMMA Shares ==
  ASSUME NEW t \in Nat, NEW r \in Nat, NEW s \in Nat
  PROVE  t * (r - s) + t * s = t * r /\ t * r \in Int /\ t * s \in Int /\ t * (r - s) \in Int
OBVIOUS

(* The backend is called within the configured rate, whatever was configured. *)
THEOREM BackendRateIsBounded == Spec => []BackendRateBounded
<1>1. ASSUME Accounts PROVE BackendRateBounded
  <2>1. Normal(limits) /\ time \in Nat /\ granted.shared \in Nat /\ granted.reserved \in Nat
        /\ shared.tokens \in Nat /\ reserved.tokens \in Nat /\ DOMAIN limits.total = Fields
    BY <1>1, Zenon DEF Accounts, Shape, Pool, Normal
  <2>2. \A f \in DOMAIN limits.total : SharedLimits[f] > 0
    BY <2>1, LimitFacts
  <2>3. /\ SharedLimits.burst = limits.total.burst - limits.reserved.burst
        /\ SharedLimits.rate = limits.total.rate - limits.reserved.rate
        /\ SharedLimits.burst \in Nat /\ SharedLimits.rate \in Nat
        /\ limits.total.burst \in Nat /\ limits.total.rate \in Nat
        /\ limits.reserved.burst \in Nat /\ limits.reserved.rate \in Nat
    BY <2>1, NamedLimits, Zenon
  <2>4. /\ time * SharedLimits.rate + time * limits.reserved.rate = time * limits.total.rate
        /\ time * SharedLimits.rate \in Int /\ time * limits.reserved.rate \in Int
        /\ time * limits.total.rate \in Int
    BY <2>1, <2>3, Shares
  <2>5. /\ granted.shared + shared.tokens <= SharedLimits.burst + time * SharedLimits.rate
        /\ granted.reserved + reserved.tokens <=
             limits.reserved.burst + time * limits.reserved.rate
    BY <1>1, Zenon DEF Accounts, Metered
  <2>6. granted.shared <= SharedLimits.burst + time * SharedLimits.rate
    BY <2>1, <2>3, <2>4, <2>5
  <2>7. granted.shared + granted.reserved <= limits.total.burst + time * limits.total.rate
    BY <2>1, <2>3, <2>4, <2>5
  <2>8. QED
    BY <2>2, <2>6, <2>7, Zenon DEF BackendRateBounded
<1>2. QED
  BY <1>1, AlwaysAccounts, PTL

-----------------------------------------------------------------------------
Capacity == CHOOSE n \in Capacities : \A m \in Capacities : m <= n

(* The capacity of the abstract specification is at least the total of every   *)
(* configuration.                                                              *)
LEMMA CapacityFacts ==
  /\ Capacity \in Nat
  /\ \A raw \in RawLimits : NormalizeLimits(raw).total.max <= Capacity
<1>1. ASSUME NEW raw \in RawLimits
      PROVE  /\ raw.total.max \in Int
             /\ NormalizeLimits(raw).total.max = AtLeastOne(raw.total.max)
  <2>1. raw \in Limits
    BY LimiterAssumption, Zenon
  <2>2. QED
    BY <2>1, NormalizeFacts, Zenon DEF Limits, Bounds
<1>2. PICK most \in RawLimits : \A raw \in RawLimits : raw.total.max <= most.total.max
  BY LimiterAssumption, Zenon
<1>3. ASSUME NEW raw \in RawLimits
      PROVE  AtLeastOne(raw.total.max) <= AtLeastOne(most.total.max)
  BY <1>1, <1>2 DEF AtLeastOne
<1>4. /\ AtLeastOne(most.total.max) \in Capacities
      /\ \A m \in Capacities : m <= AtLeastOne(most.total.max)
  BY <1>1, <1>3, Zenon DEF Capacities
<1>5. Capacity \in Capacities /\ \A m \in Capacities : m <= Capacity
  BY <1>4, Zenon DEF Capacity
<1>6. Capacities \subseteq Nat
  BY <1>1 DEF Capacities, AtLeastOne
<1>7. QED
  BY <1>5, <1>6, Zenon DEF Capacities

(* The permits held are those of the two pools. *)
LEMMA HeldInPools ==
  ASSUME Accounts
  PROVE  Cardinality(Held) = shared.inFlight + reserved.inFlight
<1>1. permit \in [Attempts -> {"none", "shared", "reserved"}]
  BY Zenon DEF Accounts, Shape
<1>2. Held = HeldFrom("shared") \cup HeldFrom("reserved")
      /\ HeldFrom("shared") \cap HeldFrom("reserved") = {}
  BY <1>1, Zenon DEF Held, HeldFrom
<1>3. Cardinality(HeldFrom("shared") \cup HeldFrom("reserved")) =
        Cardinality(HeldFrom("shared")) + Cardinality(HeldFrom("reserved")) -
          Cardinality(HeldFrom("shared") \cap HeldFrom("reserved"))
  BY HeldFinite, FS_Union, Zenon
<1>4. QED
  <2>1. Cardinality(HeldFrom("shared") \cap HeldFrom("reserved")) = 0
    BY <1>2, FS_EmptySet, Zenon
  <2>2. Cardinality(HeldFrom("shared")) \in Nat /\ Cardinality(HeldFrom("reserved")) \in Nat
    BY HeldFinite, Zenon
  <2>3. Cardinality(Held) = Cardinality(HeldFrom("shared")) + Cardinality(HeldFrom("reserved"))
    BY <1>2, <1>3, <2>1, <2>2
  <2>4. QED
    BY <2>3, Zenon DEF Accounts, Counted

(* The cardinality that Admission uses is the one of FiniteSets. *)
LEMMA SameCardinality == \A S : Abstract!Cardinality(S) = Cardinality(S)
BY Zenon DEF Abstract!Cardinality, Cardinality

(* A grant from either pool is a grant of Admission: the pools hold less than  *)
(* the configured total, which is at most the capacity.                        *)
LEMMA GrantIsGrant ==
  ASSUME Accounts, NEW a \in Attempts, GrantShared(a) \/ GrantReserved(a)
  PROVE  Abstract!Grant(a)
<1>1. /\ Shape /\ Normal(limits) /\ shared \in Pool /\ reserved \in Pool
      /\ permit \in [Attempts -> {"none", "shared", "reserved"}]
  BY Zenon DEF Accounts, Shape
<1>2. \E pool \in Pools : permit[a] = "none" /\ permit' = [permit EXCEPT ![a] = pool]
  BY Zenon DEF GrantShared, GrantReserved, Pools
<1>3. Held' = Held \cup {a} /\ a \notin Held
  BY <1>1, <1>2, PermitTaken, Zenon
<1>4. shared.inFlight + reserved.inFlight < limits.total.max
  <2>1. /\ shared.inFlight <= SharedLimits.max /\ reserved.inFlight <= limits.reserved.max
        /\ SharedLimits.max = limits.total.max - limits.reserved.max
        /\ limits.total.max \in Nat /\ limits.reserved.max \in Nat
        /\ shared.inFlight \in Nat /\ reserved.inFlight \in Nat
    BY <1>1, NamedLimits, Zenon DEF Accounts, WithinPools, Pool
  <2>2. shared.inFlight < SharedLimits.max \/ reserved.inFlight < limits.reserved.max
    BY Zenon DEF GrantShared, GrantReserved, PoolAvailable
  <2>3. QED
    BY <2>1, <2>2
<1>5. Cardinality(Held) < Capacity
  <2>1. limits.total.max <= Capacity /\ Capacity \in Nat
    BY <1>1, CapacityFacts, Zenon DEF Shape
  <2>2. limits.total.max \in Nat /\ Cardinality(Held) \in Nat
    BY <1>1, NamedLimits, HeldFinite, Zenon
  <2>3. QED
    BY <1>4, <2>1, <2>2, HeldInPools
<1>6. QED
  BY <1>3, <1>5, SameCardinality, Zenon DEF Abstract!Grant, Held, Capacity

(* Every step is a step of Admission or leaves the permits alone. *)
LEMMA StepImplements == Accounts /\ [Next]_vars => [Abstract!Next]_Held
<1> SUFFICES ASSUME Accounts, [Next]_vars PROVE Abstract!Next \/ Held' = Held
  BY Zenon
<1>1. CASE permit' = permit
  BY <1>1, Zenon DEF Held
<1>2. ASSUME NEW a \in Attempts, GrantShared(a) \/ GrantReserved(a) PROVE Abstract!Next
  BY <1>2, GrantIsGrant, Zenon DEF Abstract!Next
<1>3. ASSUME NEW a \in Attempts, Release(a) PROVE Abstract!Next
  <2>1. Held' = Held \ {a} /\ a \in Held
    BY <1>3, PermitReleased, Zenon DEF Accounts, Release
  <2>2. Abstract!Release(a)
    BY <2>1, Zenon DEF Abstract!Release, Held
  <2>3. QED
    BY <2>2, Zenon DEF Abstract!Next
<1>4. QED
  BY <1>1, <1>2, <1>3, Zenon DEF Next, vars, TryAcquire, AllowIngress, RefundIngress, RefuseByKey,
                          RefuseByPool, MarkAuthenticated, Tick

(* The reserve goes only to a credential marked within its TTL. *)
ReserveForTheTrusted ==
  \A a \in Attempts :
    permit[a] = "none" /\ permit'[a] = "reserved" =>
      /\ marked[CredentialOf[a]] >= 0
      /\ time - marked[CredentialOf[a]] <= limits.trustedTTL

(* Every step gives the reserve only to recently accepted credentials. *)
LEMMA StepReserves == Accounts /\ [Next]_vars => ReserveForTheTrusted
<1> SUFFICES ASSUME Accounts, [Next]_vars, NEW a \in Attempts,
                    permit[a] = "none", permit'[a] = "reserved"
             PROVE  /\ marked[CredentialOf[a]] >= 0
                    /\ time - marked[CredentialOf[a]] <= limits.trustedTTL
  BY Zenon DEF ReserveForTheTrusted
<1> DEFINE c == CredentialOf[a]
<1>1. /\ permit \in [Attempts -> {"none", "shared", "reserved"}] /\ c \in CredentialKeys
      /\ validFor[c] \in Int /\ marked[c] \in Int /\ time \in Nat
      /\ limits.trustedTTL \in Nat
  BY LimiterAssumption, LimitFacts, Zenon DEF Accounts, Shape
<1>2. GrantReserved(a)
  <2>1. permit' # permit
    BY <1>1, Zenon
  <2>2. \E b \in Attempts : GrantShared(b) \/ GrantReserved(b) \/ Release(b)
    BY <2>1, Zenon DEF Next, vars, TryAcquire, AllowIngress, RefundIngress, RefuseByKey,
                RefuseByPool, MarkAuthenticated, Tick
  <2>3. QED
    BY <1>1, <2>2, Zenon DEF GrantShared, GrantReserved, Release
<1>3. validFor[c] >= 0
  BY <1>2, Zenon DEF GrantReserved, IsTrusted
<1>4. marked[c] >= 0 /\ time - marked[c] + validFor[c] = limits.trustedTTL
  BY <1>1, <1>3, Zenon DEF Accounts, Remembered
<1>5. QED
  BY <1>1, <1>3, <1>4

(* The limiter implements Admission, and keeps its reserve for credentials the *)
(* backend accepted within the TTL.                                            *)
THEOREM LimiterImplementsAdmission == Spec => AdmissionImplemented
<1>1. Init => Abstract!Init
  BY Zenon DEF Init, Abstract!Init
<1>2. Accounts /\ [Next]_vars =>
        [Abstract!Next]_{a \in Attempts : permit[a] # "none"}
  BY StepImplements, Zenon DEF Held
<1>3. Accounts /\ [Next]_vars =>
        [\A a \in Attempts :
          permit[a] = "none" /\ permit'[a] = "reserved" =>
            /\ marked[CredentialOf[a]] >= 0
            /\ time - marked[CredentialOf[a]] <= limits.trustedTTL]_vars
  BY StepReserves, Zenon DEF ReserveForTheTrusted
<1>4. QED
  BY <1>1, <1>2, <1>3, AlwaysAccounts, PTL DEF Spec, AdmissionImplemented, Abstract!Spec
=============================================================================
