---------------------------- MODULE ChunkedProofs ----------------------------
(***************************************************************************)
(* The inductive invariant of ChunkedBody, the proof that every step of    *)
(* the client, of the transmission and of the readers (awsChunkedReader,   *)
(* payloadHashReader and trailerGuardReader) keeps it, for every length of *)
(* payload, every split into chunks and reads and any number of faults,    *)
(* and what follows from it about the bytes that reach the upstream.       *)
(***************************************************************************)
EXTENDS ChunkedBody, SequenceTheorems, WellFoundedInduction, TLAPS

Octets == 0 .. Foreign

(* The errors that the reader finds in what it reads, and all that it returns. *)
Refusals ==
  {"unexpected EOF", "missing chunk CRLF", "missing chunk signature", "invalid chunk signature",
   "length mismatch", "invalid chunk header", "too many trailer lines", "invalid trailer",
   "missing trailer signature", "invalid trailer signature", "checksum mismatch",
   "missing trailer", "hash mismatch"}
Texts == Refusals \cup {NoErr, "eof", "broken"}

Names == {"crc", "sig", "other"}

(* The signatures that may be on the wire when chunks were signed as in C. *)
Sigs(C) == {SubSeq(C, 1, j) : j \in 1 .. Len(C)} \cup {Garbled}

Sums(n) == {Payload(n), Unseen}

(* What may be on the wire, given the chain C and the length n of a payload. *)
Bytes == [k : {"byte"}, b : Octets]
Headers(C) == [k : {"header"}, n : Nat, sig : SUBSET Sigs(C), eol : BOOLEAN]
Over(n) == {<<>>, Multiset(<<>>), Multiset(<<<<"crc", Payload(n)>>>>)}
Values(n) == Sums(n) \cup [chain : Seq(Seq(Nat)), over : Over(n)]
Lines(n) == [k : {"line"}, name : {"crc"}, value : Sums(n), eol : BOOLEAN]
              \cup [k : {"line"}, name : {"sig", "other"}, value : Values(n), eol : BOOLEAN]
Framing(C, n) == Headers(C) \cup Lines(n) \cup {CRLF[1], CRLF[2]}
Tokens(C, n) == Bytes \cup IF mode = "hash" THEN {} ELSE Framing(C, n)

(* Where chunk j of the chain C of a payload of n bytes ends. *)
End(C, n, j) == IF j = 0 THEN 0 ELSE IF C[j] = <<>> THEN n ELSE C[j][Len(C[j])]

(* A chunk goes on where the one before it ended, and only the last is empty. *)
Link(C, n, j) ==
  /\ End(C, n, j) = End(C, n, j - 1) + Len(C[j])
  /\ End(C, n, j) \in 0 .. n
  /\ C[j] = [i \in 1 .. Len(C[j]) |-> End(C, n, j - 1) + i]

(* What the request says. *)
Request ==
  /\ mode \in {"signed", "signedTrailer", "unsignedTrailer", "hash"}
  /\ checksums \in {{}, {"crc"}}
  /\ declared \in Nat
  /\ ending \in {"eof", "broken"}
  /\ mode = "hash" => declared = client.length /\ declared # 0

(* The client cuts its payload into a chain of chunks. *)
Chain ==
  /\ client \in [length : 0 .. MaxLength, sent : Nat, sig : Seq(Seq(Nat)), done : BOOLEAN]
  /\ \A j \in 1 .. Len(client.sig) :
       /\ Link(client.sig, client.length, j)
       /\ client.sig[j] = <<>> => j = Len(client.sig) /\ client.done
  /\ End(client.sig, client.length, Len(client.sig)) = client.sent
  /\ client.done => client.sent = client.length

(* What is on the wire.  A plain body never holds more than was sent. *)
Wired ==
  /\ wire \in Seq(Tokens(client.sig, client.length))
  /\ mode = "hash" => Len(r.hashed) + Len(wire) <= client.sent

ReaderType ==
  [buf : Seq(Octets), remaining : Nat, needCRLF : BOOLEAN, final : BOOLEAN, done : BOOLEAN,
   decoded : Nat, prev : Seq(Seq(Nat)), hashed : Seq(Octets), err : Texts,
   trailers : Seq(Names \X Values(client.length)), lines : Nat]

(* The reader has verified a part of the chain, and that is what it decoded. *)
Verified(s) ==
  /\ Len(s.prev) <= Len(client.sig)
  /\ s.prev = SubSeq(client.sig, 1, Len(s.prev))
  /\ s.hashed = Payload(End(client.sig, client.length, Len(s.prev)))

Collected(s) ==
  \A i \in 1 .. Len(s.trailers) :
    s.trailers[i][1] = "crc" => s.trailers[i][2] \in Sums(client.length)

(* How far the reader can be. *)
Fits(s) ==
  /\ s \in ReaderType
  /\ Collected(s)
  /\ Signed => Verified(s)
  /\ mode # "hash" => s.decoded = Len(s.hashed) /\ s.decoded + s.remaining <= declared
  /\ mode = "hash" => s.buf = <<>> /\ ~s.final
  /\ mode # "unsignedTrailer" => s.remaining = 0
  /\ s.remaining > 0 => s.buf = <<>>
  /\ s.final => s.decoded = declared /\ s.buf = <<>>
  /\ s.done => s.final \/ mode = "hash"
  /\ (Signed /\ s.final) \/ (s.done /\ Protected) => s.hashed = Payload(client.length)

(* What was decoded is on its way to the upstream: delivered, held back by the *)
(* guard, or buffered.  After an error the last byte is withheld for ever.     *)
Flow ==
  /\ guard \in [carry : Seq(Octets), err : Texts] /\ Len(guard.carry) <= 1
  /\ delivered \in Seq(Octets)
  /\ call \in Nat /\ (call > 0 => guard.err = NoErr)
  /\ result = "eof" => guard.err = "eof"
  /\ guard.err \in {NoErr, "eof"} => r.err = NoErr /\ r.hashed = (delivered \o guard.carry) \o r.buf
  /\ guard.err = NoErr /\ delivered # <<>> => guard.carry # <<>>
  /\ guard.err \notin {NoErr, "eof"} =>
       \E rest \in Seq(Octets) : /\ r.hashed = delivered \o rest
                                 /\ rest = <<>> => delivered = <<>>

(* The inductive invariant. *)
Intact == Request /\ Chain /\ Wired /\ Fits(r) /\ Flow
-----------------------------------------------------------------------------
(* Sequences *)

(* What trailerGuardReader hands on of the sequence s and what it holds back. *)
Front(s) == SubSeq(s, 1, Len(s) - 1)
Last(s) == s[Len(s)]

(* The last element of a sequence can be split off. *)
LEMMA FrontLast ==
  ASSUME NEW S, NEW s \in Seq(S), s # <<>>
  PROVE  /\ Front(s) \in Seq(S) /\ Last(s) \in S /\ <<Last(s)>> \in Seq(S)
         /\ Len(<<Last(s)>>) = 1 /\ Len(Front(s)) = Len(s) - 1
         /\ Front(s) \o <<Last(s)>> = s
<1>1. Len(s) \in Nat \ {0}
  BY EmptySeq, Zenon
<1>2. Last(s) \in S
  BY <1>1, ElementOfSeq DEF Last
<1>3. Front(s) \in Seq(S) /\ Len(Front(s)) = Len(s) - 1
  <2>1. \A i \in 1 .. Len(s) - 1 : s[i] \in S
    BY <1>1, ElementOfSeq
  <2> DEFINE n == Len(s) - 1
  <2>2. n \in Nat
    BY <1>1
  <2> HIDE DEF n
  <2>3. SubSeq(s, 1, n) \in Seq(S) /\ Len(SubSeq(s, 1, n)) = n
    <3>1. \A i \in 1 .. n : s[i] \in S
      BY <2>1, Zenon DEF n
    <3>2. QED
      BY <2>2, <3>1, SubSeqProperties
  <2>4. QED
    BY <1>1, <2>2, <2>3, Zenon DEF n, Front
<1>4. Front(s) \o <<Last(s)>> = s
  <2>1. SubSeq(s, 1, Len(s)) = SubSeq(s, 1, Len(s) - 1) \o <<s[Len(s)]>>
    BY <1>1, SubSeqRecursiveSecond
  <2>2. QED
    BY <2>1, SubSeqFull, Zenon DEF Front, Last
<1>5. QED
  BY <1>2, <1>3, <1>4

(* Concatenation of octets is associative. *)
LEMMA Joined ==
  ASSUME NEW a \in Seq(Octets), NEW b \in Seq(Octets), NEW c \in Seq(Octets)
  PROVE  (a \o b) \o c = a \o (b \o c)
BY ConcatAssociative

(* What is left after n tokens. *)
LEMMA RestFacts ==
  ASSUME NEW S, NEW w \in Seq(S), NEW n \in Nat
  PROVE  /\ Rest(w, n) \in Seq(S)
         /\ Len(Rest(w, n)) = IF n <= Len(w) THEN Len(w) - n ELSE 0
         /\ n <= Len(w) => /\ SubSeq(w, 1, n) \in Seq(S) /\ Len(SubSeq(w, 1, n)) = n
                           /\ SubSeq(w, 1, n) \o Rest(w, n) = w
<1>1. Len(w) \in Nat
  BY LenProperties, Zenon
<1>2. \A i \in n + 1 .. Len(w) : w[i] \in S
  BY <1>1, ElementOfSeq
<1>3. /\ Rest(w, n) \in Seq(S)
      /\ Len(Rest(w, n)) = IF n <= Len(w) THEN Len(w) - n ELSE 0
  BY <1>1, <1>2, SubSeqProperties DEF Rest
<1>4. ASSUME n <= Len(w)
      PROVE  /\ SubSeq(w, 1, n) \in Seq(S) /\ Len(SubSeq(w, 1, n)) = n
             /\ SubSeq(w, 1, n) \o Rest(w, n) = w
  <2>1. \A i \in 1 .. n : w[i] \in S
    BY <1>1, <1>4, ElementOfSeq
  <2>2. SubSeq(w, 1, n) \in Seq(S) /\ Len(SubSeq(w, 1, n)) = n
    BY <2>1, SubSeqProperties
  <2>3. SubSeq(w, 1, n) \o SubSeq(w, n + 1, Len(w)) = SubSeq(w, 1, Len(w))
    <3>1. 1 \in 1 .. Len(w) + 1 /\ n \in 1 - 1 .. Len(w) /\ Len(w) \in n .. Len(w)
      BY <1>1, <1>4
    <3>2. QED
      BY <3>1, ConcatAdjacentSubSeq, Zenon
  <2>4. QED
    BY <2>2, <2>3, SubSeqFull, Zenon DEF Rest
<1>5. QED
  BY <1>3, <1>4, Zenon

(* The least of two and of three numbers. *)
LEMMA LeastOfTwo ==
  ASSUME NEW a \in Nat, NEW b \in Nat
  PROVE  Min({a, b}) \in {a, b} /\ Min({a, b}) <= a /\ Min({a, b}) <= b
<1>1. \E x \in {a, b} : \A y \in {a, b} : x <= y
  <2>1. CASE a <= b
    BY <2>1
  <2>2. CASE ~(a <= b)
    <3>1. b <= a
      BY <2>2
    <3>2. QED
      BY <3>1
  <2>3. QED
    BY <2>1, <2>2, Zenon
<1>2. QED
  BY <1>1, Zenon DEF Min

(* The least of three numbers is one of them and none is less. *)
LEMMA LeastOfThree ==
  ASSUME NEW a \in Nat, NEW b \in Nat, NEW c \in Nat
  PROVE  /\ Min({a, b, c}) \in Nat
         /\ Min({a, b, c}) <= a /\ Min({a, b, c}) <= b /\ Min({a, b, c}) <= c
<1>1. \E x \in {a, b, c} : \A y \in {a, b, c} : x <= y
  <2>1. CASE a <= b /\ a <= c
    BY <2>1
  <2>2. CASE b <= a /\ b <= c
    BY <2>2
  <2>3. CASE c <= a /\ c <= b
    BY <2>3
  <2>4. QED
    BY <2>1, <2>2, <2>3
<1>2. QED
  BY <1>1, Zenon DEF Min

(* A line is within what is left of the wire. *)
LEMMA LineFacts ==
  ASSUME NEW S, NEW w \in Seq(S)
  PROVE  LineLength(w) \in 0 .. Len(w)
<1> DEFINE ends == {i \in DOMAIN w : EndsLine(w[i])}
           R == OpToRel(<, Nat)
<1>1. Len(w) \in Nat /\ DOMAIN w = 1 .. Len(w)
  BY LenProperties, Zenon
<1>2. ends \subseteq Nat
  BY <1>1
<1>3. CASE ends = {}
  BY <1>1, <1>3 DEF LineLength
<1>4. CASE ends # {}
  <2>1. PICK x \in ends : \A y \in ends : ~(<<y, x>> \in R)
    BY <1>2, <1>4, WFMin, NatLessThanWellFounded, Zenon
  <2>2. \A y \in ends : x <= y
    <3>1. \A y \in ends : ~(y < x)
      BY <1>2, <2>1, Zenon DEF OpToRel
    <3>2. QED
      BY <1>2, <3>1
  <2>3. Min(ends) \in ends
    BY <2>2, Zenon DEF Min
  <2>4. QED
    BY <1>1, <1>4, <2>3 DEF LineLength
<1>5. QED
  BY <1>3, <1>4, Zenon

-----------------------------------------------------------------------------
(* The reader and the guard *)

(* A field of the reader can be set to any value of its type. *)
LEMMA Setters ==
  ASSUME NEW s \in ReaderType
  PROVE  /\ \A x \in Seq(Octets) : [s EXCEPT !.buf = x] \in ReaderType
         /\ \A x \in Nat : [s EXCEPT !.remaining = x] \in ReaderType
         /\ \A x \in BOOLEAN : [s EXCEPT !.needCRLF = x] \in ReaderType
         /\ \A x \in BOOLEAN : [s EXCEPT !.final = x] \in ReaderType
         /\ \A x \in BOOLEAN : [s EXCEPT !.done = x] \in ReaderType
         /\ \A x \in Nat : [s EXCEPT !.decoded = x] \in ReaderType
         /\ \A x \in Seq(Seq(Nat)) : [s EXCEPT !.prev = x] \in ReaderType
         /\ \A x \in Seq(Octets) : [s EXCEPT !.hashed = x] \in ReaderType
         /\ \A x \in Texts : [s EXCEPT !.err = x] \in ReaderType
         /\ \A x \in Seq(Names \X Values(client.length)) : [s EXCEPT !.trailers = x] \in ReaderType
         /\ \A x \in Nat : [s EXCEPT !.lines = x] \in ReaderType
<1>1. /\ \A x \in Seq(Octets) : [s EXCEPT !.buf = x] \in ReaderType
      /\ \A x \in Nat : [s EXCEPT !.remaining = x] \in ReaderType
  BY Zenon DEF ReaderType
<1>2. /\ \A x \in BOOLEAN : [s EXCEPT !.needCRLF = x] \in ReaderType
      /\ \A x \in BOOLEAN : [s EXCEPT !.final = x] \in ReaderType
      /\ \A x \in BOOLEAN : [s EXCEPT !.done = x] \in ReaderType
  BY Zenon DEF ReaderType
<1>3. /\ \A x \in Nat : [s EXCEPT !.decoded = x] \in ReaderType
      /\ \A x \in Seq(Seq(Nat)) : [s EXCEPT !.prev = x] \in ReaderType
      /\ \A x \in Seq(Octets) : [s EXCEPT !.hashed = x] \in ReaderType
  BY Zenon DEF ReaderType
<1>4. /\ \A x \in Texts : [s EXCEPT !.err = x] \in ReaderType
      /\ \A x \in Seq(Names \X Values(client.length)) : [s EXCEPT !.trailers = x] \in ReaderType
      /\ \A x \in Nat : [s EXCEPT !.lines = x] \in ReaderType
  BY Zenon DEF ReaderType
<1>5. QED
  BY <1>1, <1>2, <1>3, <1>4, Zenon

(* The guard hands on or holds back what it gets, and drops the last byte at *)
(* an error: whatever the reader still has in reserve, Flow goes on.         *)
LEMMA GuardKeeps ==
  ASSUME Flow, guard.err = NoErr, result = "open",
         NEW bytes \in Seq(Octets), NEW e \in Texts, e = NoErr => bytes # <<>>,
         GuardGets(bytes, e),
         NEW more \in Seq(Octets),
         r'.hashed = ((delivered \o guard.carry) \o bytes) \o more,
         e \in {NoErr, "eof"} => r'.err = NoErr /\ r'.buf = more
  PROVE  Flow'
<1> DEFINE all == guard.carry \o bytes
           out == Release(bytes, e)
<1>1. /\ guard.carry \in Seq(Octets) /\ delivered \in Seq(Octets) /\ call \in Nat
      /\ Len(guard.carry) <= 1 /\ (delivered # <<>> => guard.carry # <<>>)
  BY Zenon DEF Flow
<1>2. all \in Seq(Octets) /\ Len(all) = Len(guard.carry) + Len(bytes)
  BY <1>1, ConcatProperties, Zenon
<1>3. delivered \o all = (delivered \o guard.carry) \o bytes
  BY <1>1, Joined, Zenon
<1>4. (bytes # <<>> => all # <<>>) /\ (guard.carry # <<>> => all # <<>>)
  BY <1>1, ConcatEqualIffEmpty
<1>5. /\ guard' = [carry |-> out.carry, err |-> e]
      /\ delivered' = delivered \o out.emit
      /\ call' = IF out.emit = <<>> /\ e = NoErr THEN call ELSE 0
      /\ result' = IF out.emit = <<>> /\ e # NoErr THEN e ELSE result
  BY Zenon DEF GuardGets
<1>6. r'.hashed = (delivered \o all) \o more
  BY <1>3, Zenon
<1> HIDE DEF all
<1>7. CASE e = NoErr \/ (e = "eof" /\ Len(all) > call)
  <2>1. all # <<>>
    <3>1. CASE e = NoErr
      BY <1>4, <3>1, Zenon
    <3>2. CASE Len(all) > call
      BY <1>1, <1>2, <3>2, EmptySeq
    <3>3. QED
      BY <1>7, <3>1, <3>2, Zenon
  <2>2. out = [emit |-> Front(all), carry |-> <<Last(all)>>]
    <3>1. CASE e = NoErr
      BY <3>1, Zenon DEF Release, all, Front, Last, NoErr
    <3>2. CASE e = "eof" /\ Len(all) > call
      <4>1. ~(Len(all) <= call) /\ e # NoErr
        BY <1>1, <1>2, <3>2 DEF NoErr
      <4>2. QED
        BY <3>2, <4>1, Zenon DEF Release, all, Front, Last
    <3>3. QED
      BY <1>7, <3>1, <3>2, Zenon
  <2>3. out.emit = Front(all) /\ out.carry = <<Last(all)>>
    BY <2>2
  <2> HIDE DEF out
  <2>4. /\ Front(all) \in Seq(Octets) /\ <<Last(all)>> \in Seq(Octets)
        /\ Len(<<Last(all)>>) = 1 /\ Front(all) \o <<Last(all)>> = all
    BY <1>2, <2>1, FrontLast, Zenon
  <2>5. (delivered \o Front(all)) \o <<Last(all)>> = delivered \o all
    <3> DEFINE x == <<Last(all)>>
               y == Front(all)
    <3>1. x \in Seq(Octets) /\ y \in Seq(Octets) /\ y \o x = all
      BY <2>4, Zenon
    <3> HIDE DEF x, y
    <3>2. (delivered \o y) \o x = delivered \o all
      BY <1>1, <3>1, Joined, ZenonT(40)
    <3>3. QED
      BY <3>2, Zenon DEF x, y
  <2>6. delivered \o Front(all) \in Seq(Octets)
    BY <1>1, <2>4, ConcatProperties, Zenon
  <2>7. guard'.carry = <<Last(all)>> /\ guard'.err = e /\ <<Last(all)>> # <<>>
    BY <1>5, <2>3, <2>4, Zenon
  <2>8. /\ guard' \in [carry : Seq(Octets), err : Texts] /\ Len(guard'.carry) <= 1
        /\ delivered' \in Seq(Octets)
    BY <1>5, <2>3, <2>4, <2>6, <2>7
  <2>9. /\ call' \in Nat /\ (call' > 0 => guard'.err = NoErr)
        /\ result' = "eof" => guard'.err = "eof"
    BY <1>1, <1>5, <2>7
  <2>10. /\ guard'.err \in {NoErr, "eof"}
         /\ r'.err = NoErr /\ r'.hashed = (delivered' \o guard'.carry) \o r'.buf
    BY <1>5, <1>6, <1>7, <2>3, <2>5, <2>7, Zenon
  <2>11. QED
    BY <2>7, <2>8, <2>9, <2>10, Zenon DEF Flow, Octets
<1>8. CASE e = "eof" /\ Len(all) <= call
  <2>1. out = [emit |-> all, carry |-> <<>>]
    <3>1. e # NoErr /\ ~(Len(all) > call)
      BY <1>1, <1>2, <1>8 DEF NoErr
    <3>2. QED
      BY <1>8, <3>1, Zenon DEF Release, all, Front, Last
  <2>2. out.emit = all /\ out.carry = <<>>
    BY <2>1
  <2> HIDE DEF out
  <2>3. delivered \o all \in Seq(Octets) /\ (delivered \o all) \o <<>> = delivered \o all
    BY <1>1, <1>2, ConcatProperties, ConcatEmptySeq, Zenon
  <2>4. guard'.carry = <<>> /\ guard'.err = "eof"
    BY <1>5, <1>8, <2>2, Zenon
  <2>5. /\ guard' \in [carry : Seq(Octets), err : Texts] /\ Len(guard'.carry) <= 1
        /\ delivered' \in Seq(Octets)
    BY <1>5, <2>2, <2>3, <2>4
  <2>6. /\ call' \in Nat /\ (call' > 0 => guard'.err = NoErr)
        /\ result' = "eof" => guard'.err = "eof"
    BY <1>5, <1>8, <2>4 DEF NoErr
  <2>7. r'.err = NoErr /\ r'.hashed = (delivered' \o guard'.carry) \o r'.buf
    BY <1>5, <1>6, <1>8, <2>2, <2>3, <2>4, Zenon
  <2>8. QED
    BY <2>4, <2>5, <2>6, <2>7, Zenon DEF Flow, Octets, NoErr
<1>9. CASE e \notin {NoErr, "eof"}
  <2>1. out = [emit |-> IF bytes = <<>> THEN <<>> ELSE Front(all), carry |-> <<>>]
    BY <1>9, Zenon DEF Release, all, Front, Last
  <2>2. out.emit = (IF bytes = <<>> THEN <<>> ELSE Front(all)) /\ out.carry = <<>>
    BY <2>1
  <2> HIDE DEF out
  <2>3. guard'.carry = <<>> /\ guard'.err = e
    BY <1>5, <2>2, Zenon
  <2>4. /\ call' \in Nat /\ (call' > 0 => guard'.err = NoErr)
        /\ result' = "eof" => guard'.err = "eof"
    BY <1>5, <1>9
  <2>5. \E rest \in Seq(Octets) : /\ delivered' \in Seq(Octets)
                                  /\ r'.hashed = delivered' \o rest
                                  /\ rest = <<>> => delivered' = <<>>
    <3>1. CASE bytes = <<>>
      <4>1. delivered' = delivered
        BY <1>1, <1>5, <2>2, <3>1, ConcatEmptySeq, Zenon
      <4>2. all \o more \in Seq(Octets) /\ r'.hashed = delivered \o (all \o more)
        BY <1>1, <1>2, <1>6, ConcatProperties, Joined, ZenonT(40)
      <4>3. all \o more = <<>> => delivered = <<>>
        BY <1>1, <1>2, <1>4, ConcatEqualIffEmpty
      <4>4. QED
        BY <1>1, <4>1, <4>2, <4>3, Zenon
    <3>2. CASE bytes # <<>>
      <4>1. /\ Front(all) \in Seq(Octets) /\ <<Last(all)>> \in Seq(Octets)
            /\ Len(<<Last(all)>>) = 1 /\ Front(all) \o <<Last(all)>> = all
        BY <1>2, <1>4, <3>2, FrontLast, Zenon
      <4> DEFINE x == <<Last(all)>>
                 y == Front(all)
      <4>2. x \in Seq(Octets) /\ y \in Seq(Octets) /\ y \o x = all /\ x # <<>>
        BY <4>1, Zenon
      <4>3. delivered' = delivered \o y
        BY <1>5, <2>2, <3>2, Zenon
      <4> HIDE DEF x, y
      <4>4. delivered \o y \in Seq(Octets) /\ x \o more \in Seq(Octets)
        BY <1>1, <4>2, ConcatProperties, Zenon
      <4>5. delivered \o all = (delivered \o y) \o x
        BY <1>1, <4>2, Joined, ZenonT(40)
      <4>6. r'.hashed = (delivered \o y) \o (x \o more)
        <5> DEFINE z == delivered \o y
        <5>1. z \in Seq(Octets) /\ x \in Seq(Octets) /\ more \in Seq(Octets)
          BY <4>2, <4>4, Zenon
        <5> HIDE DEF z
        <5>2. (z \o x) \o more = z \o (x \o more)
          BY <5>1, Joined, Zenon
        <5>3. QED
          BY <1>6, <4>5, <5>2, Zenon DEF z
      <4>7. x \o more # <<>>
        BY <4>2, ConcatEqualIffEmpty
      <4>8. QED
        BY <4>3, <4>4, <4>6, <4>7, Zenon
    <3>3. QED
      BY <3>1, <3>2, Zenon
  <2>6. guard' \in [carry : Seq(Octets), err : Texts] /\ Len(guard'.carry) <= 1
    BY <1>5, <2>2, <2>3
  <2>7. QED
    BY <1>9, <2>3, <2>4, <2>5, <2>6, Zenon DEF Flow, Octets
<1>10. QED
  <2>1. Len(all) > call \/ Len(all) <= call
    BY <1>1, <1>2
  <2>2. QED
    BY <1>7, <1>8, <1>9, <2>1, Zenon

(* The payload as octets. *)
LEMMA PayloadFacts ==
  ASSUME NEW n \in 0 .. MaxLength
  PROVE  Payload(n) \in Seq(Octets) /\ Len(Payload(n)) = n /\ \A i \in 1 .. n : Payload(n)[i] = i
<1>1. \A i \in 1 .. n : i \in Octets
  BY ChunkedBodyAssumption DEF Octets, Foreign
<1>2. QED
  BY <1>1 DEF Payload

(* A damaged checksum is of nothing the reader can read. *)
LEMMA UnseenFacts ==
  ASSUME NEW s \in Seq(Octets)
  PROVE  s # Unseen
<1>1. SUFFICES ASSUME s = Unseen PROVE FALSE
  BY Zenon
<1>2. Len(s) = 1 /\ s[1] = MaxLength + 2
  BY <1>1, Zenon DEF Unseen
<1>3. s[1] \in Octets
  BY <1>2, ElementOfSeq
<1>4. QED
  BY <1>2, <1>3, ChunkedBodyAssumption DEF Octets, Foreign

(* What a token on the wire can be. *)
LEMMA TokenFacts ==
  ASSUME NEW C, NEW n, NEW t \in Tokens(C, n)
  PROVE  /\ AsPayload(t) \in Octets
         /\ t.k = "header" => t \in Headers(C)
         /\ t.k = "line" => t \in Lines(n)
         /\ mode = "hash" => t \in Bytes
<1>1. Foreign \in Octets
  BY ChunkedBodyAssumption DEF Octets, Foreign
<1>2. CASE t \in Bytes
  <2>1. t.k = "byte" /\ t.b \in Octets
    BY <1>2, Zenon DEF Bytes
  <2>2. QED
    BY <1>2, <2>1, Zenon DEF AsPayload
<1>3. CASE mode # "hash" /\ t \in Headers(C)
  <2>1. t.k = "header"
    BY <1>3, Zenon DEF Headers
  <2>2. QED
    BY <1>1, <1>3, <2>1, Zenon DEF AsPayload
<1>4. CASE mode # "hash" /\ t \in Lines(n)
  <2>1. t.k = "line"
    BY <1>4, Zenon DEF Lines
  <2>2. QED
    BY <1>1, <1>4, <2>1, Zenon DEF AsPayload
<1>5. CASE mode # "hash" /\ t \in {CRLF[1], CRLF[2]}
  <2>1. t.k \in {"cr", "lf"}
    BY <1>5 DEF CRLF
  <2>2. QED
    BY <1>1, <1>5, <2>1, Zenon DEF AsPayload
<1>6. QED
  BY <1>2, <1>3, <1>4, <1>5, Zenon DEF Tokens, Framing

(* What tokens are as payload. *)
LEMMA PayloadOf ==
  ASSUME NEW C, NEW m, NEW w \in Seq(Tokens(C, m)), NEW n \in Nat, n <= Len(w)
  PROVE  /\ [i \in 1 .. n |-> AsPayload(w[i])] \in Seq(Octets)
         /\ Len([i \in 1 .. n |-> AsPayload(w[i])]) = n
<1>1. \A i \in 1 .. n : AsPayload(w[i]) \in Octets
  <2>1. Len(w) \in Nat
    BY LenProperties, Zenon
  <2>2. \A i \in 1 .. n : w[i] \in Tokens(C, m)
    BY <2>1, ElementOfSeq
  <2>3. QED
    BY <2>2, TokenFacts, Zenon
<1>2. QED
  BY <1>1

(* The texts of errors, and which of them the checks return. *)
LEMMA TextFacts ==
  /\ NoErr \in Texts /\ "eof" \in Texts /\ "broken" \in Texts
  /\ "eof" # NoErr /\ "broken" # NoErr
  /\ \A e \in Refusals : e \in Texts /\ e # NoErr /\ e # "eof"
  /\ "missing chunk signature" \in Texts /\ "invalid chunk signature" \in Texts
  /\ "length mismatch" \in Texts /\ "unexpected EOF" \in Texts
  /\ "missing chunk CRLF" \in Texts /\ "hash mismatch" \in Texts
  /\ "missing trailer signature" \in Texts /\ "invalid trailer signature" \in Texts
  /\ "checksum mismatch" \in Texts /\ "missing trailer" \in Texts
BY Zenon DEF Texts, Refusals, NoErr

(* What the checks of a frame, of its CRLF and of the trailers return is one *)
(* of the errors or none.                                                    *)
LEMMA ErrorFacts ==
  ASSUME Request
  PROVE  /\ \A h, chunk : BadSignature(h, chunk) \in Texts
         /\ \A w : consumeCRLF(w) \in Texts
         /\ \A trailers, hashed : verifyTrailingChecksums(trailers, hashed) \in Texts
         /\ ending \in Texts /\ ending # NoErr
<1>1. ending \in Texts /\ ending # NoErr
  BY TextFacts, Zenon DEF Request
<1>2. \A h, chunk : BadSignature(h, chunk) \in Texts
  BY TextFacts, Zenon DEF BadSignature
<1>3. \A w : consumeCRLF(w) \in Texts
  BY <1>1, TextFacts, Zenon DEF consumeCRLF
<1>4. \A trailers, hashed : verifyTrailingChecksums(trailers, hashed) \in Texts
  BY TextFacts, Zenon DEF verifyTrailingChecksums
<1>5. QED
  BY <1>1, <1>2, <1>3, <1>4, Zenon

-----------------------------------------------------------------------------
(* Steps of the reader, in general *)

(* A step of the reader does not change the request. *)
LEMMA SameRequest ==
  ASSUME Request, Chain, UNCHANGED sender
  PROVE  Request' /\ Chain'
<1>1. /\ mode' = mode /\ checksums' = checksums /\ declared' = declared /\ client' = client
      /\ ending' = ending
  BY Zenon DEF sender
<1>2. Request'
  BY <1>1, Zenon DEF Request
<1>3. Chain'
  BY <1>1 DEF Chain, Link, End
<1>4. QED
  BY <1>2, <1>3, Zenon

(* What is on the wire stays fit for the client as long as the reader only *)
(* takes from it.                                                          *)
LEMMA SameWire ==
  ASSUME UNCHANGED sender, wire' \in Seq(Tokens(client.sig, client.length)),
         mode = "hash" => Len(r'.hashed) + Len(wire') <= client.sent
  PROVE  Wired'
<1>1. mode' = mode /\ client' = client
  BY Zenon DEF sender
<1>2. QED
  BY <1>1, Zenon DEF Wired, Tokens

(* Whether a state of the reader fits depends on the reader and on what the *)
(* client sent.                                                             *)
LEMMA SameReader ==
  ASSUME NEW s, Fits(s), r' = s, UNCHANGED sender
  PROVE  Fits(r)'
<1>1. /\ mode' = mode /\ checksums' = checksums /\ declared' = declared /\ client' = client
  BY Zenon DEF sender
<1>2. QED
  BY <1>1, Zenon DEF Fits, ReaderType, Verified, Collected, Signed, Protected, End, Payload

(* A reader that differs only in its buffer, its error and its line counts. *)
LEMMA FitsAlike ==
  ASSUME Fits(r), NEW s \in ReaderType, s.hashed = r.hashed, s.prev = r.prev,
         s.decoded = r.decoded, s.remaining = r.remaining, s.final <=> r.final,
         s.done <=> r.done, s.trailers = r.trailers, r.buf = <<>> => s.buf = <<>>
  PROVE  Fits(s)
BY Zenon DEF Fits, Verified, Collected

(* While a read is in progress nothing is missing. *)
LEMMA Held ==
  ASSUME Intact, InRead
  PROVE  /\ guard.err = NoErr /\ result = "open" /\ r.err = NoErr
         /\ delivered \in Seq(Octets) /\ guard.carry \in Seq(Octets) /\ call \in Nat \ {0}
         /\ delivered \o guard.carry \in Seq(Octets)
         /\ r \in ReaderType /\ r.buf \in Seq(Octets) /\ r.hashed \in Seq(Octets)
         /\ r.hashed = (delivered \o guard.carry) \o r.buf
<1>1. r \in ReaderType /\ r.buf \in Seq(Octets) /\ r.hashed \in Seq(Octets)
  BY Zenon DEF Intact, Fits, ReaderType
<1>2. guard.err = NoErr /\ result = "open" /\ call \in Nat \ {0}
  BY DEF Intact, InRead, Reading, Flow
<1>3. delivered \in Seq(Octets) /\ guard.carry \in Seq(Octets) /\ r.err = NoErr
      /\ r.hashed = (delivered \o guard.carry) \o r.buf
  BY <1>2, Zenon DEF Intact, Flow
<1>4. QED
  BY <1>1, <1>2, <1>3, ConcatProperties, Zenon

(* The reader that returns an error, or the end of the stream with nothing *)
(* left in its buffer, keeps the invariant.                                *)
LEMMA FailKeeps ==
  ASSUME Intact, InRead, NEW e \in Texts, e # NoErr, e = "eof" => r.buf = <<>>,
         NEW w \in Seq(Tokens(client.sig, client.length)),
         mode = "hash" => Len(w) <= Len(wire), Fail(e, w)
  PROVE  Intact'
<1> DEFINE s == [r EXCEPT !.buf = <<>>, !.err = IF @ = NoErr /\ e # "eof" THEN e ELSE @]
<1>1. wire' = w /\ r' = s /\ GuardGets(<<>>, e) /\ UNCHANGED sender
  BY Zenon DEF Fail
<1>2. /\ r \in ReaderType /\ r.buf \in Seq(Octets) /\ r.err = NoErr /\ guard.err = NoErr
      /\ result = "open" /\ delivered \o guard.carry \in Seq(Octets)
      /\ r.hashed = (delivered \o guard.carry) \o r.buf
  BY Held, Zenon
<1>3. s = [[r EXCEPT !.buf = <<>>] EXCEPT !.err = IF e # "eof" THEN e ELSE NoErr]
  BY <1>2, Zenon DEF ReaderType
<1>4. s \in ReaderType
  <2>1. [r EXCEPT !.buf = <<>>] \in ReaderType
    BY <1>2, Setters, EmptySeq, Zenon
  <2>2. (IF e # "eof" THEN e ELSE NoErr) \in Texts
    BY TextFacts, Zenon
  <2>3. QED
    BY <1>3, <2>1, <2>2, Setters, Zenon
<1>5. /\ s.hashed = r.hashed /\ s.prev = r.prev /\ s.decoded = r.decoded
      /\ s.remaining = r.remaining /\ s.trailers = r.trailers /\ s.buf = <<>>
      /\ (e = "eof" => s.err = NoErr)
  BY <1>2, Zenon DEF ReaderType
<1>6. (s.final <=> r.final) /\ (s.done <=> r.done)
  BY <1>2, Zenon DEF ReaderType
<1> HIDE DEF s
<1>7. Fits(s)
  BY <1>4, <1>5, <1>6, FitsAlike, Zenon DEF Intact
<1>8. Request' /\ Chain' /\ Fits(r)'
  BY <1>1, <1>7, SameRequest, SameReader, Zenon DEF Intact
<1>9. Wired'
  <2>1. mode = "hash" => Len(r'.hashed) + Len(wire') <= client.sent
    <3>1. SUFFICES ASSUME mode = "hash" PROVE Len(r'.hashed) + Len(wire') <= client.sent
      BY Zenon
    <3>2. Len(r.hashed) + Len(wire) <= client.sent /\ Len(w) <= Len(wire)
      BY <3>1, Zenon DEF Intact, Wired
    <3>3. Len(r.hashed) \in Nat /\ Len(wire) \in Nat /\ Len(w) \in Nat /\ client.sent \in Nat
      BY <1>2, LenProperties, Zenon DEF Intact, Wired, Chain, ReaderType
    <3>4. QED
      BY <1>1, <1>5, <3>2, <3>3
  <2>2. QED
    BY <1>1, <2>1, SameWire, Zenon
<1>10. Flow'
  <2>1. <<>> \in Seq(Octets) /\ (delivered \o guard.carry) \o <<>> = delivered \o guard.carry
    BY <1>2, EmptySeq, ConcatEmptySeq, Zenon
  <2>2. r'.hashed = ((delivered \o guard.carry) \o <<>>) \o r.buf
    BY <1>1, <1>2, <1>5, <2>1, Zenon
  <2>3. e \in {NoErr, "eof"} => r'.err = NoErr /\ r'.buf = r.buf
    BY <1>1, <1>5, Zenon
  <2>4. QED
    BY <1>1, <1>2, <2>1, <2>2, <2>3, GuardKeeps, Zenon DEF Intact
<1>11. QED
  BY <1>8, <1>9, <1>10, Zenon DEF Intact

(* So does an error that the reader finds in the frames. *)
LEMMA RefusalKeeps ==
  ASSUME Intact, InRead, mode # "hash", NEW e \in Refusals,
         NEW w \in Seq(Tokens(client.sig, client.length)), Fail(e, w)
  PROVE  Intact'
BY TextFacts, FailKeeps, Zenon

(* The reader that goes on in a state that fits, and hands out nothing, keeps *)
(* the invariant.                                                             *)
LEMMA ContinueKeeps ==
  ASSUME Intact, InRead, mode # "hash", NEW s, Fits(s), s.err = r.err,
         s.hashed = (delivered \o guard.carry) \o s.buf,
         NEW w \in Seq(Tokens(client.sig, client.length)), Continue(s, w)
  PROVE  Intact'
<1>1. /\ wire' = w /\ r' = s /\ UNCHANGED sender /\ guard' = guard /\ call' = call
      /\ delivered' = delivered /\ result' = result
  BY Zenon DEF Continue
<1>2. Request' /\ Chain' /\ Fits(r)'
  BY <1>1, SameRequest, SameReader, Zenon DEF Intact
<1>3. Wired'
  BY <1>1, SameWire, Zenon
<1>4. Flow'
  BY <1>1, Held, Zenon DEF Flow, Intact
<1>5. QED
  BY <1>2, <1>3, <1>4, Zenon DEF Intact

-----------------------------------------------------------------------------
(* Handing out bytes *)

(* A read of the guard asks the reader for at least one byte. *)
LEMMA LimitFacts ==
  ASSUME Intact, InRead
  PROVE  ReadLimit \in Nat \ {0}
BY Held DEF ReadLimit

(* awsChunkedReader.Read out of the buffer of a verified chunk. *)
LEMMA ReadBufferedKeeps ==
  ASSUME Intact, ReadBuffered
  PROVE  Intact'
<1> DEFINE n == Min({ReadLimit, Len(r.buf)})
           bytes == SubSeq(r.buf, 1, n)
           more == Rest(r.buf, n)
           s == [r EXCEPT !.buf = more]
<1>1. /\ InRead /\ r.buf # <<>> /\ r' = s /\ GuardGets(bytes, NoErr) /\ UNCHANGED sender
      /\ wire' = wire
  BY Zenon DEF ReadBuffered
<1>2. /\ guard.err = NoErr /\ result = "open" /\ r.err = NoErr
      /\ delivered \o guard.carry \in Seq(Octets) /\ r \in ReaderType /\ r.buf \in Seq(Octets)
      /\ r.hashed = (delivered \o guard.carry) \o r.buf
  BY <1>1, Held, Zenon
<1>3. n \in Nat /\ 1 <= n /\ n <= Len(r.buf)
  <2>1. ReadLimit \in Nat \ {0} /\ Len(r.buf) \in Nat \ {0}
    BY <1>1, <1>2, LimitFacts, EmptySeq, Zenon
  <2>2. QED
    BY <2>1, LeastOfTwo
<1> HIDE DEF n
<1>4. /\ bytes \in Seq(Octets) /\ Len(bytes) = n /\ more \in Seq(Octets)
      /\ bytes \o more = r.buf
  BY <1>2, <1>3, RestFacts, Zenon
<1>5. s \in ReaderType
  BY <1>2, <1>4, Setters, Zenon
<1>6. /\ s.hashed = r.hashed /\ s.prev = r.prev /\ s.decoded = r.decoded
      /\ s.remaining = r.remaining /\ s.trailers = r.trailers /\ s.buf = more
      /\ s.err = r.err
  BY <1>2, Zenon DEF ReaderType
<1>7. (s.final <=> r.final) /\ (s.done <=> r.done)
  BY <1>2, Zenon DEF ReaderType
<1> HIDE DEF s, bytes, more
<1>8. Fits(s)
  BY <1>1, <1>5, <1>6, <1>7, FitsAlike, Zenon DEF Intact
<1>9. Request' /\ Chain' /\ Fits(r)'
  BY <1>1, <1>8, SameRequest, SameReader, Zenon DEF Intact
<1>10. Wired'
  <2>1. r'.hashed = r.hashed
    BY <1>1, <1>6, Zenon
  <2>2. mode = "hash" => Len(r'.hashed) + Len(wire') <= client.sent
    BY <1>1, <2>1, Zenon DEF Intact, Wired
  <2>3. QED
    BY <1>1, <2>2, SameWire, Zenon DEF Intact, Wired
<1>11. Flow'
  <2>1. r'.hashed = ((delivered \o guard.carry) \o bytes) \o more
    <3>1. ((delivered \o guard.carry) \o bytes) \o more = (delivered \o guard.carry) \o (bytes \o more)
      BY <1>2, <1>4, Joined, Zenon
    <3>2. QED
      BY <1>1, <1>2, <1>4, <1>6, <3>1, Zenon
  <2>2. bytes # <<>>
    BY <1>3, <1>4, EmptySeq
  <2>3. NoErr \in Texts /\ r'.err = NoErr /\ r'.buf = more
    BY <1>1, <1>2, <1>6, TextFacts, Zenon
  <2>4. QED
    BY <1>1, <1>2, <1>4, <2>1, <2>2, <2>3, GuardKeeps, Zenon DEF Intact
<1>12. QED
  BY <1>9, <1>10, <1>11, Zenon DEF Intact

(* awsChunkedReader.Read out of a chunk without a signature. *)
LEMMA ReadUnsignedKeeps ==
  ASSUME Intact, NEW n \in 1 .. MaxBuffer, ReadUnsigned(n)
  PROVE  Intact'
<1> DEFINE T == Tokens(client.sig, client.length)
           bytes == [i \in 1 .. n |-> AsPayload(wire[i])]
           s == [r EXCEPT !.remaining = @ - n, !.decoded = @ + n, !.hashed = @ \o bytes]
<1>1. InRead /\ r.remaining > 0
  BY Zenon DEF ReadUnsigned
<1>2. /\ guard.err = NoErr /\ result = "open" /\ r.err = NoErr
      /\ delivered \o guard.carry \in Seq(Octets) /\ r \in ReaderType /\ r.hashed \in Seq(Octets)
      /\ r.hashed = (delivered \o guard.carry) \o r.buf
  BY <1>1, Held, Zenon
<1>3. wire \in Seq(T) /\ Len(wire) \in Nat
  BY LenProperties, Zenon DEF Intact, Wired
<1>4. n \in Nat \ {0}
  BY ChunkedBodyAssumption
<1>5. CASE wire = <<>>
  <2>1. Fail("unexpected EOF", wire)
    BY <1>5, Zenon DEF ReadUnsigned
  <2>2. mode # "hash" /\ "unexpected EOF" \in Refusals
    <3>1. r.remaining # 0
      BY <1>1, <1>2 DEF ReaderType
    <3>2. QED
      BY <3>1, Zenon DEF Intact, Fits, Refusals
  <2>3. QED
    BY <1>1, <1>3, <2>1, <2>2, RefusalKeeps, Zenon
<1>6. CASE wire # <<>>
  <2>1. /\ n <= Min({ReadLimit, r.remaining, Len(wire)}) /\ wire' = Rest(wire, n) /\ r' = s
        /\ GuardGets(bytes, NoErr) /\ UNCHANGED sender
    BY <1>6, Zenon DEF ReadUnsigned
  <2>2. r.remaining \in Nat /\ r.decoded \in Nat /\ r.buf = <<>>
    BY <1>1, <1>2, Zenon DEF ReaderType, Intact, Fits
  <2>3. n <= r.remaining /\ n <= Len(wire)
    <3>1. ReadLimit \in Nat
      BY <1>1, LimitFacts, Zenon
    <3>2. /\ Min({ReadLimit, r.remaining, Len(wire)}) \in Nat
          /\ Min({ReadLimit, r.remaining, Len(wire)}) <= r.remaining
          /\ Min({ReadLimit, r.remaining, Len(wire)}) <= Len(wire)
      BY <1>3, <2>2, <3>1, LeastOfThree, Zenon
    <3>3. QED
      BY <1>3, <1>4, <2>1, <2>2, <3>2
  <2>4. bytes \in Seq(Octets) /\ Len(bytes) = n /\ Rest(wire, n) \in Seq(T)
    BY <1>3, <1>4, <2>3, PayloadOf, RestFacts
  <2> HIDE DEF bytes, T
  <2>5. r.hashed \o bytes \in Seq(Octets) /\ Len(r.hashed \o bytes) = Len(r.hashed) + n
    BY <1>2, <2>4, ConcatProperties, Zenon
  <2>6. /\ s.hashed = r.hashed \o bytes /\ s.prev = r.prev /\ s.decoded = r.decoded + n
        /\ s.remaining = r.remaining - n /\ s.trailers = r.trailers /\ s.buf = r.buf
        /\ s.err = r.err
    BY <1>2, Zenon DEF ReaderType
  <2>7. (s.final <=> r.final) /\ (s.done <=> r.done)
    BY <1>2, Zenon DEF ReaderType
  <2>8. s \in ReaderType
    <3> DEFINE x == r.remaining - n
               y == r.decoded + n
               z == r.hashed \o bytes
               s1 == [r EXCEPT !.remaining = x]
               s2 == [s1 EXCEPT !.decoded = y]
    <3>1. s = [s2 EXCEPT !.hashed = z]
      BY <1>2, Zenon DEF ReaderType
    <3>2. x \in Nat /\ y \in Nat /\ z \in Seq(Octets)
      BY <1>4, <2>2, <2>3, <2>5
    <3> HIDE DEF x, y, z, s
    <3>3. s1 \in ReaderType
      BY <1>2, <3>2, Setters, Zenon
    <3> HIDE DEF s1
    <3>4. s2 \in ReaderType
      BY <3>2, <3>3, Setters, Zenon
    <3> HIDE DEF s2
    <3>5. QED
      BY <3>1, <3>2, <3>4, Setters, Zenon
  <2> HIDE DEF s
  <2>9. /\ mode = "unsignedTrailer" /\ ~r.final /\ ~r.done /\ r.decoded = Len(r.hashed)
        /\ r.decoded + r.remaining <= declared /\ declared \in Nat
    <3>1. mode = "unsignedTrailer"
      BY <1>1, <2>2 DEF Intact, Fits
    <3>2. /\ r.decoded = Len(r.hashed) /\ r.decoded + r.remaining <= declared
          /\ declared \in Nat
      BY <3>1, Zenon DEF Intact, Fits, Request
    <3>3. ~r.final
      BY <1>1, <2>2, <3>2 DEF Intact, Fits
    <3>4. ~r.done
      BY <3>1, <3>3, Zenon DEF Intact, Fits
    <3>5. QED
      BY <3>1, <3>2, <3>3, <3>4, Zenon
  <2>10. Fits(s)
    <3>1. ~Signed
      BY <2>9, Zenon DEF Signed
    <3>2. Collected(s)
      BY <2>6, Zenon DEF Collected, Intact, Fits
    <3>3. s.decoded = Len(s.hashed) /\ s.decoded + s.remaining <= declared
      BY <1>4, <2>2, <2>3, <2>5, <2>6, <2>9
    <3>4. QED
      BY <2>2, <2>6, <2>7, <2>8, <2>9, <3>1, <3>2, <3>3 DEF Fits
  <2>11. Request' /\ Chain' /\ Fits(r)'
    BY <2>1, <2>10, SameRequest, SameReader, Zenon DEF Intact
  <2>12. Wired'
    BY <2>1, <2>4, <2>9, SameWire, Zenon DEF T
  <2>13. Flow'
    <3>1. /\ <<>> \in Seq(Octets)
          /\ (delivered \o guard.carry) \o <<>> = delivered \o guard.carry
          /\ ((delivered \o guard.carry) \o bytes) \o <<>> = (delivered \o guard.carry) \o bytes
      BY <1>2, <2>4, EmptySeq, ConcatEmptySeq, ConcatProperties
    <3>2. r'.hashed = ((delivered \o guard.carry) \o bytes) \o <<>>
      BY <1>2, <2>1, <2>2, <2>6, <3>1, Zenon
    <3>3. bytes # <<>>
      BY <1>4, <2>4, EmptySeq, Zenon
    <3>4. NoErr \in Texts /\ r'.err = NoErr /\ r'.buf = <<>>
      BY <1>2, <2>1, <2>2, <2>6, TextFacts, Zenon
    <3>5. QED
      BY <1>2, <2>1, <2>4, <3>1, <3>2, <3>3, <3>4, GuardKeeps, Zenon DEF Intact
  <2>14. QED
    BY <2>11, <2>12, <2>13, Zenon DEF Intact
<1>7. QED
  BY <1>5, <1>6, Zenon

(* awsChunkedReader.Read at the end of a validated stream. *)
LEMMA ReadDoneKeeps ==
  ASSUME Intact, ReadDone
  PROVE  Intact'
<1>1. wire \in Seq(Tokens(client.sig, client.length)) /\ Len(wire) \in Nat
  BY LenProperties, Zenon DEF Intact, Wired
<1>2. InRead /\ r.buf = <<>> /\ Fail("eof", wire)
  BY Zenon DEF ReadDone
<1>3. "eof" \in Texts /\ "eof" # NoErr
  BY TextFacts, Zenon
<1>4. Len(wire) <= Len(wire)
  BY <1>1
<1>5. QED
  BY <1>1, <1>2, <1>3, <1>4, FailKeeps, Zenon

(* payloadHashReader.Read, which compares the hash at the end of the body. *)
LEMMA ReadHashedKeeps ==
  ASSUME Intact, NEW n \in 0 .. MaxBuffer, ReadHashed(n)
  PROVE  Intact'
<1> DEFINE T == Tokens(client.sig, client.length)
           bytes == [i \in 1 .. n |-> AsPayload(wire[i])]
           hashed == r.hashed \o bytes
<1>1. /\ InRead /\ mode = "hash" /\ n <= Min({ReadLimit, Len(wire)})
  BY ZenonT(40) DEF ReadHashed
<1>2. PICK end \in (IF n = Len(wire) THEN {ending} ELSE {}) \cup (IF n > 0 THEN {NoErr} ELSE {}) :
        LET e == IF end = "eof" /\ hashed # Payload(client.length) THEN "hash mismatch" ELSE end
        IN  /\ wire' = Rest(wire, n)
            /\ r' = [r EXCEPT !.hashed = hashed, !.done = (e = "eof"),
                              !.err = IF e = "eof" THEN @ ELSE e]
            /\ GuardGets(bytes, e)
            /\ UNCHANGED sender
  BY Zenon DEF ReadHashed
<1> DEFINE e == IF end = "eof" /\ hashed # Payload(client.length) THEN "hash mismatch" ELSE end
           d == e = "eof"
           s == [r EXCEPT !.hashed = hashed, !.done = d, !.err = IF e = "eof" THEN @ ELSE e]
<1>3. /\ wire' = Rest(wire, n) /\ r' = s /\ GuardGets(bytes, e) /\ UNCHANGED sender
  BY <1>2, Zenon
<1>4. /\ guard.err = NoErr /\ result = "open" /\ r.err = NoErr
      /\ delivered \o guard.carry \in Seq(Octets) /\ r \in ReaderType /\ r.hashed \in Seq(Octets)
      /\ r.hashed = (delivered \o guard.carry) \o r.buf
  BY <1>1, Held, Zenon
<1>5. /\ wire \in Seq(T) /\ Len(wire) \in Nat /\ r.buf = <<>> /\ r.remaining = 0 /\ ~r.final
      /\ Len(r.hashed) + Len(wire) <= client.sent /\ client.sent \in Nat
      /\ ending \in {"eof", "broken"}
  BY <1>1, LenProperties, Zenon DEF Intact, Wired, Fits, Chain, Request
<1>6. n \in Nat /\ n <= Len(wire)
  <2>1. ReadLimit \in Nat
    BY <1>1, LimitFacts, Zenon
  <2>2. Min({ReadLimit, Len(wire)}) <= Len(wire) /\ Min({ReadLimit, Len(wire)}) \in Nat
    BY <1>5, <2>1, LeastOfTwo, Zenon
  <2>3. n \in Nat
    BY ChunkedBodyAssumption
  <2>4. QED
    BY <1>1, <1>5, <2>2, <2>3
<1>7. /\ bytes \in Seq(Octets) /\ Len(bytes) = n
      /\ Rest(wire, n) \in Seq(T) /\ Len(Rest(wire, n)) = Len(wire) - n
  <2>1. bytes \in Seq(Octets) /\ Len(bytes) = n
    BY <1>5, <1>6, PayloadOf
  <2>2. Rest(wire, n) \in Seq(T) /\ Len(Rest(wire, n)) = Len(wire) - n
    BY <1>5, <1>6, RestFacts, Zenon
  <2>3. QED
    BY <2>1, <2>2
<1> HIDE DEF bytes, T
<1>8. hashed \in Seq(Octets) /\ Len(hashed) = Len(r.hashed) + n /\ Len(r.hashed) \in Nat
  BY <1>4, <1>7, ConcatProperties, LenProperties, Zenon
<1>9. /\ e \in Texts /\ (e = "eof" => hashed = Payload(client.length))
      /\ (e = NoErr => n > 0)
  <2>1. end \in Texts /\ "hash mismatch" \in Texts /\ "hash mismatch" # NoErr
    BY <1>2, <1>5, TextFacts, Zenon DEF Texts, Refusals, NoErr
  <2>2. end = NoErr => n > 0
    BY <1>2, <1>5, <1>6, Zenon DEF NoErr
  <2>3. CASE end = "eof" /\ hashed # Payload(client.length)
    <3>1. e = "hash mismatch"
      BY <2>3, Zenon
    <3>2. QED
      BY <2>1, <3>1, Zenon DEF NoErr
  <2>4. CASE ~(end = "eof" /\ hashed # Payload(client.length))
    <3>1. e = end
      BY <2>4, Zenon
    <3>2. QED
      BY <2>1, <2>2, <2>4, <3>1, Zenon
  <2>5. QED
    BY <2>3, <2>4, Zenon
<1> HIDE DEF e
<1>10. /\ s.hashed = hashed /\ s.prev = r.prev /\ s.decoded = r.decoded
       /\ s.remaining = r.remaining /\ s.trailers = r.trailers /\ s.buf = r.buf
       /\ s.err = IF e = "eof" THEN NoErr ELSE e
  BY <1>4, Zenon DEF ReaderType
<1>11. (s.final <=> r.final) /\ (s.done <=> e = "eof")
  BY <1>4, Zenon DEF ReaderType
<1>12. s \in ReaderType
  <2> DEFINE f == IF e = "eof" THEN NoErr ELSE e
             s1 == [r EXCEPT !.hashed = hashed]
             s2 == [s1 EXCEPT !.done = d]
  <2>1. s = [s2 EXCEPT !.err = f]
    BY <1>4, Zenon DEF ReaderType
  <2>2. f \in Texts /\ d \in BOOLEAN
    BY <1>9, TextFacts, Zenon
  <2> HIDE DEF hashed, f, d, s
  <2>3. s1 \in ReaderType
    BY <1>4, <1>8, Setters, Zenon
  <2> HIDE DEF s1
  <2>4. s2 \in ReaderType
    BY <2>2, <2>3, Setters, Zenon
  <2> HIDE DEF s2
  <2>5. QED
    BY <2>1, <2>2, <2>4, Setters, Zenon
<1> HIDE DEF s, hashed
<1>13. Fits(s)
  <2>1. Collected(s)
    BY <1>10, Zenon DEF Collected, Intact, Fits
  <2>2. ~Signed
    BY <1>1, Zenon DEF Signed
  <2>3. QED
    BY <1>1, <1>5, <1>9, <1>10, <1>11, <1>12, <2>1, <2>2 DEF Fits
<1>14. Request' /\ Chain' /\ Fits(r)'
  BY <1>3, <1>13, SameRequest, SameReader, Zenon DEF Intact
<1>15. Wired'
  <2>1. Len(r'.hashed) + Len(wire') <= client.sent
    BY <1>3, <1>5, <1>6, <1>7, <1>8, <1>10
  <2>2. QED
    BY <1>3, <1>7, <2>1, SameWire, Zenon DEF T
<1>16. Flow'
  <2>1. /\ <<>> \in Seq(Octets)
        /\ (delivered \o guard.carry) \o <<>> = delivered \o guard.carry
        /\ ((delivered \o guard.carry) \o bytes) \o <<>> = (delivered \o guard.carry) \o bytes
    BY <1>4, <1>7, EmptySeq, ConcatEmptySeq, ConcatProperties
  <2>2. r'.hashed = ((delivered \o guard.carry) \o bytes) \o <<>>
    BY <1>3, <1>4, <1>5, <1>10, <2>1, Zenon DEF hashed
  <2>3. e = NoErr => bytes # <<>>
    BY <1>6, <1>7, <1>9, EmptySeq
  <2>4. e \in {NoErr, "eof"} => r'.err = NoErr /\ r'.buf = <<>>
    BY <1>3, <1>5, <1>10, Zenon
  <2>5. QED
    BY <1>3, <1>4, <1>7, <1>9, <2>1, <2>2, <2>3, <2>4, GuardKeeps, Zenon DEF Intact
<1>17. QED
  BY <1>14, <1>15, <1>16, Zenon DEF Intact

-----------------------------------------------------------------------------
(* Chunks *)

(* What follows the first a bytes of the payload. *)
LEMMA PayloadGrows ==
  ASSUME NEW a \in Nat, NEW m \in Nat
  PROVE  Payload(a) \o [i \in 1 .. m |-> a + i] = Payload(a + m)
<1> DEFINE p == Payload(a)
           q == [i \in 1 .. m |-> a + i]
           t == Payload(a + m)
<1>1. /\ p \in Seq(Nat) /\ Len(p) = a /\ \A i \in 1 .. a : p[i] = i
      /\ q \in Seq(Nat) /\ Len(q) = m /\ \A i \in 1 .. m : q[i] = a + i
      /\ t \in Seq(Nat) /\ Len(t) = a + m /\ \A i \in 1 .. a + m : t[i] = i
  BY DEF Payload
<1> HIDE DEF p, q, t
<1>2. /\ p \o q \in Seq(Nat) /\ Len(p \o q) = a + m
      /\ \A i \in 1 .. a + m : (p \o q)[i] = IF i <= a THEN p[i] ELSE q[i - a]
  BY <1>1, ConcatProperties, SMTT(30)
<1>3. ASSUME NEW i \in 1 .. a + m PROVE (p \o q)[i] = t[i]
  <2>1. CASE i <= a
    BY <1>1, <1>2, <2>1
  <2>2. CASE ~(i <= a)
    <3>1. i - a \in 1 .. m
      BY <2>2
    <3>2. QED
      BY <1>1, <1>2, <2>2, <3>1
  <2>3. QED
    BY <2>1, <2>2, Zenon
<1>4. p \o q = t
  BY <1>1, <1>2, <1>3, SeqEqual, Zenon
<1>5. QED
  BY <1>4, Zenon DEF p, q, t

(* A chunk whose signature is accepted is the next one of the chain. *)
LEMMA NextLink ==
  ASSUME Chain, Signed, r \in ReaderType, Verified(r), NEW h \in Headers(client.sig),
         NEW chunk \in Seq(Octets), BadSignature(h, chunk) = NoErr
  PROVE  /\ Len(r.prev) + 1 <= Len(client.sig)
         /\ client.sig[Len(r.prev) + 1] = chunk
         /\ Append(r.prev, chunk) \in Seq(Seq(Nat))
         /\ Len(Append(r.prev, chunk)) = Len(r.prev) + 1
         /\ Append(r.prev, chunk) = SubSeq(client.sig, 1, Len(r.prev) + 1)
         /\ Payload(End(client.sig, client.length, Len(r.prev) + 1)) = r.hashed \o chunk
<1> DEFINE C == client.sig
           n == client.length
           P == Append(r.prev, chunk)
<1>1. /\ C \in Seq(Seq(Nat)) /\ n \in 0 .. MaxLength /\ Len(C) \in Nat
      /\ \A j \in 1 .. Len(C) : Link(C, n, j)
  BY LenProperties, Zenon DEF Chain
<1>2. r.prev \in Seq(Seq(Nat)) /\ Len(r.prev) \in Nat
  BY LenProperties, Zenon DEF ReaderType
<1>3. chunk \in Seq(Nat)
  BY SeqMonotonic, ChunkedBodyAssumption DEF Octets, Foreign
<1>4. /\ P \in Seq(Seq(Nat)) /\ Len(P) = Len(r.prev) + 1 /\ P[Len(r.prev) + 1] = chunk
  BY <1>2, <1>3, AppendProperties
<1>5. P \in h.sig
  BY Zenon DEF BadSignature, verifyChunk, NoErr
<1>6. h.sig \subseteq Sigs(C)
  BY Zenon DEF Headers
<1> HIDE DEF P
<1>7. P # Garbled
  <2>1. SUFFICES ASSUME P = Garbled PROVE FALSE
    BY Zenon
  <2>2. Len(P) = 1 /\ P[1] = Unseen
    BY <2>1, Zenon DEF Garbled
  <2>3. chunk = Unseen
    BY <1>2, <1>4, <2>2, Zenon
  <2>4. QED
    BY <2>3, UnseenFacts, Zenon
<1>8. PICK j \in 1 .. Len(C) : P = SubSeq(C, 1, j)
  BY <1>5, <1>6, <1>7, Zenon DEF Sigs
<1>9. Len(SubSeq(C, 1, j)) = j /\ SubSeq(C, 1, j)[j] = C[j]
  <2>1. j \in Nat /\ \A i \in 1 .. j : C[i] \in Seq(Nat)
    BY <1>1, ElementOfSeq
  <2>2. QED
    BY <2>1, SubSeqProperties
<1>10. j = Len(r.prev) + 1 /\ C[j] = chunk
  BY <1>4, <1>8, <1>9, Zenon
<1>11. /\ End(C, n, j) = End(C, n, j - 1) + Len(chunk) /\ End(C, n, j) \in Nat
       /\ chunk = [i \in 1 .. Len(chunk) |-> End(C, n, j - 1) + i]
  <2>1. Link(C, n, j)
    BY <1>1, Zenon
  <2>2. /\ End(C, n, j) = End(C, n, j - 1) + Len(C[j]) /\ End(C, n, j) \in 0 .. n
        /\ C[j] = [i \in 1 .. Len(C[j]) |-> End(C, n, j - 1) + i]
    BY <2>1, Zenon DEF Link
  <2>3. End(C, n, j) \in Nat
    BY <1>1, <2>2
  <2>4. QED
    BY <1>10, <2>2, <2>3, Zenon
<1>12. End(C, n, j - 1) \in Nat
  <2>1. CASE j = 1
    BY <2>1 DEF End
  <2>2. CASE j # 1
    <3>1. j - 1 \in 1 .. Len(C)
      BY <1>1, <2>2
    <3>2. End(C, n, j - 1) \in 0 .. n
      BY <1>1, <3>1, Zenon DEF Link
    <3>3. QED
      BY <1>1, <3>2
  <2>3. QED
    BY <2>1, <2>2, Zenon
<1>13. r.hashed = Payload(End(C, n, j - 1))
  BY <1>2, <1>10 DEF Verified
<1>14. Payload(End(C, n, j)) = r.hashed \o chunk
  <2> DEFINE a == End(C, n, j - 1)
  <2>1. a \in Nat /\ Len(chunk) \in Nat
    BY <1>12, LenProperties, Zenon
  <2> HIDE DEF a
  <2>2. Payload(a) \o [i \in 1 .. Len(chunk) |-> a + i] = Payload(a + Len(chunk))
    BY <2>1, PayloadGrows, Zenon
  <2>3. QED
    BY <1>11, <1>13, <2>2, Zenon DEF a
<1>15. QED
  BY <1>4, <1>8, <1>10, <1>14 DEF P

(* What the reader knows before a frame. *)
LEMMA FrameFacts ==
  ASSUME Intact, AtFrame
  PROVE  /\ InRead /\ mode # "hash" /\ r.buf = <<>> /\ r.remaining = 0 /\ ~r.done /\ ~r.final
         /\ r \in ReaderType /\ r.err = NoErr /\ r.hashed \in Seq(Octets)
         /\ r.hashed = delivered \o guard.carry
         /\ r.decoded = Len(r.hashed) /\ r.decoded \in Nat /\ declared \in Nat
         /\ r.decoded <= declared
<1>1. InRead /\ mode # "hash" /\ r.buf = <<>> /\ r.remaining = 0 /\ ~r.done /\ ~r.final
  BY Zenon DEF AtFrame
<1>2. /\ r \in ReaderType /\ r.err = NoErr /\ r.hashed \in Seq(Octets)
      /\ delivered \o guard.carry \in Seq(Octets)
      /\ r.hashed = (delivered \o guard.carry) \o r.buf
  BY <1>1, Held, Zenon
<1>3. r.hashed = delivered \o guard.carry
  BY <1>1, <1>2, ConcatEmptySeq, Zenon
<1>4. r.decoded = Len(r.hashed) /\ r.decoded \in Nat /\ declared \in Nat /\ r.decoded <= declared
  BY <1>1, <1>2 DEF Intact, Fits, ReaderType, Request
<1>5. QED
  BY <1>1, <1>2, <1>3, <1>4, Zenon

(* beginChunk at the chunk of length zero: in the signed modes its signature *)
(* ends the chain, so that everything was decoded.                           *)
LEMMA FinalChunkKeeps ==
  ASSUME Intact, AtFrame, NEW h \in Headers(client.sig),
         NEW w \in Seq(Tokens(client.sig, client.length)), FinalChunk(h, w)
  PROVE  Intact'
<1> DEFINE bad == BadSignature(h, <<>>)
           e == IF bad # NoErr THEN bad ELSE IF r.decoded # declared THEN "length mismatch" ELSE NoErr
           s == [r EXCEPT !.final = TRUE, !.needCRLF = FALSE,
                          !.prev = IF Signed THEN Append(@, <<>>) ELSE @]
<1>1. /\ InRead /\ mode # "hash" /\ r.buf = <<>> /\ r.remaining = 0 /\ ~r.done /\ ~r.final
      /\ r \in ReaderType /\ r.err = NoErr /\ r.hashed \in Seq(Octets)
      /\ r.hashed = delivered \o guard.carry
      /\ r.decoded = Len(r.hashed) /\ declared \in Nat
  BY FrameFacts, Zenon
<1>2. bad \in Texts
  BY ErrorFacts, Zenon DEF Intact
<1>3. IF e # NoErr THEN Fail(e, w) ELSE Continue(s, w)
  BY Zenon DEF FinalChunk
<1>4. CASE e # NoErr
  <2>1. e \in Texts
    BY <1>2, TextFacts, Zenon
  <2>2. QED
    BY <1>1, <1>3, <1>4, <2>1, FailKeeps, Zenon
<1>5. CASE e = NoErr
  <2>1. bad = NoErr /\ r.decoded = declared
    BY <1>5, Zenon DEF NoErr
  <2> DEFINE p == IF Signed THEN Append(r.prev, <<>>) ELSE r.prev
  <2>2. Signed => /\ Len(r.prev) + 1 <= Len(client.sig)
                  /\ client.sig[Len(r.prev) + 1] = <<>>
                  /\ Append(r.prev, <<>>) \in Seq(Seq(Nat))
                  /\ Len(Append(r.prev, <<>>)) = Len(r.prev) + 1
                  /\ Append(r.prev, <<>>) = SubSeq(client.sig, 1, Len(r.prev) + 1)
                  /\ Payload(End(client.sig, client.length, Len(r.prev) + 1)) = r.hashed
    <3>1. SUFFICES ASSUME Signed PROVE <2>2!2
      BY Zenon
    <3>2. <<>> \in Seq(Octets) /\ r.hashed \o <<>> = r.hashed
      BY <1>1, EmptySeq, ConcatEmptySeq, Zenon
    <3>3. Chain /\ Verified(r)
      BY <3>1, Zenon DEF Intact, Fits
    <3>4. QED
      BY <1>1, <2>1, <3>1, <3>2, <3>3, NextLink, Zenon
  <2>3. p \in Seq(Seq(Nat))
    BY <1>1, <2>2, Zenon DEF ReaderType
  <2>4. /\ s.hashed = r.hashed /\ s.prev = p /\ s.decoded = r.decoded
        /\ s.remaining = r.remaining /\ s.trailers = r.trailers /\ s.buf = r.buf
        /\ s.err = r.err
    BY <1>1, Zenon DEF ReaderType
  <2>5. s.final /\ (s.done <=> r.done)
    BY <1>1, Zenon DEF ReaderType
  <2>6. s \in ReaderType
    <3> DEFINE s1 == [r EXCEPT !.final = TRUE]
               s2 == [s1 EXCEPT !.needCRLF = FALSE]
    <3>1. s = [s2 EXCEPT !.prev = p]
      BY <1>1, Zenon DEF ReaderType
    <3> HIDE DEF p, s
    <3>2. s1 \in ReaderType
      BY <1>1, Setters, Zenon
    <3> HIDE DEF s1
    <3>3. s2 \in ReaderType
      BY <3>2, Setters, Zenon
    <3> HIDE DEF s2
    <3>4. QED
      BY <2>3, <3>1, <3>3, Setters, Zenon
  <2> HIDE DEF s
  <2>7. Signed => Verified(s) /\ s.hashed = Payload(client.length)
    <3>1. SUFFICES ASSUME Signed PROVE Verified(s) /\ s.hashed = Payload(client.length)
      BY Zenon
    <3>2. s.prev = Append(r.prev, <<>>) /\ Len(s.prev) = Len(r.prev) + 1 /\ s.hashed = r.hashed
      BY <2>2, <2>4, <3>1, Zenon
    <3>3. Verified(s)
      BY <2>2, <3>1, <3>2, Zenon DEF Verified
    <3>4. Len(r.prev) + 1 # 0
      BY <1>1, LenProperties DEF ReaderType
    <3>5. End(client.sig, client.length, Len(r.prev) + 1) = client.length
      BY <2>2, <3>1, <3>4, Zenon DEF End
    <3>6. QED
      BY <2>2, <3>1, <3>2, <3>3, <3>5, Zenon
  <2>8. Fits(s)
    <3>1. Collected(s)
      BY <2>4, Zenon DEF Collected, Intact, Fits
    <3>2. s.decoded = Len(s.hashed) /\ s.decoded + s.remaining <= declared
      <4>1. s.decoded = Len(s.hashed) /\ s.decoded = declared /\ s.remaining = 0
        BY <1>1, <2>1, <2>4, Zenon
      <4>2. declared + 0 <= declared
        BY <1>1
      <4>3. QED
        BY <4>1, <4>2, Zenon
    <3>3. QED
      BY <1>1, <2>1, <2>4, <2>5, <2>6, <2>7, <3>1, <3>2, Zenon DEF Fits
  <2>9. s.hashed = (delivered \o guard.carry) \o s.buf
    BY <1>1, <2>4, ConcatEmptySeq, Zenon
  <2>10. Continue(s, w)
    BY <1>3, <1>5, Zenon DEF s
  <2>11. QED
    BY <1>1, <2>4, <2>8, <2>9, <2>10, ContinueKeeps, Zenon
<1>6. QED
  BY <1>4, <1>5, Zenon

(* beginChunk opens a chunk without a signature within the declared length. *)
LEMMA UnsignedChunkKeeps ==
  ASSUME Intact, AtFrame, ~Signed, NEW h \in Headers(client.sig), h.n <= declared - r.decoded,
         NEW w \in Seq(Tokens(client.sig, client.length)), UnsignedChunk(h, w)
  PROVE  Intact'
<1> DEFINE s1 == [r EXCEPT !.remaining = h.n]
           s == [r EXCEPT !.remaining = h.n, !.needCRLF = TRUE]
<1>1. /\ InRead /\ mode # "hash" /\ r.buf = <<>> /\ r.remaining = 0 /\ ~r.done /\ ~r.final
      /\ r \in ReaderType /\ r.err = NoErr /\ r.hashed \in Seq(Octets)
      /\ r.hashed = delivered \o guard.carry
      /\ r.decoded = Len(r.hashed) /\ declared \in Nat /\ r.decoded \in Nat
  BY FrameFacts, Zenon
<1>2. h.n \in Nat
  BY Zenon DEF Headers
<1>3. /\ s.hashed = r.hashed /\ s.prev = r.prev /\ s.decoded = r.decoded
      /\ s.remaining = h.n /\ s.trailers = r.trailers /\ s.buf = r.buf /\ s.err = r.err
  BY <1>1, Zenon DEF ReaderType
<1>4. (s.final <=> r.final) /\ (s.done <=> r.done)
  BY <1>1, Zenon DEF ReaderType
<1>5. s \in ReaderType
  <2>1. s = [s1 EXCEPT !.needCRLF = TRUE]
    BY <1>1, Zenon DEF ReaderType
  <2> HIDE DEF s
  <2>2. s1 \in ReaderType
    BY <1>1, <1>2, Setters, Zenon
  <2> HIDE DEF s1
  <2>3. QED
    BY <2>1, <2>2, Setters, Zenon
<1>6. Continue(s, w)
  BY Zenon DEF UnsignedChunk
<1> HIDE DEF s
<1>7. mode = "unsignedTrailer"
  BY <1>1, Zenon DEF Signed, Intact, Request
<1>8. Fits(s)
  <2>1. Collected(s)
    BY <1>3, Zenon DEF Collected, Intact, Fits
  <2>2. s.decoded = Len(s.hashed) /\ s.decoded + s.remaining <= declared
    BY <1>1, <1>2, <1>3
  <2>3. QED
    BY <1>1, <1>3, <1>4, <1>5, <1>7, <2>1, <2>2, Zenon DEF Fits
<1>9. s.hashed = (delivered \o guard.carry) \o s.buf
  BY <1>1, <1>3, ConcatEmptySeq, Zenon
<1>10. QED
  BY <1>1, <1>3, <1>6, <1>8, <1>9, ContinueKeeps, Zenon

(* beginChunk reads a whole chunk and verifies it as the next link of the *)
(* chain.                                                                 *)
LEMMA SignedChunkKeeps ==
  ASSUME Intact, AtFrame, Signed, NEW h \in Headers(client.sig), h.n <= declared - r.decoded,
         NEW w \in Seq(Tokens(client.sig, client.length)), SignedChunk(h, w)
  PROVE  Intact'
<1> DEFINE chunk == [i \in 1 .. h.n |-> AsPayload(w[i])]
           crlf == consumeCRLF(Rest(w, h.n))
           bad == BadSignature(h, chunk)
           e == IF h.sig = {} THEN "missing chunk signature"
                ELSE IF w = <<>> THEN ending
                ELSE IF Len(w) < h.n THEN "unexpected EOF"
                ELSE IF crlf # NoErr THEN crlf
                ELSE bad
           s == [r EXCEPT !.buf = chunk, !.decoded = @ + h.n, !.hashed = @ \o chunk,
                          !.prev = Append(@, chunk)]
<1>1. /\ InRead /\ mode # "hash" /\ r.buf = <<>> /\ r.remaining = 0 /\ ~r.done /\ ~r.final
      /\ r \in ReaderType /\ r.err = NoErr /\ r.hashed \in Seq(Octets)
      /\ r.hashed = delivered \o guard.carry
      /\ r.decoded = Len(r.hashed) /\ declared \in Nat /\ r.decoded \in Nat
  BY FrameFacts, Zenon
<1>2. h.n \in Nat
  BY Zenon DEF Headers
<1>3. bad \in Texts /\ crlf \in Texts /\ ending \in Texts
  BY ErrorFacts, Zenon DEF Intact
<1>4. IF e # NoErr THEN Fail(e, w) ELSE Continue(s, Rest(w, h.n + 2))
  BY Zenon DEF SignedChunk
<1> HIDE DEF bad, crlf
<1>5. CASE e # NoErr
  <2>1. e \in Texts
    BY <1>3, TextFacts, Zenon
  <2>2. QED
    BY <1>1, <1>4, <1>5, <2>1, FailKeeps, Zenon
<1>6. CASE e = NoErr
  <2>1. Len(w) \in Nat
    BY LenProperties, Zenon
  <2>2. h.n <= Len(w) /\ bad = NoErr
    BY <1>2, <1>6, <2>1 DEF NoErr, Intact, Request
  <2>3. /\ chunk \in Seq(Octets) /\ Len(chunk) = h.n
        /\ Rest(w, h.n + 2) \in Seq(Tokens(client.sig, client.length))
    <3>1. h.n + 2 \in Nat
      BY <1>2
    <3>2. Rest(w, h.n + 2) \in Seq(Tokens(client.sig, client.length))
      BY <3>1, RestFacts, Zenon
    <3>3. chunk \in Seq(Octets) /\ Len(chunk) = h.n
      BY <1>2, <2>2, PayloadOf
    <3>4. QED
      BY <3>2, <3>3, Zenon
  <2>4. Continue(s, Rest(w, h.n + 2))
    BY <1>4, <1>6, Zenon
  <2> HIDE DEF e, chunk
  <2>5. /\ Len(r.prev) + 1 <= Len(client.sig)
        /\ Append(r.prev, chunk) \in Seq(Seq(Nat))
        /\ Len(Append(r.prev, chunk)) = Len(r.prev) + 1
        /\ Append(r.prev, chunk) = SubSeq(client.sig, 1, Len(r.prev) + 1)
        /\ Payload(End(client.sig, client.length, Len(r.prev) + 1)) = r.hashed \o chunk
    <3>1. Chain /\ Verified(r) /\ r \in ReaderType
      BY <1>1, Zenon DEF Intact, Fits
    <3>2. BadSignature(h, chunk) = NoErr /\ chunk \in Seq(Octets)
      BY <2>2, <2>3, Zenon DEF bad
    <3>3. QED
      BY <3>1, <3>2, NextLink, Zenon
  <2>6. r.hashed \o chunk \in Seq(Octets) /\ Len(r.hashed \o chunk) = Len(r.hashed) + h.n
    <3>1. r.hashed \in Seq(Octets) /\ chunk \in Seq(Octets) /\ Len(chunk) = h.n
      BY <1>1, <2>3, Zenon
    <3>2. /\ r.hashed \o chunk \in Seq(Octets)
          /\ Len(r.hashed \o chunk) = Len(r.hashed) + Len(chunk)
      BY <3>1, ConcatProperties, Zenon
    <3>3. QED
      BY <3>1, <3>2, Zenon
  <2>7. /\ s.hashed = r.hashed \o chunk /\ s.prev = Append(r.prev, chunk)
        /\ s.decoded = r.decoded + h.n /\ s.remaining = r.remaining
        /\ s.trailers = r.trailers /\ s.buf = chunk /\ s.err = r.err
    BY <1>1, Zenon DEF ReaderType
  <2>8. (s.final <=> r.final) /\ (s.done <=> r.done)
    BY <1>1, Zenon DEF ReaderType
  <2>9. s \in ReaderType
    <3> DEFINE x == r.decoded + h.n
               y == r.hashed \o chunk
               z == Append(r.prev, chunk)
               s1 == [r EXCEPT !.buf = chunk]
               s2 == [s1 EXCEPT !.decoded = x]
               s3 == [s2 EXCEPT !.hashed = y]
    <3>1. s = [s3 EXCEPT !.prev = z]
      BY <1>1, Zenon DEF ReaderType
    <3>2. x \in Nat /\ y \in Seq(Octets) /\ z \in Seq(Seq(Nat))
      <4>1. r.decoded \in Nat /\ h.n \in Nat
        BY <1>1, <1>2, Zenon DEF ReaderType
      <4>2. x \in Nat
        BY <4>1
      <4>3. QED
        BY <2>5, <2>6, <4>2, Zenon
    <3> HIDE DEF x, y, z, s
    <3>3. s1 \in ReaderType
      BY <1>1, <2>3, Setters, Zenon
    <3> HIDE DEF s1
    <3>4. s2 \in ReaderType
      BY <3>2, <3>3, Setters, Zenon
    <3> HIDE DEF s2
    <3>5. s3 \in ReaderType
      BY <3>2, <3>4, Setters, Zenon
    <3> HIDE DEF s3
    <3>6. QED
      BY <3>1, <3>2, <3>5, Setters, Zenon
  <2> HIDE DEF s
  <2>10. Verified(s)
    BY <2>5, <2>7, Zenon DEF Verified
  <2>11. Fits(s)
    <3>1. Collected(s)
      BY <2>7, Zenon DEF Collected, Intact, Fits
    <3>2. s.decoded = Len(s.hashed) /\ s.decoded + s.remaining <= declared
      BY <1>1, <1>2, <2>6, <2>7, SMTT(30)
    <3>3. QED
      BY <1>1, <2>7, <2>8, <2>9, <2>10, <3>1, <3>2 DEF Fits
  <2>12. s.hashed = (delivered \o guard.carry) \o s.buf /\ s.err = r.err
    BY <1>1, <2>7, Zenon
  <2>13. QED
    BY <1>1, <2>3, <2>4, <2>11, <2>12, ContinueKeeps, Zenon
<1>7. QED
  BY <1>5, <1>6, Zenon

(* What a line consists of, and what follows it. *)
LEMMA LineOf ==
  ASSUME NEW T, NEW w \in Seq(T)
  PROVE  /\ LineLength(w) \in Nat
         /\ SubSeq(w, 1, LineLength(w)) \in Seq(T)
         /\ Len(SubSeq(w, 1, LineLength(w))) = LineLength(w)
         /\ Rest(w, LineLength(w)) \in Seq(T)
<1>1. LineLength(w) \in Nat /\ LineLength(w) <= Len(w)
  BY LineFacts, LenProperties
<1>2. QED
  BY <1>1, RestFacts, Zenon

(* beginChunk with each of its refusals. *)
LEMMA BeginChunkKeeps ==
  ASSUME Intact, BeginChunk
  PROVE  Intact'
<1> DEFINE T == Tokens(client.sig, client.length)
           crlf == IF r.needCRLF THEN consumeCRLF(wire) ELSE NoErr
           w == IF r.needCRLF THEN Rest(wire, 2) ELSE wire
           line == SubSeq(w, 1, LineLength(w))
           h == line[1]
           next == Rest(w, LineLength(w))
<1>1. AtFrame
  BY Zenon DEF BeginChunk
<1>2. InRead /\ mode # "hash" /\ r.buf = <<>> /\ r.decoded \in Nat /\ declared \in Nat
  BY <1>1, FrameFacts, Zenon
<1>3. (CASE crlf # NoErr -> Fail(crlf, wire)
         [] crlf = NoErr /\ line = <<>> -> Fail(ending, <<>>)
         [] crlf = NoErr /\ line # <<>> /\ (Len(line) > 1 \/ h.k # "header") ->
                Fail("invalid chunk header", next)
         [] OTHER ->
                IF h.n = 0 THEN FinalChunk(h, next)
                ELSE IF Signed /\ h.n > maxSignedChunkBytes
                THEN Fail("invalid chunk header", next)
                ELSE IF h.n > declared - r.decoded THEN Fail("length mismatch", next)
                ELSE IF Signed THEN SignedChunk(h, next)
                ELSE UnsignedChunk(h, next))
  BY Zenon DEF BeginChunk
<1>4. wire \in Seq(T) /\ <<>> \in Seq(T) /\ w \in Seq(T)
  BY RestFacts, EmptySeq, Zenon DEF Intact, Wired
<1>5. crlf \in Texts /\ ending \in Texts /\ ending # NoErr
  BY ErrorFacts, TextFacts, Zenon DEF Intact
<1> HIDE DEF crlf, w, T
<1>6. /\ line \in Seq(T) /\ next \in Seq(T)
  BY <1>4, LineOf, Zenon
<1> HIDE DEF line, next
<1>7. CASE crlf # NoErr
  BY <1>2, <1>3, <1>4, <1>5, <1>7, FailKeeps, Zenon DEF T
<1>8. CASE crlf = NoErr /\ line = <<>>
  BY <1>2, <1>3, <1>4, <1>5, <1>8, FailKeeps, Zenon DEF T
<1>9. CASE crlf = NoErr /\ line # <<>> /\ (Len(line) > 1 \/ h.k # "header")
  <2>1. Fail("invalid chunk header", next) /\ "invalid chunk header" \in Refusals
    BY <1>3, <1>9, Zenon DEF Refusals
  <2>2. QED
    BY <1>2, <1>6, <2>1, RefusalKeeps, Zenon DEF T
<1>10. CASE crlf = NoErr /\ line # <<>> /\ ~(Len(line) > 1) /\ h.k = "header"
  <2>1. IF h.n = 0 THEN FinalChunk(h, next)
        ELSE IF Signed /\ h.n > maxSignedChunkBytes THEN Fail("invalid chunk header", next)
        ELSE IF h.n > declared - r.decoded THEN Fail("length mismatch", next)
        ELSE IF Signed THEN SignedChunk(h, next)
        ELSE UnsignedChunk(h, next)
    BY <1>3, <1>10, Zenon
  <2>2. h \in Headers(client.sig)
    <3>1. Len(line) \in Nat \ {0}
      BY <1>6, <1>10, EmptySeq, Zenon
    <3>2. h \in T
      BY <1>6, <3>1, ElementOfSeq
    <3>3. QED
      BY <1>10, <3>2, TokenFacts, Zenon DEF T
  <2>3. h.n \in Nat
    BY <2>2, Zenon DEF Headers
  <2> HIDE DEF h
  <2>4. CASE h.n = 0
    BY <1>1, <1>6, <2>1, <2>2, <2>4, FinalChunkKeeps, Zenon DEF T
  <2> DEFINE large == Signed /\ h.n > maxSignedChunkBytes
  <2>5. CASE h.n # 0 /\ large
    <3>1. Fail("invalid chunk header", next) /\ "invalid chunk header" \in Refusals
      BY <2>1, <2>5, Zenon DEF Refusals
    <3>2. QED
      BY <1>2, <1>6, <3>1, RefusalKeeps, Zenon DEF T
  <2>6. CASE h.n # 0 /\ ~large /\ h.n > declared - r.decoded
    <3>1. Fail("length mismatch", next) /\ "length mismatch" \in Refusals
      BY <2>1, <2>6, Zenon DEF Refusals
    <3>2. QED
      BY <1>2, <1>6, <3>1, RefusalKeeps, Zenon DEF T
  <2>7. CASE h.n # 0 /\ ~large /\ ~(h.n > declared - r.decoded) /\ Signed
    <3>1. SignedChunk(h, next)
      BY <2>1, <2>7, Zenon
    <3>2. h.n <= declared - r.decoded
      BY <1>2, <2>3, <2>7
    <3>3. QED
      BY <1>1, <1>6, <2>2, <2>7, <3>1, <3>2, SignedChunkKeeps, Zenon DEF T
  <2>8. CASE h.n # 0 /\ ~large /\ ~(h.n > declared - r.decoded) /\ ~Signed
    <3>1. UnsignedChunk(h, next)
      BY <2>1, <2>8, Zenon
    <3>2. h.n <= declared - r.decoded
      BY <1>2, <2>3, <2>8
    <3>3. QED
      BY <1>1, <1>6, <2>2, <2>8, <3>1, <3>2, UnsignedChunkKeeps, Zenon DEF T
  <2>9. QED
    BY <2>4, <2>5, <2>6, <2>7, <2>8, Zenon
<1>11. QED
  BY <1>7, <1>8, <1>9, <1>10, Zenon

-----------------------------------------------------------------------------
(* Trailers *)

(* What the reader knows in the trailer. *)
LEMMA TrailerFacts ==
  ASSUME Intact, InTrailer
  PROVE  /\ InRead /\ mode # "hash" /\ r.buf = <<>> /\ r.final /\ ~r.done
         /\ r \in ReaderType /\ r.err = NoErr /\ r.hashed \in Seq(Octets)
         /\ r.hashed = (delivered \o guard.carry) \o r.buf
         /\ wire \in Seq(Tokens(client.sig, client.length))
<1>1. InRead /\ r.final /\ ~r.done
  BY Zenon DEF InTrailer
<1>2. mode # "hash" /\ r.buf = <<>>
  BY <1>1, Zenon DEF Intact, Fits
<1>3. QED
  BY <1>1, <1>2, Held, Zenon DEF Intact, Wired

(* readLineBounded at a line that is too long. *)
LEMMA LineTooLongKeeps ==
  ASSUME Intact, LineTooLong
  PROVE  Intact'
<1>1. /\ AtFrame \/ InTrailer
      /\ Fail("invalid chunk header", wire) /\ "invalid chunk header" \in Refusals
  BY Zenon DEF LineTooLong, Refusals
<1>2. InRead /\ mode # "hash"
  BY <1>1, FrameFacts, TrailerFacts, Zenon
<1>3. wire \in Seq(Tokens(client.sig, client.length))
  BY Zenon DEF Intact, Wired
<1>4. QED
  BY <1>1, <1>2, <1>3, RefusalKeeps, Zenon

(* A declared checksum that passes is in the trailer, with the right value. *)
LEMMA SumFacts ==
  ASSUME NEW trailers, NEW hashed, "crc" \in checksums,
         verifyTrailingChecksums(trailers, hashed) = NoErr
  PROVE  \E i \in DOMAIN trailers : trailers[i][1] = "crc" /\ trailers[i][2] = hashed
<1> DEFINE given(name) == {trailers[i][2] : i \in {j \in DOMAIN trailers : trailers[j][1] = name}}
<1>1. (IF \E name \in checksums : given(name) \ {hashed} # {} THEN "checksum mismatch"
       ELSE IF \E name \in checksums : given(name) = {} THEN "missing trailer"
       ELSE NoErr) = NoErr
  BY Zenon DEF verifyTrailingChecksums
<1>2. given("crc") \ {hashed} = {} /\ given("crc") # {}
  <2> HIDE DEF given
  <2>1. QED
    BY <1>1, Zenon DEF NoErr
<1>3. PICK x \in given("crc") : TRUE
  BY <1>2, Zenon
<1>4. x = hashed
  BY <1>2, <1>3, Zenon
<1>5. QED
  BY <1>3, <1>4, Zenon

(* The end of the trailers: their signature and checksums are verified. *)
LEMMA FinishKeeps ==
  ASSUME Intact, InTrailer, mode # "signed",
         NEW trailers \in Seq(Names \X Values(client.length)),
         \A i \in 1 .. Len(trailers) :
           trailers[i][1] = "crc" => trailers[i][2] \in Sums(client.length),
         NEW sig, NEW w \in Seq(Tokens(client.sig, client.length)), Finish(trailers, sig, w)
  PROVE  Intact'
<1> DEFINE sums == verifyTrailingChecksums(trailers, r.hashed)
           e == IF mode = "signedTrailer" /\ sig = {} THEN "missing trailer signature"
                ELSE IF mode = "signedTrailer"
                        /\ \A x \in sig : ~ verifyTrailerSignature(x, r.prev, trailers)
                THEN "invalid trailer signature"
                ELSE sums
           s == [r EXCEPT !.done = TRUE]
<1>1. /\ InRead /\ mode # "hash" /\ r.buf = <<>> /\ r.final /\ ~r.done
      /\ r \in ReaderType /\ r.err = NoErr /\ r.hashed \in Seq(Octets)
      /\ r.hashed = (delivered \o guard.carry) \o r.buf
  BY TrailerFacts, ZenonT(40)
<1>2. IF e # NoErr THEN Fail(e, w) ELSE Continue(s, w)
  BY Zenon DEF Finish
<1>3. sums \in Texts
  BY ErrorFacts, Zenon DEF Intact
<1> HIDE DEF sums
<1>4. CASE e # NoErr
  <2>1. e \in Texts
    BY <1>3, TextFacts, Zenon
  <2>2. QED
    BY <1>1, <1>2, <1>4, <2>1, FailKeeps, Zenon
<1>5. CASE e = NoErr
  <2>1. sums = NoErr
    BY <1>5, Zenon DEF NoErr
  <2>2. Continue(s, w)
    BY <1>2, <1>5, Zenon
  <2> HIDE DEF e
  <2>3. Protected => r.hashed = Payload(client.length)
    <3>1. CASE Signed
      BY <1>1, <3>1, Zenon DEF Intact, Fits
    <3>2. CASE ~Signed
      <4>1. SUFFICES ASSUME Protected PROVE r.hashed = Payload(client.length)
        BY Zenon
      <4>2. mode = "unsignedTrailer" /\ "crc" \in checksums
        BY <1>1, <3>2, <4>1, Zenon DEF Signed, Protected, Intact, Request
      <4>3. PICK i \in DOMAIN trailers : trailers[i][1] = "crc" /\ trailers[i][2] = r.hashed
        BY <2>1, <4>2, SumFacts DEF sums
      <4>4. r.hashed \in Sums(client.length)
        BY <4>3, LenProperties, Zenon
      <4>5. r.hashed # Unseen
        BY <1>1, UnseenFacts, Zenon
      <4>6. QED
        BY <4>4, <4>5, Zenon DEF Sums
    <3>3. QED
      BY <3>1, <3>2, Zenon
  <2>4. s \in ReaderType
    BY <1>1, Setters, Zenon
  <2>5. /\ s.hashed = r.hashed /\ s.prev = r.prev /\ s.decoded = r.decoded
        /\ s.remaining = r.remaining /\ s.trailers = r.trailers /\ s.buf = r.buf
        /\ s.err = r.err
    BY <1>1, Zenon DEF ReaderType
  <2>6. (s.final <=> r.final) /\ s.done
    BY <1>1, Zenon DEF ReaderType
  <2> HIDE DEF s
  <2>7. Fits(s)
    <3>1. Collected(s) /\ (Signed => Verified(s))
      BY <2>5, Zenon DEF Collected, Verified, Intact, Fits
    <3>2. QED
      BY <1>1, <2>3, <2>4, <2>5, <2>6, <3>1 DEF Intact, Fits
  <2>8. QED
    BY <1>1, <2>2, <2>5, <2>7, ContinueKeeps, Zenon
<1>6. QED
  BY <1>4, <1>5, Zenon

(* A line of the trailer is collected, ends it, or is refused. *)
LEMMA TrailerLineKeeps ==
  ASSUME Intact, TrailerLine
  PROVE  Intact'
<1> DEFINE T == Tokens(client.sig, client.length)
           V == Values(client.length)
           eof == LineLength(wire) = 0
           line == IF eof THEN wire ELSE SubSeq(wire, 1, LineLength(wire))
           w == IF eof THEN <<>> ELSE Rest(wire, LineLength(wire))
           t == line[1]
           fewer == [r EXCEPT !.lines = @ - 1]
           trailers == IF t.name = "sig" THEN r.trailers ELSE Append(r.trailers, <<t.name, t.value>>)
           more == [r EXCEPT !.trailers = trailers, !.lines = @ - 1]
<1>1. InTrailer /\ mode # "signed"
  BY Zenon DEF TrailerLine
<1>2. /\ InRead /\ mode # "hash" /\ r.buf = <<>> /\ r \in ReaderType /\ r.err = NoErr
      /\ r.hashed = (delivered \o guard.carry) \o r.buf /\ wire \in Seq(T)
  BY <1>1, TrailerFacts, Zenon
<1>3. IF r.lines = 0 THEN Fail("too many trailer lines", wire)
      ELSE IF eof /\ ending # "eof" THEN Fail(ending, w)
      ELSE IF line \in {<<>>, <<CRLF[1]>>} \/ Blank(line)
      THEN IF EndsTrailer(eof) THEN Finish(r.trailers, {}, w) ELSE Continue(fewer, w)
      ELSE IF Len(line) > 1 \/ t.k # "line" THEN Fail("invalid trailer", w)
      ELSE IF t.name = "sig" /\ mode = "signedTrailer" THEN Finish(r.trailers, {t.value}, w)
      ELSE IF eof THEN Finish(trailers, {}, w) ELSE Continue(more, w)
  BY Zenon DEF TrailerLine
<1>4. line \in Seq(T) /\ w \in Seq(T)
  BY <1>2, LineOf, EmptySeq, Zenon
<1> HIDE DEF T, eof, line, w
<1>5. ending \in Texts /\ ending # NoErr
  BY ErrorFacts, Zenon DEF Intact
<1>6. /\ r.trailers \in Seq(Names \X V) /\ Len(r.trailers) \in Nat
      /\ \A i \in 1 .. Len(r.trailers) : r.trailers[i][1] = "crc" => r.trailers[i][2] \in Sums(client.length)
  BY <1>2, LenProperties, Zenon DEF ReaderType, Intact, Fits, Collected
<1>7. CASE r.lines = 0
  <2>1. Fail("too many trailer lines", wire) /\ "too many trailer lines" \in Refusals
    BY <1>3, <1>7, Zenon DEF Refusals
  <2>2. QED
    BY <1>2, <2>1, RefusalKeeps, Zenon DEF T
<1>8. CASE r.lines # 0 /\ eof /\ ending # "eof"
  <2>1. Fail(ending, w)
    BY <1>3, <1>8, Zenon
  <2>2. QED
    BY <1>2, <1>4, <1>5, <2>1, FailKeeps, Zenon DEF T
<1>9. CASE r.lines # 0 /\ ~(eof /\ ending # "eof")
  <2>1. r.lines - 1 \in Nat
    BY <1>2, <1>9 DEF ReaderType
  <2>2. CASE line \in {<<>>, <<CRLF[1]>>} \/ Blank(line)
    <3>1. IF EndsTrailer(eof) THEN Finish(r.trailers, {}, w) ELSE Continue(fewer, w)
      BY <1>3, <1>9, <2>2, Zenon
    <3>2. CASE EndsTrailer(eof)
      BY <1>1, <1>4, <1>6, <3>1, <3>2, FinishKeeps, SMTT(30) DEF T
    <3>3. CASE ~EndsTrailer(eof)
      <4>1. fewer \in ReaderType
        <5> DEFINE x == r.lines - 1
        <5>1. fewer = [r EXCEPT !.lines = x]
          BY <1>2, Zenon DEF ReaderType
        <5> HIDE DEF x, fewer
        <5>2. x \in Nat
          BY <2>1, Zenon DEF x
        <5>3. QED
          BY <1>2, <5>1, <5>2, Setters, Zenon
      <4>2. /\ fewer.hashed = r.hashed /\ fewer.prev = r.prev /\ fewer.decoded = r.decoded
            /\ fewer.remaining = r.remaining /\ fewer.trailers = r.trailers /\ fewer.buf = r.buf
            /\ fewer.err = r.err
        BY <1>2, Zenon DEF ReaderType
      <4>3. (fewer.final <=> r.final) /\ (fewer.done <=> r.done)
        BY <1>2, Zenon DEF ReaderType
      <4> HIDE DEF fewer
      <4>4. Fits(fewer)
        BY <4>1, <4>2, <4>3, FitsAlike, Zenon DEF Intact
      <4>5. Continue(fewer, w)
        BY <3>1, <3>3, Zenon
      <4>6. QED
        BY <1>2, <1>4, <4>2, <4>4, <4>5, ContinueKeeps, Zenon DEF T
    <3>4. QED
      BY <3>2, <3>3, Zenon
  <2>3. CASE ~(line \in {<<>>, <<CRLF[1]>>} \/ Blank(line)) /\ (Len(line) > 1 \/ t.k # "line")
    <3>1. Fail("invalid trailer", w) /\ "invalid trailer" \in Refusals
      BY <1>3, <1>9, <2>3, Zenon DEF Refusals
    <3>2. QED
      BY <1>2, <1>4, <3>1, RefusalKeeps, Zenon DEF T
  <2>4. CASE ~(line \in {<<>>, <<CRLF[1]>>} \/ Blank(line)) /\ ~(Len(line) > 1) /\ t.k = "line"
    <3>1. IF t.name = "sig" /\ mode = "signedTrailer" THEN Finish(r.trailers, {t.value}, w)
          ELSE IF eof THEN Finish(trailers, {}, w) ELSE Continue(more, w)
      BY <1>3, <1>9, <2>4, Zenon
    <3>2. t \in Lines(client.length)
      <4>1. Len(line) \in Nat \ {0}
        BY <1>4, <2>4, EmptySeq, Zenon
      <4>2. t \in T
        BY <1>4, <4>1, ElementOfSeq
      <4>3. QED
        BY <2>4, <4>2, TokenFacts, Zenon DEF T
    <3>3. /\ t.name \in Names /\ t.value \in V
          /\ t.name = "crc" => t.value \in Sums(client.length)
      <4>1. t.name \in Names
        BY <3>2, Zenon DEF Lines, Names
      <4>2. Sums(client.length) \subseteq V
        BY Zenon DEF Values
      <4>3. CASE t.name = "crc"
        BY <3>2, <4>1, <4>2, <4>3, Zenon DEF Lines
      <4>4. CASE t.name # "crc"
        BY <3>2, <4>1, <4>4, Zenon DEF Lines
      <4>5. QED
        BY <4>3, <4>4, Zenon
    <3> HIDE DEF t, V
    <3>4. /\ trailers \in Seq(Names \X V)
          /\ \A i \in 1 .. Len(trailers) : trailers[i][1] = "crc" => trailers[i][2] \in Sums(client.length)
      <4>1. CASE t.name = "sig"
        BY <1>6, <4>1, Zenon
      <4>2. CASE t.name # "sig"
        <5> DEFINE row == <<t.name, t.value>>
        <5>1. row \in Names \X V /\ row[1] = t.name /\ row[2] = t.value
          BY <3>3, Zenon
        <5>2. trailers = Append(r.trailers, row)
          BY <4>2, Zenon
        <5> HIDE DEF row, trailers
        <5>3. /\ trailers \in Seq(Names \X V) /\ Len(trailers) = Len(r.trailers) + 1
              /\ \A i \in 1 .. Len(r.trailers) : trailers[i] = r.trailers[i]
              /\ trailers[Len(r.trailers) + 1] = row
          BY <1>6, <5>1, <5>2, AppendProperties
        <5>4. ASSUME NEW i \in 1 .. Len(trailers), trailers[i][1] = "crc"
              PROVE  trailers[i][2] \in Sums(client.length)
          <6>1. CASE i \in 1 .. Len(r.trailers)
            BY <1>6, <5>3, <5>4, <6>1, Zenon
          <6>2. CASE i = Len(r.trailers) + 1
            BY <3>3, <5>1, <5>3, <5>4, <6>2, Zenon
          <6>3. QED
            BY <1>6, <5>3, <6>1, <6>2
        <5>5. QED
          BY <5>3, <5>4, Zenon
      <4>3. QED
        BY <4>1, <4>2, Zenon
    <3>5. CASE t.name = "sig" /\ mode = "signedTrailer"
      <4>1. Finish(r.trailers, {t.value}, w)
        BY <3>1, <3>5, Zenon
      <4>2. QED
        BY <1>1, <1>4, <1>6, <4>1, FinishKeeps, Zenon DEF T, V
    <3>6. CASE ~(t.name = "sig" /\ mode = "signedTrailer") /\ eof
      <4>1. Finish(trailers, {}, w)
        BY <3>1, <3>6, Zenon
      <4> HIDE DEF trailers
      <4>2. QED
        BY <1>1, <1>4, <3>4, <4>1, FinishKeeps, Zenon DEF T, V
    <3>7. CASE ~(t.name = "sig" /\ mode = "signedTrailer") /\ ~eof
      <4>1. Continue(more, w)
        BY <3>1, <3>7, Zenon
      <4> HIDE DEF trailers
      <4>2. more \in ReaderType
        <5> DEFINE x == r.lines - 1
                   m1 == [r EXCEPT !.trailers = trailers]
        <5>1. more = [m1 EXCEPT !.lines = x]
          BY <1>2, Zenon DEF ReaderType
        <5> HIDE DEF x, more
        <5>2. x \in Nat
          BY <2>1, Zenon DEF x
        <5>3. m1 \in ReaderType
          BY <1>2, <3>4, Setters, Zenon DEF V
        <5> HIDE DEF m1
        <5>4. QED
          BY <5>1, <5>2, <5>3, Setters, Zenon
      <4>3. /\ more.hashed = r.hashed /\ more.prev = r.prev /\ more.decoded = r.decoded
            /\ more.remaining = r.remaining /\ more.trailers = trailers /\ more.buf = r.buf
            /\ more.err = r.err
        BY <1>2, Zenon DEF ReaderType
      <4>4. (more.final <=> r.final) /\ (more.done <=> r.done)
        BY <1>2, Zenon DEF ReaderType
      <4> HIDE DEF more
      <4>5. Collected(more)
        BY <3>4, <4>3, Zenon DEF Collected
      <4>6. Fits(more)
        BY <4>2, <4>3, <4>4, <4>5, Zenon DEF Intact, Fits, Verified
      <4>7. QED
        BY <1>2, <1>4, <4>1, <4>3, <4>6, ContinueKeeps, Zenon DEF T
    <3>8. QED
      BY <3>5, <3>6, <3>7, Zenon
  <2>5. QED
    BY <2>2, <2>3, <2>4, Zenon
<1>10. QED
  BY <1>7, <1>8, <1>9, Zenon

(* A line after the last chunk of a signed body without trailers is skipped. *)
LEMMA SkipLineKeeps ==
  ASSUME Intact, SkipLine
  PROVE  Intact'
<1> DEFINE T == Tokens(client.sig, client.length)
           n == LineLength(wire)
           fewer == [r EXCEPT !.lines = @ - 1]
           last == [r EXCEPT !.done = TRUE]
<1>1. InTrailer /\ mode = "signed"
  BY Zenon DEF SkipLine
<1>2. /\ InRead /\ mode # "hash" /\ r.buf = <<>> /\ r.final /\ r \in ReaderType /\ r.err = NoErr
      /\ r.hashed = (delivered \o guard.carry) \o r.buf /\ wire \in Seq(T)
  BY <1>1, TrailerFacts, Zenon
<1>3. IF r.lines = 0 THEN Fail("too many trailer lines", wire)
      ELSE IF n = 0 THEN Fail(ending, <<>>)
      ELSE IF Blank(SubSeq(wire, 1, n)) THEN Continue(last, Rest(wire, n))
      ELSE Continue(fewer, Rest(wire, n))
  BY Zenon DEF SkipLine
<1>4. Rest(wire, n) \in Seq(T) /\ <<>> \in Seq(T)
  BY <1>2, LineOf, EmptySeq, Zenon
<1> HIDE DEF T, n
<1>5. ending \in Texts /\ ending # NoErr
  BY ErrorFacts, Zenon DEF Intact
<1>6. CASE r.lines = 0
  <2>1. Fail("too many trailer lines", wire) /\ "too many trailer lines" \in Refusals
    BY <1>3, <1>6, Zenon DEF Refusals
  <2>2. QED
    BY <1>2, <2>1, RefusalKeeps, Zenon DEF T
<1>7. CASE r.lines # 0 /\ n = 0
  <2>1. Fail(ending, <<>>)
    BY <1>3, <1>7, Zenon
  <2>2. QED
    BY <1>2, <1>4, <1>5, <2>1, FailKeeps, Zenon DEF T
<1>8. CASE r.lines # 0 /\ n # 0 /\ Blank(SubSeq(wire, 1, n))
  <2>1. Continue(last, Rest(wire, n))
    BY <1>3, <1>8, Zenon
  <2>2. last \in ReaderType
    BY <1>2, Setters, Zenon
  <2>3. /\ last.hashed = r.hashed /\ last.prev = r.prev /\ last.decoded = r.decoded
        /\ last.remaining = r.remaining /\ last.trailers = r.trailers /\ last.buf = r.buf
        /\ last.err = r.err
    BY <1>2, Zenon DEF ReaderType
  <2>4. (last.final <=> r.final) /\ last.done
    BY <1>2, Zenon DEF ReaderType
  <2> HIDE DEF last
  <2>5. Fits(last)
    <3>1. Collected(last) /\ (Signed => Verified(last))
      BY <2>3, Zenon DEF Collected, Verified, Intact, Fits
    <3>2. r.hashed = Payload(client.length)
      BY <1>1, <1>2, SMTT(30) DEF Intact, Fits, Signed
    <3>3. QED
      BY <1>2, <2>2, <2>3, <2>4, <3>1, <3>2 DEF Intact, Fits
  <2>6. QED
    BY <1>2, <1>4, <2>1, <2>3, <2>5, ContinueKeeps, Zenon DEF T
<1>9. CASE r.lines # 0 /\ n # 0 /\ ~Blank(SubSeq(wire, 1, n))
  <2>1. Continue(fewer, Rest(wire, n))
    BY <1>3, <1>9, Zenon
  <2>2. fewer \in ReaderType
    <3> DEFINE x == r.lines - 1
    <3>1. fewer = [r EXCEPT !.lines = x]
      BY <1>2, Zenon DEF ReaderType
    <3>2. x \in Nat
      BY <1>2, <1>9 DEF ReaderType
    <3> HIDE DEF x, fewer
    <3>3. QED
      BY <1>2, <3>1, <3>2, Setters, Zenon
  <2>3. /\ fewer.hashed = r.hashed /\ fewer.prev = r.prev /\ fewer.decoded = r.decoded
        /\ fewer.remaining = r.remaining /\ fewer.trailers = r.trailers /\ fewer.buf = r.buf
        /\ fewer.err = r.err
    BY <1>2, Zenon DEF ReaderType
  <2>4. (fewer.final <=> r.final) /\ (fewer.done <=> r.done)
    BY <1>2, Zenon DEF ReaderType
  <2> HIDE DEF fewer
  <2>5. Fits(fewer)
    BY <2>2, <2>3, <2>4, FitsAlike, Zenon DEF Intact
  <2>6. QED
    BY <1>2, <1>4, <2>1, <2>3, <2>5, ContinueKeeps, Zenon DEF T
<1>10. QED
  BY <1>6, <1>7, <1>8, <1>9, Zenon

-----------------------------------------------------------------------------
(* The client *)

(* The signatures of a longer chain include those of the chain. *)
LEMMA LongerChain ==
  ASSUME NEW C \in Seq(Seq(Nat)), NEW c \in Seq(Nat)
  PROVE  /\ Append(C, c) \in Seq(Seq(Nat)) /\ Len(Append(C, c)) = Len(C) + 1 /\ Len(C) \in Nat
         /\ Append(C, c)[Len(C) + 1] = c
         /\ \A j \in 1 .. Len(C) : Append(C, c)[j] = C[j]
         /\ \A j \in 0 .. Len(C) : SubSeq(Append(C, c), 1, j) = SubSeq(C, 1, j)
         /\ \A n, j : j \in 0 .. Len(C) => End(Append(C, c), n, j) = End(C, n, j)
         /\ Sigs(C) \subseteq Sigs(Append(C, c))
         /\ Append(C, c) \in Sigs(Append(C, c))
<1> DEFINE D == Append(C, c)
<1>1. /\ D \in Seq(Seq(Nat)) /\ Len(D) = Len(C) + 1 /\ Len(C) \in Nat
      /\ D[Len(C) + 1] = c /\ \A j \in 1 .. Len(C) : D[j] = C[j]
  BY AppendProperties, LenProperties
<1> HIDE DEF D
<1>2. \A j \in 0 .. Len(C) : SubSeq(D, 1, j) = SubSeq(C, 1, j)
  <2>1. SUFFICES ASSUME NEW j \in 0 .. Len(C) PROVE SubSeq(D, 1, j) = SubSeq(C, 1, j)
    BY Zenon
  <2>2. j \in Nat /\ j <= Len(C)
    BY <1>1
  <2>3. (\A i \in 1 .. j : C[i] \in Seq(Nat)) /\ (\A i \in 1 .. j : D[i] \in Seq(Nat))
    BY <1>1, <2>2, ElementOfSeq
  <2>4. /\ SubSeq(C, 1, j) \in Seq(Seq(Nat)) /\ Len(SubSeq(C, 1, j)) = j
        /\ \A i \in 1 .. j : SubSeq(C, 1, j)[i] = C[i]
    BY <2>2, <2>3, SubSeqProperties
  <2>5. /\ SubSeq(D, 1, j) \in Seq(Seq(Nat)) /\ Len(SubSeq(D, 1, j)) = j
        /\ \A i \in 1 .. j : SubSeq(D, 1, j)[i] = D[i]
    BY <2>2, <2>3, SubSeqProperties
  <2>6. \A i \in 1 .. j : SubSeq(D, 1, j)[i] = SubSeq(C, 1, j)[i]
    BY <1>1, <2>2, <2>4, <2>5
  <2>7. QED
    BY <2>4, <2>5, <2>6, SeqEqual, Zenon
<1>3. ASSUME NEW n, NEW j \in 0 .. Len(C) PROVE End(D, n, j) = End(C, n, j)
  <2>1. CASE j = 0
    BY <2>1, Zenon DEF End
  <2>2. CASE j # 0
    <3>1. j \in 1 .. Len(C)
      BY <1>1, <2>2
    <3>2. D[j] = C[j]
      BY <1>1, <3>1, Zenon
    <3>3. QED
      BY <2>2, <3>2, Zenon DEF End
  <2>3. QED
    BY <2>1, <2>2, Zenon
<1>4. Sigs(C) \subseteq Sigs(D)
  <2>1. SUFFICES ASSUME NEW j \in 1 .. Len(C) PROVE SubSeq(C, 1, j) \in Sigs(D)
    BY Zenon DEF Sigs
  <2>2. j \in 1 .. Len(D) /\ SubSeq(C, 1, j) = SubSeq(D, 1, j)
    BY <1>1, <1>2
  <2>3. QED
    BY <2>2, Zenon DEF Sigs
<1>5. D \in Sigs(D)
  <2>1. Len(D) \in 1 .. Len(D) /\ SubSeq(D, 1, Len(D)) = D
    BY <1>1, SubSeqFull
  <2>2. QED
    BY <2>1, Zenon DEF Sigs
<1>6. QED
  BY <1>1, <1>2, <1>3, <1>4, <1>5, Zenon DEF D

(* More may be on the wire when the chain is longer. *)
LEMMA MoreTokens ==
  ASSUME NEW C, NEW D, Sigs(C) \subseteq Sigs(D), NEW n
  PROVE  Tokens(C, n) \subseteq Tokens(D, n)
<1>1. Headers(C) \subseteq Headers(D)
  <2>1. SUFFICES ASSUME NEW h \in Headers(C) PROVE h \in Headers(D)
    BY Zenon
  <2>2. SUBSET Sigs(C) \subseteq SUBSET Sigs(D)
    BY Zenon
  <2>3. QED
    BY <2>2, Zenon DEF Headers
<1>2. QED
  BY <1>1, Zenon DEF Tokens, Framing

(* What was read and what is on the wire stays within what was sent. *)
LEMMA WithinSent ==
  ASSUME NEW a \in Nat, NEW b \in Nat, NEW s \in Nat, NEW x \in Nat, NEW c \in Nat,
         a + b <= s, x <= c
  PROVE  a + (b + x) <= s + c
OBVIOUS

(* What the client sends next: a frame signed with the chain D, which has one *)
(* chunk more.                                                                *)
LEMMA SendKeeps ==
  ASSUME Intact, ~client.done, NEW c \in Seq(Nat), NEW m \in Nat, NEW d \in BOOLEAN,
         NEW x \in Seq(Tokens(Append(client.sig, c), client.length)),
         m = client.sent + Len(c), m <= client.length,
         c = [i \in 1 .. Len(c) |-> client.sent + i],
         d => m = client.length, (c = <<>>) <=> d,
         mode = "hash" => Len(x) <= Len(c),
         client' = [client EXCEPT !.sent = m, !.sig = Append(client.sig, c), !.done = d],
         wire' = wire \o x,
         UNCHANGED <<mode, checksums, declared, faults, ending, r, guard, call, delivered, result>>
  PROVE  Intact'
<1> DEFINE C == client.sig
           D == Append(C, c)
           n == client.length
<1>1. /\ client \in [length : 0 .. MaxLength, sent : Nat, sig : Seq(Seq(Nat)), done : BOOLEAN]
      /\ C \in Seq(Seq(Nat)) /\ n \in Nat /\ client.sent \in Nat
      /\ End(C, n, Len(C)) = client.sent
  BY ChunkedBodyAssumption DEF Intact, Chain
<1>2. /\ D \in Seq(Seq(Nat)) /\ Len(D) = Len(C) + 1 /\ Len(C) \in Nat
      /\ D[Len(C) + 1] = c
      /\ \A j \in 1 .. Len(C) : D[j] = C[j]
      /\ \A j \in 0 .. Len(C) : SubSeq(D, 1, j) = SubSeq(C, 1, j)
      /\ \A k, j : j \in 0 .. Len(C) => End(D, k, j) = End(C, k, j)
      /\ Sigs(C) \subseteq Sigs(D)
  BY <1>1, LongerChain, Zenon
<1>3. client'.length = n /\ client'.sent = m /\ client'.sig = D /\ client'.done = d
  BY <1>1, Zenon
<1>4. Request'
  BY <1>3, Zenon DEF Intact, Request
<1> HIDE DEF D
<1>5. Chain'
  <2>1. client' \in [length : 0 .. MaxLength, sent : Nat, sig : Seq(Seq(Nat)), done : BOOLEAN]
    BY <1>1, <1>2, Zenon DEF D
  <2>2. End(D, n, Len(C) + 1) = m
    <3>1. CASE d
      <4>1. c = <<>> /\ m = n
        BY <3>1, Zenon
      <4>2. QED
        BY <1>2, <4>1 DEF End
    <3>2. CASE ~d
      <4>1. c # <<>> /\ Len(c) \in Nat \ {0}
        BY <3>2, EmptySeq, Zenon
      <4>2. c[Len(c)] = client.sent + Len(c)
        BY <4>1
      <4>3. QED
        BY <1>2, <4>1, <4>2 DEF End
    <3>3. QED
      BY <3>1, <3>2, Zenon
  <2>3. Link(D, n, Len(C) + 1)
    <3>1. (Len(C) + 1) - 1 = Len(C) /\ Len(C) \in 0 .. Len(C)
      BY <1>2
    <3>2. \A k, j : j \in 0 .. Len(C) => End(D, k, j) = End(C, k, j)
      BY <1>2, Zenon
    <3>3. End(D, n, Len(C)) = End(C, n, Len(C))
      BY <3>1, <3>2, Zenon
    <3>4. End(D, n, (Len(C) + 1) - 1) = client.sent
      BY <1>1, <3>1, <3>3, Zenon
    <3>5. QED
      BY <1>1, <1>2, <2>2, <3>4 DEF Link
  <2>4. ASSUME NEW j \in 1 .. Len(D)
        PROVE  Link(D, n, j) /\ (D[j] = <<>> => j = Len(D) /\ d)
    <3>1. CASE j \in 1 .. Len(C)
      <4>1. Link(C, n, j) /\ C[j] # <<>>
        BY <3>1, Zenon DEF Intact, Chain
      <4>2. j - 1 \in 0 .. Len(C) /\ j \in 0 .. Len(C)
        BY <1>2, <3>1, SMTT(30)
      <4>3. D[j] = C[j] /\ End(D, n, j) = End(C, n, j) /\ End(D, n, j - 1) = End(C, n, j - 1)
        BY <1>2, <3>1, <4>2, Zenon
      <4>4. QED
        BY <4>1, <4>3, Zenon DEF Link
    <3>2. CASE j = Len(C) + 1
      BY <1>2, <2>3, <3>2, Zenon
    <3>3. QED
      BY <1>2, <3>1, <3>2, SMTT(30)
  <2>5. QED
    BY <1>2, <1>3, <2>1, <2>2, <2>4, ZenonT(40) DEF Chain
<1>6. Wired'
  <2> DEFINE T == Tokens(D, n)
  <2>1. Tokens(C, n) \subseteq T
    BY <1>2, MoreTokens, Zenon
  <2>2. Tokens(client.sig, client.length)' = T
    BY <1>3, Zenon DEF Tokens
  <2> HIDE DEF T
  <2>3. wire \in Seq(T) /\ x \in Seq(T)
    <3>1. wire \in Seq(Tokens(C, n))
      BY Zenon DEF Intact, Wired
    <3>2. x \in Seq(T)
      BY Zenon DEF D, T
    <3>3. QED
      BY <2>1, <3>1, <3>2
  <2>4. wire \o x \in Seq(T) /\ Len(wire \o x) = Len(wire) + Len(x)
    BY <2>3, ConcatProperties
  <2>5. mode = "hash" => Len(r.hashed) + Len(wire \o x) <= m
    <3>1. SUFFICES ASSUME mode = "hash" PROVE Len(r.hashed) + Len(wire \o x) <= m
      BY Zenon
    <3>2. Len(r.hashed) + Len(wire) <= client.sent /\ Len(x) <= Len(c)
      BY <3>1, Zenon DEF Intact, Wired
    <3>3. Len(r.hashed) \in Nat /\ Len(wire) \in Nat /\ Len(x) \in Nat /\ Len(c) \in Nat
      BY <2>3, LenProperties, Zenon DEF Intact, Fits, ReaderType
    <3>4. Len(r.hashed) + (Len(wire) + Len(x)) <= client.sent + Len(c)
      BY <1>1, <3>2, <3>3, WithinSent, Zenon
    <3>5. QED
      BY <2>4, <3>4, Zenon
  <2>6. QED
    BY <1>3, <2>2, <2>4, <2>5, Zenon DEF Wired
<1>7. Fits(r)'
  <2>1. Fits(r) /\ r' = r /\ mode' = mode /\ declared' = declared /\ checksums' = checksums
    BY Zenon DEF Intact
  <2>2. Signed => Verified(r)'
    <3>1. SUFFICES ASSUME Signed PROVE Verified(r)'
      BY Zenon
    <3>2. /\ Len(r.prev) <= Len(C) /\ r.prev = SubSeq(C, 1, Len(r.prev))
          /\ r.hashed = Payload(End(C, n, Len(r.prev))) /\ Len(r.prev) \in Nat
      BY <2>1, <3>1, LenProperties, Zenon DEF Fits, Verified, ReaderType
    <3>3. Len(r.prev) \in 0 .. Len(C) /\ Len(r.prev) <= Len(D)
      BY <1>2, <3>2
    <3>4. /\ SubSeq(D, 1, Len(r.prev)) = SubSeq(C, 1, Len(r.prev))
          /\ End(D, n, Len(r.prev)) = End(C, n, Len(r.prev))
      BY <1>2, <3>3, Zenon
    <3>5. QED
      BY <1>3, <2>1, <3>2, <3>3, <3>4, Zenon DEF Verified
  <2>3. (r \in ReaderType)' /\ Collected(r)'
    BY <1>3, <2>1, Zenon DEF Fits, ReaderType, Collected, Values, Sums, Over
  <2>4. (Signed' <=> Signed) /\ (Protected' <=> Protected)
    BY <2>1, Zenon DEF Signed, Protected
  <2>5. QED
    BY <1>3, <2>1, <2>2, <2>3, <2>4 DEF Fits
<1>8. Flow'
  BY Zenon DEF Intact, Flow
<1>9. QED
  BY <1>4, <1>5, <1>6, <1>7, <1>8, Zenon DEF Intact

(* Two tokens are a sequence. *)
LEMMA Pair ==
  ASSUME NEW S, NEW a \in S, NEW b \in S
  PROVE  <<a, b>> \in Seq(S)
OBVIOUS

(* The line ends, headers and bytes that the client writes. *)
LEMMA Written ==
  ASSUME NEW C, NEW n, mode # "hash"
  PROVE  /\ CRLF \in Seq(Tokens(C, n))
         /\ \A k \in Nat, sig \in SUBSET Sigs(C) : <<Header(k, sig)>> \in Seq(Tokens(C, n))
         /\ \A v \in Sums(n) : <<Line("crc", v)>> \in Seq(Tokens(C, n))
         /\ \A v \in Values(n) : <<Line("sig", v)>> \in Seq(Tokens(C, n))
<1>1. CRLF[1] \in Tokens(C, n) /\ CRLF[2] \in Tokens(C, n)
  BY Zenon DEF Tokens, Framing
<1>2. CRLF = <<CRLF[1], CRLF[2]>>
  BY Zenon DEF CRLF
<1>3. CRLF \in Seq(Tokens(C, n))
  BY <1>1, <1>2, Pair, Zenon
<1>4. \A k \in Nat, sig \in SUBSET Sigs(C) : Header(k, sig) \in Tokens(C, n)
  BY Zenon DEF Header, Headers, Tokens, Framing
<1>5. \A v \in Sums(n) : Line("crc", v) \in Tokens(C, n)
  BY Zenon DEF Line, Lines, Tokens, Framing
<1>6. \A v \in Values(n) : Line("sig", v) \in Tokens(C, n)
  BY Zenon DEF Line, Lines, Tokens, Framing
<1>7. QED
  BY <1>3, <1>4, <1>5, <1>6

(* A chunk of the payload keeps the invariant. *)
LEMMA SendChunkKeeps ==
  ASSUME Intact, NEW n \in 1 .. MaxLength, SendChunk(n)
  PROVE  Intact'
<1> DEFINE chunk == [i \in 1 .. n |-> client.sent + i]
           sig == Append(client.sig, chunk)
           bytes == [i \in 1 .. n |-> Byte(chunk[i])]
           T == Tokens(sig, client.length)
           x == IF mode = "hash" THEN bytes
                ELSE <<Header(n, IF Signed THEN {sig} ELSE {})>> \o bytes \o CRLF
<1>1. /\ client.sent + n <= client.length
      /\ client' = [client EXCEPT !.sent = @ + n, !.sig = sig]
      /\ wire' = wire \o x
      /\ UNCHANGED <<mode, checksums, declared, faults, ending, r, guard, call, delivered, result>>
  BY Zenon DEF SendChunk
<1>2. /\ client \in [length : 0 .. MaxLength, sent : Nat, sig : Seq(Seq(Nat)), done : BOOLEAN]
      /\ client.sent \in Nat /\ client.length \in Nat /\ client.sig \in Seq(Seq(Nat))
      /\ client.length <= MaxLength /\ MaxLength \in Nat /\ n \in Nat /\ n >= 1
      /\ client.done => client.sent = client.length
  BY ChunkedBodyAssumption DEF Intact, Chain
<1>3. ~client.done
  BY <1>1, <1>2
<1>4. chunk \in Seq(Nat) /\ Len(chunk) = n
  BY <1>2
<1>5. bytes \in Seq(Bytes) /\ Len(bytes) = n
  <2>1. \A i \in 1 .. n : Byte(chunk[i]) \in Bytes
    <3>1. SUFFICES ASSUME NEW i \in 1 .. n PROVE Byte(chunk[i]) \in Bytes
      BY Zenon
    <3>2. chunk[i] \in Octets
      BY <1>1, <1>2 DEF Octets, Foreign
    <3> HIDE DEF chunk
    <3>3. QED
      BY <3>2, Zenon DEF Byte, Bytes
  <2> HIDE DEF chunk
  <2>2. QED
    BY <1>2, <2>1
<1>6. sig \in Sigs(sig)
  BY <1>2, <1>4, LongerChain, Zenon
<1> DEFINE m == client.sent + n
<1>7. client' = [client EXCEPT !.sent = m, !.sig = sig, !.done = FALSE]
  BY <1>1, <1>2, <1>3, Zenon
<1>8. x \in Seq(T) /\ (mode = "hash" => Len(x) <= n)
  <2> HIDE DEF chunk, sig, bytes
  <2>1. Bytes \subseteq T
    BY Zenon DEF Tokens
  <2>2. bytes \in Seq(T)
    BY <1>5, <2>1
  <2>3. CASE mode = "hash"
    BY <1>2, <1>5, <2>2, <2>3
  <2>4. CASE mode # "hash"
    <3> DEFINE hs == IF Signed THEN {sig} ELSE {}
               h == <<Header(n, hs)>>
    <3>1. hs \in SUBSET Sigs(sig)
      BY <1>6, Zenon
    <3> HIDE DEF hs
    <3>2. h \in Seq(T) /\ CRLF \in Seq(T)
      BY <1>2, <2>4, <3>1, Written, Zenon
    <3>3. x = h \o bytes \o CRLF
      BY <2>4, Zenon DEF hs
    <3> HIDE DEF h, T, x
    <3>4. h \o bytes \in Seq(T)
      BY <2>2, <3>2, ConcatProperties, Zenon
    <3>5. QED
      BY <2>4, <3>2, <3>3, <3>4, ConcatProperties, Zenon
  <2>5. QED
    BY <2>3, <2>4, Zenon
<1>9. chunk # <<>> /\ chunk = [i \in 1 .. Len(chunk) |-> client.sent + i]
  <2>1. chunk = [i \in 1 .. n |-> client.sent + i]
    BY Zenon
  <2> HIDE DEF chunk
  <2>2. chunk # <<>>
    BY <1>2, <1>4, EmptySeq
  <2>3. QED
    BY <1>4, <2>1, <2>2, Zenon
<1> HIDE DEF chunk, x
<1>10. m \in Nat /\ m = client.sent + Len(chunk) /\ m <= client.length
  BY <1>1, <1>2, <1>4
<1> HIDE DEF m
<1>11. QED
  BY <1>1, <1>3, <1>4, <1>7, <1>8, <1>9, <1>10, SendKeeps, Zenon

(* So does the final chunk with the trailer. *)
LEMMA SendFinalKeeps ==
  ASSUME Intact, NEW blank \in {<<>>, CRLF}, SendFinal(blank)
  PROVE  Intact'
<1> DEFINE sig == Append(client.sig, <<>>)
           T == Tokens(sig, client.length)
           x == IF mode = "hash" THEN <<>>
                ELSE <<Header(0, IF Signed THEN {sig} ELSE {})>> \o Trailer(sig, blank)
<1>1. /\ ~client.done /\ client.sent = client.length
      /\ client' = [client EXCEPT !.done = TRUE, !.sig = sig]
      /\ wire' = wire \o x
      /\ UNCHANGED <<mode, checksums, declared, faults, ending, r, guard, call, delivered, result>>
  BY Zenon DEF SendFinal
<1>2. /\ client \in [length : 0 .. MaxLength, sent : Nat, sig : Seq(Seq(Nat)), done : BOOLEAN]
      /\ client.sent \in Nat /\ client.sig \in Seq(Seq(Nat))
  BY Zenon DEF Intact, Chain
<1>3. /\ <<>> \in Seq(Nat) /\ Len(<<>>) = 0 /\ <<>> = [i \in 1 .. 0 |-> client.sent + i]
      /\ client.sent = client.sent + 0
  BY <1>2
<1>4. sig \in Sigs(sig) /\ sig \in Seq(Seq(Nat))
  BY <1>2, <1>3, LongerChain, Zenon
<1>5. client' = [client EXCEPT !.sent = client.sent, !.sig = sig, !.done = TRUE]
  BY <1>1, <1>2, Zenon
<1>6. x \in Seq(T) /\ (mode = "hash" => Len(x) <= 0)
  <2>1. CASE mode = "hash"
    BY <2>1
  <2>2. CASE mode # "hash"
    <3> DEFINE hs == IF Signed THEN {sig} ELSE {}
               h == <<Header(0, hs)>>
               sums == IF checksums = {} THEN <<>> ELSE <<<<"crc", Payload(client.length)>>>>
               rows == [i \in DOMAIN sums |-> Line(sums[i][1], sums[i][2])]
               v == [chain |-> sig, over |-> Multiset(sums)]
               last == <<Line("sig", v)>>
    <3> HIDE DEF sig
    <3>1. hs \in SUBSET Sigs(sig)
      BY <1>4, Zenon
    <3> HIDE DEF hs
    <3>2. h \in Seq(T) /\ CRLF \in Seq(T)
      BY <2>2, <3>1, Written, Zenon
    <3>3. rows \in Seq(T)
      <4>1. CASE checksums = {}
        <5>1. rows = <<>>
          BY <4>1
        <5>2. QED
          BY <5>1
      <4>2. CASE checksums # {}
        <5>1. rows = <<Line("crc", Payload(client.length))>>
          BY <4>2
        <5>2. Payload(client.length) \in Sums(client.length)
          BY Zenon DEF Sums
        <5>3. QED
          BY <2>2, <5>1, <5>2, Written
      <4>3. QED
        BY <4>1, <4>2, Zenon
    <3>4. last \in Seq(T)
      <4>1. Multiset(sums) \in Over(client.length)
        BY Zenon DEF Over
      <4> HIDE DEF sums
      <4>2. v \in Values(client.length)
        BY <1>4, <4>1, Zenon DEF Values
      <4> HIDE DEF v
      <4>3. QED
        BY <2>2, <4>2, Written, Zenon
    <3>5. blank \in Seq(T)
      BY <3>2, EmptySeq, Zenon
    <3>6. Trailer(sig, blank) = CASE mode = "signed" -> CRLF
                                  [] mode = "unsignedTrailer" -> rows \o CRLF
                                  [] mode = "signedTrailer" -> rows \o blank \o last \o CRLF
      BY Zenon DEF Trailer
    <3> HIDE DEF rows, last, T
    <3>7. Trailer(sig, blank) \in Seq(T)
      <4>1. CASE mode = "signed"
        BY <3>2, <3>6, <4>1, Zenon
      <4>2. CASE mode = "unsignedTrailer"
        <5>1. Trailer(sig, blank) = rows \o CRLF
          BY <3>6, <4>2, Zenon
        <5>2. QED
          BY <3>2, <3>3, <5>1, ConcatProperties, Zenon
      <4>3. CASE mode = "signedTrailer"
        <5>1. Trailer(sig, blank) = rows \o blank \o last \o CRLF
          BY <3>6, <4>3, Zenon
        <5>2. rows \o blank \in Seq(T)
          BY <3>3, <3>5, ConcatProperties, Zenon
        <5>3. (rows \o blank) \o last \in Seq(T)
          BY <3>4, <5>2, ConcatProperties, Zenon
        <5>4. QED
          BY <3>2, <5>1, <5>3, ConcatProperties, Zenon
      <4>4. QED
        BY <2>2, <4>1, <4>2, <4>3 DEF Intact, Request
    <3>8. x = h \o Trailer(sig, blank)
      BY <2>2, Zenon DEF hs
    <3> HIDE DEF h, x
    <3>9. QED
      BY <2>2, <3>2, <3>7, <3>8, ConcatProperties
  <2>3. QED
    BY <2>1, <2>2, Zenon
<1> HIDE DEF x
<1>7. client.sent <= client.length
  BY <1>1, <1>2
<1>8. QED
  BY <1>1, <1>2, <1>3, <1>5, <1>6, <1>7, SendKeeps, ZenonT(40)

-----------------------------------------------------------------------------
(* The transmission *)

(* A fault changes the wire, and in a plain body does not make it longer. *)
LEMMA FaultKeeps ==
  ASSUME Intact, Fault, ending' \in {"eof", "broken"},
         wire' \in Seq(Tokens(client.sig, client.length)),
         mode = "hash" => Len(wire') <= Len(wire)
  PROVE  Intact'
<1>1. UNCHANGED <<mode, checksums, declared, client, r, guard, call, delivered, result>>
  BY Zenon DEF Fault
<1>2. Request' /\ Chain' /\ Flow'
  <2>1. Request'
    BY <1>1, Zenon DEF Intact, Request
  <2>2. Chain'
    BY <1>1, Zenon DEF Intact, Chain
  <2>3. Flow'
    BY <1>1, Zenon DEF Intact, Flow
  <2>4. QED
    BY <2>1, <2>2, <2>3, Zenon
<1>3. Fits(r)'
  BY <1>1, Zenon DEF Intact, Fits, ReaderType, Collected, Verified, Values, Sums, Over, Signed, Protected, End
<1>4. Wired'
  <2>1. Tokens(client.sig, client.length)' = Tokens(client.sig, client.length)
    BY <1>1, Zenon DEF Tokens
  <2>2. mode = "hash" => Len(r.hashed) + Len(wire') <= client.sent
    <3>1. SUFFICES ASSUME mode = "hash" PROVE Len(r.hashed) + Len(wire') <= client.sent
      BY Zenon
    <3>2. /\ Len(r.hashed) \in Nat /\ Len(wire) \in Nat /\ Len(wire') \in Nat /\ client.sent \in Nat
          /\ Len(r.hashed) + Len(wire) <= client.sent
      BY <3>1, LenProperties, Zenon DEF Intact, Wired, Fits, ReaderType, Chain
    <3>3. QED
      BY <3>1, <3>2
  <2>3. QED
    BY <1>1, <2>1, <2>2, Zenon DEF Wired
<1>5. QED
  BY <1>2, <1>3, <1>4, Zenon DEF Intact

(* The connection breaks off and what follows on the wire is lost. *)
LEMMA CutKeeps ==
  ASSUME Intact, NEW i \in 0 .. Len(wire), Cut(i)
  PROVE  Intact'
<1> DEFINE T == Tokens(client.sig, client.length)
           w == SubSeq(wire, 1, i)
<1>1. wire \in Seq(T) /\ Len(wire) \in Nat
  BY LenProperties, Zenon DEF Intact, Wired
<1>2. i \in Nat /\ i <= Len(wire)
  BY <1>1
<1>3. w \in Seq(T) /\ Len(w) = i
  BY <1>1, <1>2, RestFacts, Zenon
<1>4. Fault /\ ending' \in {"eof", "broken"}
  BY Zenon DEF Cut
<1>5. CASE wire' = w
  BY <1>2, <1>3, <1>4, <1>5, FaultKeeps, Zenon
<1>6. CASE /\ i > 0 /\ wire[i].k \in {"header", "line"}
           /\ wire' = [w EXCEPT ![i].eol = FALSE]
  <2>1. i \in 1 .. Len(w) /\ i \in 1 .. Len(wire)
    BY <1>2, <1>3, <1>6
  <2>2. w[i] = wire[i]
    <3>1. \A j \in 1 .. i : wire[j] \in T
      BY <1>1, <1>2, ElementOfSeq
    <3>2. QED
      BY <1>2, <2>1, <3>1, SubSeqProperties
  <2> DEFINE t == wire[i]
             u == [t EXCEPT !.eol = FALSE]
  <2>3. t \in T /\ t.k \in {"header", "line"}
    BY <1>1, <1>6, <2>1, ElementOfSeq, Zenon
  <2>4. t \in Headers(client.sig) \cup Lines(client.length) /\ mode # "hash"
    <3>1. /\ t.k = "header" => t \in Headers(client.sig)
          /\ t.k = "line" => t \in Lines(client.length)
          /\ mode = "hash" => t \in Bytes
      BY <2>3, TokenFacts, Zenon
    <3>2. t \in Bytes => t.k = "byte"
      BY Zenon DEF Bytes
    <3>3. QED
      BY <2>3, <3>1, <3>2, Zenon
  <2> HIDE DEF t
  <2>5. u \in Headers(client.sig) \cup Lines(client.length)
    <3>1. CASE t \in Headers(client.sig)
      BY <3>1, Zenon DEF Headers
    <3>2. CASE t \in Lines(client.length)
      BY <3>2, Zenon DEF Lines
    <3>3. QED
      BY <2>4, <3>1, <3>2, Zenon
  <2>6. u \in T
    BY <2>4, <2>5, Zenon DEF Tokens, Framing
  <2>7. wire' = [w EXCEPT ![i] = u]
    BY <1>6, <2>2, Zenon DEF t
  <2> HIDE DEF u, w, T
  <2>8. wire' \in Seq(T) /\ Len(wire') = Len(w)
    BY <1>3, <2>1, <2>6, <2>7, ExceptSeq
  <2>9. QED
    BY <1>2, <1>3, <1>4, <2>8, FaultKeeps, Zenon DEF T
<1>7. QED
  BY <1>5, <1>6, Zenon DEF Cut

(* A damaged token is again a token, and a byte stays a byte. *)
LEMMA DamagedTokens ==
  ASSUME NEW C, NEW n, NEW t \in Tokens(C, n), NEW u \in DamagedForms(t)
  PROVE  u \in Tokens(C, n)
<1>1. CASE t \in Bytes
  <2>1. t.k = "byte" /\ u = [t EXCEPT !.b = Damaged]
    BY <1>1, Zenon DEF Bytes, DamagedForms
  <2>2. Damaged \in Octets
    BY ChunkedBodyAssumption DEF Damaged, Octets, Foreign
  <2>3. u \in Bytes
    BY <1>1, <2>1, <2>2, Zenon DEF Bytes
  <2>4. QED
    BY <2>3, Zenon DEF Tokens
<1>2. CASE t \in Headers(C) /\ mode # "hash"
  <2>1. t.k = "header" /\ t.n \in Nat
    BY <1>2, Zenon DEF Headers
  <2> DEFINE less == IF t.n = 0 THEN 1 ELSE t.n - 1
  <2>2. less \in Nat /\ t.n + 1 \in Nat
    BY <2>1
  <2>3. u \in {[t EXCEPT !.n = t.n + 1], [t EXCEPT !.n = less], [t EXCEPT !.sig = {}],
               [t EXCEPT !.sig = {Garbled}]}
    BY <1>2, <2>1, Zenon DEF DamagedForms, Headers
  <2> HIDE DEF less
  <2>4. {Garbled} \in SUBSET Sigs(C) /\ {} \in SUBSET Sigs(C)
    BY Zenon DEF Sigs
  <2>5. u \in Headers(C)
    <3>1. \A m \in Nat : [t EXCEPT !.n = m] \in Headers(C)
      BY <1>2, Zenon DEF Headers
    <3>2. \A x \in SUBSET Sigs(C) : [t EXCEPT !.sig = x] \in Headers(C)
      BY <1>2, Zenon DEF Headers
    <3>3. QED
      BY <2>2, <2>3, <2>4, <3>1, <3>2, Zenon
  <2>6. QED
    BY <1>2, <2>5, Zenon DEF Tokens, Framing
<1>3. CASE t \in Lines(n) /\ mode # "hash"
  <2> DEFINE v == IF t.name = "sig" THEN [chain |-> Garbled, over |-> <<>>] ELSE Unseen
  <2>1. t.k = "line"
    BY <1>3, Zenon DEF Lines
  <2>2. u = [t EXCEPT !.name = "other"] \/ u = [t EXCEPT !.value = v]
    BY <2>1, Zenon DEF DamagedForms
  <2>3. Unseen \in Sums(n) /\ Unseen \in Values(n)
    BY Zenon DEF Sums, Values
  <2>4. [chain |-> Garbled, over |-> <<>>] \in Values(n)
    <3>1. Garbled \in Seq(Seq(Nat))
      BY ChunkedBodyAssumption DEF Garbled, Unseen
    <3>2. <<>> \in Over(n)
      BY Zenon DEF Over
    <3>3. QED
      BY <3>1, <3>2, Zenon DEF Values
  <2>5. v \in Values(n) /\ (t.name = "crc" => v \in Sums(n))
    BY <2>3, <2>4, Zenon
  <2> HIDE DEF v
  <2>6. Sums(n) \subseteq Values(n)
    BY Zenon DEF Values
  <2>7. u \in Lines(n)
    <3>1. CASE u = [t EXCEPT !.name = "other"]
      BY <1>3, <2>6, <3>1, Zenon DEF Lines
    <3>2. CASE u = [t EXCEPT !.value = v]
      <4>1. CASE t.name = "crc"
        BY <1>3, <2>5, <3>2, <4>1, Zenon DEF Lines
      <4>2. CASE t.name # "crc"
        BY <1>3, <2>5, <3>2, <4>2, Zenon DEF Lines
      <4>3. QED
        BY <4>1, <4>2, Zenon
    <3>3. QED
      BY <2>2, <3>1, <3>2, Zenon
  <2>8. QED
    BY <1>3, <2>7, Zenon DEF Tokens, Framing
<1>4. CASE t \in {CRLF[1], CRLF[2]}
  <2>1. t.k \notin {"byte", "header", "line"}
    BY <1>4 DEF CRLF
  <2>2. u = Byte(Foreign)
    BY <2>1, Zenon DEF DamagedForms
  <2>3. Foreign \in Octets
    BY ChunkedBodyAssumption DEF Octets, Foreign
  <2>4. QED
    BY <2>2, <2>3, Zenon DEF Byte, Bytes, Tokens
<1>5. QED
  BY <1>1, <1>2, <1>3, <1>4, Zenon DEF Tokens, Framing

(* A byte, a header or a line changes on the wire. *)
LEMMA DamageKeeps ==
  ASSUME Intact, NEW i \in 1 .. Len(wire), Damage(i)
  PROVE  Intact'
<1> DEFINE T == Tokens(client.sig, client.length)
<1>1. wire \in Seq(T) /\ Len(wire) \in Nat
  BY LenProperties, Zenon DEF Intact, Wired
<1>2. PICK t \in DamagedForms(wire[i]) : wire' = [wire EXCEPT ![i] = t]
  BY Zenon DEF Damage
<1>3. wire[i] \in T
  BY <1>1, ElementOfSeq, Zenon
<1>4. t \in T
  BY <1>2, <1>3, DamagedTokens, Zenon
<1>5. wire' \in Seq(T) /\ Len(wire') = Len(wire)
  <2> HIDE DEF T
  <2>1. QED
    BY <1>1, <1>2, <1>4, ExceptSeq
<1>6. Fault /\ ending' \in {"eof", "broken"}
  BY Zenon DEF Damage, Intact, Request
<1>7. QED
  BY <1>1, <1>5, <1>6, FaultKeeps

(* A part of the wire is a sequence of tokens. *)
LEMMA PartOf ==
  ASSUME NEW S, NEW w \in Seq(S), NEW m \in Nat, NEW n \in Nat, m >= 1, n <= Len(w)
  PROVE  SubSeq(w, m, n) \in Seq(S)
<1>1. Len(w) \in Nat
  BY LenProperties, Zenon
<1>2. \A i \in m .. n : w[i] \in S
  BY <1>1, ElementOfSeq
<1>3. QED
  BY <1>2, SubSeqProperties

(* A run of frames is lost, repeated or moved on the wire. *)
LEMMA MisorderKeeps ==
  ASSUME Intact, NEW i \in 1 .. Len(wire), NEW j \in 1 .. Len(wire), Misorder(i, j)
  PROVE  Intact'
<1> DEFINE T == Tokens(client.sig, client.length)
           before == SubSeq(wire, 1, i - 1)
           run == SubSeq(wire, i, j - 1)
           after == SubSeq(wire, j, Len(wire))
<1>1. wire \in Seq(T) /\ Len(wire) \in Nat
  BY LenProperties, Zenon DEF Intact, Wired
<1>2. mode # "hash"
  <2>1. wire[i] \in T /\ wire[i].k \in {"header", "line"}
    BY <1>1, ElementOfSeq, Zenon DEF Misorder, FrameStart
  <2>2. mode = "hash" => wire[i] \in Bytes
    BY <2>1, TokenFacts, Zenon
  <2>3. wire[i] \in Bytes => wire[i].k = "byte"
    BY Zenon DEF Bytes
  <2>4. QED
    BY <2>1, <2>2, <2>3, Zenon
<1>3. Fault /\ ending' \in {"eof", "broken"}
  BY Zenon DEF Misorder, Intact, Request
<1>4. before \in Seq(T) /\ run \in Seq(T) /\ after \in Seq(T)
  <2>1. i - 1 \in Nat /\ j - 1 \in Nat /\ i - 1 <= Len(wire) /\ j - 1 <= Len(wire)
    BY <1>1
  <2>2. QED
    BY <1>1, <2>1, PartOf
<1>5. wire' \in Seq(T)
  <2>1. CASE wire' = before \o after
    <3> HIDE DEF before, after, T
    <3>1. QED
      BY <1>4, <2>1, ConcatProperties, Zenon
  <2>2. CASE wire' = before \o run \o run \o after
    <3> HIDE DEF before, run, after, T
    <3>1. before \o run \in Seq(T)
      BY <1>4, ConcatProperties, Zenon
    <3>2. (before \o run) \o run \in Seq(T)
      BY <1>4, <3>1, ConcatProperties, Zenon
    <3>3. QED
      BY <1>4, <2>2, <3>2, ConcatProperties, Zenon
  <2>3. CASE \E m \in j + 1 .. Len(wire) :
               /\ FrameStart(m)
               /\ wire' = before \o SubSeq(wire, j, m - 1) \o run \o SubSeq(wire, m, Len(wire))
    <3>1. PICK m \in j + 1 .. Len(wire) :
               wire' = before \o SubSeq(wire, j, m - 1) \o run \o SubSeq(wire, m, Len(wire))
      BY <2>3, Zenon
    <3> DEFINE other == SubSeq(wire, j, m - 1)
               rest == SubSeq(wire, m, Len(wire))
    <3>2. other \in Seq(T) /\ rest \in Seq(T)
      <4>1. m \in Nat /\ m >= 1 /\ m - 1 \in Nat /\ m - 1 <= Len(wire)
        BY <1>1
      <4>2. QED
        BY <1>1, <4>1, PartOf
    <3> HIDE DEF before, run, other, rest, T
    <3>3. before \o other \in Seq(T)
      BY <1>4, <3>2, ConcatProperties, Zenon
    <3>4. (before \o other) \o run \in Seq(T)
      BY <1>4, <3>3, ConcatProperties, Zenon
    <3>5. QED
      BY <3>1, <3>2, <3>4, ConcatProperties, Zenon DEF other, rest
  <2>4. QED
    BY <2>1, <2>2, <2>3, Zenon DEF Misorder
<1>6. QED
  BY <1>2, <1>3, <1>5, FaultKeeps, Zenon

-----------------------------------------------------------------------------
(* The upstream client reads on, and releases at most the byte that the end *)
(* of the stream has validated.                                             *)
LEMMA ReadKeeps ==
  ASSUME Intact, NEW p \in 1 .. MaxBuffer, Read(p)
  PROVE  Intact'
<1>1. UNCHANGED sender /\ wire' = wire /\ r' = r /\ call = 0
  BY Zenon DEF Read
<1>2. Request' /\ Chain'
  BY <1>1, SameRequest, Zenon DEF Intact
<1>3. Wired'
  BY <1>1, SameWire, Zenon DEF Intact, Wired
<1>4. Fits(r)'
  BY <1>1, SameReader, Zenon DEF Intact
<1>5. Flow'
  <2>1. CASE guard.err = NoErr /\ call' = p /\ UNCHANGED <<guard, delivered, result>>
    <3>1. p \in Nat
      BY ChunkedBodyAssumption
    <3>2. QED
      BY <1>1, <2>1, <3>1, Zenon DEF Intact, Flow
  <2>2. CASE /\ guard.err = "eof" /\ guard.carry # <<>>
             /\ delivered' = delivered \o guard.carry
             /\ guard' = [guard EXCEPT !.carry = <<>>]
             /\ UNCHANGED <<call, result>>
    <3>1. /\ guard \in [carry : Seq(Octets), err : Texts] /\ delivered \in Seq(Octets)
          /\ call \in Nat /\ (result = "eof" => guard.err = "eof")
          /\ r.err = NoErr /\ r.hashed = (delivered \o guard.carry) \o r.buf
      BY <2>2, Zenon DEF Intact, Flow
    <3>2. guard.carry \in Seq(Octets) /\ <<>> \in Seq(Octets) /\ Len(<<>>) <= 1
      BY <3>1
    <3>3. guard'.carry = <<>> /\ guard'.err = "eof"
      BY <2>2, <3>1, Zenon
    <3>4. guard' \in [carry : Seq(Octets), err : Texts] /\ Len(guard'.carry) <= 1
      BY <2>2, <3>1, <3>2, <3>3, Zenon
    <3>5. delivered' \in Seq(Octets)
      BY <2>2, <3>1, <3>2, ConcatProperties, Zenon
    <3>6. delivered' \o <<>> = delivered'
      BY <3>5, ConcatEmptySeq, Zenon
    <3>7. r.hashed = (delivered' \o guard'.carry) \o r.buf
      BY <2>2, <3>1, <3>3, <3>6, Zenon
    <3>8. "eof" # NoErr /\ "eof" \in {NoErr, "eof"}
      BY Zenon DEF NoErr
    <3>9. call' = 0 /\ ~ (0 > 0) /\ result' = result
      BY <1>1, <2>2
    <3>10. QED
      BY <1>1, <3>1, <3>3, <3>4, <3>5, <3>7, <3>8, <3>9, Zenon DEF Flow
  <2>3. CASE /\ guard.err # NoErr /\ guard.carry = <<>>
             /\ result' = guard.err
             /\ UNCHANGED <<guard, delivered, call>>
    BY <1>1, <2>3, Zenon DEF Intact, Flow
  <2>4. QED
    BY <2>1, <2>2, <2>3, Zenon DEF Read
<1>6. QED
  BY <1>2, <1>3, <1>4, <1>5, Zenon DEF Intact

(* The invariant holds at first. *)
LEMMA InitIntact ==
  ASSUME Init
  PROVE  Intact
<1>1. PICK n \in 0 .. MaxLength :
        /\ declared \in parseDecodedContentLength(n)
        /\ client = [length |-> n, sent |-> 0, sig |-> <<>>, done |-> FALSE]
  BY Zenon DEF Init
<1>2. n \in Nat /\ MaxLength \in Nat
  BY ChunkedBodyAssumption
<1>3. client.length = n /\ client.sent = 0 /\ client.sig = <<>> /\ client.done = FALSE
  BY <1>1, Zenon
<1>4. Request
  <2>1. mode \in {"signed", "signedTrailer", "unsignedTrailer", "hash"}
    BY ChunkedBodyAssumption, Zenon DEF Init
  <2>2. checksums \in {{}, {"crc"}} /\ ending = "eof"
    BY Zenon DEF Init, trailerChecksumsForRequest
  <2>3. declared \in Nat /\ (mode = "hash" => declared = client.length /\ declared # 0)
    BY <1>1, <1>2, <1>3 DEF parseDecodedContentLength
  <2>4. QED
    BY <2>1, <2>2, <2>3, Zenon DEF Request
<1>5. Chain
  <2>1. <<>> \in Seq(Seq(Nat)) /\ Len(<<>>) = 0
    OBVIOUS
  <2>2. client \in [length : 0 .. MaxLength, sent : Nat, sig : Seq(Seq(Nat)), done : BOOLEAN]
    BY <1>1, <2>1, Zenon
  <2>3. QED
    BY <1>2, <1>3, <2>1, <2>2 DEF Chain, End
<1>6. /\ r = newAWSChunkedReader /\ wire = <<>> /\ delivered = <<>> /\ call = 0 /\ result = "open"
      /\ guard = [carry |-> <<>>, err |-> NoErr]
  BY Zenon DEF Init
<1>7. r \in ReaderType
  <2>1. maxTrailerLines \in Nat /\ NoErr \in Texts
    BY ChunkedBodyAssumption, TextFacts, Zenon
  <2>2. QED
    BY <1>6, <2>1 DEF ReaderType, newAWSChunkedReader
<1>8. /\ r.buf = <<>> /\ r.remaining = 0 /\ r.decoded = 0 /\ r.prev = <<>> /\ r.hashed = <<>>
      /\ r.err = NoErr /\ r.trailers = <<>> /\ ~r.final /\ ~r.done
  BY <1>6, Zenon DEF newAWSChunkedReader
<1>9. Fits(r)
  <2>1. Verified(r)
    <3>1. Payload(0) = <<>> /\ SubSeq(<<>>, 1, 0) = <<>>
      BY DEF Payload
    <3>2. Len(r.prev) = 0 /\ End(client.sig, client.length, 0) = 0
      BY <1>8, Zenon DEF End
    <3>3. QED
      BY <1>3, <1>8, <3>1, <3>2 DEF Verified
  <2>2. Collected(r)
    BY <1>8 DEF Collected
  <2>3. QED
    BY <1>4, <1>7, <1>8, <2>1, <2>2 DEF Fits, Request
<1>10. Wired
  BY <1>3, <1>6, <1>8 DEF Wired
<1>11. Flow
  <2>1. (<<>> \o <<>>) \o <<>> = <<>> /\ <<>> \in Seq(Octets) /\ Len(<<>>) = 0
    OBVIOUS
  <2>2. guard \in [carry : Seq(Octets), err : Texts] /\ guard.carry = <<>> /\ guard.err = NoErr
    <3>1. NoErr \in Texts
      BY TextFacts, Zenon
    <3>2. guard = [carry |-> <<>>, err |-> NoErr] /\ <<>> \in Seq(Octets)
      BY <1>6, <2>1, Zenon
    <3>3. QED
      BY <3>1, <3>2, Zenon
  <2>3. r.hashed = (delivered \o guard.carry) \o r.buf
    BY <1>6, <1>8, <2>1, <2>2, Zenon
  <2>4. call \in Nat /\ ~ (call > 0) /\ Len(guard.carry) <= 1 /\ result # "eof"
    BY <1>6, <2>1, <2>2
  <2>5. QED
    BY <1>6, <1>8, <2>1, <2>2, <2>3, <2>4, Zenon DEF Flow
<1>12. QED
  BY <1>4, <1>5, <1>9, <1>10, <1>11, Zenon DEF Intact

(* Every step keeps the invariant. *)
LEMMA NextIntact ==
  ASSUME Intact, [Next]_vars
  PROVE  Intact'
<1>1. CASE Client
  BY <1>1, SendChunkKeeps, SendFinalKeeps, Zenon DEF Client
<1>2. CASE Transmission
  BY <1>2, CutKeeps, DamageKeeps, MisorderKeeps, Zenon DEF Transmission
<1>3. CASE \E p \in 1 .. MaxBuffer : Read(p)
  BY <1>3, ReadKeeps, Zenon
<1>4. CASE ReaderStep
  BY <1>4, ReadBufferedKeeps, ReadUnsignedKeeps, ReadDoneKeeps, BeginChunkKeeps, LineTooLongKeeps,
     TrailerLineKeeps, SkipLineKeeps, ReadHashedKeeps DEF ReaderStep
<1>5. CASE UNCHANGED vars
  <2>1. UNCHANGED sender /\ wire' = wire /\ r' = r
        /\ UNCHANGED <<guard, call, delivered, result>>
    BY <1>5, Zenon DEF vars, sender
  <2>2. Request' /\ Chain'
    BY <2>1, SameRequest, Zenon DEF Intact
  <2>3. Wired'
    BY <2>1, SameWire, Zenon DEF Intact, Wired
  <2>4. Fits(r)'
    BY <2>1, SameReader, Zenon DEF Intact
  <2>5. Flow'
    BY <2>1, Zenon DEF Intact, Flow
  <2>6. QED
    BY <2>2, <2>3, <2>4, <2>5, Zenon DEF Intact
<1>6. QED
  BY <1>1, <1>2, <1>3, <1>4, <1>5, Zenon DEF Next, Done

(* The inductive invariant holds of every state of every behaviour. *)
THEOREM Invariant == Spec => []Intact
<1>1. Init => Intact
  BY InitIntact, Zenon
<1>2. Intact /\ [Next]_vars => Intact'
  BY NextIntact, Zenon
<1>3. QED
  BY <1>1, <1>2, PTL DEF Spec

-----------------------------------------------------------------------------
(* What was delivered is the beginning of what was decoded, and no more is  *)
(* decoded than was declared.                                               *)
LEMMA DeliveredFirst ==
  ASSUME Intact
  PROVE  /\ \E rest \in Seq(Octets) : r.hashed = delivered \o rest
         /\ delivered \in Seq(Octets) /\ r.hashed \in Seq(Octets)
         /\ Len(delivered) \in Nat /\ Len(r.hashed) \in Nat
         /\ client.done => Len(r.hashed) <= declared
<1>1. /\ delivered \in Seq(Octets) /\ guard.carry \in Seq(Octets)
      /\ r.buf \in Seq(Octets) /\ r.hashed \in Seq(Octets)
  BY Zenon DEF Intact, Flow, Fits, ReaderType
<1>2. \E rest \in Seq(Octets) : r.hashed = delivered \o rest
  <2>1. CASE guard.err \in {NoErr, "eof"}
    <3> DEFINE rest == guard.carry \o r.buf
    <3>1. rest \in Seq(Octets)
      BY <1>1, ConcatProperties, Zenon
    <3>2. r.hashed = (delivered \o guard.carry) \o r.buf
      BY <2>1, Zenon DEF Intact, Flow
    <3>3. r.hashed = delivered \o rest
      BY <1>1, <3>2, Joined, Zenon
    <3> HIDE DEF rest
    <3>4. QED
      BY <3>1, <3>3, Zenon
  <2>2. CASE guard.err \notin {NoErr, "eof"}
    BY <2>2, Zenon DEF Intact, Flow
  <2>3. QED
    BY <2>1, <2>2, Zenon
<1>3. Len(delivered) \in Nat /\ Len(r.hashed) \in Nat /\ Len(wire) \in Nat
  BY <1>1, LenProperties, Zenon DEF Intact, Wired
<1>4. ASSUME client.done PROVE Len(r.hashed) <= declared
  <2>1. CASE mode = "hash"
    <3>1. client.sent = client.length /\ declared = client.length /\ declared \in Nat
      BY <1>4, <2>1, Zenon DEF Intact, Chain, Request
    <3>2. Len(r.hashed) + Len(wire) <= client.sent
      BY <2>1, Zenon DEF Intact, Wired
    <3>3. QED
      BY <1>3, <3>1, <3>2
  <2>2. CASE mode # "hash"
    <3>1. /\ r.decoded = Len(r.hashed) /\ r.decoded + r.remaining <= declared
          /\ r.remaining \in Nat /\ declared \in Nat
      BY <2>2, Zenon DEF Intact, Fits, ReaderType, Request
    <3>2. QED
      BY <1>3, <3>1
  <2>3. QED
    BY <2>1, <2>2, Zenon
<1>5. QED
  BY <1>1, <1>2, <1>3, <1>4, Zenon

(* In the signed modes the upstream receives nothing but the bytes the client *)
(* signed, in their order, however long the payload and however it was cut    *)
(* and damaged.                                                               *)
THEOREM DeliversOnlySigned == Spec => []OnlySignedBytes
<1>1. ASSUME Intact PROVE OnlySignedBytes
  <2> DEFINE e == End(client.sig, client.length, Len(r.prev))
  <2>1. SUFFICES ASSUME Signed PROVE \E n \in 0 .. client.length : delivered = Payload(n)
    BY Zenon DEF OnlySignedBytes
  <2>2. PICK rest \in Seq(Octets) : r.hashed = delivered \o rest
    BY <1>1, DeliveredFirst, Zenon
  <2>3. delivered \in Seq(Octets) /\ Len(delivered) \in Nat /\ client.length \in Nat
    BY <1>1, DeliveredFirst, ChunkedBodyAssumption, SMTT(30) DEF Intact, Chain
  <2>4. Len(r.prev) \in 0 .. Len(client.sig) /\ r.hashed = Payload(e)
    BY <1>1, <2>1, LenProperties DEF Intact, Fits, Verified, ReaderType, Chain
  <2>5. e \in 0 .. client.length
    <3>1. CASE Len(r.prev) = 0
      BY <2>3, <3>1 DEF End
    <3>2. CASE Len(r.prev) # 0
      <4>1. Len(r.prev) \in 1 .. Len(client.sig)
        BY <1>1, <2>4, <3>2, LenProperties, SMTT(30) DEF Intact, Chain
      <4>2. QED
        BY <1>1, <4>1, Zenon DEF Intact, Chain, Link
    <3>3. QED
      BY <3>1, <3>2, Zenon
  <2> HIDE DEF e
  <2>6. Len(r.hashed) = e /\ \A i \in 1 .. e : r.hashed[i] = i
    BY <2>3, <2>4, <2>5 DEF Payload
  <2>7. /\ Len(r.hashed) = Len(delivered) + Len(rest) /\ Len(rest) \in Nat
        /\ \A i \in 1 .. Len(delivered) : r.hashed[i] = delivered[i]
    BY <2>2, <2>3, ConcatProperties, LenProperties
  <2>8. Len(delivered) <= e /\ \A i \in 1 .. Len(delivered) : delivered[i] = i
    BY <2>3, <2>5, <2>6, <2>7
  <2>9. Len(delivered) \in 0 .. client.length
    BY <2>3, <2>5, <2>8
  <2> DEFINE m == Len(delivered)
             P == Payload(m)
  <2>10. P \in Seq(Nat) /\ Len(P) = m /\ \A i \in 1 .. m : P[i] = i
    BY <2>3 DEF Payload
  <2>11. P = delivered
    <3> HIDE DEF P
    <3>1. \A i \in 1 .. m : P[i] = delivered[i]
      BY <2>3, <2>8, <2>10
    <3>2. QED
      BY <2>3, <2>10, <3>1, SeqEqual
  <2>12. QED
    BY <2>9, <2>11, Zenon
<1>2. QED
  BY <1>1, Invariant, PTL

(* A complete body is one that met no error; if its end was validated and the *)
(* mode protects it, it is the client's payload.                              *)
THEOREM CompleteBodiesAreIntact == Spec => []CompleteIsIntact
<1>1. ASSUME Intact PROVE CompleteIsIntact
  <2>1. SUFFICES ASSUME Complete
                 PROVE  r.err = NoErr /\ (Validated /\ Protected => delivered = Payload(client.length))
    BY Zenon DEF CompleteIsIntact
  <2>2. /\ delivered \in Seq(Octets) /\ Len(delivered) \in Nat /\ Len(r.hashed) \in Nat
        /\ Len(r.hashed) <= declared /\ declared \in Nat
    BY <1>1, <2>1, DeliveredFirst, Zenon DEF Complete, Intact, Request
  <2>3. r.err = NoErr
    <3>1. SUFFICES ASSUME r.err # NoErr PROVE FALSE
      BY Zenon
    <3>2. guard.err \notin {NoErr, "eof"}
      BY <1>1, <3>1, Zenon DEF Intact, Flow
    <3>3. result # "eof"
      BY <1>1, <3>2, Zenon DEF Intact, Flow
    <3>4. declared # 0 /\ Len(delivered) = declared
      BY <2>1, <3>3, Zenon DEF Complete
    <3>5. PICK rest \in Seq(Octets) : r.hashed = delivered \o rest /\ (rest = <<>> => delivered = <<>>)
      BY <1>1, <3>2, Zenon DEF Intact, Flow
    <3>6. rest # <<>>
      BY <3>4, <3>5
    <3>7. Len(rest) \in Nat \ {0} /\ Len(r.hashed) = Len(delivered) + Len(rest)
      BY <2>2, <3>5, <3>6, EmptySeq, ConcatProperties
    <3>8. QED
      BY <2>2, <3>4, <3>7
  <2>4. ASSUME Validated, Protected PROVE delivered = Payload(client.length)
    <3>1. r.hashed = Payload(client.length)
      BY <1>1, <2>4 DEF Intact, Fits, Validated, Signed
    <3>2. PICK rest \in Seq(Octets) : r.hashed = delivered \o rest
      BY <1>1, DeliveredFirst, Zenon
    <3>3. Len(rest) \in Nat /\ Len(r.hashed) = Len(delivered) + Len(rest)
      BY <2>2, <3>2, LenProperties, ConcatProperties
    <3>4. Len(rest) = 0
      BY <2>1, <2>2, <3>3 DEF Complete
    <3>5. rest = <<>>
      BY <3>4, EmptySeq, Zenon
    <3>6. QED
      BY <2>2, <3>1, <3>2, <3>5, ConcatEmptySeq
  <2>5. QED
    BY <2>3, <2>4, Zenon
<1>2. QED
  BY <1>1, Invariant, PTL

=============================================================================
