----------------------------- MODULE ChunkedBody -----------------------------
(***************************************************************************)
(* How the body of an upload is decoded and checked while it is streamed   *)
(* upstream (internal/sigv4/sigv4.go): awsChunkedReader, which decodes     *)
(* aws-chunked frames and verifies the chain of chunk signatures and the   *)
(* trailer; payloadHashReader, which hashes a plain body; and around       *)
(* either of them trailerGuardReader, which holds back the last byte until *)
(* the end of the stream has been validated.                               *)
(*                                                                         *)
(* A client sends its payload in chunks of any sizes, the transmission may *)
(* damage the stream, and the upstream client reads the decoded bytes with *)
(* buffers of any size.  The upstream can store the object as soon as it   *)
(* has received as many bytes as its Content-Length says.                  *)
(*                                                                         *)
(* The wire is a sequence of tokens: chunk headers and trailer lines with  *)
(* their line ends, payload bytes, CR and LF.  The payload is 1, 2, 3, ... *)
(* so that every byte is told apart; payload bytes are not hexadecimal     *)
(* digits.  A hash stands for what was hashed and a signature for what was *)
(* signed, which for a chunk includes the previous signature: the          *)
(* signature of a chunk is the sequence of the chunks up to it.            *)
(***************************************************************************)
EXTENDS Naturals, Sequences, FiniteSetsExt

CONSTANTS
    Modes,      \* values of x-amz-content-sha256 that clients use
    MaxLength,  \* bound: bytes of payload
    MaxBuffer,  \* bound: buffer of one read
    MaxFaults,  \* bound: faults of the transmission
    maxTrailerLines,
    maxSignedChunkBytes

ASSUME ChunkedBodyAssumption ==
    /\ Modes \subseteq {"signed", "signedTrailer", "unsignedTrailer", "hash"}
    /\ MaxLength \in Nat /\ MaxBuffer \in Nat \ {0} /\ MaxFaults \in Nat
    /\ maxTrailerLines \in Nat \ {0} /\ maxSignedChunkBytes \in Nat \ {0}

VARIABLES
    mode,       \* how the body is protected
    checksums,  \* trailerChecksumsForRequest: the trailing checksums declared
    declared,   \* x-amz-decoded-content-length
    client,     \* the client: bytes sent, last signature, whether it is done
    faults,     \* faults so far
    wire,       \* what the server has not read yet
    ending,     \* how the connection's body ends: "eof" or "broken"
    r,          \* the decoding reader
    guard,      \* trailerGuardReader
    call,       \* buffer of the read in progress, 0 between reads
    delivered,  \* the bytes handed to the upstream
    result      \* "open", or how reading ended: "eof" or an error

vars == <<mode, checksums, declared, client, faults, wire, ending, r, guard, call,
          delivered, result>>

sender == <<mode, checksums, declared, client, faults, ending>>

-----------------------------------------------------------------------------
Payload(n) == [i \in 1 .. n |-> i]

Damaged == 0            \* a byte that was changed on the way

Foreign == MaxLength + 1   \* a byte of the framing, read as payload

(* What a damaged checksum or signature belongs to: nothing the server can *)
(* read, however much the stream is damaged besides.                       *)
Unseen == <<MaxLength + 2>>

Garbled == <<Unseen>>   \* a signature of something else

Header(n, sig) == [k |-> "header", n |-> n, sig |-> sig, eol |-> TRUE]

Line(name, value) == [k |-> "line", name |-> name, value |-> value, eol |-> TRUE]

Byte(b) == [k |-> "byte", b |-> b]

CRLF == <<[k |-> "cr"], [k |-> "lf"]>>

NoErr == "none"

(* Trailers are sorted before they are signed.                             *)
Multiset(s) == [x \in Range(s) |-> Cardinality({i \in DOMAIN s : s[i] = x})]

Signed == mode \in {"signed", "signedTrailer"}

-----------------------------------------------------------------------------
(* The client.                                                             *)

(* The checksums a client can declare in x-amz-trailer.                    *)
trailerChecksumsForRequest ==
    IF mode \in {"signedTrailer", "unsignedTrailer"} THEN {{}, {"crc"}} ELSE {{}}

(* x-amz-decoded-content-length of a payload of n bytes, right or wrong;   *)
(* for a plain body the Content-Length, which HTTP enforces.               *)
parseDecodedContentLength(n) == IF mode = "hash" THEN {n} \ {0} ELSE {n, n + 1}

newAWSChunkedReader ==
    [buf |-> <<>>, remaining |-> 0, needCRLF |-> FALSE, final |-> FALSE, done |-> FALSE,
     decoded |-> 0, prev |-> <<>>, hashed |-> <<>>, err |-> NoErr,
     trailers |-> <<>>, lines |-> maxTrailerLines]

Init ==
    /\ mode \in Modes
    /\ checksums \in trailerChecksumsForRequest
    /\ \E n \in 0 .. MaxLength :
           /\ declared \in parseDecodedContentLength(n)
           /\ client = [length |-> n, sent |-> 0, sig |-> <<>>, done |-> FALSE]
    /\ faults = 0
    /\ wire = <<>>
    /\ ending = "eof"
    /\ r = newAWSChunkedReader
    /\ guard = [carry |-> <<>>, err |-> NoErr]
    /\ call = 0
    /\ delivered = <<>>
    /\ result = "open"

Reading == client.done /\ result = "open"

SendChunk(n) ==
    LET chunk == [i \in 1 .. n |-> client.sent + i]
        sig   == Append(client.sig, chunk)
        bytes == [i \in 1 .. n |-> Byte(chunk[i])]
    IN  /\ client.sent + n <= client.length
        /\ client' = [client EXCEPT !.sent = @ + n, !.sig = sig]
        /\ wire' = wire \o IF mode = "hash" THEN bytes
                           ELSE <<Header(n, IF Signed THEN {sig} ELSE {})>> \o bytes \o CRLF
        /\ UNCHANGED <<mode, checksums, declared, faults, ending, r, guard, call, delivered,
                       result>>

(* The trailer of the signed form may have a blank line before the         *)
(* signature, as minio-go writes it.                                       *)
Trailer(sig, blank) ==
    LET sums == IF checksums = {} THEN <<>> ELSE <<<<"crc", Payload(client.length)>>>>
        rows == [i \in DOMAIN sums |-> Line(sums[i][1], sums[i][2])]
    IN  CASE mode = "signed"          -> CRLF
          [] mode = "unsignedTrailer" -> rows \o CRLF
          [] mode = "signedTrailer"   ->
                 rows \o blank
                      \o <<Line("sig", [chain |-> sig, over |-> Multiset(sums)])>> \o CRLF

SendFinal(blank) ==
    LET sig == Append(client.sig, <<>>)
    IN  /\ ~ client.done
        /\ client.sent = client.length
        /\ mode # "signedTrailer" => blank = <<>>
        /\ client' = [client EXCEPT !.done = TRUE, !.sig = sig]
        /\ wire' = wire \o IF mode = "hash" THEN <<>>
                           ELSE <<Header(0, IF Signed THEN {sig} ELSE {})>> \o Trailer(sig, blank)
        /\ UNCHANGED <<mode, checksums, declared, faults, ending, r, guard, call, delivered,
                       result>>

-----------------------------------------------------------------------------
(* The transmission, before the server reads.                              *)

Fault ==
    /\ client.done
    /\ result = "open" /\ call = 0 /\ delivered = <<>> /\ r.decoded = 0 /\ ~ r.done
    /\ r.remaining = 0 /\ guard.err = NoErr
    /\ faults < MaxFaults
    /\ faults' = faults + 1
    /\ UNCHANGED <<mode, checksums, declared, client, r, guard, call, delivered, result>>

(* The body ends after token i, perhaps before the end of that line.  A    *)
(* plain body is as long as its Content-Length or the connection broke.    *)
Cut(i) ==
    /\ Fault
    /\ i < Len(wire)
    /\ ending' \in IF mode = "hash" THEN {"broken"} ELSE {"eof", "broken"}
    /\ \/ wire' = SubSeq(wire, 1, i)
       \/ /\ i > 0 /\ wire[i].k \in {"header", "line"}
          /\ wire' = [SubSeq(wire, 1, i) EXCEPT ![i].eol = FALSE]

(* The forms that one damaged token can take.                              *)
DamagedForms(t) ==
    CASE t.k = "byte"   -> {[t EXCEPT !.b = Damaged]}
      [] t.k = "header" -> {[t EXCEPT !.n = @ + 1], [t EXCEPT !.n = IF @ = 0 THEN 1 ELSE @ - 1]}
                               \cup IF Signed THEN {[t EXCEPT !.sig = {}],
                                                    [t EXCEPT !.sig = {Garbled}]} ELSE {}
      [] t.k = "line"   -> {[t EXCEPT !.name = "other"],
                            [t EXCEPT !.value = IF t.name = "sig"
                                                THEN [chain |-> Garbled, over |-> <<>>]
                                                ELSE Unseen]}
      [] OTHER          -> {Byte(Foreign)}

Damage(i) ==
    /\ Fault
    /\ i \in DOMAIN wire
    /\ \E t \in DamagedForms(wire[i]) : wire' = [wire EXCEPT ![i] = t]
    /\ UNCHANGED ending

FrameStart(i) == i \in DOMAIN wire /\ wire[i].k \in {"header", "line"}

(* A run of frames is lost, arrives twice or changes places with the next. *)
Misorder(i, j) ==
    /\ Fault
    /\ FrameStart(i) /\ FrameStart(j) /\ i < j
    /\ LET before == SubSeq(wire, 1, i - 1)
           run    == SubSeq(wire, i, j - 1)
           after  == SubSeq(wire, j, Len(wire))
       IN  \/ wire' = before \o after
           \/ wire' = before \o run \o run \o after
           \/ \E m \in j + 1 .. Len(wire) :
                  /\ FrameStart(m)
                  /\ wire' = before \o SubSeq(wire, j, m - 1) \o run
                                    \o SubSeq(wire, m, Len(wire))
    /\ UNCHANGED ending

-----------------------------------------------------------------------------
(* awsChunkedReader, as operators on what is left of the wire.             *)

AsPayload(t) == IF t.k = "byte" THEN t.b ELSE Foreign

EndsLine(t) == t.k = "lf" \/ (t.k \in {"header", "line"} /\ t.eol)

(* readLineBounded: the number of tokens of the next line, 0 at the end of *)
(* the stream.                                                             *)
LineLength(w) == LET ends == {i \in DOMAIN w : EndsLine(w[i])}
                 IN  IF ends = {} THEN 0 ELSE Min(ends)

Blank(line) == line \in {CRLF, <<CRLF[2]>>}

consumeCRLF(w) ==
    IF w = <<>> \/ (Len(w) = 1 /\ w[1].k \in {"byte", "cr", "lf"}) THEN ending
    ELSE IF Len(w) >= 2 /\ SubSeq(w, 1, 2) = CRLF THEN NoErr
    ELSE "missing chunk CRLF"

Rest(w, n) == SubSeq(w, n + 1, Len(w))

(* Mutant: a signature is checked against the chunk alone, not the chain.  *)
VerifyChunkAlone(sig, prev, chunk) == sig[Len(sig)] = chunk

(* verifyNormalizedChunk.                                                  *)
verifyChunk(sig, prev, chunk) == sig = Append(prev, chunk)

verifyTrailerSignature(sig, prev, trailers) ==
    sig = [chain |-> prev, over |-> Multiset(trailers)]

verifyTrailingChecksums(trailers, hashed) ==
    LET given(name) == {trailers[i][2] : i \in {j \in DOMAIN trailers : trailers[j][1] = name}}
    IN  IF \E name \in checksums : given(name) \ {hashed} # {} THEN "checksum mismatch"
        ELSE IF \E name \in checksums : given(name) = {} THEN "missing trailer"
        ELSE NoErr

(* What the guard may ask of the reader: one place of the buffer is for    *)
(* the byte it holds, unless the buffer has only one place.                *)
ReadLimit == IF guard.carry # <<>> /\ call > 1 THEN call - 1 ELSE call

(* Mutant: all that was read is handed on.                                 *)
PassesOn(bytes, e) ==
    [emit |-> guard.carry \o bytes, carry |-> <<>>]

(* trailerGuardReader.Read after the reader returned bytes and error e.    *)
(* Without an error the last byte is held back; with EOF all is released   *)
(* as far as the buffer goes; with another error the last byte is dropped. *)
Release(bytes, e) ==
    LET all   == guard.carry \o bytes
        front == SubSeq(all, 1, Len(all) - 1)
        last  == <<all[Len(all)]>>
    IN  CASE e = NoErr -> [emit |-> front, carry |-> last]
          [] e = "eof" /\ Len(all) <= call -> [emit |-> all, carry |-> <<>>]
          [] e = "eof" /\ Len(all) > call  -> [emit |-> front, carry |-> last]
          [] OTHER -> [emit |-> IF bytes = <<>> THEN <<>> ELSE front, carry |-> <<>>]

(* The read returns what was released; if that is nothing it goes on       *)
(* reading, or returns the error.                                          *)
GuardGets(bytes, e) ==
    LET out == Release(bytes, e)
    IN  /\ guard' = [carry |-> out.carry, err |-> e]
        /\ delivered' = delivered \o out.emit
        /\ call' = IF out.emit = <<>> /\ e = NoErr THEN call ELSE 0
        /\ result' = IF out.emit = <<>> /\ e # NoErr THEN e ELSE result

(* The upstream client reads again.  After an error the guard only         *)
(* releases the byte that EOF has validated.                               *)
Read(p) ==
    /\ Reading /\ call = 0
    /\ \/ /\ guard.err = NoErr
          /\ call' = p
          /\ UNCHANGED <<guard, delivered, result>>
       \/ /\ guard.err = "eof" /\ guard.carry # <<>>
          /\ delivered' = delivered \o guard.carry
          /\ guard' = [guard EXCEPT !.carry = <<>>]
          /\ UNCHANGED <<call, result>>
       \/ /\ guard.err # NoErr /\ guard.carry = <<>>
          /\ result' = guard.err
          /\ UNCHANGED <<guard, delivered, call>>
    /\ UNCHANGED <<sender, wire, r>>

InRead == Reading /\ call > 0

(* The reader returns error e: EOF is not recorded.                        *)
Fail(e, w) ==
    /\ wire' = w
    /\ r' = [r EXCEPT !.buf = <<>>, !.err = IF @ = NoErr /\ e # "eof" THEN e ELSE @]
    /\ GuardGets(<<>>, e)
    /\ UNCHANGED sender

(* The reader goes on with state s.                                        *)
Continue(s, w) ==
    /\ wire' = w
    /\ r' = s
    /\ UNCHANGED <<sender, guard, call, delivered, result>>

(* read: hand out bytes of the verified chunk, or of the unsigned chunk    *)
(* that is being streamed through; the connection may give fewer bytes     *)
(* than there are.                                                         *)
ReadBuffered ==
    /\ InRead /\ r.buf # <<>>
    /\ LET n == Min({ReadLimit, Len(r.buf)})
       IN  /\ r' = [r EXCEPT !.buf = Rest(@, n)]
           /\ GuardGets(SubSeq(r.buf, 1, n), NoErr)
    /\ UNCHANGED <<sender, wire>>

ReadUnsigned(n) ==
    /\ InRead /\ r.remaining > 0
    /\ IF wire = <<>> THEN Fail("unexpected EOF", wire)
       ELSE LET bytes == [i \in 1 .. n |-> AsPayload(wire[i])]
            IN  /\ n <= Min({ReadLimit, r.remaining, Len(wire)})
                /\ wire' = Rest(wire, n)
                /\ r' = [r EXCEPT !.remaining = @ - n, !.decoded = @ + n, !.hashed = @ \o bytes]
                /\ GuardGets(bytes, NoErr)
                /\ UNCHANGED sender

ReadDone == InRead /\ r.done /\ r.buf = <<>> /\ Fail("eof", wire)

AtFrame == InRead /\ r.buf = <<>> /\ r.remaining = 0 /\ ~ r.done /\ ~ r.final /\ mode # "hash"

(* beginChunk, at the line of a chunk header: what it reads, in the order  *)
(* of its checks.  Afterwards either a chunk is open or the trailer is.    *)
BadSignature(h, chunk) ==
    IF ~ Signed THEN NoErr
    ELSE IF h.sig = {} THEN "missing chunk signature"
    ELSE IF \E sig \in h.sig : verifyChunk(sig, r.prev, chunk) THEN NoErr
    ELSE "invalid chunk signature"

FinalChunk(h, w) ==
    LET e == IF BadSignature(h, <<>>) # NoErr THEN BadSignature(h, <<>>)
             ELSE IF r.decoded # declared THEN "length mismatch" ELSE NoErr
    IN  IF e # NoErr THEN Fail(e, w)
        ELSE Continue([r EXCEPT !.final = TRUE, !.needCRLF = FALSE,
                                !.prev = IF Signed THEN Append(@, <<>>) ELSE @], w)

UnsignedChunk(h, w) ==
    Continue([r EXCEPT !.remaining = h.n, !.needCRLF = TRUE], w)

(* The whole chunk is read, then its CRLF, then its signature verified.    *)
SignedChunk(h, w) ==
    LET chunk == [i \in 1 .. h.n |-> AsPayload(w[i])]
        e     == IF h.sig = {} THEN "missing chunk signature"
                 ELSE IF w = <<>> THEN ending
                 ELSE IF Len(w) < h.n THEN "unexpected EOF"
                 ELSE IF consumeCRLF(Rest(w, h.n)) # NoErr THEN consumeCRLF(Rest(w, h.n))
                 ELSE BadSignature(h, chunk)
    IN  IF e # NoErr THEN Fail(e, w)
        ELSE Continue([r EXCEPT !.buf = chunk, !.decoded = @ + h.n, !.hashed = @ \o chunk,
                                !.prev = Append(@, chunk)], Rest(w, h.n + 2))

BeginChunk ==
    /\ AtFrame
    /\ LET crlf == IF r.needCRLF THEN consumeCRLF(wire) ELSE NoErr
           w    == IF r.needCRLF THEN Rest(wire, 2) ELSE wire
           line == SubSeq(w, 1, LineLength(w))
           h    == line[1]
           next == Rest(w, LineLength(w))
       IN  CASE crlf # NoErr -> Fail(crlf, wire)
             [] crlf = NoErr /\ line = <<>> -> Fail(ending, <<>>)
             [] crlf = NoErr /\ line # <<>> /\ (Len(line) > 1 \/ h.k # "header") ->
                    Fail("invalid chunk header", next)
             [] OTHER ->
                    IF h.n = 0 THEN FinalChunk(h, next)
                    ELSE IF Signed /\ h.n > maxSignedChunkBytes
                    THEN Fail("invalid chunk header", next)
                    ELSE IF h.n > declared - r.decoded THEN Fail("length mismatch", next)
                    ELSE IF Signed THEN SignedChunk(h, next)
                    ELSE UnsignedChunk(h, next)

-----------------------------------------------------------------------------
(* finishTrailers.                                                         *)

InTrailer == InRead /\ r.final /\ ~ r.done

(* readLineBounded also refuses a line that is too long.  The lines of a   *)
(* client are far below its bounds (4 KiB for a chunk header, 16 KiB in    *)
(* the trailer); a line of a damaged stream may have any length.           *)
LineTooLong ==
    /\ faults > 0 /\ wire # <<>>
    /\ \/ AtFrame /\ (r.needCRLF => consumeCRLF(wire) = NoErr)
       \/ InTrailer /\ r.lines > 0
    /\ Fail("invalid chunk header", wire)

(* The checks once the section has been read: its signature and checksums. *)
Finish(trailers, sig, w) ==
    LET e == IF mode = "signedTrailer" /\ sig = {} THEN "missing trailer signature"
             ELSE IF mode = "signedTrailer"
                     /\ \A x \in sig : ~ verifyTrailerSignature(x, r.prev, trailers)
             THEN "invalid trailer signature"
             ELSE verifyTrailingChecksums(trailers, r.hashed)
    IN  IF e # NoErr THEN Fail(e, w) ELSE Continue([r EXCEPT !.done = TRUE], w)

(* Mutant: a blank line ends every trailer.                                *)
StopsAtBlank(eof) == TRUE

(* A blank line does not end a signed trailer before its signature.        *)
EndsTrailer(eof) == eof \/ mode # "signedTrailer"

(* readTrailerSection, one line: it ends with a blank line, with the       *)
(* signature of a signed trailer, or with the stream.                      *)
TrailerLine ==
    /\ InTrailer /\ mode # "signed"
    /\ LET eof  == LineLength(wire) = 0
           line == IF eof THEN wire ELSE SubSeq(wire, 1, LineLength(wire))
           w    == IF eof THEN <<>> ELSE Rest(wire, LineLength(wire))
           t    == line[1]
       IN  IF r.lines = 0 THEN Fail("too many trailer lines", wire)
           ELSE IF eof /\ ending # "eof" THEN Fail(ending, w)
           ELSE IF line \in {<<>>, <<CRLF[1]>>} \/ Blank(line)
           THEN IF EndsTrailer(eof) THEN Finish(r.trailers, {}, w)
                ELSE Continue([r EXCEPT !.lines = @ - 1], w)
           ELSE IF Len(line) > 1 \/ t.k # "line" THEN Fail("invalid trailer", w)
           ELSE IF t.name = "sig" /\ mode = "signedTrailer" THEN Finish(r.trailers, {t.value}, w)
           ELSE LET trailers == IF t.name = "sig" THEN r.trailers
                                ELSE Append(r.trailers, <<t.name, t.value>>)
                IN  IF eof THEN Finish(trailers, {}, w)
                    ELSE Continue([r EXCEPT !.trailers = trailers, !.lines = @ - 1], w)

(* consumeTrailers: lines are skipped until a blank one.                   *)
SkipLine ==
    /\ InTrailer /\ mode = "signed"
    /\ LET n == LineLength(wire)
       IN  IF r.lines = 0 THEN Fail("too many trailer lines", wire)
           ELSE IF n = 0 THEN Fail(ending, <<>>)
           ELSE IF Blank(SubSeq(wire, 1, n)) THEN Continue([r EXCEPT !.done = TRUE], Rest(wire, n))
           ELSE Continue([r EXCEPT !.lines = @ - 1], Rest(wire, n))

-----------------------------------------------------------------------------
(* payloadHashReader.Read: the connection may return its last bytes        *)
(* together with the end of the body.                                      *)
ReadHashed(n) ==
    /\ InRead /\ mode = "hash"
    /\ n <= Min({ReadLimit, Len(wire)})
    /\ n = 0 => wire = <<>>
    /\ LET bytes  == [i \in 1 .. n |-> AsPayload(wire[i])]
           hashed == r.hashed \o bytes
       IN  \E end \in (IF n = Len(wire) THEN {ending} ELSE {}) \cup (IF n > 0 THEN {NoErr} ELSE {}) :
               LET e == IF end = "eof" /\ hashed # Payload(client.length)
                        THEN "hash mismatch" ELSE end
               IN  /\ wire' = Rest(wire, n)
                   /\ r' = [r EXCEPT !.hashed = hashed, !.done = (e = "eof"),
                                     !.err = IF e = "eof" THEN @ ELSE e]
                   /\ GuardGets(bytes, e)
                   /\ UNCHANGED sender

-----------------------------------------------------------------------------
Done == result # "open" /\ UNCHANGED vars

ReaderStep ==
    \/ ReadBuffered
    \/ \E n \in 1 .. MaxBuffer : ReadUnsigned(n)
    \/ ReadDone
    \/ BeginChunk
    \/ LineTooLong
    \/ TrailerLine
    \/ SkipLine
    \/ \E n \in 0 .. MaxBuffer : ReadHashed(n)

Client ==
    \/ \E n \in 1 .. MaxLength : SendChunk(n)
    \/ \E blank \in {<<>>, CRLF} : SendFinal(blank)

Transmission ==
    \/ \E i \in 0 .. Len(wire) : Cut(i)
    \/ \E i \in 1 .. Len(wire) : Damage(i)
    \/ \E i, j \in 1 .. Len(wire) : Misorder(i, j)

Next ==
    \/ Client
    \/ Transmission
    \/ \E p \in 1 .. MaxBuffer : Read(p)
    \/ ReaderStep
    \/ Done

(* The upstream client goes on reading, and the reader is never waiting    *)
(* for anything but the wire, whose end is known.                          *)
Fairness == WF_vars(ReaderStep) /\ WF_vars(\E p \in 1 .. MaxBuffer : Read(p))

Spec == Init /\ [][Next]_vars /\ Fairness

-----------------------------------------------------------------------------
(* The upstream holds the whole body and can store the object.  An empty   *)
(* body is read to its end before the upstream call is made                *)
(* (DecodeBodyForS3Write).                                                 *)
Complete ==
    /\ client.done
    /\ IF declared = 0 THEN result = "eof" ELSE Len(delivered) = declared

(* Every validation of the end of the stream has passed.                   *)
Validated == r.done \/ (mode = "signed" /\ r.final)

Protected == mode # "unsignedTrailer" \/ checksums # {}

(* In the signed modes every byte that reaches the upstream is the next    *)
(* byte the client signed, whatever frames were lost, repeated, reordered  *)
(* or changed: a chunk is verified, in its place of the chain, before any  *)
(* of its bytes is handed out (beginChunk).                                *)
OnlySignedBytes == Signed => \E n \in 0 .. client.length : delivered = Payload(n)

(* When the reader has met an error, the upstream is and stays at least    *)
(* one byte short of a complete body, for every split of the reads: "a     *)
(* failed validation leaves the upstream one byte short of Content-Length" *)
(* (trailerGuardReader).  And a complete body whose end was validated is   *)
(* the client's payload, byte for byte, in every mode that protects it.    *)
CompleteIsIntact ==
    Complete =>
        /\ r.err = NoErr
        /\ Validated /\ Protected => delivered = Payload(client.length)

Undamaged == client.done /\ faults = 0 /\ declared = client.length

(* No chunk that has to be verified exceeds the buffer for it.             *)
ChunksFit == Signed => \A i \in DOMAIN client.sig : Len(client.sig[i]) <= maxSignedChunkBytes

(* A stream that arrives as it was sent is delivered completely, whatever  *)
(* the buffers of the reads, the form of the trailer and the sizes of the  *)
(* chunks, as long as signed chunks respect maxSignedChunkBytes; a stream  *)
(* with a larger signed chunk is always refused (beginChunk).              *)
HonestBodyDelivered ==
    /\ (Undamaged /\ ChunksFit) ~> ((Complete /\ Validated) \/ faults > 0)
    /\ (Undamaged /\ ~ ChunksFit) ~> (result = "invalid chunk header" \/ faults > 0)

(* What the comment on trailerGuardReader says without exception: it       *)
(* "delays the final byte of the decoded stream until [...] every          *)
(* end-of-stream validation [...] has passed".                             *)
CompleteIsValidated == Complete => Validated
=============================================================================
