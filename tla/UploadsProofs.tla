--------------------------- MODULE UploadsProofs ---------------------------
(***************************************************************************)
(* What the module Uploads checks on a small instance, proved for every    *)
(* set of request slots, users, buckets and contents, every permission     *)
(* table and every topic setting.                                          *)
(*                                                                         *)
(* None of the four properties is inductive.  The invariant Sound adds to  *)
(* them what makes them so: the shape of a handler between its calls, the  *)
(* numbering of writes, and what a handler knows of the store while other  *)
(* handlers write to it.  The steps fall in three groups.  A quiet step    *)
(* moves one handler and leaves the store and the topics alone, a step of  *)
(* the upstream service applies the call of one handler, and the remaining *)
(* ones produce, append, deliver or crash.  There is one lemma per part of *)
(* Sound, with one step per group.                                         *)
(***************************************************************************)
EXTENDS Uploads, TLAPS

(* The values of the variables.  A version is kept with the number of the  *)
(* write that made it; a result is an upload id, a stored revision or the  *)
(* version that a pop reads.                                               *)
Version ==
    [id : Nat, content : Contents, meta : Metadata, author : Users \cup {Nobody},
     rev : Nat, deleted : BOOLEAN]

StoredRevision == [rev : Nat, bucket : Buckets, version : Nat, etag : Contents]

Event == [rev : Nat, bucket : Buckets, version : Nat, etag : Contents, uploader : Users \cup {Nobody}]

Upload ==
    [bucket : Buckets, meta : Metadata, author : Users \cup {Nobody}, parts : Seq(Contents),
     admin : BOOLEAN]

Result == [rev : Nat] \cup StoredRevision \cup Version

Op ==
    {"none", "PutObject", "CopyObject", "CopyReplace", "CreateMultipartUpload", "UploadPart",
     "UploadPartCopy", "CompleteMultipartUpload", "AbortMultipartUpload", "DeleteObject",
     "PutBucketVersioning", "AdminUpload", "Pop"}

Call ==
    {"none", "PutObject", "CopyObject", "CreateMultipartUpload", "UploadPart", "UploadPartCopy",
     "CompleteMultipartUpload", "AbortMultipartUpload", "DeleteObject", "PutBucketVersioning",
     "GetObject"}

Phase == {"idle", "calling", "applied", "reading", "stored", "notifying", "streaming"}

Handler ==
    [op : Op, phase : Phase, call : Call, user : Users \cup {Nobody}, bucket : Topics,
     source : Topics, content : Contents, meta : Metadata, upload : Nat, parts : Nat,
     result : Result, gone : BOOLEAN, topic : Topics, status : {"on", "suspended"}, version : Nat]

(* The type invariant.                                                     *)
TypeOK ==
    /\ versions \in [Buckets -> SUBSET Version]
    /\ mode \in [Buckets -> {"off", "on", "suspended"}]
    /\ UploadIds \subseteq Nat /\ uploads \in [UploadIds -> Upload]
    /\ lastUpload \in Nat /\ lastWrite \in Nat
    /\ handler \in [Requests -> Handler]
    /\ sending \subseteq [topic : Topics, event : Event]
    /\ topics \in [Topics -> Seq(Event)]
    /\ next \in [Topics -> Nat]
    /\ created \subseteq StoredRevision
    /\ confirmed \subseteq Nat

(* Which calls a request makes, and the phases it goes through.            *)
Shape(h) ==
    /\ h.phase = "idle" => h = Blank
    /\ h.phase # "idle" => h.op # "none" /\ h.bucket \in Buckets
    /\ h.phase = "reading" => h.op = "AdminUpload"
    /\ h.phase \in {"stored", "notifying"} => h.call \in Creations
    /\ h.phase = "streaming" => h.op = "Pop"
    /\ h.op = "Pop" <=> h.call = "GetObject"
    /\ h.call = "PutObject" => h.op \in {"PutObject", "AdminUpload"}
    /\ h.op = "CopyReplace" => h.call = "CopyObject"
    /\ h.call \in {"CopyObject", "UploadPartCopy"} => h.source \in Buckets
    /\ h.call = "CreateMultipartUpload" => h.op \in {"CreateMultipartUpload", "AdminUpload"}
    /\ h.op = "AdminUpload" =>
           h.call \in {"CreateMultipartUpload", "UploadPart", "PutObject",
                       "CompleteMultipartUpload", "AbortMultipartUpload"}

Shapes == \A r \in Requests : Shape(handler[r])

(* Writes are numbered, and an immutable version id tells its write.       *)
Numbered ==
    /\ \A c \in created : c.rev <= lastWrite
    /\ \A c, d \in created : c.rev = d.rev => c = d
    /\ \A c \in created : c.version > Null => c.version = Null + c.rev
    /\ \A n \in confirmed : n <= lastWrite
    /\ \A b \in Buckets : \A v \in versions[b] : v.id > Null =>
           /\ v.id = Null + v.rev
           /\ ~ v.deleted =>
                  [rev |-> v.rev, bucket |-> b, version |-> v.id, etag |-> v.content] \in created

(* What a handler knows of the object it stored.                           *)
Knows(h) ==
    /\ h.call \in Creations /\ h.phase \in {"applied", "stored", "notifying"} =>
           h.result \in created /\ h.result.bucket = h.bucket
    /\ h.phase = "notifying" => topicsFor(h.bucket) \X {h.result.rev} \subseteq produced

(* Events follow the store.                                                *)
Knowing == Announced /\ \A r \in Requests : Knows(handler[r])

(* A handler that sends metadata sends what ensureUploadedByMetadata made  *)
(* of it.                                                                  *)
Stamped(h) ==
    h.op \in {"PutObject", "CopyReplace", "CreateMultipartUpload", "AdminUpload"} =>
        h.meta.by = h.user /\ h.meta.complete

(* Stored metadata is truthful because what handlers send is.              *)
Stamping == MetadataTruthful /\ \A r \in Requests : Stamped(handler[r])

(* v is the object that the event e names.                                 *)
Exact(e, v) == ~ v.deleted /\ v.content = e.etag /\ (e.version > Null => v.rev = e.rev)

(* What a pop knows while it reads: the topic's next event is still the    *)
(* one it started with, its caller may read the bucket, and what it holds  *)
(* is the object of that event.                                            *)
Reads(h) ==
    h.op = "Pop" =>
        /\ next[h.topic] < Len(topics[h.topic])
        /\ PopEvent(h).bucket = h.bucket
        /\ CanRead(h.user, h.bucket)
        /\ h.phase \in {"applied", "streaming"} => Exact(PopEvent(h), h.result)

(* Pops of one topic and group do not overlap.                             *)
Popping ==
    /\ PopExact
    /\ \A r \in Requests : Reads(handler[r])
    /\ \A r, q \in Requests :
           handler[r].op = "Pop" /\ handler[q].op = "Pop" /\ handler[r].topic = handler[q].topic
               => r = q

(* What a browser upload knows of its multipart upload: it has no id       *)
(* before the answer to CreateMultipartUpload, and the upload is gone once *)
(* it was completed or aborted.                                            *)
Holding(h) ==
    h.op = "AdminUpload" =>
        /\ h.upload <= lastUpload
        /\ h.call = "CreateMultipartUpload" /\ h.phase # "reading" => h.upload = NoUpload
        /\ h.call = "CreateMultipartUpload" /\ h.phase = "applied" => h.result.rev \in 1 .. lastUpload
        /\ \/ h.call = "CompleteMultipartUpload" /\ h.phase \in {"applied", "stored", "notifying"}
           \/ h.call = "AbortMultipartUpload" /\ h.phase = "applied"
           => h.upload \notin UploadIds

(* Upload ids are never used again.                                        *)
Cleaning ==
    /\ AdminCleansUp
    /\ UploadIds \subseteq 1 .. lastUpload
    /\ \A r \in Requests : Holding(handler[r])

(* The inductive invariant.                                                *)
Sound == TypeOK /\ Shapes /\ Numbered /\ Knowing /\ Stamping /\ Popping /\ Cleaning

(* k is the handler h at a later moment of the same request.               *)
SameRequest(h, k) ==
    /\ k \in Handler
    /\ k.op = h.op /\ k.user = h.user /\ k.bucket = h.bucket /\ k.source = h.source
    /\ k.meta = h.meta /\ k.topic = h.topic

-----------------------------------------------------------------------------
(* New handlers.                                                           *)

(* The handler of a free slot.                                             *)
LEMMA BlankType == Blank \in Handler
<1>1. [rev |-> 0] \in Result
  BY DEF Result
<1>2. [by |-> Nobody, complete |-> TRUE] \in Metadata
  BY DEF Metadata
<1>3. Global \in Topics /\ Empty \in Contents
  BY UploadsAssumption DEF Topics
<1>4. "none" \in Op /\ "none" \in Call /\ "idle" \in Phase
  BY DEF Op, Call, Phase
<1> QED
  BY <1>1, <1>2, <1>3, <1>4 DEF Blank, Handler, NoResult, NoUpload, Absent

(* A request before its first call, with the fields common to all.         *)
LEMMA RequestSet ==
    ASSUME NEW op \in Op, NEW call \in Call, NEW u \in Users, NEW b \in Buckets
    PROVE  LET h == Request(op, call, u, b)
           IN  /\ h \in Handler /\ h.op = op /\ h.call = call /\ h.user = u /\ h.bucket = b
               /\ h.phase = "calling" /\ h.upload = NoUpload /\ h.result = NoResult
<1>1. "calling" \in Phase /\ u \in Users \cup {Nobody} /\ b \in Topics
  BY DEF Phase, Topics
<1>2. Blank.upload = NoUpload /\ Blank.result = NoResult
  BY DEF Blank
<1> QED
  BY <1>1, <1>2, BlankType, Zenon DEF Request, Handler

-----------------------------------------------------------------------------
(* Arrivals.                                                               *)

(* A request that just arrived and sent its first call.                    *)
Fresh(k) ==
    /\ k \in Handler /\ k.phase = "calling" /\ k.result = NoResult
    /\ Shape(k) /\ Stamped(k) /\ k.op # "Pop"
    /\ k.op = "AdminUpload" => k.call = "CreateMultipartUpload" /\ k.upload = NoUpload

(* A request without metadata that reads no other object. *)
LEMMA FreshPlain ==
    ASSUME NEW k \in Handler, k.phase = "calling", k.result = NoResult, k.bucket \in Buckets,
           k.op = k.call,
           k.op \in {"UploadPart", "CompleteMultipartUpload", "AbortMultipartUpload",
                     "DeleteObject", "PutBucketVersioning"}
    PROVE  Fresh(k)
BY DEF Fresh, Shape, Stamped, Creations

(* A request that copies another object with its metadata, or into a part. *)
LEMMA FreshCopy ==
    ASSUME NEW k \in Handler, k.phase = "calling", k.result = NoResult, k.bucket \in Buckets,
           k.op = k.call, k.op \in {"CopyObject", "UploadPartCopy"}, k.source \in Buckets
    PROVE  Fresh(k)
BY DEF Fresh, Shape, Stamped, Creations

(* A copy with new metadata. *)
LEMMA FreshReplace ==
    ASSUME NEW k \in Handler, k.phase = "calling", k.result = NoResult, k.bucket \in Buckets,
           k.op = "CopyReplace", k.call = "CopyObject", k.source \in Buckets,
           k.meta.by = k.user, k.meta.complete
    PROVE  Fresh(k)
BY DEF Fresh, Shape, Stamped, Creations

(* An upload. *)
LEMMA FreshUpload ==
    ASSUME NEW k \in Handler, k.phase = "calling", k.result = NoResult, k.bucket \in Buckets,
           k.op = k.call, k.op \in {"PutObject", "CreateMultipartUpload"},
           k.meta.by = k.user, k.meta.complete
    PROVE  Fresh(k)
BY DEF Fresh, Shape, Stamped, Creations

(* A browser upload. *)
LEMMA FreshAdmin ==
    ASSUME NEW k \in Handler, k.phase = "calling", k.result = NoResult, k.bucket \in Buckets,
           k.op = "AdminUpload", k.call = "CreateMultipartUpload", k.upload = NoUpload,
           k.meta.by = k.user, k.meta.complete
    PROVE  Fresh(k)
BY DEF Fresh, Shape, Stamped, Creations

(* ensureUploadedByMetadata stamps the metadata with the caller.           *)
LEMMA Stamp ==
    ASSUME NEW m \in Metadata, NEW u \in Users,
           ~ missingRequiredUploadMetadata(ensureUploadedByMetadata(m, u))
    PROVE  LET n == ensureUploadedByMetadata(m, u)
           IN  n \in Metadata /\ n.by = u /\ n.complete
BY Zenon DEF Metadata, ensureUploadedByMetadata, missingRequiredUploadMetadata

(* Every S3 request and every browser request starts out as a fresh one.   *)
LEMMA ArrivesFresh ==
    ASSUME TypeOK, NEW r \in Requests, Arrives(r)
    PROVE  \E k : Fresh(k) /\ Start(r, k)
<1>1. PICK u \in Users, b \in Buckets :
        \/ \E c \in Contents, m \in Metadata : handlePutObject(r, u, b, c, m)
        \/ \E source \in Buckets, replace \in BOOLEAN, m \in Metadata :
               handleCopyObject(r, u, b, source, replace, m)
        \/ \E m \in Metadata : handleCreateMultipart(r, u, b, m)
        \/ \E id \in 1..lastUpload :
               \/ \E c \in Contents : handleUploadPart(r, u, b, id, c)
               \/ \E source \in Buckets : handleUploadPartCopy(r, u, b, id, source)
               \/ handleCompleteMultipart(r, u, b, id)
               \/ handleAbortMultipart(r, u, b, id)
        \/ \E id \in {Absent} \cup {v.id : v \in versions[b]} :
               handleDeleteObject(r, u, b, id) \/ handleDeleteObjects(r, u, b, id)
        \/ handleAdminBucketDelete(r, u, b)
        \/ \E status \in {"on", "suspended"} : handlePutBucketVersioning(r, u, b, status)
        \/ \E m \in Metadata : handleAdminBucketUpload(r, u, b, m)
  BY Zenon DEF Arrives
<1>2. {Absent} \cup {v.id : v \in versions[b]} \subseteq Nat
  BY DEF TypeOK, Version, Absent
<1>3. (\A i \in 1..lastUpload : i \in Nat) /\ Absent \in Nat
  BY DEF Absent
<1>4. \A x \in Buckets : x \in Topics
  BY DEF Topics
<1>5. ASSUME NEW c \in Contents, NEW m \in Metadata, handlePutObject(r, u, b, c, m)
      PROVE  \E k : Fresh(k) /\ Start(r, k)
  <2> DEFINE h == Request("PutObject", "PutObject", u, b)
             k == [h EXCEPT !.content = c, !.meta = ensureUploadedByMetadata(m, u)]
  <2>1. /\ h \in Handler /\ h.op = "PutObject" /\ h.call = "PutObject" /\ h.user = u
        /\ h.bucket = b /\ h.phase = "calling" /\ h.upload = NoUpload /\ h.result = NoResult
    <3>1. "PutObject" \in Op /\ "PutObject" \in Call
      BY Zenon DEF Op, Call
    <3> QED
      BY <3>1, RequestSet
  <2>2. LET n == ensureUploadedByMetadata(m, u) IN n \in Metadata /\ n.by = u /\ n.complete
    BY <1>5, Stamp, Zenon DEF handlePutObject
  <2>3. Start(r, k)
    BY <1>5, Zenon DEF handlePutObject
  <2> HIDE DEF h
  <2>4. Fresh(k)
    <3>1. /\ k \in Handler /\ k.op = "PutObject" /\ k.call = "PutObject" /\ k.phase = "calling"
          /\ k.user = u /\ k.bucket = b /\ k.result = NoResult
      BY <1>3, <1>4, <2>1, <2>2, Zenon DEF Handler
    <3>2. k.meta.by = u /\ k.meta.complete
      BY <1>3, <1>4, <2>1, <2>2, Zenon DEF Handler
    <3> HIDE DEF k
    <3> QED
      BY <3>1, <3>2, FreshUpload
  <2> QED
    BY <2>3, <2>4, Zenon
<1>6. ASSUME NEW source \in Buckets, NEW m \in Metadata, handleCopyObject(r, u, b, source, TRUE, m)
      PROVE  \E k : Fresh(k) /\ Start(r, k)
  <2> DEFINE h == Request("CopyReplace", "CopyObject", u, b)
             k == [h EXCEPT !.source = source, !.meta = ensureUploadedByMetadata(m, u)]
  <2>1. /\ h \in Handler /\ h.op = "CopyReplace" /\ h.call = "CopyObject" /\ h.user = u
        /\ h.bucket = b /\ h.phase = "calling" /\ h.upload = NoUpload /\ h.result = NoResult
    <3>1. "CopyReplace" \in Op /\ "CopyObject" \in Call
      BY Zenon DEF Op, Call
    <3> QED
      BY <3>1, RequestSet
  <2>2. LET n == ensureUploadedByMetadata(m, u) IN n \in Metadata /\ n.by = u /\ n.complete
    BY <1>6, Stamp, Zenon DEF handleCopyObject
  <2>3. Start(r, k)
    BY <1>6, Zenon DEF handleCopyObject
  <2> HIDE DEF h
  <2>4. Fresh(k)
    <3>1. /\ k \in Handler /\ k.op = "CopyReplace" /\ k.call = "CopyObject" /\ k.phase = "calling"
          /\ k.user = u /\ k.bucket = b /\ k.result = NoResult
      BY <1>3, <1>4, <2>1, <2>2, Zenon DEF Handler
    <3>2. k.meta.by = u /\ k.meta.complete /\ k.source \in Buckets
      BY <1>3, <1>4, <2>1, <2>2, Zenon DEF Handler
    <3> HIDE DEF k
    <3> QED
      BY <3>1, <3>2, FreshReplace
  <2> QED
    BY <2>3, <2>4, Zenon
<1>7. ASSUME NEW source \in Buckets, NEW m \in Metadata, handleCopyObject(r, u, b, source, FALSE, m)
      PROVE  \E k : Fresh(k) /\ Start(r, k)
  <2> DEFINE h == Request("CopyObject", "CopyObject", u, b)
             k == [h EXCEPT !.source = source]
  <2>1. /\ h \in Handler /\ h.op = "CopyObject" /\ h.call = "CopyObject" /\ h.user = u
        /\ h.bucket = b /\ h.phase = "calling" /\ h.upload = NoUpload /\ h.result = NoResult
    <3>1. "CopyObject" \in Op /\ "CopyObject" \in Call
      BY Zenon DEF Op, Call
    <3> QED
      BY <3>1, RequestSet
  <2>3. Start(r, k)
    BY <1>7, Zenon DEF handleCopyObject
  <2> HIDE DEF h
  <2>4. Fresh(k)
    <3>1. /\ k \in Handler /\ k.op = "CopyObject" /\ k.call = "CopyObject" /\ k.phase = "calling"
          /\ k.user = u /\ k.bucket = b /\ k.result = NoResult
      BY <1>3, <1>4, <2>1, Zenon DEF Handler
    <3>2. k.source \in Buckets
      BY <1>3, <1>4, <2>1, Zenon DEF Handler
    <3> HIDE DEF k
    <3> QED
      BY <3>1, <3>2, FreshCopy
  <2> QED
    BY <2>3, <2>4, Zenon
<1>8. ASSUME NEW m \in Metadata, handleCreateMultipart(r, u, b, m)
      PROVE  \E k : Fresh(k) /\ Start(r, k)
  <2> DEFINE h == Request("CreateMultipartUpload", "CreateMultipartUpload", u, b)
             k == [h EXCEPT !.meta = ensureUploadedByMetadata(m, u)]
  <2>1. /\ h \in Handler /\ h.op = "CreateMultipartUpload" /\ h.call = "CreateMultipartUpload"
        /\ h.user = u
        /\ h.bucket = b /\ h.phase = "calling" /\ h.upload = NoUpload /\ h.result = NoResult
    <3>1. "CreateMultipartUpload" \in Op /\ "CreateMultipartUpload" \in Call
      BY Zenon DEF Op, Call
    <3> QED
      BY <3>1, RequestSet
  <2>2. LET n == ensureUploadedByMetadata(m, u) IN n \in Metadata /\ n.by = u /\ n.complete
    BY <1>8, Stamp, Zenon DEF handleCreateMultipart
  <2>3. Start(r, k)
    BY <1>8, Zenon DEF handleCreateMultipart
  <2> HIDE DEF h
  <2>4. Fresh(k)
    <3>1. /\ k \in Handler /\ k.op = "CreateMultipartUpload" /\ k.call = "CreateMultipartUpload"
          /\ k.phase = "calling"
          /\ k.user = u /\ k.bucket = b /\ k.result = NoResult
      BY <1>3, <1>4, <2>1, <2>2, Zenon DEF Handler
    <3>2. k.meta.by = u /\ k.meta.complete
      BY <1>3, <1>4, <2>1, <2>2, Zenon DEF Handler
    <3> HIDE DEF k
    <3> QED
      BY <3>1, <3>2, FreshUpload
  <2> QED
    BY <2>3, <2>4, Zenon
<1>9. ASSUME NEW id \in 1..lastUpload, NEW c \in Contents, handleUploadPart(r, u, b, id, c)
      PROVE  \E k : Fresh(k) /\ Start(r, k)
  <2> DEFINE h == Request("UploadPart", "UploadPart", u, b)
             k == [h EXCEPT !.upload = id, !.content = c]
  <2>1. /\ h \in Handler /\ h.op = "UploadPart" /\ h.call = "UploadPart" /\ h.user = u
        /\ h.bucket = b /\ h.phase = "calling" /\ h.upload = NoUpload /\ h.result = NoResult
    <3>1. "UploadPart" \in Op /\ "UploadPart" \in Call
      BY Zenon DEF Op, Call
    <3> QED
      BY <3>1, RequestSet
  <2>3. Start(r, k)
    BY <1>9, Zenon DEF handleUploadPart
  <2> HIDE DEF h
  <2>4. Fresh(k)
    <3>1. /\ k \in Handler /\ k.op = "UploadPart" /\ k.call = "UploadPart" /\ k.phase = "calling"
          /\ k.user = u /\ k.bucket = b /\ k.result = NoResult
      BY <1>3, <1>4, <2>1, Zenon DEF Handler
    <3> HIDE DEF k
    <3> QED
      BY <3>1, FreshPlain
  <2> QED
    BY <2>3, <2>4, Zenon
<1>10. ASSUME NEW id \in 1..lastUpload, NEW source \in Buckets, handleUploadPartCopy(r, u, b, id, source)
      PROVE  \E k : Fresh(k) /\ Start(r, k)
  <2> DEFINE h == Request("UploadPartCopy", "UploadPartCopy", u, b)
             k == [h EXCEPT !.upload = id, !.source = source]
  <2>1. /\ h \in Handler /\ h.op = "UploadPartCopy" /\ h.call = "UploadPartCopy" /\ h.user = u
        /\ h.bucket = b /\ h.phase = "calling" /\ h.upload = NoUpload /\ h.result = NoResult
    <3>1. "UploadPartCopy" \in Op /\ "UploadPartCopy" \in Call
      BY Zenon DEF Op, Call
    <3> QED
      BY <3>1, RequestSet
  <2>3. Start(r, k)
    BY <1>10, Zenon DEF handleUploadPartCopy
  <2> HIDE DEF h
  <2>4. Fresh(k)
    <3>1. /\ k \in Handler /\ k.op = "UploadPartCopy" /\ k.call = "UploadPartCopy"
          /\ k.phase = "calling"
          /\ k.user = u /\ k.bucket = b /\ k.result = NoResult
      BY <1>3, <1>4, <2>1, Zenon DEF Handler
    <3>2. k.source \in Buckets
      BY <1>3, <1>4, <2>1, Zenon DEF Handler
    <3> HIDE DEF k
    <3> QED
      BY <3>1, <3>2, FreshCopy
  <2> QED
    BY <2>3, <2>4, Zenon
<1>11. ASSUME NEW id \in 1..lastUpload, handleCompleteMultipart(r, u, b, id)
      PROVE  \E k : Fresh(k) /\ Start(r, k)
  <2> DEFINE h == Request("CompleteMultipartUpload", "CompleteMultipartUpload", u, b)
             k == [h EXCEPT !.upload = id]
  <2>1. /\ h \in Handler /\ h.op = "CompleteMultipartUpload" /\ h.call = "CompleteMultipartUpload"
        /\ h.user = u
        /\ h.bucket = b /\ h.phase = "calling" /\ h.upload = NoUpload /\ h.result = NoResult
    <3>1. "CompleteMultipartUpload" \in Op /\ "CompleteMultipartUpload" \in Call
      BY Zenon DEF Op, Call
    <3> QED
      BY <3>1, RequestSet
  <2>3. Start(r, k)
    BY <1>11, Zenon DEF handleCompleteMultipart
  <2> HIDE DEF h
  <2>4. Fresh(k)
    <3>1. /\ k \in Handler /\ k.op = "CompleteMultipartUpload" /\ k.call = "CompleteMultipartUpload"
          /\ k.phase = "calling"
          /\ k.user = u /\ k.bucket = b /\ k.result = NoResult
      BY <1>3, <1>4, <2>1, Zenon DEF Handler
    <3> HIDE DEF k
    <3> QED
      BY <3>1, FreshPlain
  <2> QED
    BY <2>3, <2>4, Zenon
<1>12. ASSUME NEW id \in 1..lastUpload, handleAbortMultipart(r, u, b, id)
      PROVE  \E k : Fresh(k) /\ Start(r, k)
  <2> DEFINE h == Request("AbortMultipartUpload", "AbortMultipartUpload", u, b)
             k == [h EXCEPT !.upload = id]
  <2>1. /\ h \in Handler /\ h.op = "AbortMultipartUpload" /\ h.call = "AbortMultipartUpload"
        /\ h.user = u
        /\ h.bucket = b /\ h.phase = "calling" /\ h.upload = NoUpload /\ h.result = NoResult
    <3>1. "AbortMultipartUpload" \in Op /\ "AbortMultipartUpload" \in Call
      BY Zenon DEF Op, Call
    <3> QED
      BY <3>1, RequestSet
  <2>3. Start(r, k)
    BY <1>12, Zenon DEF handleAbortMultipart
  <2> HIDE DEF h
  <2>4. Fresh(k)
    <3>1. /\ k \in Handler /\ k.op = "AbortMultipartUpload" /\ k.call = "AbortMultipartUpload"
          /\ k.phase = "calling"
          /\ k.user = u /\ k.bucket = b /\ k.result = NoResult
      BY <1>3, <1>4, <2>1, Zenon DEF Handler
    <3> HIDE DEF k
    <3> QED
      BY <3>1, FreshPlain
  <2> QED
    BY <2>3, <2>4, Zenon
<1>13. ASSUME NEW id \in Nat, handleDeleteObject(r, u, b, id)
      PROVE  \E k : Fresh(k) /\ Start(r, k)
  <2> DEFINE h == Request("DeleteObject", "DeleteObject", u, b)
             k == [h EXCEPT !.version = id]
  <2>1. /\ h \in Handler /\ h.op = "DeleteObject" /\ h.call = "DeleteObject" /\ h.user = u
        /\ h.bucket = b /\ h.phase = "calling" /\ h.upload = NoUpload /\ h.result = NoResult
    <3>1. "DeleteObject" \in Op /\ "DeleteObject" \in Call
      BY Zenon DEF Op, Call
    <3> QED
      BY <3>1, RequestSet
  <2>3. Start(r, k)
    BY <1>13, Zenon DEF handleDeleteObject
  <2> HIDE DEF h
  <2>4. Fresh(k)
    <3>1. /\ k \in Handler /\ k.op = "DeleteObject" /\ k.call = "DeleteObject"
          /\ k.phase = "calling"
          /\ k.user = u /\ k.bucket = b /\ k.result = NoResult
      BY <1>3, <1>4, <2>1, Zenon DEF Handler
    <3> HIDE DEF k
    <3> QED
      BY <3>1, FreshPlain
  <2> QED
    BY <2>3, <2>4, Zenon
<1>14. ASSUME NEW id \in Nat, handleDeleteObjects(r, u, b, id)
      PROVE  \E k : Fresh(k) /\ Start(r, k)
  <2> DEFINE h == Request("DeleteObject", "DeleteObject", u, b)
             k == [h EXCEPT !.version = id]
  <2>1. /\ h \in Handler /\ h.op = "DeleteObject" /\ h.call = "DeleteObject" /\ h.user = u
        /\ h.bucket = b /\ h.phase = "calling" /\ h.upload = NoUpload /\ h.result = NoResult
    <3>1. "DeleteObject" \in Op /\ "DeleteObject" \in Call
      BY Zenon DEF Op, Call
    <3> QED
      BY <3>1, RequestSet
  <2>3. Start(r, k)
    BY <1>14, Zenon DEF handleDeleteObjects
  <2> HIDE DEF h
  <2>4. Fresh(k)
    <3>1. /\ k \in Handler /\ k.op = "DeleteObject" /\ k.call = "DeleteObject"
          /\ k.phase = "calling"
          /\ k.user = u /\ k.bucket = b /\ k.result = NoResult
      BY <1>3, <1>4, <2>1, Zenon DEF Handler
    <3> HIDE DEF k
    <3> QED
      BY <3>1, FreshPlain
  <2> QED
    BY <2>3, <2>4, Zenon
<1>15. ASSUME handleAdminBucketDelete(r, u, b)
      PROVE  \E k : Fresh(k) /\ Start(r, k)
  <2> DEFINE h == Request("DeleteObject", "DeleteObject", u, b)
             k == [h EXCEPT !.version = Absent]
  <2>1. /\ h \in Handler /\ h.op = "DeleteObject" /\ h.call = "DeleteObject" /\ h.user = u
        /\ h.bucket = b /\ h.phase = "calling" /\ h.upload = NoUpload /\ h.result = NoResult
    <3>1. "DeleteObject" \in Op /\ "DeleteObject" \in Call
      BY Zenon DEF Op, Call
    <3> QED
      BY <3>1, RequestSet
  <2>3. Start(r, k)
    BY <1>15, Zenon DEF handleAdminBucketDelete
  <2> HIDE DEF h
  <2>4. Fresh(k)
    <3>1. /\ k \in Handler /\ k.op = "DeleteObject" /\ k.call = "DeleteObject"
          /\ k.phase = "calling"
          /\ k.user = u /\ k.bucket = b /\ k.result = NoResult
      BY <1>3, <1>4, <2>1, Zenon DEF Handler
    <3> HIDE DEF k
    <3> QED
      BY <3>1, FreshPlain
  <2> QED
    BY <2>3, <2>4, Zenon
<1>16. ASSUME NEW status \in {"on", "suspended"}, handlePutBucketVersioning(r, u, b, status)
      PROVE  \E k : Fresh(k) /\ Start(r, k)
  <2> DEFINE h == Request("PutBucketVersioning", "PutBucketVersioning", u, b)
             k == [h EXCEPT !.status = status]
  <2>1. /\ h \in Handler /\ h.op = "PutBucketVersioning" /\ h.call = "PutBucketVersioning"
        /\ h.user = u
        /\ h.bucket = b /\ h.phase = "calling" /\ h.upload = NoUpload /\ h.result = NoResult
    <3>1. "PutBucketVersioning" \in Op /\ "PutBucketVersioning" \in Call
      BY Zenon DEF Op, Call
    <3> QED
      BY <3>1, RequestSet
  <2>3. Start(r, k)
    BY <1>16, Zenon DEF handlePutBucketVersioning
  <2> HIDE DEF h
  <2>4. Fresh(k)
    <3>1. /\ k \in Handler /\ k.op = "PutBucketVersioning" /\ k.call = "PutBucketVersioning"
          /\ k.phase = "calling"
          /\ k.user = u /\ k.bucket = b /\ k.result = NoResult
      BY <1>3, <1>4, <2>1, Zenon DEF Handler
    <3> HIDE DEF k
    <3> QED
      BY <3>1, FreshPlain
  <2> QED
    BY <2>3, <2>4, Zenon
<1>17. ASSUME NEW m \in Metadata, handleAdminBucketUpload(r, u, b, m)
      PROVE  \E k : Fresh(k) /\ Start(r, k)
  <2> DEFINE h == Request("AdminUpload", "CreateMultipartUpload", u, b)
             k == [h EXCEPT !.meta = ensureUploadedByMetadata(m, u)]
  <2>1. /\ h \in Handler /\ h.op = "AdminUpload" /\ h.call = "CreateMultipartUpload" /\ h.user = u
        /\ h.bucket = b /\ h.phase = "calling" /\ h.upload = NoUpload /\ h.result = NoResult
    <3>1. "AdminUpload" \in Op /\ "CreateMultipartUpload" \in Call
      BY Zenon DEF Op, Call
    <3> QED
      BY <3>1, RequestSet
  <2>2. LET n == ensureUploadedByMetadata(m, u) IN n \in Metadata /\ n.by = u /\ n.complete
    BY <1>17, Stamp, Zenon DEF handleAdminBucketUpload, ensureUploadedByMetadata
  <2>3. Start(r, k)
    BY <1>17, Zenon DEF handleAdminBucketUpload, ensureUploadedByMetadata
  <2> HIDE DEF h
  <2>4. Fresh(k)
    <3>1. /\ k \in Handler /\ k.op = "AdminUpload" /\ k.call = "CreateMultipartUpload"
          /\ k.phase = "calling"
          /\ k.user = u /\ k.bucket = b /\ k.result = NoResult
      BY <1>3, <1>4, <2>1, <2>2, Zenon DEF Handler
    <3>2. k.meta.by = u /\ k.meta.complete /\ k.upload = NoUpload
      BY <1>3, <1>4, <2>1, <2>2, Zenon DEF Handler
    <3> HIDE DEF k
    <3> QED
      BY <3>1, <3>2, FreshAdmin
  <2> QED
    BY <2>3, <2>4, Zenon
<1> QED
  BY <1>1, <1>2, <1>5, <1>6, <1>7, <1>8, <1>9, <1>10, <1>11, <1>12, <1>13, <1>14,
     <1>15, <1>16, <1>17, Zenon

-----------------------------------------------------------------------------
(* Moves.                                                                  *)

(* k is the handler h after a step of its request.                         *)
Later(h, k, phase, call, upload, result) ==
    SameRequest(h, k) /\ k.phase = phase /\ k.call = call /\ k.upload = upload /\ k.result = result

(* What an upstream answer may hold.                                       *)
LEMMA ResultTypes ==
    /\ NoResult \in Result
    /\ \A i \in Nat : [rev |-> i] \in Result
    /\ \A x \in Result : x.rev \in Nat
<1>1. NoResult \in Result /\ \A i \in Nat : [rev |-> i] \in Result
  BY DEF Result, NoResult
<1>2. \A x \in Result : x.rev \in Nat
  BY DEF Result, StoredRevision, Version
<1> QED
  BY <1>1, <1>2

(* A step of one handler leaves the others alone.                          *)
LEMMA Slots ==
    ASSUME TypeOK, NEW r \in Requests, NEW k, Becomes(r, k)
    PROVE  /\ \A q \in Requests : handler'[q] = IF q = r THEN k ELSE handler[q]
           /\ k \in Handler => handler' \in [Requests -> Handler]
BY Zenon DEF TypeOK, Becomes

(* handlePopAPI starts a pop of the next record of its topic.              *)
LEMMA PopArrives ==
    ASSUME TypeOK, NEW r \in Requests, NEW u \in Users, NEW t \in Topics, handlePopAPI(r, u, t)
    PROVE  LET e == topics[t][next[t] + 1]
           IN  /\ e \in Event /\ next[t] < Len(topics[t])
               /\ \E k \in Handler :
                      /\ Start(r, k)
                      /\ k.op = "Pop" /\ k.call = "GetObject" /\ k.phase = "calling"
                      /\ k.user = u /\ k.bucket = e.bucket /\ k.topic = t /\ k.result = NoResult
<1> DEFINE e == topics[t][next[t] + 1]
           h == Request("Pop", "GetObject", u, e.bucket)
           k == [h EXCEPT !.topic = t]
<1>1. next[t] < Len(topics[t])
  BY Zenon DEF handlePopAPI
<1>2. e \in Event
  BY <1>1 DEF TypeOK
<1>3. e.bucket \in Buckets
  BY <1>2 DEF Event
<1>4. "Pop" \in Op /\ "GetObject" \in Call
  BY Zenon DEF Op, Call
<1>5. /\ h \in Handler /\ h.op = "Pop" /\ h.call = "GetObject" /\ h.user = u
      /\ h.bucket = e.bucket /\ h.phase = "calling" /\ h.result = NoResult
  BY <1>3, <1>4, RequestSet
<1>6. Start(r, k)
  BY Zenon DEF handlePopAPI
<1> HIDE DEF h
<1>7. /\ k \in Handler /\ k.op = "Pop" /\ k.call = "GetObject" /\ k.phase = "calling"
      /\ k.user = u /\ k.bucket = e.bucket /\ k.topic = t /\ k.result = NoResult
  BY <1>5, Zenon DEF Handler
<1> HIDE DEF k
<1> QED
  BY <1>1, <1>2, <1>6, <1>7, Zenon

(* The names of phases and calls that steps set.                           *)
LEMMA Names ==
    /\ "calling" \in Phase /\ "applied" \in Phase /\ "reading" \in Phase /\ "stored" \in Phase
    /\ "notifying" \in Phase /\ "streaming" \in Phase
    /\ "AbortMultipartUpload" \in Call /\ "UploadPart" \in Call /\ "PutObject" \in Call
    /\ "CompleteMultipartUpload" \in Call
BY Zenon DEF Phase, Call

(* An upstream call takes effect.                                          *)
LEMMA AppliedMoves ==
    ASSUME TypeOK, NEW r \in Requests, NEW x \in Result, Applied(r, x)
    PROVE  \E k : /\ Becomes(r, k)
                  /\ Later(handler[r], k, "applied", handler[r].call, handler[r].upload, x)
<1> DEFINE h == handler[r]
           k == [h EXCEPT !.phase = "applied", !.result = x]
<1>1. h \in Handler
  BY Zenon DEF TypeOK
<1>2. Becomes(r, k)
  BY Zenon DEF Applied
<1> HIDE DEF h
<1>3. Later(h, k, "applied", h.call, h.upload, x)
  BY <1>1, Names, Zenon DEF Later, SameRequest, Handler
<1> QED
  BY <1>2, <1>3, Zenon DEF h

(* The deferred abort of a browser upload.                                 *)
LEMMA AbortMoves ==
    ASSUME NEW r \in Requests, NEW h \in Handler, Abort(r, h)
    PROVE  \E k : /\ Becomes(r, k)
                  /\ Later(h, k, "calling", "AbortMultipartUpload", h.upload, NoResult)
<1> DEFINE k == [h EXCEPT !.call = "AbortMultipartUpload", !.phase = "calling", !.result = NoResult]
<1>1. Becomes(r, k)
  BY Zenon DEF Abort
<1>2. Later(h, k, "calling", "AbortMultipartUpload", h.upload, NoResult)
  BY Names, ResultTypes, Zenon DEF Later, SameRequest, Handler
<1> QED
  BY <1>1, <1>2, Zenon

(* The handler gets its answer: it goes on, or is done.                    *)
LEMMA AnsweredMoves ==
    ASSUME TypeOK, NEW r \in Requests, Answered(r)
    PROVE  LET h == handler[r]
           IN  \E k : /\ Becomes(r, k)
                      /\ \/ h.call \in Creations /\ Later(h, k, "stored", h.call, h.upload, h.result)
                         \/ /\ h.op = "AdminUpload" /\ h.call = "CreateMultipartUpload"
                            /\ Later(h, k, "reading", h.call, h.result.rev, h.result)
                         \/ /\ h.op = "AdminUpload" /\ h.call = "UploadPart"
                            /\ Later(h, k, "reading", h.call, h.upload, h.result)
                         \/ h.op = "Pop" /\ Later(h, k, "streaming", h.call, h.upload, h.result)
                         \/ /\ h.call \notin Creations /\ h.op # "Pop" /\ k = Blank
                            /\ h.op = "AdminUpload" => h.call \notin {"CreateMultipartUpload", "UploadPart"}
<1> DEFINE h == handler[r]
           Goal == \E k :
               /\ Becomes(r, k)
               /\ \/ h.call \in Creations /\ Later(h, k, "stored", h.call, h.upload, h.result)
                  \/ /\ h.op = "AdminUpload" /\ h.call = "CreateMultipartUpload"
                     /\ Later(h, k, "reading", h.call, h.result.rev, h.result)
                  \/ /\ h.op = "AdminUpload" /\ h.call = "UploadPart"
                     /\ Later(h, k, "reading", h.call, h.upload, h.result)
                  \/ h.op = "Pop" /\ Later(h, k, "streaming", h.call, h.upload, h.result)
                  \/ /\ h.call \notin Creations /\ h.op # "Pop" /\ k = Blank
                     /\ h.op = "AdminUpload" => h.call \notin {"CreateMultipartUpload", "UploadPart"}
<1>1. h \in Handler /\ h.result.rev \in Nat
  <2>1. h \in Handler
    BY Zenon DEF TypeOK
  <2>2. h.result \in Result
    BY <2>1 DEF Handler
  <2> QED
    BY <2>1, <2>2, ResultTypes
<1>2. \/ h.call \in Creations /\ Becomes(r, [h EXCEPT !.phase = "stored"])
      \/ /\ h.op = "AdminUpload" /\ h.call = "CreateMultipartUpload"
         /\ Becomes(r, [h EXCEPT !.phase = "reading", !.upload = h.result.rev])
      \/ /\ h.op = "AdminUpload" /\ h.call = "UploadPart"
         /\ Becomes(r, [h EXCEPT !.phase = "reading", !.parts = 1])
      \/ h.op = "Pop" /\ Becomes(r, [h EXCEPT !.phase = "streaming"])
      \/ /\ h.call \notin Creations /\ h.op # "Pop" /\ Becomes(r, Blank)
         /\ h.op = "AdminUpload" => h.call \notin {"CreateMultipartUpload", "UploadPart"}
  BY Zenon DEF Answered, Finish
<1> HIDE DEF h
<1>3. Later(h, [h EXCEPT !.phase = "stored"], "stored", h.call, h.upload, h.result)
  BY <1>1, Names, Zenon DEF Later, SameRequest, Handler
<1>4. Later(h, [h EXCEPT !.phase = "reading", !.upload = h.result.rev], "reading", h.call,
            h.result.rev, h.result)
  BY <1>1, Names, Zenon DEF Later, SameRequest, Handler
<1>5. Later(h, [h EXCEPT !.phase = "reading", !.parts = 1], "reading", h.call, h.upload, h.result)
  <2>1. 1 \in Nat
    OBVIOUS
  <2> QED
    BY <1>1, <2>1, Names, Zenon DEF Later, SameRequest, Handler
<1>6. Later(h, [h EXCEPT !.phase = "streaming"], "streaming", h.call, h.upload, h.result)
  BY <1>1, Names, Zenon DEF Later, SameRequest, Handler
<1>7. Goal
  BY <1>2, <1>3, <1>4, <1>5, <1>6, Zenon
<1> QED
  BY <1>7, Zenon DEF h

(* The call fails: a browser upload that has an id cleans up, every other  *)
(* request is done.                                                        *)
LEMMA CallFailsMoves ==
    ASSUME TypeOK, NEW r \in Requests, CallFails(r)
    PROVE  LET h == handler[r]
           IN  \E k : /\ Becomes(r, k)
                      /\ \/ /\ NeedsCleanup(h)
                            /\ Later(h, k, "calling", "AbortMultipartUpload", h.upload, NoResult)
                         \/ ~ NeedsCleanup(h) /\ k = Blank
<1>1. handler[r] \in Handler
  BY Zenon DEF TypeOK
<1>2. CASE NeedsCleanup(handler[r])
  <2>1. Abort(r, handler[r])
    BY <1>2, Zenon DEF CallFails
  <2> QED
    BY <1>1, <1>2, <2>1, AbortMoves, Zenon
<1>3. CASE ~ NeedsCleanup(handler[r])
  <2>1. Becomes(r, Blank)
    BY <1>3, Zenon DEF CallFails, Finish
  <2> QED
    BY <1>3, <2>1, Zenon
<1> QED
  BY <1>2, <1>3, Zenon

(* The SDK sends the call again.                                           *)
LEMMA SDKRetriesMoves ==
    ASSUME TypeOK, NEW r \in Requests, SDKRetries(r)
    PROVE  \E k : /\ Becomes(r, k)
                  /\ Later(handler[r], k, "calling", handler[r].call, handler[r].upload, NoResult)
<1> DEFINE h == handler[r]
           k == [h EXCEPT !.phase = "calling", !.result = NoResult]
<1>1. h \in Handler
  BY Zenon DEF TypeOK
<1>2. Becomes(r, k)
  BY Zenon DEF SDKRetries
<1> HIDE DEF h
<1>3. Later(h, k, "calling", h.call, h.upload, NoResult)
  BY <1>1, Names, ResultTypes, Zenon DEF Later, SameRequest, Handler
<1> QED
  BY <1>2, <1>3, Zenon DEF h

(* A browser upload sends its next call.                                   *)
LEMMA AdminCallMoves ==
    ASSUME TypeOK, NEW r \in Requests, NEW c \in Call, NEW d \in Contents, AdminCall(r, c, d)
    PROVE  \E k : Becomes(r, k) /\ Later(handler[r], k, "calling", c, handler[r].upload, NoResult)
<1> DEFINE h == handler[r]
           k == [h EXCEPT !.call = c, !.phase = "calling", !.content = d, !.result = NoResult]
<1>1. h \in Handler
  BY Zenon DEF TypeOK
<1>2. Becomes(r, k)
  BY Zenon DEF AdminCall
<1> HIDE DEF h
<1>3. Later(h, k, "calling", c, h.upload, NoResult)
  BY <1>1, Names, ResultTypes, Zenon DEF Later, SameRequest, Handler
<1> QED
  BY <1>2, <1>3, Zenon DEF h

(* The client of a stored object leaves.                                   *)
LEMMA ClientLeavesMoves ==
    ASSUME TypeOK, NEW r \in Requests, ClientLeaves(r)
    PROVE  LET h == handler[r]
           IN  \E k : Becomes(r, k) /\ Later(h, k, "stored", h.call, h.upload, h.result)
<1> DEFINE h == handler[r]
           k == [h EXCEPT !.gone = TRUE]
<1>1. h \in Handler /\ h.phase = "stored"
  BY Zenon DEF TypeOK, ClientLeaves
<1>2. Becomes(r, k)
  BY Zenon DEF ClientLeaves
<1> HIDE DEF h
<1>3. Later(h, k, "stored", h.call, h.upload, h.result)
  BY <1>1, Zenon DEF Later, SameRequest, Handler
<1> QED
  BY <1>2, <1>3, Zenon DEF h

(* The events of a stored object are handed to the producer.               *)
LEMMA notifyUploadMoves ==
    ASSUME TypeOK, NEW r \in Requests, notifyUpload(r)
    PROVE  LET h == handler[r]
           IN  \E k : Becomes(r, k) /\ Later(h, k, "notifying", h.call, h.upload, h.result)
<1> DEFINE h == handler[r]
           k == [h EXCEPT !.phase = "notifying"]
<1>1. h \in Handler
  BY Zenon DEF TypeOK
<1>2. Becomes(r, k)
  BY Zenon DEF notifyUpload
<1> HIDE DEF h
<1>3. Later(h, k, "notifying", h.call, h.upload, h.result)
  BY <1>1, Names, Zenon DEF Later, SameRequest, Handler
<1> QED
  BY <1>2, <1>3, Zenon DEF h

(* The wait for Kafka is over: a browser upload of an empty file aborts    *)
(* its multipart upload, every other request is done.                      *)
LEMMA NotifiedMoves ==
    ASSUME TypeOK, NEW r \in Requests, Notified(r)
    PROVE  LET h == handler[r]
           IN  \E k : /\ Becomes(r, k)
                      /\ \/ /\ h.op = "AdminUpload" /\ h.call = "PutObject"
                            /\ Later(h, k, "calling", "AbortMultipartUpload", h.upload, NoResult)
                         \/ ~ (h.op = "AdminUpload" /\ h.call = "PutObject") /\ k = Blank
<1>1. handler[r] \in Handler
  BY Zenon DEF TypeOK
<1>2. CASE handler[r].op = "AdminUpload" /\ handler[r].call = "PutObject"
  <2>1. Abort(r, handler[r])
    BY <1>2, Zenon DEF Notified
  <2> QED
    BY <1>1, <1>2, <2>1, AbortMoves, Zenon
<1>3. CASE ~ (handler[r].op = "AdminUpload" /\ handler[r].call = "PutObject")
  <2>1. Becomes(r, Blank)
    BY <1>3, Zenon DEF Notified, Finish
  <2> QED
    BY <1>3, <2>1, Zenon
<1> QED
  BY <1>2, <1>3, Zenon

-----------------------------------------------------------------------------
(* The upstream service.                                                   *)

TruthfulMeta(meta, author) == meta.by = author /\ (author # Nobody => meta.complete)

(* The call of slot r stores a new revision.                               *)
Writes(r, content, meta, author) ==
    /\ handler[r].call \in Creations
    /\ Store(handler[r].bucket, content, meta, author)
    /\ Applied(r, Stored(handler[r].bucket, content))
    /\ lastUpload' = lastUpload
    /\ \/ /\ handler[r].call = "CompleteMultipartUpload"
          /\ handler[r].upload \in UploadIds /\ Drop(handler[r].upload)
       \/ handler[r].call # "CompleteMultipartUpload" /\ uploads' = uploads

(* The call of slot r stores a part.                                       *)
SendsPart(r, content) ==
    /\ handler[r].call \in {"UploadPart", "UploadPartCopy"}
    /\ handler[r].upload \in UploadIds
    /\ uploads' = [uploads EXCEPT ![handler[r].upload].parts = <<content>>]
    /\ Applied(r, NoResult)
    /\ UNCHANGED <<versions, mode, lastWrite, created, lastUpload>>

(* The metadata of a new revision is that of the request, of the source of *)
(* a copy, or of the multipart upload.                                     *)
LEMMA WritesCases ==
    ASSUME TypeOK, Shapes, Stamping, NEW r \in Requests, handler[r].phase = "calling",
           ApplyPut(r, handler[r]) \/ ApplyCopy(r, handler[r]) \/ ApplyComplete(r, handler[r])
    PROVE  \E content \in Contents, meta \in Metadata, author \in Users \cup {Nobody} :
               TruthfulMeta(meta, author) /\ Writes(r, content, meta, author)
<1> DEFINE h == handler[r]
           Goal == \E content \in Contents, meta \in Metadata, author \in Users \cup {Nobody} :
                       TruthfulMeta(meta, author) /\ Writes(r, content, meta, author)
<1>1. /\ h \in Handler /\ Shape(h) /\ Stamped(h)
      /\ h.content \in Contents /\ h.meta \in Metadata /\ h.user \in Users \cup {Nobody}
  <2>1. h \in Handler /\ Shape(h) /\ Stamped(h)
    BY Zenon DEF TypeOK, Shapes, Stamping
  <2> QED
    BY <2>1 DEF Handler
<1>2. /\ "PutObject" \in Creations /\ "CopyObject" \in Creations
      /\ "CompleteMultipartUpload" \in Creations
  BY Zenon DEF Creations
<1>3. CASE ApplyPut(r, h)
  <2>1. h.call = "PutObject" /\ h.call # "CompleteMultipartUpload"
    BY <1>3 DEF ApplyPut
  <2>2. TruthfulMeta(h.meta, h.user)
    BY <1>1, <2>1 DEF Shape, Stamped, TruthfulMeta
  <2>3. Writes(r, h.content, h.meta, h.user)
    BY <1>2, <1>3, <2>1, Zenon DEF ApplyPut, Writes
  <2> QED
    BY <1>1, <2>2, <2>3, Zenon
<1>4. CASE ApplyCopy(r, h)
  <2>1. h.call = "CopyObject" /\ h.call # "CompleteMultipartUpload" /\ h.source \in Buckets
    BY <1>1, <1>4 DEF ApplyCopy, Shape
  <2>2. PICK v \in versions[h.source] :
               /\ IF h.op = "CopyReplace"
                  THEN Store(h.bucket, v.content, h.meta, h.user)
                  ELSE Store(h.bucket, v.content, v.meta, v.author)
               /\ Applied(r, Stored(h.bucket, v.content))
    BY <1>4, Zenon DEF ApplyCopy
  <2>3. v \in Version
    BY <2>1, <2>2, Zenon DEF TypeOK
  <2>4. v.content \in Contents /\ v.meta \in Metadata /\ v.author \in Users \cup {Nobody}
    BY <2>3 DEF Version
  <2>5. UNCHANGED <<uploads, lastUpload>>
    BY <1>4, Zenon DEF ApplyCopy
  <2>6. CASE h.op = "CopyReplace"
    <3>1. TruthfulMeta(h.meta, h.user)
      BY <1>1, <2>6 DEF Stamped, TruthfulMeta
    <3>2. Writes(r, v.content, h.meta, h.user)
      BY <1>2, <2>1, <2>2, <2>5, <2>6, Zenon DEF Writes
    <3> QED
      BY <1>1, <2>4, <3>1, <3>2, Zenon
  <2>7. CASE h.op # "CopyReplace"
    <3>1. TruthfulMeta(v.meta, v.author)
      BY <2>1, <2>2, Zenon DEF Stamping, MetadataTruthful, TruthfulMeta
    <3>2. Writes(r, v.content, v.meta, v.author)
      BY <1>2, <2>1, <2>2, <2>5, <2>7, Zenon DEF Writes
    <3> QED
      BY <1>1, <2>4, <3>1, <3>2, Zenon
  <2> QED
    BY <2>6, <2>7, Zenon
<1>5. CASE ApplyComplete(r, h)
  <2> DEFINE up == uploads[h.upload]
  <2>1. /\ h.call = "CompleteMultipartUpload" /\ h.upload \in UploadIds /\ up.parts # <<>>
        /\ Store(h.bucket, up.parts[1], up.meta, up.author)
        /\ Applied(r, Stored(h.bucket, up.parts[1]))
        /\ Drop(h.upload) /\ lastUpload' = lastUpload
    BY <1>5, Zenon DEF ApplyComplete, Addressed
  <2>2. up \in Upload
    BY <2>1, Zenon DEF TypeOK
  <2>3. up.parts[1] \in Contents /\ up.meta \in Metadata /\ up.author \in Users \cup {Nobody}
    BY <2>1, <2>2 DEF Upload
  <2>4. TruthfulMeta(up.meta, up.author)
    BY <2>1, Zenon DEF Stamping, MetadataTruthful, TruthfulMeta
  <2>5. Writes(r, up.parts[1], up.meta, up.author)
    BY <1>2, <2>1, Zenon DEF Writes
  <2> HIDE DEF up
  <2> QED
    BY <2>3, <2>4, <2>5, Zenon
<1> QED
  BY <1>3, <1>4, <1>5, Zenon

(* A part comes from the request, or from the current version of a source. *)
LEMMA PartCases ==
    ASSUME TypeOK, Shapes, NEW r \in Requests, handler[r].phase = "calling",
           ApplyPart(r, handler[r]) \/ ApplyPartCopy(r, handler[r])
    PROVE  \E content \in Contents : SendsPart(r, content)
<1> DEFINE h == handler[r]
<1>1. h \in Handler /\ Shape(h) /\ h.content \in Contents
  <2>1. h \in Handler /\ Shape(h)
    BY Zenon DEF TypeOK, Shapes
  <2> QED
    BY <2>1 DEF Handler
<1>2. CASE ApplyPart(r, h)
  <2>1. SendsPart(r, h.content)
    BY <1>2, Zenon DEF ApplyPart, Addressed, SendsPart
  <2> QED
    BY <1>1, <2>1, Zenon
<1>3. CASE ApplyPartCopy(r, h)
  <2>1. h.source \in Buckets
    BY <1>1, <1>3 DEF ApplyPartCopy, Shape
  <2>2. PICK v \in versions[h.source] : uploads' = [uploads EXCEPT ![h.upload].parts = <<v.content>>]
    BY <1>3, Zenon DEF ApplyPartCopy
  <2>3. v.content \in Contents
    <3>1. v \in Version
      BY <2>1, <2>2, Zenon DEF TypeOK
    <3> QED
      BY <3>1 DEF Version
  <2>4. SendsPart(r, v.content)
    BY <1>3, <2>2, Zenon DEF ApplyPartCopy, Addressed, SendsPart
  <2> QED
    BY <2>3, <2>4, Zenon
<1> QED
  BY <1>2, <1>3, Zenon

(* What the upstream service may do for the call of slot r.                *)
LEMMA UpstreamCases ==
    ASSUME TypeOK, Shapes, Stamping, NEW r \in Requests, UpstreamApplies(r)
    PROVE  /\ handler[r].phase = "calling"
           /\ UNCHANGED <<sending, topics, next, counts, history, excused>>
           /\ \/ \E content \in Contents, meta \in Metadata, author \in Users \cup {Nobody} :
                     TruthfulMeta(meta, author) /\ Writes(r, content, meta, author)
              \/ \E content \in Contents : SendsPart(r, content)
              \/ ApplyCreate(r, handler[r]) \/ ApplyAbort(r, handler[r])
              \/ ApplyDelete(r, handler[r]) \/ ApplyVersioning(r, handler[r])
              \/ ApplyGet(r, handler[r])
<1>1. /\ handler[r].phase = "calling"
      /\ UNCHANGED <<sending, topics, next, counts, history, excused>>
  BY Zenon DEF UpstreamApplies
<1>2. \/ ApplyPut(r, handler[r]) \/ ApplyCopy(r, handler[r]) \/ ApplyCreate(r, handler[r])
      \/ ApplyPart(r, handler[r]) \/ ApplyPartCopy(r, handler[r]) \/ ApplyComplete(r, handler[r])
      \/ ApplyAbort(r, handler[r]) \/ ApplyDelete(r, handler[r])
      \/ ApplyVersioning(r, handler[r]) \/ ApplyGet(r, handler[r])
  BY Zenon DEF UpstreamApplies
<1> QED
  BY <1>1, <1>2, WritesCases, PartCases, Zenon

(* What the store says of a new revision.                                  *)
LEMMA StoredType ==
    ASSUME TypeOK, NEW b \in Buckets, NEW content \in Contents
    PROVE  /\ Revision \in Nat /\ NewId(b) \in Nat
           /\ Stored(b, content) \in StoredRevision /\ Stored(b, content) \in Result
<1>1. Revision \in Nat
  BY DEF TypeOK, Revision
<1>2. NewId(b) \in Nat /\ ReportedId(b) \in Nat
  BY <1>1 DEF NewId, ReportedId, Null, Absent
<1>3. Stored(b, content) \in StoredRevision
  BY <1>1, <1>2, Zenon DEF Stored, StoredRevision
<1> QED
  BY <1>1, <1>2, <1>3, Zenon DEF Result

(* The call of slot r took effect.                                         *)
LEMMA UpstreamMoves ==
    ASSUME TypeOK, Shapes, Stamping, NEW r \in Requests, UpstreamApplies(r)
    PROVE  LET h == handler[r]
           IN  /\ h.phase = "calling"
               /\ \E k, x : Becomes(r, k) /\ Later(h, k, "applied", h.call, h.upload, x)
<1> DEFINE h == handler[r]
           Goal == \E x \in Result : Applied(r, x)
<1>1. h \in Handler /\ Shape(h) /\ h.phase = "calling" /\ h.bucket \in Buckets
  <2>1. h \in Handler /\ Shape(h) /\ h.phase = "calling"
    BY Zenon DEF TypeOK, Shapes, UpstreamApplies
  <2> QED
    BY <2>1 DEF Shape
<1>2. ASSUME NEW content \in Contents, NEW meta, NEW author, Writes(r, content, meta, author)
      PROVE  Goal
  BY <1>1, <1>2, StoredType, Zenon DEF Writes
<1>3. ASSUME NEW content \in Contents, SendsPart(r, content)
      PROVE  Goal
  BY <1>3, ResultTypes, Zenon DEF SendsPart
<1>4. ASSUME ApplyCreate(r, h)
      PROVE  Goal
  <2>1. Applied(r, [rev |-> lastUpload'])
    BY <1>4, Zenon DEF ApplyCreate
  <2>2. [rev |-> lastUpload'] \in Result
    BY <1>4, ResultTypes DEF ApplyCreate, TypeOK
  <2> QED
    BY <2>1, <2>2, Zenon
<1>5. ASSUME ApplyAbort(r, h) \/ ApplyDelete(r, h) \/ ApplyVersioning(r, h)
      PROVE  Goal
  <2>1. Applied(r, NoResult)
    BY <1>5, Zenon DEF ApplyAbort, ApplyDelete, ApplyVersioning
  <2> QED
    BY <2>1, ResultTypes, Zenon
<1>6. ASSUME ApplyGet(r, h)
      PROVE  Goal
  <2>1. PICK v \in versions[h.bucket] : Applied(r, v)
    BY <1>6, Zenon DEF ApplyGet
  <2>2. v \in Result
    <3>1. v \in Version
      BY <1>1, <2>1, Zenon DEF TypeOK
    <3> QED
      BY <3>1, Zenon DEF Result
  <2> QED
    BY <2>1, <2>2, Zenon
<1>7. PICK x \in Result : Applied(r, x)
  BY <1>2, <1>3, <1>4, <1>5, <1>6, UpstreamCases, Zenon
<1> QED
  BY <1>1, <1>7, AppliedMoves, Zenon

-----------------------------------------------------------------------------
(* Control.                                                                *)

(* A free slot has the right shape.                                        *)
LEMMA BlankShape == Shape(Blank)
<1>1. /\ Blank.op = "none" /\ Blank.call = "none" /\ Blank.phase = "idle"
  BY Zenon DEF Blank
<1> HIDE DEF Blank
<1> QED
  BY <1>1 DEF Shape, Creations

(* A request keeps its shape as long as only a browser upload changes its  *)
(* call.                                                                   *)
LEMMA ShapeLater ==
    ASSUME NEW h \in Handler, Shape(h), h.phase # "idle",
           NEW k, NEW p, NEW c, NEW i, NEW x, Later(h, k, p, c, i, x), p # "idle",
           p = "reading" => h.op = "AdminUpload",
           p \in {"stored", "notifying"} => c \in Creations,
           p = "streaming" => h.op = "Pop",
           c # h.call => /\ h.op = "AdminUpload"
                         /\ c \in {"UploadPart", "PutObject", "CompleteMultipartUpload",
                                   "AbortMultipartUpload"}
    PROVE  Shape(k) /\ k \in Handler
<1>1. /\ k \in Handler /\ k.op = h.op /\ k.bucket = h.bucket /\ k.source = h.source
      /\ k.phase = p /\ k.call = c
  BY Zenon DEF Later, SameRequest
<1>2. CASE c = h.call
  BY <1>1, <1>2 DEF Shape
<1>3. CASE c # h.call
  BY <1>1, <1>3 DEF Shape
<1> QED
  BY <1>1, <1>2, <1>3, Zenon

(* The handlers keep their type and shape.                                 *)
LEMMA ShapesNext ==
    ASSUME TypeOK, Shapes, Stamping, Next
    PROVE  handler' \in [Requests -> Handler] /\ Shapes'
<1> DEFINE Goal == handler' \in [Requests -> Handler] /\ Shapes'
<1>0. \A r \in Requests : handler[r] \in Handler /\ Shape(handler[r])
  BY Zenon DEF TypeOK, Shapes
<1>1. ASSUME NEW r \in Requests, NEW k \in Handler, Shape(k), Becomes(r, k)
      PROVE  Goal
  <2>1. \A q \in Requests : Shape(handler'[q])
    <3> TAKE q \in Requests
    <3>1. handler'[q] = k \/ handler'[q] = handler[q]
      BY <1>1, Slots
    <3> QED
      BY <1>0, <1>1, <3>1, Zenon
  <2>2. handler' \in [Requests -> Handler]
    BY <1>1, Slots, Zenon
  <2> QED
    BY <2>1, <2>2, Zenon DEF Shapes, Shape
<1>2. ASSUME NEW r \in Requests, Becomes(r, Blank)
      PROVE  Goal
  BY <1>1, <1>2, BlankType, BlankShape, Zenon
<1>3. ASSUME NEW r \in Requests, Arrives(r)
      PROVE  Goal
  <2>1. PICK k : Fresh(k) /\ Start(r, k)
    BY <1>3, ArrivesFresh, Zenon
  <2> QED
    BY <1>1, <2>1, Zenon DEF Fresh, Start, Becomes
<1>4. ASSUME NEW r \in Requests, NEW u \in Users, NEW t \in Topics, handlePopAPI(r, u, t)
      PROVE  Goal
  <2>1. PICK k \in Handler :
             /\ Start(r, k)
             /\ k.op = "Pop" /\ k.call = "GetObject" /\ k.phase = "calling"
             /\ k.bucket = topics[t][next[t] + 1].bucket
    BY <1>4, PopArrives
  <2>2. k.bucket \in Buckets
    BY <1>4, <2>1, PopArrives DEF Event
  <2>3. Shape(k)
    BY <2>1, <2>2 DEF Shape, Creations
  <2> QED
    BY <1>1, <2>1, <2>3, Zenon DEF Start, Becomes
<1>5. ASSUME NEW r \in Requests, UpstreamApplies(r)
      PROVE  Goal
  <2>1. PICK k, x : Becomes(r, k)
                    /\ Later(handler[r], k, "applied", handler[r].call, handler[r].upload, x)
    BY <1>5, UpstreamMoves, Zenon
  <2>2. handler[r].phase = "calling"
    BY <1>5, UpstreamMoves, Zenon
  <2>3. Shape(k) /\ k \in Handler
    BY <1>0, <2>1, <2>2, ShapeLater
  <2> QED
    BY <1>1, <2>1, <2>3, Zenon
<1>6. ASSUME NEW r \in Requests, Answered(r)
      PROVE  Goal
  <2> DEFINE h == handler[r]
  <2>1. h.phase = "applied" /\ h \in Handler /\ Shape(h)
    BY <1>0, <1>6, Zenon DEF Answered
  <2>2. PICK k : /\ Becomes(r, k)
                 /\ \/ h.call \in Creations /\ Later(h, k, "stored", h.call, h.upload, h.result)
                    \/ /\ h.op = "AdminUpload"
                       /\ Later(h, k, "reading", h.call, h.result.rev, h.result)
                    \/ /\ h.op = "AdminUpload"
                       /\ Later(h, k, "reading", h.call, h.upload, h.result)
                    \/ h.op = "Pop" /\ Later(h, k, "streaming", h.call, h.upload, h.result)
                    \/ k = Blank
    BY <1>6, AnsweredMoves, Zenon
  <2> HIDE DEF h
  <2>3. CASE h.call \in Creations /\ Later(h, k, "stored", h.call, h.upload, h.result)
    BY <1>1, <2>1, <2>2, <2>3, ShapeLater
  <2>4. CASE h.op = "AdminUpload" /\ Later(h, k, "reading", h.call, h.result.rev, h.result)
    BY <1>1, <2>1, <2>2, <2>4, ShapeLater
  <2>5. CASE h.op = "AdminUpload" /\ Later(h, k, "reading", h.call, h.upload, h.result)
    BY <1>1, <2>1, <2>2, <2>5, ShapeLater
  <2>6. CASE h.op = "Pop" /\ Later(h, k, "streaming", h.call, h.upload, h.result)
    BY <1>1, <2>1, <2>2, <2>6, ShapeLater
  <2>7. CASE k = Blank
    BY <1>2, <2>2, <2>7, Zenon
  <2> QED
    BY <2>2, <2>3, <2>4, <2>5, <2>6, <2>7, Zenon
<1>7. ASSUME NEW r \in Requests, handler[r].phase # "idle", handler[r].op = "AdminUpload", NEW k,
             Becomes(r, k),
             Later(handler[r], k, "calling", "AbortMultipartUpload", handler[r].upload, NoResult)
      PROVE  Goal
  <2>1. Shape(k) /\ k \in Handler
    BY <1>0, <1>7, ShapeLater
  <2> QED
    BY <1>1, <1>7, <2>1, Zenon
<1>8. ASSUME NEW r \in Requests, CallFails(r)
      PROVE  Goal
  <2> DEFINE h == handler[r]
  <2>1. PICK k : /\ Becomes(r, k)
                 /\ \/ /\ NeedsCleanup(h)
                       /\ Later(h, k, "calling", "AbortMultipartUpload", h.upload, NoResult)
                    \/ k = Blank
    BY <1>8, CallFailsMoves, Zenon
  <2>2. h.phase # "idle"
    BY <1>8 DEF CallFails
  <2> QED
    BY <1>2, <1>7, <2>1, <2>2, Zenon DEF NeedsCleanup
<1>9. ASSUME NEW r \in Requests, SDKRetries(r)
      PROVE  Goal
  <2>1. PICK k : /\ Becomes(r, k)
                 /\ Later(handler[r], k, "calling", handler[r].call, handler[r].upload, NoResult)
    BY <1>9, SDKRetriesMoves, Zenon
  <2>2. handler[r].phase = "applied"
    BY <1>9, Zenon DEF SDKRetries
  <2>3. Shape(k) /\ k \in Handler
    BY <1>0, <2>1, <2>2, ShapeLater
  <2> QED
    BY <1>1, <2>1, <2>3, Zenon
<1>10. ASSUME NEW r \in Requests, handler[r].phase = "reading", NEW d \in Contents,
              NEW c \in {"UploadPart", "PutObject", "CompleteMultipartUpload"}, AdminCall(r, c, d)
       PROVE  Goal
  <2>1. c \in Call
    BY Zenon DEF Call
  <2>2. PICK k : Becomes(r, k) /\ Later(handler[r], k, "calling", c, handler[r].upload, NoResult)
    BY <1>10, <2>1, AdminCallMoves, Zenon
  <2>3. handler[r].op = "AdminUpload"
    BY <1>0, <1>10 DEF Shape
  <2>4. Shape(k) /\ k \in Handler
    BY <1>0, <1>10, <2>2, <2>3, ShapeLater
  <2> QED
    BY <1>1, <2>2, <2>4, Zenon
<1>11. ASSUME NEW r \in Requests, NEW c \in Contents, AdminUploadPart(r, c)
       PROVE  Goal
  BY <1>10, <1>11, Zenon DEF AdminUploadPart
<1>12. ASSUME NEW r \in Requests, AdminUploadEnds(r)
       PROVE  Goal
  <2>1. Empty \in Contents
    BY UploadsAssumption, Zenon
  <2> QED
    BY <1>10, <1>12, <2>1, Zenon DEF AdminUploadEnds
<1>13. ASSUME NEW r \in Requests, AdminUploadRejected(r)
       PROVE  Goal
  <2>1. handler[r].phase = "reading" /\ handler[r].phase # "idle"
    BY <1>13 DEF AdminUploadRejected
  <2>2. handler[r].op = "AdminUpload"
    BY <1>0, <2>1 DEF Shape
  <2> QED
    BY <1>0, <1>7, <1>13, <2>1, <2>2, AbortMoves, Zenon DEF AdminUploadRejected
<1>14. ASSUME NEW r \in Requests, ClientLeaves(r)
       PROVE  Goal
  <2> DEFINE h == handler[r]
  <2>1. PICK k : Becomes(r, k) /\ Later(h, k, "stored", h.call, h.upload, h.result)
    BY <1>14, ClientLeavesMoves, Zenon
  <2>2. h.phase = "stored" /\ h.call \in Creations
    BY <1>0, <1>14 DEF ClientLeaves, Shape
  <2>3. Shape(k) /\ k \in Handler
    BY <1>0, <2>1, <2>2, ShapeLater
  <2> QED
    BY <1>1, <2>1, <2>3, Zenon
<1>15. ASSUME NEW r \in Requests, notifyUpload(r)
       PROVE  Goal
  <2> DEFINE h == handler[r]
  <2>1. PICK k : Becomes(r, k) /\ Later(h, k, "notifying", h.call, h.upload, h.result)
    BY <1>15, notifyUploadMoves, Zenon
  <2>2. h.phase = "stored" /\ h.call \in Creations
    BY <1>0, <1>15 DEF notifyUpload, Shape
  <2>3. Shape(k) /\ k \in Handler
    BY <1>0, <2>1, <2>2, ShapeLater
  <2> QED
    BY <1>1, <2>1, <2>3, Zenon
<1>16. ASSUME NEW r \in Requests, Notified(r)
       PROVE  Goal
  <2> DEFINE h == handler[r]
  <2>1. PICK k : /\ Becomes(r, k)
                 /\ \/ /\ h.op = "AdminUpload"
                       /\ Later(h, k, "calling", "AbortMultipartUpload", h.upload, NoResult)
                    \/ k = Blank
    BY <1>16, NotifiedMoves, Zenon
  <2>2. h.phase # "idle"
    BY <1>16 DEF Notified
  <2> QED
    BY <1>2, <1>7, <2>1, <2>2, Zenon
<1>17. ASSUME NEW r \in Requests, NEW commits \in BOOLEAN, PopDelivers(r, commits)
       PROVE  Goal
  BY <1>2, <1>17, Zenon DEF PopDelivers, Finish
<1>18. ASSUME NEW r \in Requests, PopInterrupted(r)
       PROVE  Goal
  BY <1>2, <1>18, Zenon DEF PopInterrupted, Finish
<1>19. ASSUME NEW m \in sending, KafkaAppends(m)
       PROVE  Goal
  <2>1. handler' = handler
    BY <1>19, Zenon DEF KafkaAppends
  <2> QED
    BY <2>1, Zenon DEF TypeOK, Shapes, Shape
<1>20. ASSUME Crash
       PROVE  Goal
  <2>1. handler' = [r \in Requests |-> Blank]
    BY <1>20, Zenon DEF Crash
  <2>2. handler' \in [Requests -> Handler] /\ \A r \in Requests : handler'[r] = Blank
    BY <2>1, BlankType, Zenon
  <2>3. \A r \in Requests : Shape(handler'[r])
    BY <2>2, BlankShape, Zenon
  <2> QED
    BY <2>2, <2>3, Zenon DEF Shapes, Shape
<1> QED
  BY <1>3, <1>4, <1>5, <1>6, <1>8, <1>9, <1>11, <1>12, <1>13, <1>14, <1>15, <1>16, <1>17, <1>18,
     <1>19, <1>20, Zenon DEF Next

-----------------------------------------------------------------------------
(* Types.                                                                  *)

(* The steps of a handler that touch neither the store nor Kafka.          *)
Quiet(r) ==
    \/ Arrives(r) \/ Answered(r) \/ CallFails(r) \/ SDKRetries(r)
    \/ \E u \in Users, t \in Topics : handlePopAPI(r, u, t)
    \/ \E c \in Contents : AdminUploadPart(r, c)
    \/ AdminUploadEnds(r) \/ AdminUploadRejected(r) \/ ClientLeaves(r) \/ PopInterrupted(r)

(* They leave the store, Kafka and most of the history as they are.        *)
LEMMA QuietFrame ==
    ASSUME TypeOK, NEW r \in Requests, Quiet(r)
    PROVE  UNCHANGED <<versions, mode, uploads, lastUpload, lastWrite, created, sending, topics, next,
                       produced, confirmed, delivered>>
<1>1. CASE Arrives(r)
  <2>1. PICK k : Start(r, k)
    BY <1>1, ArrivesFresh, Zenon
  <2> QED
    BY <2>1, Zenon DEF Start, store, history
<1>2. ASSUME NEW u \in Users, NEW t \in Topics, handlePopAPI(r, u, t)
      PROVE  UNCHANGED <<versions, mode, uploads, lastUpload, lastWrite, created, sending, topics,
                         next, produced, confirmed, delivered>>
  BY <1>2, Zenon DEF handlePopAPI, Start, store, history
<1>3. CASE Answered(r) \/ CallFails(r) \/ SDKRetries(r)
  BY <1>3, Zenon DEF Answered, CallFails, SDKRetries, store, history
<1>4. ASSUME NEW c \in Contents, AdminUploadPart(r, c)
      PROVE  UNCHANGED <<versions, mode, uploads, lastUpload, lastWrite, created, sending, topics,
                         next, produced, confirmed, delivered>>
  BY <1>4, Zenon DEF AdminUploadPart, AdminCall, store, history
<1>5. CASE AdminUploadEnds(r)
  BY <1>5, Zenon DEF AdminUploadEnds, AdminCall, store, history
<1>6. CASE AdminUploadRejected(r) \/ ClientLeaves(r) \/ PopInterrupted(r)
  BY <1>6, Zenon DEF AdminUploadRejected, ClientLeaves, PopInterrupted, store, history
<1> QED
  BY <1>1, <1>2, <1>3, <1>4, <1>5, <1>6, Zenon DEF Quiet

(* The steps of Next, the quiet ones together.                             *)
LEMMA NextCases ==
    ASSUME Next
    PROVE  \/ \E r \in Requests : Quiet(r)
           \/ \E r \in Requests : UpstreamApplies(r)
           \/ \E r \in Requests : notifyUpload(r)
           \/ \E r \in Requests : Notified(r)
           \/ \E r \in Requests, commits \in BOOLEAN : PopDelivers(r, commits)
           \/ \E m \in sending : KafkaAppends(m)
           \/ Crash
BY Zenon DEF Next, Quiet

(* A stored object has a revision.                                         *)
LEMMA StoredResult ==
    ASSUME TypeOK, Shapes, Knowing, NEW r \in Requests, handler[r].phase \in {"stored", "notifying"}
    PROVE  LET c == handler[r].result
           IN  /\ handler[r].call \in Creations /\ c \in created /\ c \in StoredRevision
               /\ c.bucket = handler[r].bucket /\ c.bucket \in Buckets /\ c.rev \in Nat
<1>1. handler[r].call \in Creations
  BY DEF Shapes, Shape
<1>2. handler[r].result \in created /\ handler[r].result.bucket = handler[r].bucket
  BY <1>1 DEF Knowing, Knows
<1>3. handler[r].result \in StoredRevision
  BY <1>2, Zenon DEF TypeOK
<1> QED
  BY <1>1, <1>2, <1>3 DEF StoredRevision

(* A step that stores a revision keeps the types of the store.             *)
LEMMA StoreType ==
    ASSUME TypeOK, NEW b \in Buckets, NEW content \in Contents, NEW meta \in Metadata,
           NEW author \in Users \cup {Nobody}, Store(b, content, meta, author)
    PROVE  /\ versions' \in [Buckets -> SUBSET Version] /\ lastWrite' \in Nat
           /\ created' \subseteq StoredRevision /\ mode' = mode
<1> DEFINE v == [id |-> NewId(b), content |-> content, meta |-> meta, author |-> author,
                 rev |-> Revision, deleted |-> FALSE]
<1>1. Revision \in Nat /\ NewId(b) \in Nat /\ Stored(b, content) \in StoredRevision
  BY StoredType, Zenon
<1>2. v \in Version
  BY <1>1, Zenon DEF Version
<1> HIDE DEF v
<1>3. Pushed(b, v) \in SUBSET Version
  <2>1. versions[b] \in SUBSET Version
    BY Zenon DEF TypeOK
  <2> QED
    BY <1>2, <2>1, Zenon DEF Pushed, Without
<1>4. versions' = [versions EXCEPT ![b] = Pushed(b, v)]
  BY Zenon DEF Store, v
<1>5. versions' \in [Buckets -> SUBSET Version]
  BY <1>3, <1>4, Zenon DEF TypeOK
<1>6. lastWrite' = Revision /\ created' = created \cup {Stored(b, content)} /\ mode' = mode
  BY Zenon DEF Store
<1> QED
  BY <1>1, <1>5, <1>6, Zenon DEF TypeOK

(* Every step keeps the types.                                             *)
LEMMA TypeNext ==
    ASSUME TypeOK, Shapes, Knowing, Stamping, Next
    PROVE  TypeOK'
<1> DEFINE Store1 == /\ versions' \in [Buckets -> SUBSET Version]
                     /\ mode' \in [Buckets -> {"off", "on", "suspended"}]
                     /\ lastWrite' \in Nat /\ created' \subseteq StoredRevision
           Store2 == /\ UploadIds' \subseteq Nat /\ uploads' \in [UploadIds' -> Upload]
                     /\ lastUpload' \in Nat
           Kafka  == /\ sending' \subseteq [topic : Topics, event : Event]
                     /\ topics' \in [Topics -> Seq(Event)]
                     /\ next' \in [Topics -> Nat]
                     /\ confirmed' \subseteq Nat
<1>1. handler' \in [Requests -> Handler]
  BY ShapesNext, Zenon
<1>2. ASSUME UNCHANGED <<versions, mode, lastWrite, created>>
      PROVE  Store1
  BY <1>2, Zenon DEF TypeOK
<1>3. ASSUME UNCHANGED <<uploads, lastUpload>>
      PROVE  Store2
  <2>1. UploadIds' = UploadIds
    BY <1>3, Zenon DEF UploadIds
  <2> QED
    BY <1>3, <2>1, Zenon DEF TypeOK
<1>4. ASSUME UNCHANGED <<sending, topics, next, confirmed>>
      PROVE  Kafka
  BY <1>4, Zenon DEF TypeOK
<1>5. ASSUME NEW r \in Requests, Quiet(r)
      PROVE  Store1 /\ Store2 /\ Kafka
  BY <1>2, <1>3, <1>4, <1>5, QuietFrame, Zenon
<1>6. ASSUME NEW r \in Requests, UpstreamApplies(r)
      PROVE  Store1 /\ Store2 /\ Kafka
  <2> DEFINE h == handler[r]
  <2>1. h \in Handler /\ Shape(h) /\ h.phase = "calling"
    BY <1>6, Zenon DEF TypeOK, Shapes, UpstreamApplies
  <2>2. h.bucket \in Buckets /\ h.upload \in Nat /\ h.status \in {"on", "suspended"}
        /\ h.meta \in Metadata /\ h.user \in Users \cup {Nobody}
    BY <2>1 DEF Shape, Handler
  <2>3. Kafka
    BY <1>4, <1>6, Zenon DEF UpstreamApplies, history
  <2>4. \A u : Drop(u) => UploadIds' = UploadIds \ {u} /\ uploads' \in [UploadIds' -> Upload]
    BY DEF Drop, UploadIds, TypeOK
  <2>5. ASSUME NEW content \in Contents, NEW meta \in Metadata, NEW author \in Users \cup {Nobody},
               Writes(r, content, meta, author)
        PROVE  Store1 /\ Store2
    <3>1. Store(h.bucket, content, meta, author)
      BY <2>5, Zenon DEF Writes
    <3>2. Store1
      BY <2>2, <3>1, StoreType, Zenon DEF TypeOK
    <3>3. CASE uploads' = uploads
      BY <1>3, <2>5, <3>2, <3>3, Zenon DEF Writes
    <3>4. CASE Drop(h.upload)
      <4>1. UploadIds' \subseteq Nat /\ uploads' \in [UploadIds' -> Upload]
        BY <2>4, <3>4, Zenon DEF TypeOK
      <4> QED
        BY <2>5, <3>2, <4>1, Zenon DEF Writes, TypeOK
    <3> QED
      BY <2>5, <3>3, <3>4, Zenon DEF Writes
  <2>6. ASSUME NEW content \in Contents, SendsPart(r, content)
        PROVE  Store1 /\ Store2
    <3> DEFINE up == [uploads[h.upload] EXCEPT !.parts = <<content>>]
    <3>1. /\ h.upload \in UploadIds /\ uploads' = [uploads EXCEPT ![h.upload] = up]
          /\ UNCHANGED <<versions, mode, lastWrite, created, lastUpload>>
      BY <2>6, Zenon DEF SendsPart
    <3>2. uploads[h.upload] \in Upload
      BY <3>1, Zenon DEF TypeOK
    <3>3. up \in Upload
      <4>1. <<content>> \in Seq(Contents)
        OBVIOUS
      <4> QED
        BY <3>2, <4>1, Zenon DEF Upload
    <3> HIDE DEF up
    <3>4. UploadIds' = UploadIds
      BY <3>1, Zenon DEF UploadIds
    <3>5. uploads' \in [UploadIds -> Upload]
      BY <3>1, <3>3, Zenon DEF TypeOK
    <3> QED
      BY <1>2, <3>1, <3>4, <3>5, Zenon DEF TypeOK
  <2>7. ASSUME ApplyCreate(r, h)
        PROVE  Store1 /\ Store2
    <3> DEFINE up == [bucket |-> h.bucket, meta |-> h.meta, author |-> h.user,
                      parts |-> <<>>, admin |-> h.op = "AdminUpload"]
    <3>1. /\ lastUpload' = lastUpload + 1
          /\ uploads' = [i \in UploadIds \cup {lastUpload'} |-> IF i = lastUpload' THEN up ELSE uploads[i]]
          /\ UNCHANGED <<versions, mode, lastWrite, created>>
      BY <2>7, Zenon DEF ApplyCreate
    <3>2. up \in Upload
      <4>1. <<>> \in Seq(Contents) /\ (h.op = "AdminUpload") \in BOOLEAN
        OBVIOUS
      <4> HIDE DEF h
      <4> QED
        BY <2>2, <4>1, Zenon DEF Upload
    <3> HIDE DEF up
    <3>3. lastUpload' \in Nat
      BY <3>1 DEF TypeOK
    <3>4. UploadIds' = UploadIds \cup {lastUpload'}
      BY <3>1, Zenon DEF UploadIds
    <3>5. uploads' \in [UploadIds' -> Upload]
      BY <3>1, <3>2, <3>4 DEF TypeOK
    <3> QED
      BY <1>2, <3>1, <3>3, <3>4, <3>5, Zenon DEF TypeOK
  <2>8. ASSUME ApplyAbort(r, h)
        PROVE  Store1 /\ Store2
    <3>1. Drop(h.upload) /\ UNCHANGED <<versions, mode, lastWrite, created, lastUpload>>
      BY <2>8, Zenon DEF ApplyAbort
    <3>2. UploadIds' \subseteq Nat /\ uploads' \in [UploadIds' -> Upload]
      BY <2>4, <3>1, Zenon DEF TypeOK
    <3> QED
      BY <1>2, <3>1, <3>2, Zenon DEF TypeOK
  <2>9. ASSUME ApplyDelete(r, h)
        PROVE  Store1 /\ Store2
    <3>1. UNCHANGED <<mode, created, uploads, lastUpload>>
      BY <2>9, Zenon DEF ApplyDelete, DeleteCurrent, DeleteVersion
    <3>2. Store2
      BY <1>3, <3>1, Zenon
    <3>3. versions[h.bucket] \in SUBSET Version
      BY <2>2, Zenon DEF TypeOK
    <3>4. Without(h.bucket, h.version) \in SUBSET Version
      BY <3>3, Zenon DEF Without
    <3> DEFINE v == [id |-> NewId(h.bucket), content |-> Empty,
                     meta |-> [by |-> Nobody, complete |-> TRUE], author |-> Nobody,
                     rev |-> Revision, deleted |-> TRUE]
    <3>5. Revision \in Nat /\ v \in Version
      <4>1. Revision \in Nat /\ NewId(h.bucket) \in Nat /\ Empty \in Contents
        BY <2>2, StoredType, UploadsAssumption
      <4>2. [by |-> Nobody, complete |-> TRUE] \in Metadata
        BY DEF Metadata
      <4> QED
        BY <4>1, <4>2, Zenon DEF Version
    <3> HIDE DEF v
    <3>6. Pushed(h.bucket, v) \in SUBSET Version
      BY <3>3, <3>5, Zenon DEF Pushed, Without
    <3>7. \/ versions' = [versions EXCEPT ![h.bucket] = {}] /\ lastWrite' = lastWrite
          \/ versions' = [versions EXCEPT ![h.bucket] = Pushed(h.bucket, v)] /\ lastWrite' = Revision
          \/ /\ versions' = [versions EXCEPT ![h.bucket] = Without(h.bucket, h.version)]
             /\ lastWrite' = lastWrite
      BY <2>9, Zenon DEF ApplyDelete, DeleteCurrent, DeleteVersion, v
    <3>8. versions' \in [Buckets -> SUBSET Version] /\ lastWrite' \in Nat
      <4>1. {} \in SUBSET Version
        BY Zenon
      <4> QED
        BY <3>4, <3>5, <3>6, <3>7, <4>1, Zenon DEF TypeOK
    <3> QED
      BY <3>1, <3>2, <3>8, Zenon DEF TypeOK
  <2>10. ASSUME ApplyVersioning(r, h)
         PROVE  Store1 /\ Store2
    <3>1. /\ mode' = [mode EXCEPT ![h.bucket] = h.status]
          /\ UNCHANGED <<versions, uploads, lastUpload, lastWrite, created>>
      BY <2>10, Zenon DEF ApplyVersioning
    <3>2. mode' \in [Buckets -> {"off", "on", "suspended"}]
      BY <2>2, <3>1, Zenon DEF TypeOK
    <3> QED
      BY <1>3, <3>1, <3>2, Zenon DEF TypeOK
  <2>11. ASSUME ApplyGet(r, h)
         PROVE  Store1 /\ Store2
    BY <1>2, <1>3, <2>11, Zenon DEF ApplyGet, store
  <2> QED
    BY <1>6, <2>3, <2>5, <2>6, <2>7, <2>8, <2>9, <2>10, <2>11, UpstreamCases, Zenon
<1>7. ASSUME NEW r \in Requests, notifyUpload(r)
      PROVE  Store1 /\ Store2 /\ Kafka
  <2> DEFINE h == handler[r]
             e == UploadEvent(h.result, h.user)
  <2>1. h \in Handler /\ h.phase = "stored"
    BY <1>7, Zenon DEF TypeOK, notifyUpload
  <2>2. h.result \in StoredRevision /\ h.bucket \in Buckets /\ h.user \in Users \cup {Nobody}
    BY <2>1, StoredResult DEF Handler
  <2>3. e \in Event
    <3> HIDE DEF h
    <3> QED
      BY <2>2 DEF UploadEvent, StoredRevision, Event
  <2>4. Destinations(h) \subseteq Topics
    BY <2>2, Zenon DEF Destinations, topicsFor, Topics
  <2>5. sending' = sending \cup {[topic |-> t, event |-> e] : t \in Destinations(h)}
    BY <1>7, Zenon DEF notifyUpload
  <2>6. UNCHANGED <<versions, mode, uploads, lastUpload, lastWrite, created, topics, next, confirmed>>
    BY <1>7, Zenon DEF notifyUpload, store
  <2> HIDE DEF e, h
  <2>7. sending' \subseteq [topic : Topics, event : Event]
    BY <2>3, <2>4, <2>5 DEF TypeOK
  <2> QED
    BY <1>2, <1>3, <2>6, <2>7, Zenon DEF TypeOK
<1>8. ASSUME NEW r \in Requests, Notified(r)
      PROVE  Store1 /\ Store2 /\ Kafka
  <2>1. handler[r].phase = "notifying" /\ confirmed' = confirmed \cup {handler[r].result.rev}
    BY <1>8, Zenon DEF Notified
  <2>2. handler[r].result.rev \in Nat
    BY <2>1, StoredResult
  <2>3. UNCHANGED <<versions, mode, uploads, lastUpload, lastWrite, created, sending, topics, next>>
    BY <1>8, Zenon DEF Notified, store
  <2> QED
    BY <1>2, <1>3, <2>1, <2>2, <2>3, Zenon DEF TypeOK
<1>9. ASSUME NEW r \in Requests, NEW commits \in BOOLEAN, PopDelivers(r, commits)
      PROVE  Store1 /\ Store2 /\ Kafka
  <2>1. UNCHANGED <<versions, mode, uploads, lastUpload, lastWrite, created, sending, topics, confirmed>>
    BY <1>9, Zenon DEF PopDelivers, store
  <2>2. next' = next \/ next' = [next EXCEPT ![handler[r].topic] = Committed(@)]
    BY <1>9, Zenon DEF PopDelivers
  <2>3. next' \in [Topics -> Nat]
    <3>1. handler[r].topic \in Topics
      BY DEF TypeOK, Handler
    <3>2. Committed(next[handler[r].topic]) \in Nat
      BY <3>1 DEF TypeOK, Committed
    <3> QED
      BY <2>2, <3>2, Zenon DEF TypeOK
  <2> QED
    BY <1>2, <1>3, <2>1, <2>3, Zenon DEF TypeOK
<1>10. ASSUME NEW m \in sending, KafkaAppends(m)
       PROVE  Store1 /\ Store2 /\ Kafka
  <2>1. m.topic \in Topics /\ m.event \in Event
    BY DEF TypeOK
  <2>2. /\ sending' = sending \ {m}
        /\ topics' = [topics EXCEPT ![m.topic] = Append(@, m.event)]
        /\ UNCHANGED <<versions, mode, uploads, lastUpload, lastWrite, created, next, confirmed>>
    BY <1>10, Zenon DEF KafkaAppends, store, history
  <2>3. topics' \in [Topics -> Seq(Event)]
    <3>1. Append(topics[m.topic], m.event) \in Seq(Event)
      <4>1. topics[m.topic] \in Seq(Event)
        BY <2>1, Zenon DEF TypeOK
      <4> QED
        BY <2>1, <4>1
    <3> QED
      BY <2>2, <3>1, Zenon DEF TypeOK
  <2>4. sending' \subseteq [topic : Topics, event : Event]
    BY <2>2, Zenon DEF TypeOK
  <2> QED
    BY <1>2, <1>3, <2>2, <2>3, <2>4, Zenon DEF TypeOK
<1>11. ASSUME Crash
       PROVE  Store1 /\ Store2 /\ Kafka
  BY <1>2, <1>3, <1>4, <1>11, Zenon DEF Crash, store, history
<1>12. Store1 /\ Store2 /\ Kafka
  BY <1>5, <1>6, <1>7, <1>8, <1>9, <1>10, <1>11, NextCases, Zenon
<1> QED
  BY <1>1, <1>12, Zenon DEF TypeOK

-----------------------------------------------------------------------------
(* The numbers of writes.                                                  *)

(* A version with an immutable id carries the number of its write, and     *)
(* unless it is a delete marker its revision is on record.                 *)
VersionNumbered(b, v) ==
    v.id > Null =>
        /\ v.id = Null + v.rev
        /\ ~ v.deleted => [rev |-> v.rev, bucket |-> b, version |-> v.id, etag |-> v.content] \in created

(* Versions stay numbered while revisions are only added.                  *)
LEMMA VersionsNumbered ==
    ASSUME Numbered, created \subseteq created',
           \A b \in Buckets : \A v \in versions'[b] : v \in versions[b] \/ VersionNumbered(b, v)'
    PROVE  \A b \in Buckets : \A v \in versions'[b] : VersionNumbered(b, v)'
<1> TAKE b \in Buckets
<1> TAKE v \in versions'[b]
<1>1. CASE v \in versions[b]
  BY <1>1, Zenon DEF Numbered, VersionNumbered
<1> QED
  BY <1>1, Zenon

(* A write gets the next number.                                           *)
LEMMA NumberedStore ==
    ASSUME TypeOK, Numbered, NEW b \in Buckets, NEW content \in Contents, NEW meta, NEW author,
           Store(b, content, meta, author), confirmed' = confirmed
    PROVE  Numbered'
<1> DEFINE c == Stored(b, content)
           v == [id |-> NewId(b), content |-> content, meta |-> meta, author |-> author,
                 rev |-> Revision, deleted |-> FALSE]
<1>1. /\ lastWrite' = Revision /\ created' = created \cup {c}
      /\ versions' = [versions EXCEPT ![b] = Pushed(b, v)]
  BY Zenon DEF Store
<1>2. Revision = lastWrite + 1 /\ lastWrite \in Nat
  BY DEF Revision, TypeOK
<1>3. /\ c.rev = Revision /\ c.version = ReportedId(b)
      /\ v.id = NewId(b) /\ v.rev = Revision /\ v.content = content /\ ~ v.deleted
  BY DEF Stored
<1>4. c.version > Null => c.version = Null + Revision
  BY <1>2, <1>3 DEF ReportedId, NewId, Null, Absent
<1>5. \A d \in created : d.rev \in Nat /\ d.version \in Nat
  BY DEF TypeOK, StoredRevision
<1>6. v.id > Null =>
          /\ v.id = Null + v.rev
          /\ c = [rev |-> v.rev, bucket |-> b, version |-> v.id, etag |-> v.content]
  <2>1. ASSUME v.id > Null
        PROVE  mode[b] = "on"
    BY <1>3, <2>1 DEF NewId, Null
  <2>2. mode[b] = "on" => ReportedId(b) = NewId(b) /\ NewId(b) = Null + Revision
    BY DEF ReportedId, NewId
  <2>3. mode[b] = "on" =>
           /\ v.id = Null + v.rev
           /\ c = [rev |-> v.rev, bucket |-> b, version |-> v.id, etag |-> v.content]
    BY <1>3, <2>2 DEF Stored
  <2> QED
    BY <2>1, <2>3, Zenon
<1> HIDE DEF c, v
<1>7. \A d \in created' : d.rev <= lastWrite'
  BY <1>1, <1>2, <1>3, <1>5 DEF Numbered
<1>8. \A d, e \in created' : d.rev = e.rev => d = e
  BY <1>1, <1>2, <1>3, <1>5 DEF Numbered
<1>9. \A d \in created' : d.version > Null => d.version = Null + d.rev
  BY <1>1, <1>3, <1>4, Zenon DEF Numbered
<1>10. \A n \in confirmed' : n <= lastWrite'
  <2>1. \A n \in confirmed : n \in Nat /\ n <= lastWrite
    BY DEF Numbered, TypeOK
  <2> QED
    BY <1>1, <1>2, <2>1
<1>11. \A a \in Buckets : \A w \in versions'[a] : VersionNumbered(a, w)'
  <2>1. \A w : w = v => VersionNumbered(b, w)'
    BY <1>1, <1>6, Zenon DEF VersionNumbered
  <2>2. \A a \in Buckets : \A w \in versions'[a] : w \in versions[a] \/ (a = b /\ w = v)
    <3> TAKE a \in Buckets
    <3>1. CASE a = b
      <4>1. versions'[a] = Pushed(b, v)
        BY <1>1, <3>1, Zenon DEF TypeOK
      <4> QED
        BY <3>1, <4>1, Zenon DEF Pushed, Without
    <3>2. CASE a # b
      BY <1>1, <3>2, Zenon DEF TypeOK
    <3> QED
      BY <3>1, <3>2, Zenon
  <2>3. created \subseteq created'
    BY <1>1, Zenon
  <2>4. \A a \in Buckets : \A w \in versions'[a] : w \in versions[a] \/ VersionNumbered(a, w)'
    BY <2>1, <2>2, Zenon
  <2> QED
    BY <2>3, <2>4, VersionsNumbered, Zenon
<1> QED
  BY <1>7, <1>8, <1>9, <1>10, <1>11, Zenon DEF Numbered, VersionNumbered

(* A delete adds at most a delete marker.                                  *)
LEMMA NumberedDelete ==
    ASSUME TypeOK, Numbered, NEW r, NEW h, NEW b \in Buckets, h.bucket = b, ApplyDelete(r, h),
           confirmed' = confirmed
    PROVE  Numbered'
<1> DEFINE v == [id |-> NewId(b), content |-> Empty,
                 meta |-> [by |-> Nobody, complete |-> TRUE], author |-> Nobody,
                 rev |-> Revision, deleted |-> TRUE]
<1>1. created' = created
  BY Zenon DEF ApplyDelete, DeleteCurrent, DeleteVersion
<1>2. \/ versions' = [versions EXCEPT ![b] = {}] /\ lastWrite' = lastWrite
      \/ versions' = [versions EXCEPT ![b] = Pushed(b, v)] /\ lastWrite' = Revision
      \/ versions' = [versions EXCEPT ![b] = Without(b, h.version)] /\ lastWrite' = lastWrite
  BY Zenon DEF ApplyDelete, DeleteCurrent, DeleteVersion
<1>3. Revision = lastWrite + 1 /\ lastWrite \in Nat
  BY DEF Revision, TypeOK
<1>4. v.id = NewId(b) /\ v.rev = Revision /\ v.deleted
  BY SMTT(30)
<1>5. v.id > Null => v.id = Null + v.rev
  BY <1>3, <1>4 DEF NewId, Null
<1> HIDE DEF v
<1>6. lastWrite' \in Nat /\ lastWrite <= lastWrite'
  BY <1>2, <1>3
<1>7. (\A d \in created' : d.rev <= lastWrite') /\ (\A n \in confirmed' : n <= lastWrite')
  <2>1. \A d \in created : d.rev \in Nat /\ d.rev <= lastWrite
    BY DEF Numbered, TypeOK, StoredRevision
  <2>2. \A n \in confirmed : n \in Nat /\ n <= lastWrite
    BY DEF Numbered, TypeOK
  <2> QED
    BY <1>1, <1>3, <1>6, <2>1, <2>2, SMTT(30)
<1>8. \A a \in Buckets : \A w \in versions'[a] : VersionNumbered(a, w)'
  <2>1. \A w : w = v => VersionNumbered(b, w)'
    BY <1>4, <1>5, Zenon DEF VersionNumbered
  <2>2. \A a \in Buckets : \A w \in versions'[a] : w \in versions[a] \/ (a = b /\ w = v)
    <3> TAKE a \in Buckets
    <3>1. CASE a = b
      <4>1. versions'[a] = {} \/ versions'[a] = Pushed(b, v) \/ versions'[a] = Without(b, h.version)
        BY <1>2, <3>1, Zenon DEF TypeOK
      <4> QED
        BY <3>1, <4>1, Zenon DEF Pushed, Without
    <3>2. CASE a # b
      BY <1>2, <3>2, Zenon DEF TypeOK
    <3> QED
      BY <3>1, <3>2, Zenon
  <2>3. \A a \in Buckets : \A w \in versions'[a] : w \in versions[a] \/ VersionNumbered(a, w)'
    BY <2>1, <2>2, Zenon
  <2> QED
    BY <1>1, <2>3, VersionsNumbered, Zenon
<1> QED
  BY <1>1, <1>7, <1>8, Zenon DEF Numbered, VersionNumbered

(* Every step keeps the numbers of writes.                                 *)
LEMMA NumberedNext ==
    ASSUME TypeOK, Shapes, Numbered, Knowing, Stamping, Next
    PROVE  Numbered'
<1>1. ASSUME UNCHANGED <<versions, lastWrite, created, confirmed>>
      PROVE  Numbered'
  BY <1>1, Zenon DEF Numbered
<1>2. ASSUME NEW r \in Requests, Quiet(r)
      PROVE  Numbered'
  BY <1>1, <1>2, QuietFrame, Zenon
<1>3. ASSUME NEW r \in Requests, UpstreamApplies(r)
      PROVE  Numbered'
  <2> DEFINE h == handler[r]
  <2>1. h.bucket \in Buckets /\ confirmed' = confirmed
    <3>1. h.phase = "calling" /\ confirmed' = confirmed
      BY <1>3, Zenon DEF UpstreamApplies, history
    <3> QED
      BY <3>1 DEF Shapes, Shape
  <2>2. ASSUME NEW content \in Contents, NEW meta, NEW author, Writes(r, content, meta, author)
        PROVE  Numbered'
    BY <2>1, <2>2, NumberedStore, Zenon DEF Writes
  <2>3. ASSUME NEW content \in Contents, SendsPart(r, content)
        PROVE  Numbered'
    BY <1>1, <2>1, <2>3, Zenon DEF SendsPart
  <2>4. ASSUME ApplyCreate(r, h) \/ ApplyAbort(r, h) \/ ApplyVersioning(r, h) \/ ApplyGet(r, h)
        PROVE  Numbered'
    BY <1>1, <2>1, <2>4, Zenon DEF ApplyCreate, ApplyAbort, ApplyVersioning, ApplyGet, store
  <2>5. ASSUME ApplyDelete(r, h)
        PROVE  Numbered'
    BY <2>1, <2>5, NumberedDelete, Zenon
  <2> QED
    BY <1>3, <2>2, <2>3, <2>4, <2>5, UpstreamCases, Zenon
<1>4. ASSUME NEW r \in Requests, notifyUpload(r)
      PROVE  Numbered'
  BY <1>1, <1>4, Zenon DEF notifyUpload, store
<1>5. ASSUME NEW r \in Requests, Notified(r)
      PROVE  Numbered'
  <2>1. /\ handler[r].phase = "notifying" /\ confirmed' = confirmed \cup {handler[r].result.rev}
        /\ UNCHANGED <<versions, lastWrite, created>>
    BY <1>5, Zenon DEF Notified, store
  <2>2. handler[r].result.rev <= lastWrite
    BY <2>1, StoredResult, Zenon DEF Numbered
  <2> QED
    BY <2>1, <2>2, Zenon DEF Numbered
<1>6. ASSUME NEW r \in Requests, NEW commits \in BOOLEAN, PopDelivers(r, commits)
      PROVE  Numbered'
  BY <1>1, <1>6, Zenon DEF PopDelivers, store
<1>7. ASSUME NEW m \in sending, KafkaAppends(m)
      PROVE  Numbered'
  BY <1>1, <1>7, Zenon DEF KafkaAppends, store, history
<1>8. ASSUME Crash
      PROVE  Numbered'
  BY <1>1, <1>8, Zenon DEF Crash, store, history
<1> QED
  BY <1>2, <1>3, <1>4, <1>5, <1>6, <1>7, <1>8, NextCases, Zenon

-----------------------------------------------------------------------------
(* Events follow the store.                                                *)

EventTrue(t, e) == Revisions(e) \in created /\ t \in topicsFor(e.bucket)

ConfirmedProduced ==
    \A c \in created : c.rev \in confirmed => topicsFor(c.bucket) \X {c.rev} \subseteq produced

(* Announced, one record at a time.                                        *)
LEMMA AnnouncedParts ==
    ASSUME TypeOK
    PROVE  Announced <=> /\ \A t \in Topics : \A e \in Range(topics[t]) : EventTrue(t, e)
                         /\ \A m \in sending : EventTrue(m.topic, m.event)
                         /\ ConfirmedProduced
<1>1. \A m \in sending : m.topic \in Topics
  BY DEF TypeOK
<1> QED
  BY <1>1, Zenon DEF Announced, EventTrue, ConfirmedProduced

(* The same after a step.                                                  *)
LEMMA AnnouncedPartsNext ==
    ASSUME TypeOK',
           \A t \in Topics : \A e \in Range(topics'[t]) : EventTrue(t, e)',
           \A m \in sending' : EventTrue(m.topic, m.event)',
           ConfirmedProduced'
    PROVE  Announced'
<1>1. \A m \in sending' : m.topic \in Topics
  BY DEF TypeOK
<1> QED
  BY <1>1, Zenon DEF Announced, EventTrue, ConfirmedProduced

(* Records stay true while revisions are only added.                       *)
LEMMA EventsStay ==
    ASSUME NEW t, NEW e, EventTrue(t, e), created \subseteq created'
    PROVE  EventTrue(t, e)'
BY Zenon DEF EventTrue, Revisions, topicsFor

(* A step of one handler that knows what it says.                          *)
LEMMA KnowsStep ==
    ASSUME TypeOK, Knowing, NEW r \in Requests, NEW k, Becomes(r, k), Knows(k)',
           created \subseteq created', produced \subseteq produced'
    PROVE  \A q \in Requests : Knows(handler[q])'
<1>1. \A h : Knows(h) => Knows(h)'
  BY Zenon DEF Knows, topicsFor
<1> SUFFICES ASSUME NEW q \in Requests
             PROVE  Knows(handler[q])'
  OBVIOUS
<1>2. \A h : h = handler[q] => Knows(h)'
  BY <1>1, Zenon DEF Knowing
<1>3. handler'[q] = k \/ handler'[q] = handler[q]
  BY Slots
<1>4. \A h : h = handler'[q] => Knows(h)'
  BY <1>2, <1>3, Zenon
<1> QED
  BY <1>4, Zenon DEF Knows

(* A handler that stored nothing has nothing to know.                      *)
LEMMA KnowsNothing ==
    ASSUME NEW k, k.phase \notin {"applied", "stored", "notifying"}
    PROVE  Knows(k)'
BY DEF Knows

(* A handler whose call creates no object has nothing to know.             *)
LEMMA KnowsNoCreation ==
    ASSUME NEW k, k.call \notin Creations, k.phase # "notifying"
    PROVE  Knows(k)'
BY DEF Knows

(* A quiet step: what is stored is known from the answer.                  *)
LEMMA QuietKnows ==
    ASSUME TypeOK, Shapes, Knowing, Stamping, NEW r \in Requests, Quiet(r)
    PROVE  \A q \in Requests : Knows(handler[q])'
<1> DEFINE h == handler[r]
           Goal == \A q \in Requests : Knows(handler[q])'
<1>0. created \subseteq created' /\ produced \subseteq produced' /\ created' = created
  BY QuietFrame, Zenon
<1>1. ASSUME NEW k, Becomes(r, k), k.phase \notin {"applied", "stored", "notifying"}
      PROVE  Goal
  BY <1>0, <1>1, KnowsNothing, KnowsStep, Zenon
<1>2. ASSUME Becomes(r, Blank)
      PROVE  Goal
  <2>1. PICK k : k = Blank
    BY Zenon
  <2>2. k.phase = "idle"
    BY <2>1 DEF Blank
  <2> QED
    BY <1>1, <1>2, <2>1, <2>2
<1>3. ASSUME NEW k, NEW c, NEW i, NEW x, Becomes(r, k), Later(h, k, "calling", c, i, x)
      PROVE  Goal
  <2>1. k.phase = "calling"
    BY <1>3, Zenon DEF Later
  <2> QED
    BY <1>1, <1>3, <2>1
<1>4. ASSUME Arrives(r)
      PROVE  Goal
  <2>1. PICK k : k.phase = "calling" /\ Becomes(r, k)
    BY <1>4, ArrivesFresh, Zenon DEF Fresh, Start, Becomes
  <2> QED
    BY <1>1, <2>1
<1>5. ASSUME NEW u \in Users, NEW t \in Topics, handlePopAPI(r, u, t)
      PROVE  Goal
  <2>1. PICK k : k.phase = "calling" /\ Start(r, k)
    BY <1>5, PopArrives
  <2> QED
    BY <1>1, <2>1, Zenon DEF Start, Becomes
<1>6. ASSUME h.phase \in {"applied", "stored"}, h.call \in Creations, NEW k, Becomes(r, k),
             Later(h, k, "stored", h.call, h.upload, h.result)
      PROVE  Goal
  <2>1. h.result \in created /\ h.result.bucket = h.bucket
    BY <1>6 DEF Knowing, Knows
  <2>2. k.result \in created /\ k.result.bucket = k.bucket /\ k.phase = "stored"
    BY <1>6, <2>1, Zenon DEF Later, SameRequest
  <2>3. Knows(k)'
    BY <1>0, <2>2 DEF Knows
  <2> QED
    BY <1>0, <1>6, <2>3, KnowsStep, Zenon
<1>7. ASSUME Answered(r)
      PROVE  Goal
  <2>1. h.phase = "applied"
    BY <1>7, Zenon DEF Answered
  <2>2. PICK k : /\ Becomes(r, k)
                 /\ \/ h.call \in Creations /\ Later(h, k, "stored", h.call, h.upload, h.result)
                    \/ Later(h, k, "reading", h.call, h.result.rev, h.result)
                    \/ Later(h, k, "reading", h.call, h.upload, h.result)
                    \/ Later(h, k, "streaming", h.call, h.upload, h.result)
                    \/ k = Blank
    BY <1>7, AnsweredMoves, Zenon
  <2>3. CASE h.call \in Creations /\ Later(h, k, "stored", h.call, h.upload, h.result)
    BY <1>6, <2>1, <2>2, <2>3, Zenon
  <2>4. CASE k.phase \in {"reading", "streaming"}
    BY <1>1, <2>2, <2>4
  <2>5. CASE k = Blank
    BY <1>2, <2>2, <2>5, Zenon
  <2> QED
    BY <2>2, <2>3, <2>4, <2>5, Zenon DEF Later
<1>8. ASSUME CallFails(r)
      PROVE  Goal
  BY <1>2, <1>3, <1>8, CallFailsMoves, Zenon
<1>9. ASSUME SDKRetries(r)
      PROVE  Goal
  BY <1>3, <1>9, SDKRetriesMoves, Zenon
<1>10. ASSUME NEW c \in Call, NEW d \in Contents, AdminCall(r, c, d)
       PROVE  Goal
  BY <1>3, <1>10, AdminCallMoves, Zenon
<1>11. ASSUME NEW c \in Contents, AdminUploadPart(r, c)
       PROVE  Goal
  BY <1>10, <1>11, Names, Zenon DEF AdminUploadPart
<1>12. ASSUME AdminUploadEnds(r)
       PROVE  Goal
  <2>1. Empty \in Contents
    BY UploadsAssumption, Zenon
  <2> QED
    BY <1>10, <1>12, <2>1, Names, Zenon DEF AdminUploadEnds
<1>13. ASSUME AdminUploadRejected(r)
       PROVE  Goal
  <2>1. h \in Handler
    BY Zenon DEF TypeOK
  <2> QED
    BY <1>3, <1>13, <2>1, AbortMoves, Zenon DEF AdminUploadRejected
<1>14. ASSUME ClientLeaves(r)
       PROVE  Goal
  <2>1. h.phase = "stored" /\ h.call \in Creations
    BY <1>14, StoredResult DEF ClientLeaves
  <2> QED
    BY <1>6, <1>14, <2>1, ClientLeavesMoves, Zenon
<1>15. ASSUME PopInterrupted(r)
       PROVE  Goal
  BY <1>2, <1>15, Zenon DEF PopInterrupted, Finish
<1> QED
  BY <1>4, <1>5, <1>7, <1>8, <1>9, <1>11, <1>12, <1>13, <1>14, <1>15, Zenon DEF Quiet

(* An upstream call: a new revision is known to the handler that stored    *)
(* it, and nobody was told of it before.                                   *)
LEMMA UpstreamKnows ==
    ASSUME TypeOK, Shapes, Numbered, Knowing, Stamping, NEW r \in Requests, UpstreamApplies(r)
    PROVE  /\ created \subseteq created' /\ ConfirmedProduced'
           /\ \A q \in Requests : Knows(handler[q])'
<1> DEFINE h == handler[r]
           Goal == /\ created \subseteq created' /\ ConfirmedProduced'
                   /\ \A q \in Requests : Knows(handler[q])'
<1>1. h.phase = "calling" /\ UNCHANGED <<produced, confirmed>>
  BY Zenon DEF UpstreamApplies, history
<1>2. h.bucket \in Buckets
  BY <1>1 DEF Shapes, Shape
<1>3. ConfirmedProduced
  BY AnnouncedParts, Zenon DEF Knowing
<1>4. ASSUME created' = created, h.call \notin Creations
      PROVE  Goal
  <2>1. ConfirmedProduced'
    BY <1>1, <1>3, <1>4, Zenon DEF ConfirmedProduced, topicsFor
  <2>2. PICK k, x : Becomes(r, k) /\ Later(h, k, "applied", h.call, h.upload, x)
    BY UpstreamMoves, Zenon
  <2>3. k.call = h.call /\ k.phase = "applied"
    BY <2>2, Zenon DEF Later
  <2>4. Knows(k)'
    BY <1>4, <2>3, KnowsNoCreation
  <2> QED
    BY <1>1, <1>4, <2>1, <2>2, <2>4, KnowsStep, Zenon
<1>5. ASSUME NEW content \in Contents, NEW meta, NEW author, Writes(r, content, meta, author)
      PROVE  Goal
  <2> DEFINE c == Stored(h.bucket, content)
  <2>1. /\ h.call \in Creations /\ Applied(r, c) /\ created' = created \cup {c}
    BY <1>5, Zenon DEF Writes, Store
  <2>2. c \in Result /\ c.rev = lastWrite + 1 /\ c.bucket = h.bucket
    <3>1. c \in Result
      BY <1>2, StoredType, Zenon
    <3>2. c.rev = Revision /\ c.bucket = h.bucket
      BY SMTT(30) DEF Stored
    <3> QED
      BY <3>1, <3>2, Zenon DEF Revision
  <2>3. c.rev \notin confirmed
    <3>1. \A n \in confirmed : n \in Nat /\ n <= lastWrite
      BY DEF Numbered, TypeOK
    <3> QED
      BY <2>2, <3>1 DEF TypeOK
  <2> HIDE DEF c
  <2>4. ConfirmedProduced'
    BY <1>1, <1>3, <2>1, <2>3, Zenon DEF ConfirmedProduced, topicsFor
  <2>5. PICK k : Becomes(r, k) /\ Later(h, k, "applied", h.call, h.upload, c)
    BY <2>1, <2>2, AppliedMoves, Zenon
  <2>6. k.result \in created' /\ k.result.bucket = k.bucket /\ k.phase = "applied"
    BY <2>1, <2>2, <2>5, Zenon DEF Later, SameRequest
  <2>7. Knows(k)'
    BY <2>6 DEF Knows
  <2>8. created \subseteq created' /\ produced \subseteq produced'
    BY <1>1, <2>1, Zenon
  <2> QED
    BY <2>4, <2>5, <2>7, <2>8, KnowsStep, Zenon
<1>6. ASSUME NEW content \in Contents, SendsPart(r, content)
      PROVE  Goal
  <2>1. h.call \in {"UploadPart", "UploadPartCopy"} /\ created' = created
    BY <1>6, Zenon DEF SendsPart
  <2>2. h.call \notin Creations
    BY <2>1 DEF Creations
  <2> QED
    BY <1>4, <2>1, <2>2, Zenon
<1>7. ASSUME \/ ApplyCreate(r, h) \/ ApplyAbort(r, h) \/ ApplyVersioning(r, h)
             \/ ApplyGet(r, h) \/ ApplyDelete(r, h)
      PROVE  Goal
  <2>1. /\ h.call \in {"CreateMultipartUpload", "AbortMultipartUpload", "PutBucketVersioning",
                      "GetObject", "DeleteObject"}
        /\ created' = created
    BY <1>7, Zenon DEF ApplyCreate, ApplyAbort, ApplyVersioning, ApplyGet, ApplyDelete,
                       DeleteCurrent, DeleteVersion, store
  <2>2. h.call \notin Creations
    BY <2>1 DEF Creations
  <2> QED
    BY <1>4, <2>1, <2>2, Zenon
<1> QED
  BY <1>5, <1>6, <1>7, UpstreamCases, Zenon

(* Every step keeps the events true.                                       *)
LEMMA KnowingNext ==
    ASSUME TypeOK, Shapes, Numbered, Knowing, Stamping, Next
    PROVE  Knowing'
<1>1. /\ \A t \in Topics : \A e \in Range(topics[t]) : EventTrue(t, e)
      /\ \A m \in sending : EventTrue(m.topic, m.event)
      /\ ConfirmedProduced
  BY AnnouncedParts, Zenon DEF Knowing
<1>2. TypeOK'
  BY TypeNext, Zenon
<1>3. ASSUME created \subseteq created', UNCHANGED <<topics, sending>>, ConfirmedProduced'
      PROVE  Announced'
  <2>1. \A t \in Topics : \A e \in Range(topics'[t]) : EventTrue(t, e)'
    BY <1>1, <1>3, EventsStay, Zenon
  <2>2. \A m \in sending' : EventTrue(m.topic, m.event)'
    BY <1>1, <1>3, EventsStay, Zenon
  <2> QED
    BY <1>2, <1>3, <2>1, <2>2, AnnouncedPartsNext, Zenon
<1>4. ASSUME created' = created, confirmed' = confirmed, produced \subseteq produced'
      PROVE  ConfirmedProduced'
  BY <1>1, <1>4, Zenon DEF ConfirmedProduced, topicsFor
<1>5. ASSUME NEW r \in Requests, Quiet(r)
      PROVE  Knowing'
  <2>1. UNCHANGED <<created, confirmed, produced, topics, sending>>
    BY <1>5, QuietFrame, Zenon
  <2>2. Announced'
    BY <1>3, <1>4, <2>1, Zenon
  <2> QED
    BY <1>5, <2>2, QuietKnows, Zenon DEF Knowing
<1>6. ASSUME NEW r \in Requests, UpstreamApplies(r)
      PROVE  Knowing'
  <2>1. UNCHANGED <<topics, sending>>
    BY <1>6, Zenon DEF UpstreamApplies
  <2> QED
    BY <1>3, <1>6, <2>1, UpstreamKnows, Zenon DEF Knowing
<1>7. ASSUME NEW r \in Requests, notifyUpload(r)
      PROVE  Knowing'
  <2> DEFINE h == handler[r]
             e == UploadEvent(h.result, h.user)
  <2>1. /\ h.phase = "stored" /\ UNCHANGED <<created, confirmed, topics>>
        /\ sending' = sending \cup {[topic |-> t, event |-> e] : t \in Destinations(h)}
        /\ produced' = produced \cup (Destinations(h) \X {h.result.rev})
    BY <1>7, Zenon DEF notifyUpload, store
  <2>2. h.result \in created /\ h.result \in StoredRevision /\ h.result.bucket = h.bucket
    BY <2>1, StoredResult
  <2>3. Revisions(e) = h.result /\ e.bucket = h.result.bucket
    <3> HIDE DEF h
    <3>1. /\ e.rev = h.result.rev /\ e.bucket = h.result.bucket /\ e.version = h.result.version
          /\ e.etag = h.result.etag
      BY DEF UploadEvent
    <3>2. h.result = [rev |-> h.result.rev, bucket |-> h.result.bucket,
                      version |-> h.result.version, etag |-> h.result.etag]
      BY <2>2 DEF StoredRevision
    <3> QED
      BY <3>1, <3>2, Zenon DEF Revisions
  <2>4. PICK f : f = e
    BY Zenon
  <2>5. \A t \in Destinations(h) : EventTrue(t, f)'
    BY <2>1, <2>2, <2>3, <2>4, Zenon DEF EventTrue, Revisions, Destinations, topicsFor
  <2>6. \A m \in sending' : EventTrue(m.topic, m.event)'
    <3> TAKE m \in sending'
    <3>1. CASE m \in sending
      BY <1>1, <2>1, <3>1, EventsStay, Zenon
    <3>2. ASSUME NEW t \in Destinations(h), m = [topic |-> t, event |-> f]
          PROVE  EventTrue(m.topic, m.event)'
      <4>1. m.topic = t /\ m.event = f
        BY <3>2
      <4> QED
        BY <2>5, <4>1, Zenon
    <3> QED
      BY <2>1, <2>4, <3>1, <3>2, Zenon
  <2>7. \A t \in Topics : \A d \in Range(topics'[t]) : EventTrue(t, d)'
    BY <1>1, <2>1, EventsStay, Zenon
  <2>8. produced \subseteq produced' /\ created \subseteq created'
    BY <2>1, Zenon
  <2>9. Announced'
    BY <1>2, <1>4, <2>1, <2>6, <2>7, <2>8, AnnouncedPartsNext, Zenon
  <2>10. PICK k : Becomes(r, k) /\ Later(h, k, "notifying", h.call, h.upload, h.result)
    BY <1>7, notifyUploadMoves, Zenon
  <2>11. k.result = h.result /\ k.bucket = h.bucket /\ k.phase = "notifying"
    BY <2>10, Zenon DEF Later, SameRequest
  <2>12. Knows(k)'
    BY <2>1, <2>2, <2>11, Zenon DEF Knows, Destinations, topicsFor
  <2> QED
    BY <2>8, <2>9, <2>10, <2>12, KnowsStep, Zenon DEF Knowing
<1>8. ASSUME NEW r \in Requests, Notified(r)
      PROVE  Knowing'
  <2> DEFINE h == handler[r]
  <2>1. /\ h.phase = "notifying" /\ UNCHANGED <<created, produced, topics, sending>>
        /\ confirmed' = confirmed \cup {h.result.rev}
    BY <1>8, Zenon DEF Notified, store
  <2>2. h.result \in created /\ h.result.bucket = h.bucket
    BY <2>1, StoredResult
  <2>3. topicsFor(h.bucket) \X {h.result.rev} \subseteq produced
    BY <2>1, Zenon DEF Knowing, Knows
  <2>4. \A c \in created : c.rev = h.result.rev => c = h.result
    BY <2>2, Zenon DEF Numbered
  <2>5. \A c \in created : c.rev \in confirmed' => topicsFor(c.bucket) \X {c.rev} \subseteq produced
    <3> TAKE c \in created
    <3> HAVE c.rev \in confirmed'
    <3>1. CASE c.rev \in confirmed
      BY <1>1, <3>1, Zenon DEF ConfirmedProduced
    <3>2. CASE c.rev = h.result.rev
      <4>1. c = h.result
        BY <2>4, <3>2, Zenon
      <4> QED
        BY <2>2, <2>3, <4>1, Zenon
    <3> QED
      BY <2>1, <3>1, <3>2, Zenon
  <2>6. ConfirmedProduced'
    BY <2>1, <2>5, Zenon DEF ConfirmedProduced, topicsFor
  <2>7. Announced'
    BY <1>3, <2>1, <2>6, Zenon
  <2>8. PICK k : Becomes(r, k) /\ k.phase \in {"calling", "idle"}
    <3>1. Blank.phase = "idle"
      BY DEF Blank
    <3> QED
      BY <1>8, <3>1, NotifiedMoves, Zenon DEF Later
  <2>9. Knows(k)'
    BY <2>8, KnowsNothing
  <2> QED
    BY <2>1, <2>7, <2>8, <2>9, KnowsStep, Zenon DEF Knowing
<1>9. ASSUME NEW r \in Requests, NEW commits \in BOOLEAN, PopDelivers(r, commits)
      PROVE  Knowing'
  <2>1. UNCHANGED <<created, produced, confirmed, topics, sending>> /\ Becomes(r, Blank)
    BY <1>9, Zenon DEF PopDelivers, Finish, store
  <2>2. Announced'
    BY <1>3, <1>4, <2>1, Zenon
  <2>3. PICK k : k = Blank
    BY Zenon
  <2>4. Knows(k)'
    BY <2>3, KnowsNothing DEF Blank
  <2> QED
    BY <2>1, <2>2, <2>3, <2>4, KnowsStep, Zenon DEF Knowing
<1>10. ASSUME NEW m \in sending, KafkaAppends(m)
       PROVE  Knowing'
  <2>1. /\ sending' = sending \ {m} /\ topics' = [topics EXCEPT ![m.topic] = Append(@, m.event)]
        /\ UNCHANGED <<created, produced, confirmed, handler>>
    BY <1>10, Zenon DEF KafkaAppends, store, history
  <2>2. m.topic \in Topics /\ m.event \in Event /\ EventTrue(m.topic, m.event)
    BY <1>1 DEF TypeOK
  <2>3. \A t \in Topics : \A e \in Range(topics'[t]) : EventTrue(t, e)'
    <3> TAKE t \in Topics
    <3>1. \A e \in Range(topics'[t]) : e \in Range(topics[t]) \/ (t = m.topic /\ e = m.event)
      <4>1. CASE t = m.topic
        <5>1. topics'[t] = Append(topics[t], m.event) /\ topics[t] \in Seq(Event)
          BY <2>1, <4>1, Zenon DEF TypeOK
        <5> QED
          BY <2>2, <4>1, <5>1 DEF Range
      <4>2. CASE t # m.topic
        BY <2>1, <4>2, Zenon DEF TypeOK
      <4> QED
        BY <4>1, <4>2, Zenon
    <3> QED
      BY <1>1, <2>1, <2>2, <3>1, EventsStay, Zenon
  <2>4. \A n \in sending' : EventTrue(n.topic, n.event)'
    BY <1>1, <2>1, EventsStay, Zenon
  <2>5. Announced'
    BY <1>2, <1>4, <2>1, <2>3, <2>4, AnnouncedPartsNext, Zenon
  <2> QED
    BY <2>1, <2>5, Zenon DEF Knowing, Knows, topicsFor
<1>11. ASSUME Crash
       PROVE  Knowing'
  <2>1. /\ UNCHANGED <<created, produced, confirmed, topics, sending>>
        /\ handler' = [r \in Requests |-> Blank]
    BY <1>11, Zenon DEF Crash, store, history
  <2>2. Announced'
    BY <1>3, <1>4, <2>1, Zenon
  <2>3. \A q \in Requests : handler'[q].phase = "idle"
    BY <2>1 DEF Blank
  <2>4. \A q \in Requests : Knows(handler[q])'
    BY <2>3 DEF Knows
  <2> QED
    BY <2>2, <2>4, Zenon DEF Knowing
<1> QED
  BY <1>5, <1>6, <1>7, <1>8, <1>9, <1>10, <1>11, NextCases, Zenon

-----------------------------------------------------------------------------
(* Metadata.                                                               *)

(* What a step may make of a request: it goes on, is done, or is a new one *)
(* in a free slot.                                                         *)
Follows(h, k) ==
    \/ SameRequest(h, k)
    \/ k = Blank
    \/ h.phase = "idle" /\ (Fresh(k) \/ k.op = "Pop")

(* Every step changes at most one request, in that way, or ends all.       *)
LEMMA RequestsFollow ==
    ASSUME TypeOK, Shapes, Stamping, Next
    PROVE  \/ \E r \in Requests : \E k : Becomes(r, k) /\ Follows(handler[r], k)
           \/ handler' = handler
           \/ handler' = [r \in Requests |-> Blank]
<1> DEFINE Goal == \/ \E r \in Requests : \E k : Becomes(r, k) /\ Follows(handler[r], k)
                   \/ handler' = handler
                   \/ handler' = [r \in Requests |-> Blank]
<1>1. ASSUME NEW r \in Requests, NEW k, NEW p, NEW c, NEW i, NEW x, Becomes(r, k),
             Later(handler[r], k, p, c, i, x)
      PROVE  Goal
  BY <1>1, Zenon DEF Later, Follows
<1>2. ASSUME NEW r \in Requests, Becomes(r, Blank)
      PROVE  Goal
  BY <1>2, Zenon DEF Follows
<1>3. ASSUME NEW r \in Requests, Arrives(r)
      PROVE  Goal
  BY <1>3, ArrivesFresh, Zenon DEF Follows, Start, Free, Becomes
<1>4. ASSUME NEW r \in Requests, NEW u \in Users, NEW t \in Topics, handlePopAPI(r, u, t)
      PROVE  Goal
  <2>1. PICK k : k.op = "Pop" /\ Start(r, k)
    BY <1>4, PopArrives
  <2> QED
    BY <2>1, Zenon DEF Follows, Start, Free, Becomes
<1>5. ASSUME NEW r \in Requests, UpstreamApplies(r)
      PROVE  Goal
  BY <1>1, <1>5, UpstreamMoves, Zenon
<1>6. ASSUME NEW r \in Requests, Answered(r)
      PROVE  Goal
  BY <1>1, <1>2, <1>6, AnsweredMoves, Zenon
<1>7. ASSUME NEW r \in Requests, CallFails(r)
      PROVE  Goal
  BY <1>1, <1>2, <1>7, CallFailsMoves, Zenon
<1>8. ASSUME NEW r \in Requests, SDKRetries(r)
      PROVE  Goal
  BY <1>1, <1>8, SDKRetriesMoves, Zenon
<1>9. ASSUME NEW r \in Requests, NEW c \in Call, NEW d \in Contents, AdminCall(r, c, d)
      PROVE  Goal
  BY <1>1, <1>9, AdminCallMoves, Zenon
<1>10. ASSUME NEW r \in Requests, NEW c \in Contents, AdminUploadPart(r, c)
       PROVE  Goal
  BY <1>9, <1>10, Names, Zenon DEF AdminUploadPart
<1>11. ASSUME NEW r \in Requests, AdminUploadEnds(r)
       PROVE  Goal
  <2>1. Empty \in Contents
    BY UploadsAssumption, Zenon
  <2> QED
    BY <1>9, <1>11, <2>1, Names, Zenon DEF AdminUploadEnds
<1>12. ASSUME NEW r \in Requests, AdminUploadRejected(r)
       PROVE  Goal
  <2>1. handler[r] \in Handler
    BY Zenon DEF TypeOK
  <2> QED
    BY <1>1, <1>12, <2>1, AbortMoves, Zenon DEF AdminUploadRejected
<1>13. ASSUME NEW r \in Requests, ClientLeaves(r)
       PROVE  Goal
  BY <1>1, <1>13, ClientLeavesMoves, Zenon
<1>14. ASSUME NEW r \in Requests, notifyUpload(r)
       PROVE  Goal
  BY <1>1, <1>14, notifyUploadMoves, Zenon
<1>15. ASSUME NEW r \in Requests, Notified(r)
       PROVE  Goal
  BY <1>1, <1>2, <1>15, NotifiedMoves, Zenon
<1>16. ASSUME NEW r \in Requests, (\E commits \in BOOLEAN : PopDelivers(r, commits)) \/ PopInterrupted(r)
       PROVE  Goal
  BY <1>2, <1>16, Zenon DEF PopDelivers, PopInterrupted, Finish
<1>17. ASSUME NEW m \in sending, KafkaAppends(m)
       PROVE  Goal
  BY <1>17, Zenon DEF KafkaAppends
<1>18. ASSUME Crash
       PROVE  Goal
  BY <1>18, Zenon DEF Crash
<1> QED
  BY <1>3, <1>4, <1>5, <1>6, <1>7, <1>8, <1>10, <1>11, <1>12, <1>13, <1>14, <1>15, <1>16, <1>17,
     <1>18, Zenon DEF Next

(* The metadata of a request stays stamped with its caller.                *)
LEMMA StampedNext ==
    ASSUME TypeOK, Shapes, Stamping, Next
    PROVE  \A q \in Requests : Stamped(handler'[q])
<1>1. \A q \in Requests : Stamped(handler[q])
  BY Zenon DEF Stamping
<1>2. \A k : k = Blank \/ k.op = "Pop" => Stamped(k)
  BY DEF Stamped, Blank
<1>3. ASSUME NEW r \in Requests, NEW k, Becomes(r, k), Follows(handler[r], k)
      PROVE  \A q \in Requests : Stamped(handler'[q])
  <2>1. Stamped(k)
    <3>1. SameRequest(handler[r], k) => Stamped(k)
      BY <1>1, Zenon DEF SameRequest, Stamped
    <3> QED
      BY <1>2, <1>3, <3>1, Zenon DEF Follows, Fresh
  <2> TAKE q \in Requests
  <2>2. handler'[q] = k \/ handler'[q] = handler[q]
    BY <1>3, Slots
  <2> QED
    BY <1>1, <2>1, <2>2, Zenon
<1>4. CASE handler' = [r \in Requests |-> Blank]
  <2> TAKE q \in Requests
  <2>1. handler'[q] = Blank
    BY <1>4, Zenon
  <2> QED
    BY <1>2, <2>1, Zenon
<1> QED
  BY <1>1, <1>3, <1>4, RequestsFollow, Zenon

(* Every step keeps uploaded-by true.                                      *)
LEMMA StampingNext ==
    ASSUME TypeOK, Shapes, Stamping, Next
    PROVE  Stamping'
<1> DEFINE Versions == \A b \in Buckets : \A v \in versions'[b] : TruthfulMeta(v.meta, v.author)
           Multiparts == \A id \in UploadIds' : TruthfulMeta(uploads'[id].meta, uploads'[id].author)
<1>1. \A b \in Buckets : \A v \in versions[b] : TruthfulMeta(v.meta, v.author)
  BY Zenon DEF Stamping, MetadataTruthful, TruthfulMeta
<1>2. \A id \in UploadIds : TruthfulMeta(uploads[id].meta, uploads[id].author)
  BY Zenon DEF Stamping, MetadataTruthful, TruthfulMeta
<1>3. ASSUME versions' = versions
      PROVE  Versions
  BY <1>1, <1>3, Zenon
<1>4. ASSUME uploads' = uploads
      PROVE  Multiparts
  BY <1>2, <1>4, Zenon DEF UploadIds
<1>5. ASSUME NEW r \in Requests, Quiet(r)
      PROVE  Versions /\ Multiparts
  BY <1>3, <1>4, <1>5, QuietFrame, Zenon
<1>6. ASSUME NEW b \in Buckets, NEW v, TruthfulMeta(v.meta, v.author), NEW id,
             \/ versions' = [versions EXCEPT ![b] = Pushed(b, v)]
             \/ versions' = [versions EXCEPT ![b] = Without(b, id)]
             \/ versions' = [versions EXCEPT ![b] = {}]
      PROVE  Versions
  <2> TAKE a \in Buckets
  <2>1. CASE a = b
    <3>1. versions'[a] = {} \/ versions'[a] = Pushed(b, v) \/ versions'[a] = Without(b, id)
      BY <1>6, <2>1, Zenon DEF TypeOK
    <3> QED
      BY <1>1, <1>6, <2>1, <3>1, Zenon DEF Pushed, Without
  <2>2. CASE a # b
    <3>1. versions'[a] = versions[a]
      BY <1>6, <2>2, Zenon DEF TypeOK
    <3> QED
      BY <1>1, <3>1, Zenon
  <2> QED
    BY <2>1, <2>2, Zenon
<1>7. ASSUME NEW u, Drop(u)
      PROVE  Multiparts
  <2>1. \A id \in UploadIds' : id \in UploadIds /\ uploads'[id] = uploads[id]
    BY <1>7 DEF Drop, UploadIds
  <2> QED
    BY <1>2, <2>1, Zenon
<1>8. ASSUME NEW r \in Requests, UpstreamApplies(r)
      PROVE  Versions /\ Multiparts
  <2> DEFINE h == handler[r]
  <2>1. h \in Handler /\ Shape(h) /\ Stamped(h) /\ h.phase = "calling"
    BY <1>8, Zenon DEF TypeOK, Shapes, Stamping, UpstreamApplies
  <2>2. h.bucket \in Buckets
    BY <2>1 DEF Shape
  <2>3. ASSUME NEW content \in Contents, NEW meta \in Metadata, NEW author \in Users \cup {Nobody},
               TruthfulMeta(meta, author), Writes(r, content, meta, author)
        PROVE  Versions /\ Multiparts
    <3>1. PICK v : v = [id |-> NewId(h.bucket), content |-> content, meta |-> meta,
                        author |-> author, rev |-> Revision, deleted |-> FALSE]
      BY Zenon
    <3>2. versions' = [versions EXCEPT ![h.bucket] = Pushed(h.bucket, v)]
      BY <2>3, <3>1, Zenon DEF Writes, Store
    <3>3. TruthfulMeta(v.meta, v.author)
      BY <2>3, <3>1
    <3>4. Versions
      BY <1>6, <2>2, <3>2, <3>3, Zenon
    <3>5. uploads' = uploads \/ Drop(h.upload)
      BY <2>3, Zenon DEF Writes
    <3> QED
      BY <1>4, <1>7, <3>4, <3>5, Zenon
  <2>4. ASSUME NEW content \in Contents, SendsPart(r, content)
        PROVE  Versions /\ Multiparts
    <3>1. /\ h.upload \in UploadIds /\ versions' = versions
          /\ uploads' = [uploads EXCEPT ![h.upload].parts = <<content>>]
      BY <2>4, Zenon DEF SendsPart
    <3>2. UploadIds' = UploadIds
      BY <3>1, Zenon DEF UploadIds
    <3>3. \A id \in UploadIds : /\ uploads'[id].meta = uploads[id].meta
                                /\ uploads'[id].author = uploads[id].author
      <4> TAKE id \in UploadIds
      <4>1. uploads[id] \in Upload /\ uploads \in [UploadIds -> Upload]
        BY Zenon DEF TypeOK
      <4>2. CASE id = h.upload
        <5>1. uploads'[id] = [uploads[id] EXCEPT !.parts = <<content>>]
          BY <3>1, <4>1, <4>2, Zenon
        <5> QED
          BY <4>1, <5>1 DEF Upload
      <4>3. CASE id # h.upload
        BY <3>1, <4>1, <4>3, Zenon
      <4> QED
        BY <4>2, <4>3, Zenon
    <3> QED
      BY <1>2, <1>3, <3>1, <3>2, <3>3, Zenon
  <2>5. ASSUME ApplyCreate(r, h)
        PROVE  Versions /\ Multiparts
    <3> DEFINE up == [bucket |-> h.bucket, meta |-> h.meta, author |-> h.user,
                      parts |-> <<>>, admin |-> h.op = "AdminUpload"]
    <3>1. /\ h.call = "CreateMultipartUpload" /\ versions' = versions
          /\ uploads' = [i \in UploadIds \cup {lastUpload'} |-> IF i = lastUpload' THEN up ELSE uploads[i]]
      BY <2>5, ZenonT(40) DEF ApplyCreate
    <3>2. TruthfulMeta(h.meta, h.user)
      BY <2>1, <3>1, SMTT(30) DEF Shape, Stamped, TruthfulMeta
    <3>3. up.meta = h.meta /\ up.author = h.user
      OBVIOUS
    <3> HIDE DEF up
    <3>4. \A i \in UploadIds' : uploads'[i] = up \/ (i \in UploadIds /\ uploads'[i] = uploads[i])
      BY <3>1 DEF UploadIds
    <3> QED
      BY <1>2, <1>3, <3>1, <3>2, <3>3, <3>4, Zenon
  <2>6. ASSUME ApplyAbort(r, h)
        PROVE  Versions /\ Multiparts
    BY <1>3, <1>7, <2>6, Zenon DEF ApplyAbort
  <2>7. ASSUME ApplyDelete(r, h)
        PROVE  Versions /\ Multiparts
    <3>1. PICK v : v = [id |-> NewId(h.bucket), content |-> Empty,
                        meta |-> [by |-> Nobody, complete |-> TRUE], author |-> Nobody,
                        rev |-> Revision, deleted |-> TRUE]
      BY Zenon
    <3>2. \/ versions' = [versions EXCEPT ![h.bucket] = Pushed(h.bucket, v)]
          \/ versions' = [versions EXCEPT ![h.bucket] = Without(h.bucket, h.version)]
          \/ versions' = [versions EXCEPT ![h.bucket] = {}]
      BY <2>7, <3>1, Zenon DEF ApplyDelete, DeleteCurrent, DeleteVersion
    <3>3. TruthfulMeta(v.meta, v.author)
      BY <3>1 DEF TruthfulMeta
    <3>4. Versions
      BY <1>6, <2>2, <3>2, <3>3, Zenon
    <3> QED
      BY <1>4, <2>7, <3>4, Zenon DEF ApplyDelete
  <2>8. ASSUME ApplyVersioning(r, h) \/ ApplyGet(r, h)
        PROVE  Versions /\ Multiparts
    BY <1>3, <1>4, <2>8, Zenon DEF ApplyVersioning, ApplyGet, store
  <2> QED
    BY <1>8, <2>3, <2>4, <2>5, <2>6, <2>7, <2>8, UpstreamCases, Zenon
<1>9. ASSUME NEW r \in Requests,
             \/ notifyUpload(r) \/ Notified(r)
             \/ \E commits \in BOOLEAN : PopDelivers(r, commits)
      PROVE  Versions /\ Multiparts
  BY <1>3, <1>4, <1>9, Zenon DEF notifyUpload, Notified, PopDelivers, store
<1>10. ASSUME Crash \/ \E m \in sending : KafkaAppends(m)
       PROVE  Versions /\ Multiparts
  BY <1>3, <1>4, <1>10, Zenon DEF Crash, KafkaAppends, store
<1>11. Versions /\ Multiparts
  BY <1>5, <1>8, <1>9, <1>10, NextCases, Zenon
<1> QED
  BY <1>11, StampedNext, Zenon DEF Stamping, MetadataTruthful, TruthfulMeta, Stamped

-----------------------------------------------------------------------------
(* Pop.                                                                    *)

(* The version an event names has the content the event announced.         *)
LEMMA NamedIsExact ==
    ASSUME Numbered, TypeOK, NEW e \in Event, Revisions(e) \in created,
           NEW v \in versions[e.bucket], NamesVersion(e, v)
    PROVE  Exact(e, v)
<1> DEFINE c == [rev |-> v.rev, bucket |-> e.bucket, version |-> v.id, etag |-> v.content]
           d == Revisions(e)
<1>1. e.bucket \in Buckets /\ e.version \in Nat /\ e.rev \in Nat
  BY DEF Event
<1>2. v \in Version
  BY <1>1, Zenon DEF TypeOK
<1>3. v.id \in Nat /\ v.rev \in Nat /\ v.deleted \in BOOLEAN
  BY <1>2 DEF Version
<1>4. ~ v.deleted
  BY Zenon DEF NamesVersion
<1>5. CASE e.version \in {Absent, Null}
  <2>1. v.content = e.etag
    BY <1>5, Zenon DEF NamesVersion
  <2>2. ~ (e.version > Null)
    BY <1>5 DEF Absent, Null
  <2> QED
    BY <1>4, <2>1, <2>2, Zenon DEF Exact
<1>6. CASE e.version \notin {Absent, Null}
  <2>1. e.version > Null
    BY <1>1, <1>6 DEF Absent, Null
  <2>2. v.id = e.version
    BY <1>6, Zenon DEF NamesVersion
  <2>3. v.id = Null + v.rev /\ c \in created
    BY <1>1, <1>4, <2>1, <2>2, Zenon DEF Numbered
  <2>4. d.version = e.version /\ d.rev = e.rev /\ d.etag = e.etag
    BY DEF Revisions
  <2>5. d.version = Null + d.rev
    BY <2>1, <2>4, ZenonT(40) DEF Numbered
  <2>6. v.rev = e.rev
    BY <1>1, <1>3, <2>2, <2>3, <2>4, <2>5, SMTT(30) DEF Null
  <2>7. c.rev = v.rev /\ c.etag = v.content
    OBVIOUS
  <2> HIDE DEF c, d
  <2>8. c = d
    BY <2>3, <2>4, <2>6, <2>7, Zenon DEF Numbered, d
  <2> QED
    BY <1>4, <2>4, <2>6, <2>7, <2>8, Zenon DEF Exact
<1> QED
  BY <1>5, <1>6, Zenon

(* The event a pop works on is the next one of its topic.                  *)
LEMMA PopEventTrue ==
    ASSUME TypeOK, Knowing, NEW h \in Handler, next[h.topic] < Len(topics[h.topic])
    PROVE  PopEvent(h) \in Event /\ Revisions(PopEvent(h)) \in created
<1>1. h.topic \in Topics
  BY DEF Handler
<1>2. topics[h.topic] \in Seq(Event) /\ next[h.topic] \in Nat
  BY <1>1, Zenon DEF TypeOK
<1>3. PopEvent(h) \in Event /\ PopEvent(h) \in Range(topics[h.topic])
  BY <1>2 DEF PopEvent, Range
<1>4. EventTrue(h.topic, PopEvent(h))
  BY <1>1, <1>3, AnnouncedParts, Zenon DEF Knowing
<1> QED
  BY <1>3, <1>4, Zenon DEF EventTrue

(* A step of one handler that leaves the topics alone.                     *)
LEMMA ReadsStep ==
    ASSUME TypeOK, Popping, NEW r \in Requests, NEW k, Becomes(r, k),
           UNCHANGED <<topics, next, delivered>>, Reads(k),
           k.op = "Pop" =>
               \/ handler[r].op = "Pop" /\ handler[r].topic = k.topic
               \/ \A q \in Requests : ~ (handler[q].op = "Pop" /\ handler[q].topic = k.topic)
    PROVE  Popping'
<1>1. \A q \in Requests : handler'[q] = IF q = r THEN k ELSE handler[q]
  BY Slots, Zenon
<1>2. PopExact'
  BY Zenon DEF Popping, PopExact, CanRead
<1>3. \A q \in Requests : Reads(handler'[q])
  BY <1>1, Zenon DEF Popping
<1>4. \A q \in Requests : Reads(handler[q])'
  BY <1>3, Zenon DEF Reads, PopEvent, CanRead, Exact
<1>5. \A p, q \in Requests :
          handler'[p].op = "Pop" /\ handler'[q].op = "Pop" /\ handler'[p].topic = handler'[q].topic
              => p = q
  <2> TAKE p, q \in Requests
  <2> HAVE handler'[p].op = "Pop" /\ handler'[q].op = "Pop" /\ handler'[p].topic = handler'[q].topic
  <2>1. CASE p = r /\ q # r
    <3>1. handler'[p] = k /\ handler'[q] = handler[q]
      BY <1>1, <2>1, Zenon
    <3>2. handler[r].op = "Pop" /\ handler[r].topic = k.topic
      BY <3>1, Zenon
    <3> QED
      BY <2>1, <3>1, <3>2, Zenon DEF Popping
  <2>2. CASE p # r /\ q = r
    <3>1. handler'[q] = k /\ handler'[p] = handler[p]
      BY <1>1, <2>2, Zenon
    <3>2. handler[r].op = "Pop" /\ handler[r].topic = k.topic
      BY <3>1, Zenon
    <3> QED
      BY <2>2, <3>1, <3>2, Zenon DEF Popping
  <2>3. CASE p # r /\ q # r
    BY <1>1, <2>3, Zenon DEF Popping
  <2> QED
    BY <2>1, <2>2, <2>3, Zenon
<1> QED
  BY <1>2, <1>4, <1>5, Zenon DEF Popping

(* A handler that does not pop reads nothing.                              *)
LEMMA ReadsNothing ==
    ASSUME TypeOK, Popping, NEW r \in Requests, NEW k, Becomes(r, k),
           UNCHANGED <<topics, next, delivered>>, k.op # "Pop"
    PROVE  Popping'
<1>1. Reads(k)
  BY Zenon DEF Reads
<1> QED
  BY <1>1, ReadsStep, Zenon

(* A handler that goes on with the same read, or with none.                *)
LEMMA ReadsOn ==
    ASSUME TypeOK, Popping, NEW r \in Requests, NEW k, NEW p, NEW c, NEW i, NEW x, Becomes(r, k),
           UNCHANGED <<topics, next, delivered>>, Later(handler[r], k, p, c, i, x),
           p \in {"applied", "streaming"} =>
               handler[r].phase \in {"applied", "streaming"} /\ x = handler[r].result
    PROVE  Popping'
<1>1. /\ k.op = handler[r].op /\ k.topic = handler[r].topic /\ k.bucket = handler[r].bucket
      /\ k.user = handler[r].user /\ k.phase = p /\ k.result = x
  BY Zenon DEF Later, SameRequest
<1>2. Reads(handler[r])
  BY Zenon DEF Popping
<1>3. PopEvent(k) = PopEvent(handler[r])
  BY <1>1, Zenon DEF PopEvent
<1>4. Reads(k)
  BY <1>1, <1>2, <1>3, Zenon DEF Reads
<1> QED
  BY <1>1, <1>4, ReadsStep, Zenon

(* Every step keeps what pops read exact.                                  *)
LEMMA PoppingNext ==
    ASSUME TypeOK, Shapes, Numbered, Knowing, Stamping, Popping, Next
    PROVE  Popping'
<1>1. ASSUME NEW r \in Requests, Becomes(r, Blank), UNCHANGED <<topics, next, delivered>>
      PROVE  Popping'
  <2>1. PICK k : k = Blank
    BY Zenon
  <2>2. k.op # "Pop"
    BY <2>1 DEF Blank
  <2> QED
    BY <1>1, <2>1, <2>2, ReadsNothing, Zenon
<1>2. ASSUME NEW r \in Requests, Quiet(r)
      PROVE  Popping'
  <2> DEFINE h == handler[r]
  <2>1. UNCHANGED <<topics, next, delivered>>
    BY <1>2, QuietFrame, Zenon
  <2>2. ASSUME NEW k, NEW p, NEW c, NEW i, NEW x, Becomes(r, k), Later(h, k, p, c, i, x),
               p \notin {"applied", "streaming"}
        PROVE  Popping'
    BY <2>1, <2>2, ReadsOn, Zenon
  <2>3. "calling" \notin {"applied", "streaming"} /\ "reading" \notin {"applied", "streaming"}
        /\ "stored" \notin {"applied", "streaming"}
    OBVIOUS
  <2>4. ASSUME Arrives(r)
        PROVE  Popping'
    BY <2>1, <2>4, ArrivesFresh, ReadsNothing, Zenon DEF Fresh, Start, Becomes
  <2>5. ASSUME NEW u \in Users, NEW t \in Topics, handlePopAPI(r, u, t)
        PROVE  Popping'
    <3> DEFINE e == topics[t][next[t] + 1]
    <3>1. PICK k \in Handler :
              /\ Start(r, k)
              /\ k.op = "Pop" /\ k.phase = "calling"
              /\ k.user = u /\ k.bucket = e.bucket /\ k.topic = t
      BY <2>5, PopArrives
    <3>2. /\ next[t] < Len(topics[t]) /\ CanRead(u, e.bucket)
          /\ \A q \in Requests : ~ (handler[q].op = "Pop" /\ handler[q].topic = t)
      BY <2>5, Zenon DEF handlePopAPI
    <3>3. Reads(k)
      BY <3>1, <3>2 DEF Reads, PopEvent
    <3>4. Becomes(r, k)
      BY <3>1, Zenon DEF Start, Becomes
    <3> QED
      BY <2>1, <3>1, <3>2, <3>3, <3>4, ReadsStep, ZenonT(40)
  <2>6. ASSUME Answered(r)
        PROVE  Popping'
    <3>1. h.phase = "applied"
      BY <2>6, Zenon DEF Answered
    <3>2. PICK k : /\ Becomes(r, k)
                   /\ \/ Later(h, k, "stored", h.call, h.upload, h.result)
                      \/ Later(h, k, "reading", h.call, h.result.rev, h.result)
                      \/ Later(h, k, "reading", h.call, h.upload, h.result)
                      \/ Later(h, k, "streaming", h.call, h.upload, h.result)
                      \/ k = Blank
      BY <2>6, AnsweredMoves, Zenon
    <3>3. CASE Later(h, k, "streaming", h.call, h.upload, h.result)
      <4>1. h.phase \in {"applied", "streaming"}
        BY <3>1, Zenon
      <4> QED
        BY <2>1, <3>2, <3>3, <4>1, ReadsOn, Zenon
    <3> QED
      BY <1>1, <2>1, <2>2, <2>3, <3>2, <3>3, Zenon
  <2>7. ASSUME CallFails(r)
        PROVE  Popping'
    BY <1>1, <2>1, <2>2, <2>3, <2>7, CallFailsMoves, Zenon
  <2>8. ASSUME SDKRetries(r)
        PROVE  Popping'
    BY <2>2, <2>3, <2>8, SDKRetriesMoves, Zenon
  <2>9. ASSUME NEW c \in Call, NEW d \in Contents, AdminCall(r, c, d)
        PROVE  Popping'
    BY <2>2, <2>3, <2>9, AdminCallMoves, Zenon
  <2>10. ASSUME NEW c \in Contents, AdminUploadPart(r, c)
         PROVE  Popping'
    BY <2>9, <2>10, Names, Zenon DEF AdminUploadPart
  <2>11. ASSUME AdminUploadEnds(r)
         PROVE  Popping'
    <3>1. Empty \in Contents
      BY UploadsAssumption, Zenon
    <3> QED
      BY <2>9, <2>11, <3>1, Names, Zenon DEF AdminUploadEnds
  <2>12. ASSUME AdminUploadRejected(r)
         PROVE  Popping'
    <3>1. h \in Handler
      BY Zenon DEF TypeOK
    <3> QED
      BY <2>2, <2>3, <2>12, <3>1, AbortMoves, Zenon DEF AdminUploadRejected
  <2>13. ASSUME ClientLeaves(r)
         PROVE  Popping'
    BY <2>2, <2>3, <2>13, ClientLeavesMoves, Zenon
  <2>14. ASSUME PopInterrupted(r)
         PROVE  Popping'
    BY <1>1, <2>1, <2>14, Zenon DEF PopInterrupted, Finish
  <2> QED
    BY <1>2, <2>4, <2>5, <2>6, <2>7, <2>8, <2>10, <2>11, <2>12, <2>13, <2>14, Zenon DEF Quiet
<1>3. ASSUME NEW r \in Requests, UpstreamApplies(r)
      PROVE  Popping'
  <2> DEFINE h == handler[r]
  <2>1. UNCHANGED <<topics, next, delivered>> /\ h \in Handler /\ Shape(h) /\ Reads(h)
    BY <1>3, Zenon DEF UpstreamApplies, history, TypeOK, Shapes, Popping
  <2>2. CASE h.op # "Pop"
    <3>1. PICK k : Becomes(r, k) /\ k.op # "Pop"
      BY <1>3, <2>2, UpstreamMoves, ZenonT(40) DEF Later, SameRequest
    <3> QED
      BY <2>1, <3>1, ReadsNothing, Zenon
  <2>3. CASE h.op = "Pop"
    <3>1. h.call = "GetObject"
      BY <2>1, <2>3, Zenon DEF Shape
    <3>2. ApplyGet(r, h)
      BY <1>3, <3>1 DEF UpstreamApplies, ApplyPut, ApplyCopy, ApplyCreate, ApplyPart, ApplyPartCopy,
                        ApplyComplete, ApplyAbort, ApplyDelete, ApplyVersioning
    <3>3. PICK v \in versions[h.bucket] : NamesVersion(PopEvent(h), v) /\ Applied(r, v)
      BY <3>2, Zenon DEF ApplyGet
    <3>4. next[h.topic] < Len(topics[h.topic]) /\ PopEvent(h).bucket = h.bucket
          /\ CanRead(h.user, h.bucket)
      BY <2>1, <2>3, Zenon DEF Reads
    <3>5. PopEvent(h) \in Event /\ Revisions(PopEvent(h)) \in created
      BY <2>1, <3>4, PopEventTrue, Zenon
    <3>6. Exact(PopEvent(h), v)
      BY <3>3, <3>4, <3>5, NamedIsExact, Zenon
    <3>7. v \in Result
      <4>1. v \in Version
        BY <3>3, <3>4, <3>5 DEF TypeOK, Event
      <4> QED
        BY <4>1, Zenon DEF Result
    <3>8. PICK k : Becomes(r, k) /\ Later(h, k, "applied", h.call, h.upload, v)
      BY <3>3, <3>7, AppliedMoves, Zenon
    <3>9. /\ k.op = h.op /\ k.topic = h.topic /\ k.bucket = h.bucket /\ k.user = h.user
          /\ k.result = v
      BY <3>8, Zenon DEF Later, SameRequest
    <3>10. PopEvent(k) = PopEvent(h)
      BY <3>9, Zenon DEF PopEvent
    <3>11. Reads(k)
      BY <3>4, <3>6, <3>9, <3>10, Zenon DEF Reads
    <3> QED
      BY <2>1, <2>3, <3>8, <3>9, <3>11, ReadsStep, Zenon
  <2> QED
    BY <2>2, <2>3, Zenon
<1>4. ASSUME NEW r \in Requests, notifyUpload(r)
      PROVE  Popping'
  <2>1. UNCHANGED <<topics, next, delivered>>
    BY <1>4, Zenon DEF notifyUpload
  <2>2. PICK k : /\ Becomes(r, k)
                 /\ Later(handler[r], k, "notifying", handler[r].call, handler[r].upload,
                          handler[r].result)
    BY <1>4, notifyUploadMoves, Zenon
  <2>3. "notifying" \notin {"applied", "streaming"}
    OBVIOUS
  <2> QED
    BY <2>1, <2>2, <2>3, ReadsOn, Zenon
<1>5. ASSUME NEW r \in Requests, Notified(r)
      PROVE  Popping'
  <2>1. UNCHANGED <<topics, next, delivered>>
    BY <1>5, Zenon DEF Notified
  <2>2. PICK k : /\ Becomes(r, k)
                 /\ \/ Later(handler[r], k, "calling", "AbortMultipartUpload", handler[r].upload, NoResult)
                    \/ k = Blank
    BY <1>5, NotifiedMoves, Zenon
  <2>3. "calling" \notin {"applied", "streaming"}
    OBVIOUS
  <2> QED
    BY <1>1, <2>1, <2>2, <2>3, ReadsOn, Zenon
<1>6. ASSUME NEW r \in Requests, NEW commits \in BOOLEAN, PopDelivers(r, commits)
      PROVE  Popping'
  <2> DEFINE h == handler[r]
             d == [event |-> PopEvent(h), got |-> h.result, user |-> h.user]
  <2>1. h.phase = "streaming" /\ h \in Handler /\ Reads(h)
    BY <1>6, ZenonT(40) DEF PopDelivers, TypeOK, Popping
  <2>2. h.op = "Pop"
    BY <2>1 DEF Shapes, Shape
  <2>3. /\ delivered' = delivered \cup {d} /\ topics' = topics /\ Becomes(r, Blank)
        /\ next' = next \/ next' = [next EXCEPT ![h.topic] = Committed(@)]
    BY <1>6, Zenon DEF PopDelivers, Finish
  <2>4. /\ Exact(PopEvent(h), h.result) /\ CanRead(h.user, h.bucket)
        /\ PopEvent(h).bucket = h.bucket
    BY <2>1, <2>2 DEF Reads
  <2>5. PopExact'
    <3>1. d.event = PopEvent(h) /\ d.got = h.result /\ d.user = h.user
      OBVIOUS
    <3> HIDE DEF d
    <3>2. ~ d.got.deleted /\ d.got.content = d.event.etag
          /\ (d.event.version > Null => d.got.rev = d.event.rev) /\ CanRead(d.user, d.event.bucket)
      BY <2>4, <3>1, Zenon DEF Exact
    <3>3. \A x \in delivered' :
              /\ ~ x.got.deleted /\ x.got.content = x.event.etag
              /\ x.event.version > Null => x.got.rev = x.event.rev
              /\ CanRead(x.user, x.event.bucket)
      BY <2>3, <3>2, Zenon DEF Popping, PopExact
    <3> QED
      BY <3>3, Zenon DEF PopExact, CanRead
  <2>6. \A q \in Requests : handler'[q] = IF q = r THEN Blank ELSE handler[q]
    BY <2>3, Slots, Zenon
  <2>7. Blank.op # "Pop"
    BY DEF Blank
  <2>8. \A q \in Requests : handler'[q].op = "Pop" =>
            /\ handler'[q] = handler[q] /\ q # r
            /\ handler[q].topic # h.topic /\ handler[q].topic \in Topics
    <3> TAKE q \in Requests
    <3> HAVE handler'[q].op = "Pop"
    <3>1. handler'[q] = handler[q] /\ q # r
      BY <2>6, <2>7, Zenon
    <3>2. handler[q].topic # h.topic
      BY <2>2, <3>1, ZenonT(40) DEF Popping
    <3>3. handler[q].topic \in Topics
      BY DEF TypeOK, Handler
    <3> QED
      BY <3>1, <3>2, <3>3, Zenon
  <2>9. \A t \in Topics : t # h.topic => next'[t] = next[t]
    BY <2>3, Zenon DEF TypeOK
  <2>10. \A q \in Requests : Reads(handler[q])'
    <3> SUFFICES ASSUME NEW q \in Requests, handler'[q].op = "Pop"
                 PROVE  Reads(handler[q])'
      BY Zenon DEF Reads
    <3>1. next'[handler'[q].topic] = next[handler[q].topic] /\ handler'[q] = handler[q]
      BY <2>8, <2>9, Zenon
    <3>2. Reads(handler[q])
      BY Zenon DEF Popping
    <3> QED
      BY <2>3, <3>1, <3>2, Zenon DEF Reads, PopEvent, CanRead, Exact
  <2>11. \A p, q \in Requests :
            handler'[p].op = "Pop" /\ handler'[q].op = "Pop" /\ handler'[p].topic = handler'[q].topic
                => p = q
    BY <2>8, Zenon DEF Popping
  <2> QED
    BY <2>5, <2>10, <2>11, Zenon DEF Popping
<1>7. ASSUME NEW m \in sending, KafkaAppends(m)
      PROVE  Popping'
  <2>1. /\ topics' = [topics EXCEPT ![m.topic] = Append(@, m.event)]
        /\ UNCHANGED <<handler, next, delivered>>
    BY <1>7, Zenon DEF KafkaAppends, history
  <2>2. m.topic \in Topics /\ m.event \in Event
    BY DEF TypeOK
  <2>3. \A t \in Topics : next[t] < Len(topics[t]) =>
            next[t] < Len(topics'[t]) /\ topics'[t][next[t] + 1] = topics[t][next[t] + 1]
    <3> TAKE t \in Topics
    <3> HAVE next[t] < Len(topics[t])
    <3>1. topics[t] \in Seq(Event) /\ next[t] \in Nat
      BY Zenon DEF TypeOK
    <3>2. CASE t = m.topic
      <4>1. topics'[t] = Append(topics[t], m.event)
        BY <2>1, <3>2, Zenon DEF TypeOK
      <4> QED
        BY <2>2, <3>1, <4>1
    <3>3. CASE t # m.topic
      <4>1. topics'[t] = topics[t]
        BY <2>1, <3>3, Zenon DEF TypeOK
      <4> QED
        BY <4>1, Zenon
    <3> QED
      BY <3>2, <3>3, Zenon
  <2>4. \A q \in Requests : Reads(handler[q])'
    <3> SUFFICES ASSUME NEW q \in Requests, handler[q].op = "Pop"
                 PROVE  Reads(handler[q])'
      BY <2>1, Zenon DEF Reads
    <3>1. Reads(handler[q]) /\ handler[q].topic \in Topics
      BY DEF Popping, TypeOK, Handler
    <3>2. next[handler[q].topic] < Len(topics[handler[q].topic])
      BY <3>1, Zenon DEF Reads
    <3>3. /\ next[handler[q].topic] < Len(topics'[handler[q].topic])
          /\ PopEvent(handler[q])' = PopEvent(handler[q])
      BY <2>1, <2>3, <3>1, <3>2, Zenon DEF PopEvent
    <3> QED
      BY <2>1, <3>1, <3>3, Zenon DEF Reads, CanRead, Exact
  <2>5. PopExact'
    BY <2>1, Zenon DEF Popping, PopExact, CanRead
  <2> QED
    BY <2>1, <2>4, <2>5, Zenon DEF Popping
<1>8. ASSUME Crash
      PROVE  Popping'
  <2>1. handler' = [r \in Requests |-> Blank] /\ UNCHANGED <<topics, next, delivered>>
    BY <1>8, ZenonT(40) DEF Crash, history
  <2>2. \A q \in Requests : handler'[q].op # "Pop"
    BY <2>1 DEF Blank
  <2>3. PopExact'
    BY <2>1, Zenon DEF Popping, PopExact, CanRead
  <2> QED
    BY <2>2, <2>3, Zenon DEF Popping, Reads
<1> QED
  BY <1>2, <1>3, <1>4, <1>5, <1>6, <1>7, <1>8, NextCases, Zenon

-----------------------------------------------------------------------------
(* Browser uploads clean up.                                               *)

(* A step of one handler that opens no multipart upload: the handler still *)
(* holds what it held, or it is excused.                                   *)
LEMMA HoldsStep ==
    ASSUME TypeOK, Cleaning, NEW r \in Requests, NEW k, Becomes(r, k), Holding(k)',
           lastUpload' = lastUpload, UploadIds' \subseteq UploadIds, excused \subseteq excused',
           \A id \in UploadIds' : uploads'[id].admin = uploads[id].admin,
           \A id \in UploadIds' : Holds(handler[r], id) => Holds(k, id) \/ id \in excused'
    PROVE  Cleaning'
<1>1. \A q \in Requests : handler'[q] = IF q = r THEN k ELSE handler[q]
  BY Slots, Zenon
<1>2. UploadIds' \subseteq 1 .. lastUpload'
  BY Zenon DEF Cleaning
<1>3. \A h : Holding(h) => Holding(h)'
  BY Zenon DEF Holding
<1>4. \A q \in Requests : Holding(handler[q])'
  <2> SUFFICES ASSUME NEW q \in Requests
               PROVE  Holding(handler[q])'
    OBVIOUS
  <2>1. \A h : h = handler[q] => Holding(h)'
    BY <1>3, Zenon DEF Cleaning
  <2>2. \A h : h = handler'[q] => Holding(h)'
    <3>1. handler'[q] = k \/ handler'[q] = handler[q]
      BY <1>1, Zenon
    <3> QED
      BY <2>1, <3>1, Zenon
  <2> QED
    BY <2>2, Zenon DEF Holding
<1>5. \A id \in UploadIds' :
          uploads'[id].admin => id \in excused' \/ \E q \in Requests : Holds(handler'[q], id)
  <2> TAKE id \in UploadIds'
  <2> HAVE uploads'[id].admin
  <2>1. id \in UploadIds /\ uploads[id].admin
    BY Zenon
  <2>2. id \in excused \/ \E q \in Requests : Holds(handler[q], id)
    BY <2>1, Zenon DEF Cleaning, AdminCleansUp
  <2>3. ASSUME NEW q \in Requests, Holds(handler[q], id)
        PROVE  id \in excused' \/ \E p \in Requests : Holds(handler'[p], id)
    <3>1. CASE q = r
      <4>1. Holds(k, id) \/ id \in excused'
        BY <2>3, <3>1, Zenon
      <4> QED
        BY <1>1, <4>1, Zenon
    <3>2. CASE q # r
      BY <1>1, <2>3, <3>2, Zenon
    <3> QED
      BY <3>1, <3>2, Zenon
  <2> QED
    BY <2>2, <2>3, Zenon
<1>6. AdminCleansUp'
  BY <1>5, Zenon DEF AdminCleansUp, Holds
<1> QED
  BY <1>2, <1>4, <1>6, Zenon DEF Cleaning

(* A request that still has its upload id.                                 *)
LEMMA HoldsOn ==
    ASSUME TypeOK, Cleaning, NEW r \in Requests, NEW k, NEW p, NEW c, NEW x, Becomes(r, k),
           Later(handler[r], k, p, c, handler[r].upload, x), Holding(k)',
           lastUpload' = lastUpload, UploadIds' \subseteq UploadIds, excused \subseteq excused',
           \A id \in UploadIds' : uploads'[id].admin = uploads[id].admin,
           handler[r].op = "AdminUpload" /\ handler[r].call = "CreateMultipartUpload"
           /\ handler[r].phase = "applied" => handler[r].result.rev \in excused'
    PROVE  Cleaning'
<1>1. k.op = handler[r].op /\ k.upload = handler[r].upload
  BY Zenon DEF Later, SameRequest
<1>2. \A id \in UploadIds' : Holds(handler[r], id) => Holds(k, id) \/ id \in excused'
  BY <1>1, Zenon DEF Holds
<1> QED
  BY <1>2, HoldsStep, Zenon

(* A handler that is not a browser upload, or holds no upload any more.    *)
LEMMA HoldsNothing ==
    ASSUME TypeOK, Cleaning, NEW r \in Requests, NEW k, Becomes(r, k), Holding(k)',
           lastUpload' = lastUpload, UploadIds' = UploadIds, excused \subseteq excused',
           uploads' = uploads,
           \A id \in UploadIds : Holds(handler[r], id) => id \in excused'
    PROVE  Cleaning'
BY HoldsStep, Zenon

(* Whatever an idle slot or another request than a browser upload becomes. *)
LEMMA HoldsOther ==
    ASSUME TypeOK, Shapes, Cleaning, NEW r \in Requests, NEW k, Becomes(r, k), Holding(k)',
           UNCHANGED <<uploads, lastUpload, excused>>,
           handler[r].op # "AdminUpload" \/ handler[r].phase = "idle"
    PROVE  Cleaning'
<1>1. handler[r].op # "AdminUpload"
  <2>1. Shape(handler[r])
    BY ZenonT(40) DEF Shapes
  <2>2. Blank.op = "none"
    BY Zenon DEF Blank
  <2> HIDE DEF Blank
  <2> QED
    BY <2>1, <2>2, SMTT(30) DEF Shape
<1>2. \A id \in UploadIds : Holds(handler[r], id) => id \in excused'
  BY <1>1, Zenon DEF Holds
<1>3. UploadIds' = UploadIds /\ excused \subseteq excused'
  BY ZenonT(40) DEF UploadIds
<1> QED
  BY <1>2, <1>3, HoldsNothing, ZenonT(40)

(* A free slot holds nothing.                                              *)
LEMMA BlankHolding == \A k : k = Blank => Holding(k)'
BY DEF Holding, Blank

(* A quiet step: the upload id is kept until the upload is gone.           *)
LEMMA QuietCleans ==
    ASSUME TypeOK, Shapes, Stamping, Cleaning, NEW r \in Requests, Quiet(r)
    PROVE  Cleaning'
<1> DEFINE h == handler[r]
<1>1. uploads' = uploads /\ lastUpload' = lastUpload /\ UploadIds' = UploadIds
  BY QuietFrame, Zenon DEF UploadIds
<1>2. h \in Handler /\ Shape(h) /\ Holding(h) /\ UploadIds \subseteq 1 .. lastUpload
  BY Zenon DEF TypeOK, Shapes, Cleaning
<1>3. h.upload \in Nat /\ lastUpload \in Nat
  BY <1>2 DEF Handler, TypeOK
<1>4. ASSUME NEW k, NEW p, NEW c, NEW x, Becomes(r, k), Later(h, k, p, c, h.upload, x),
             h.op # "AdminUpload" \/ c # "CreateMultipartUpload" \/ (h.phase = "applied" /\ p = "calling"),
             c = "CreateMultipartUpload" => h.call = c,
             c = "CompleteMultipartUpload" /\ p \in {"applied", "stored", "notifying"} =>
                 h.call = c /\ h.phase \in {"applied", "stored", "notifying"},
             c = "AbortMultipartUpload" => p # "applied",
             excused \subseteq excused',
             h.op = "AdminUpload" /\ h.call = "CreateMultipartUpload" /\ h.phase = "applied"
                 => h.result.rev \in excused'
      PROVE  Cleaning'
  <2>1. k.op = h.op /\ k.upload = h.upload /\ k.call = c /\ k.phase = p
    BY <1>4, Zenon DEF Later, SameRequest
  <2>2. Holding(k)'
    <3> SUFFICES ASSUME k.op = "AdminUpload"
                 PROVE  Holding(k)'
      BY Zenon DEF Holding
    <3>1. k.upload <= lastUpload'
      BY <1>1, <1>2, <2>1, ZenonT(40) DEF Holding
    <3>2. k.call = "CreateMultipartUpload" => k.upload = NoUpload /\ k.phase # "applied"
      BY <1>2, <1>4, <2>1, Zenon DEF Holding
    <3>3. \/ k.call = "CompleteMultipartUpload" /\ k.phase \in {"applied", "stored", "notifying"}
          \/ k.call = "AbortMultipartUpload" /\ k.phase = "applied"
          => k.upload \notin UploadIds'
      BY <1>1, <1>2, <1>4, <2>1, Zenon DEF Holding
    <3> QED
      BY <3>1, <3>2, <3>3, Zenon DEF Holding
  <2> QED
    BY <1>1, <1>4, <2>2, HoldsOn, Zenon
<1>5. ASSUME NEW k, NEW p, NEW x, Becomes(r, k), Later(h, k, p, h.call, h.upload, x),
              h.call # "CreateMultipartUpload", h.call # "AbortMultipartUpload", excused' = excused,
              h.call = "CompleteMultipartUpload" => h.phase \in {"applied", "stored", "notifying"}
       PROVE  Cleaning'
  <2>1. PICK c : c = h.call
    BY Zenon
  <2>2. excused \subseteq excused'
    BY <1>5, Zenon
  <2> QED
    BY <1>4, <1>5, <2>1, <2>2, Zenon
<1>6. ASSUME Becomes(r, Blank), excused \subseteq excused',
             \A id \in UploadIds : Holds(h, id) => id \in excused'
      PROVE  Cleaning'
  <2>1. PICK k : k = Blank
    BY Zenon
  <2> QED
    BY <1>1, <1>6, <2>1, BlankHolding, HoldsNothing, Zenon
<1>7. ASSUME Arrives(r)
      PROVE  Cleaning'
  <2>1. PICK k : Fresh(k) /\ Start(r, k)
    BY <1>7, ArrivesFresh, Zenon
  <2>2. Becomes(r, k) /\ excused' = excused /\ h.phase = "idle"
    BY <2>1, ZenonT(40) DEF Start, Free, Becomes
  <2>3. Holding(k)'
    <3>1. k.phase = "calling" /\ (k.op = "AdminUpload" => k.call = "CreateMultipartUpload" /\ k.upload = 0)
      BY <2>1, Zenon DEF Fresh, NoUpload
    <3> QED
      BY <1>1, <1>3, <3>1 DEF Holding, NoUpload
  <2> QED
    BY <1>1, <2>2, <2>3, HoldsOther, Zenon
<1>8. ASSUME NEW u \in Users, NEW t \in Topics, handlePopAPI(r, u, t)
      PROVE  Cleaning'
  <2>1. PICK k : k.op = "Pop" /\ Start(r, k)
    BY <1>8, PopArrives, Zenon
  <2>2. Becomes(r, k) /\ excused' = excused /\ h.phase = "idle"
    BY <2>1, ZenonT(40) DEF Start, Free, Becomes
  <2>3. Holding(k)'
    BY <2>1 DEF Holding
  <2> QED
    BY <1>1, <2>2, <2>3, HoldsOther, ZenonT(40)
<1>9. ASSUME Answered(r)
      PROVE  Cleaning'
  <2>1. h.phase = "applied" /\ excused' = excused
    BY <1>9, Zenon DEF Answered
  <2>2. PICK k :
            /\ Becomes(r, k)
            /\ \/ h.call \in Creations /\ Later(h, k, "stored", h.call, h.upload, h.result)
               \/ /\ h.op = "AdminUpload" /\ h.call = "CreateMultipartUpload"
                  /\ Later(h, k, "reading", h.call, h.result.rev, h.result)
               \/ /\ h.op = "AdminUpload" /\ h.call = "UploadPart"
                  /\ Later(h, k, "reading", h.call, h.upload, h.result)
               \/ h.op = "Pop" /\ Later(h, k, "streaming", h.call, h.upload, h.result)
               \/ /\ h.call \notin Creations /\ h.op # "Pop" /\ k = Blank
                  /\ h.op = "AdminUpload" => h.call \notin {"CreateMultipartUpload", "UploadPart"}
    BY <1>9, AnsweredMoves, Zenon
  <2>3. CASE h.call \in Creations /\ Later(h, k, "stored", h.call, h.upload, h.result)
    <3>1. h.call # "CreateMultipartUpload" /\ h.call # "AbortMultipartUpload"
      BY <2>3, Zenon DEF Creations
    <3> QED
      BY <1>5, <2>1, <2>2, <2>3, <3>1, ZenonT(40)
  <2>4. CASE /\ h.op = "AdminUpload" /\ h.call = "CreateMultipartUpload"
             /\ Later(h, k, "reading", h.call, h.result.rev, h.result)
    <3>1. k.op = "AdminUpload" /\ k.call = h.call /\ k.phase = "reading" /\ k.upload = h.result.rev
      BY <2>4, ZenonT(40) DEF Later, SameRequest
    <3>2. h.result.rev \in 1 .. lastUpload /\ h.upload = 0
      BY <1>2, <2>1, <2>4, SMTT(30) DEF Holding, NoUpload
    <3>3. Holding(k)'
      BY <1>1, <1>3, <2>4, <3>1, <3>2 DEF Holding
    <3>4. \A id \in UploadIds : Holds(h, id) => Holds(k, id)
      <4> TAKE id \in UploadIds
      <4>1. id # 0
        BY <1>2, <1>3
      <4> QED
        BY <3>1, <3>2, <4>1, Zenon DEF Holds
    <3> QED
      BY <1>1, <2>1, <2>2, <3>3, <3>4, HoldsStep, Zenon
  <2>5. CASE /\ h.op = "AdminUpload" /\ h.call = "UploadPart"
             /\ Later(h, k, "reading", h.call, h.upload, h.result)
    BY <1>5, <2>1, <2>2, <2>5, Zenon
  <2>6. CASE h.op = "Pop" /\ Later(h, k, "streaming", h.call, h.upload, h.result)
    <3>1. h.call = "GetObject"
      BY <1>2, <2>6, Zenon DEF Shape
    <3> QED
      BY <1>5, <2>1, <2>2, <2>6, <3>1, Zenon
  <2>7. CASE /\ h.call \notin Creations /\ h.op # "Pop" /\ k = Blank
             /\ h.op = "AdminUpload" => h.call \notin {"CreateMultipartUpload", "UploadPart"}
    <3>1. h.op = "AdminUpload" => h.call = "AbortMultipartUpload"
      BY <1>2, <2>7, SMTT(30) DEF Shape, Creations
    <3>2. \A id \in UploadIds : ~ Holds(h, id)
      BY <1>2, <2>1, <3>1 DEF Holding, Holds
    <3> QED
      BY <1>6, <2>1, <2>2, <2>7, <3>2, ZenonT(40)
  <2> QED
    BY <2>2, <2>3, <2>4, <2>5, <2>6, <2>7, Zenon
<1>10. ASSUME CallFails(r)
      PROVE  Cleaning'
  <2>1. h.phase \in {"calling", "applied"}
    BY <1>10, Zenon DEF CallFails
  <2>2. /\ excused \subseteq excused'
        /\ h.op = "AdminUpload" /\ h.call = "CreateMultipartUpload" => {h.result.rev} \ {0} \subseteq excused'
        /\ h.op = "AdminUpload" /\ h.call = "AbortMultipartUpload" => h.upload \in excused'
    <3>1. excused' = excused \cup
              CASE h.op # "AdminUpload" -> {}
                [] h.call = "CreateMultipartUpload" -> {h.result.rev} \ {0}
                [] h.call = "AbortMultipartUpload" -> {h.upload}
                [] OTHER -> {}
      BY <1>10, Zenon DEF CallFails
    <3> HIDE DEF h
    <3>2. CASE h.op # "AdminUpload"
      BY <3>1, <3>2
    <3>3. CASE h.op = "AdminUpload" /\ h.call = "CreateMultipartUpload"
      BY <3>1, <3>3
    <3>4. CASE h.op = "AdminUpload" /\ h.call = "AbortMultipartUpload"
      BY <3>1, <3>4
    <3>5. CASE h.op = "AdminUpload" /\ h.call \notin {"CreateMultipartUpload", "AbortMultipartUpload"}
      BY <3>1, <3>5
    <3> QED
      BY <3>2, <3>3, <3>4, <3>5, Zenon
  <2>3. PICK k : /\ Becomes(r, k)
                 /\ \/ /\ NeedsCleanup(h)
                       /\ Later(h, k, "calling", "AbortMultipartUpload", h.upload, NoResult)
                    \/ ~ NeedsCleanup(h) /\ k = Blank
    BY <1>10, CallFailsMoves, ZenonT(40)
  <2>4. CASE /\ NeedsCleanup(h)
             /\ Later(h, k, "calling", "AbortMultipartUpload", h.upload, NoResult)
    <3>1. h.call # "CreateMultipartUpload"
      BY <2>4 DEF NeedsCleanup
    <3> QED
      BY <1>4, <2>2, <2>3, <2>4, <3>1, SMTT(30)
  <2>5. CASE ~ NeedsCleanup(h) /\ k = Blank
    <3>1. \A id \in UploadIds : Holds(h, id) => id \in excused'
      <4> TAKE id \in UploadIds
      <4> HAVE Holds(h, id)
      <4>1. id # 0
        BY <1>2, <1>3
      <4>2. h.op = "AdminUpload" /\ h.call \in {"CreateMultipartUpload", "AbortMultipartUpload"}
        BY <2>5, Zenon DEF NeedsCleanup, Holds
      <4>3. CASE h.call = "CreateMultipartUpload"
        <5>1. h.upload = 0
          BY <1>2, <2>1, <4>2, <4>3 DEF Holding, NoUpload
        <5>2. h.result.rev = id
          BY <4>1, <5>1, Zenon DEF Holds
        <5> QED
          BY <2>2, <4>1, <4>2, <4>3, <5>2, ZenonT(40)
      <4>4. CASE h.call = "AbortMultipartUpload"
        <5>1. h.upload = id
          BY <4>4, SMTT(30) DEF Holds
        <5> QED
          BY <2>2, <4>2, <4>4, <5>1, Zenon
      <4> QED
        BY <4>2, <4>3, <4>4, Zenon
    <3> QED
      BY <1>6, <2>2, <2>3, <2>5, <3>1, Zenon
  <2> QED
    BY <2>3, <2>4, <2>5, Zenon
<1>11. ASSUME SDKRetries(r)
       PROVE  Cleaning'
  <2>1. /\ h.phase = "applied" /\ excused \subseteq excused'
        /\ h.op = "AdminUpload" /\ h.call = "CreateMultipartUpload" => h.result.rev \in excused'
    BY <1>11, Zenon DEF SDKRetries
  <2>2. PICK k : Becomes(r, k) /\ Later(h, k, "calling", h.call, h.upload, NoResult)
    BY <1>11, SDKRetriesMoves, ZenonT(40)
  <2> QED
    BY <1>4, <2>1, <2>2
<1>12. ASSUME h.phase = "reading", excused' = excused, NEW k, NEW c,
              c \in {"UploadPart", "PutObject", "CompleteMultipartUpload", "AbortMultipartUpload"},
              Becomes(r, k), Later(h, k, "calling", c, h.upload, NoResult)
       PROVE  Cleaning'
  BY <1>4, <1>12
<1>13. ASSUME NEW c \in Contents, AdminUploadPart(r, c)
       PROVE  Cleaning'
  <2>1. h.phase = "reading" /\ AdminCall(r, "UploadPart", c) /\ excused' = excused
    BY <1>13, Zenon DEF AdminUploadPart, AdminCall
  <2>2. PICK k : Becomes(r, k) /\ Later(h, k, "calling", "UploadPart", h.upload, NoResult)
    BY <2>1, Names, AdminCallMoves, Zenon
  <2> QED
    BY <1>12, <2>1, <2>2, Zenon
<1>14. ASSUME AdminUploadEnds(r)
       PROVE  Cleaning'
  <2>1. PICK c \in {"PutObject", "CompleteMultipartUpload"} : AdminCall(r, c, Empty)
    BY <1>14, Zenon DEF AdminUploadEnds
  <2>2. h.phase = "reading" /\ excused' = excused
    BY <1>14, Zenon DEF AdminUploadEnds, AdminCall
  <2>3. Empty \in Contents /\ c \in Call
    BY <2>1, UploadsAssumption, Names, Zenon
  <2>4. PICK k : Becomes(r, k) /\ Later(h, k, "calling", c, h.upload, NoResult)
    BY <2>1, <2>3, AdminCallMoves, Zenon
  <2> QED
    BY <1>12, <2>1, <2>2, <2>4, Zenon
<1>15. ASSUME AdminUploadRejected(r)
       PROVE  Cleaning'
  <2>1. h.phase = "reading" /\ Abort(r, h) /\ excused' = excused
    BY <1>15, Zenon DEF AdminUploadRejected
  <2>2. PICK k : Becomes(r, k) /\ Later(h, k, "calling", "AbortMultipartUpload", h.upload, NoResult)
    BY <1>2, <2>1, AbortMoves, Zenon
  <2> QED
    BY <1>12, <2>1, <2>2, Zenon
<1>16. ASSUME ClientLeaves(r)
       PROVE  Cleaning'
  <2>1. h.phase = "stored" /\ excused' = excused
    BY <1>16, ZenonT(40) DEF ClientLeaves
  <2>2. h.call # "CreateMultipartUpload" /\ h.call # "AbortMultipartUpload"
    BY <1>2, <2>1 DEF Shape, Creations
  <2>3. PICK k : Becomes(r, k) /\ Later(h, k, "stored", h.call, h.upload, h.result)
    BY <1>16, ClientLeavesMoves, Zenon
  <2> QED
    BY <1>5, <2>1, <2>2, <2>3, Zenon
<1>17. ASSUME PopInterrupted(r)
       PROVE  Cleaning'
  <2>1. h.phase = "streaming" /\ excused' = excused /\ Becomes(r, Blank)
    BY <1>17, ZenonT(40) DEF PopInterrupted, Finish
  <2>2. h.op # "AdminUpload"
    BY <1>2, <2>1 DEF Shape
  <2> QED
    BY <1>6, <2>1, <2>2, Zenon DEF Holds
<1> QED
  BY <1>7, <1>8, <1>9, <1>10, <1>11, <1>13, <1>14, <1>15, <1>16, <1>17, Zenon DEF Quiet


(* What the upstream service does to the open multipart uploads.           *)
LEMMA UpstreamCleans ==
    ASSUME TypeOK, Shapes, Stamping, Cleaning, NEW r \in Requests, UpstreamApplies(r)
    PROVE  Cleaning'
<1> DEFINE h == handler[r]
<1>1. h.phase = "calling" /\ excused' = excused /\ excused \subseteq excused'
  BY Zenon DEF UpstreamApplies
<1>2. h \in Handler /\ Holding(h) /\ UploadIds \subseteq 1 .. lastUpload
  BY Zenon DEF TypeOK, Cleaning
<1>3. h.upload \in Nat /\ lastUpload \in Nat /\ UploadIds \subseteq Nat
  BY <1>2 DEF Handler, TypeOK
<1>4. PICK k, x : Becomes(r, k) /\ Later(h, k, "applied", h.call, h.upload, x)
  BY UpstreamMoves, Zenon
<1>5. k.op = h.op /\ k.upload = h.upload /\ k.call = h.call /\ k.phase = "applied" /\ k.result = x
  BY <1>4, Zenon DEF Later, SameRequest
<1>6. ASSUME lastUpload' = lastUpload, UploadIds' \subseteq UploadIds,
             \A id \in UploadIds' : uploads'[id].admin = uploads[id].admin,
             h.call # "CreateMultipartUpload",
             h.call \in {"CompleteMultipartUpload", "AbortMultipartUpload"} => h.upload \notin UploadIds'
      PROVE  Cleaning'
  <2>1. Holding(k)'
    BY <1>2, <1>5, <1>6, Zenon DEF Holding
  <2> QED
    BY <1>1, <1>4, <1>6, <2>1, HoldsOn, Zenon
<1>7. ASSUME uploads' = uploads, lastUpload' = lastUpload,
             h.call \notin {"CreateMultipartUpload", "CompleteMultipartUpload", "AbortMultipartUpload"}
      PROVE  Cleaning'
  BY <1>6, <1>7, Zenon DEF UploadIds
<1>8. ASSUME lastUpload' = lastUpload, Drop(h.upload), h.call # "CreateMultipartUpload"
      PROVE  Cleaning'
  <2>1. UploadIds' = UploadIds \ {h.upload} /\ \A id \in UploadIds' : uploads'[id] = uploads[id]
    BY <1>8, Zenon DEF Drop, UploadIds
  <2> QED
    BY <1>6, <1>8, <2>1, Zenon
<1>9. ASSUME NEW content \in Contents, NEW meta, NEW author, Writes(r, content, meta, author)
      PROVE  Cleaning'
  <2>1. h.call \notin {"CreateMultipartUpload", "AbortMultipartUpload"}
    BY <1>9 DEF Writes, Creations
  <2> QED
    BY <1>7, <1>8, <1>9, <2>1, ZenonT(40) DEF Writes
<1>10. ASSUME NEW content \in Contents, SendsPart(r, content)
       PROVE  Cleaning'
  <2>1. /\ h.call \in {"UploadPart", "UploadPartCopy"} /\ lastUpload' = lastUpload
        /\ uploads' = [uploads EXCEPT ![h.upload].parts = <<content>>]
    BY <1>10, Zenon DEF SendsPart
  <2>2. uploads \in [UploadIds -> Upload]
    BY Zenon DEF TypeOK
  <2>3. UploadIds' = UploadIds
    BY <2>1, <2>2, Zenon DEF UploadIds
  <2>4. \A id \in UploadIds : uploads'[id].admin = uploads[id].admin
    <3> TAKE id \in UploadIds
    <3>1. uploads[id] \in Upload
      BY <2>2, Zenon
    <3>2. uploads'[id] = uploads[id] \/ uploads'[id] = [uploads[id] EXCEPT !.parts = <<content>>]
      BY <2>1, <2>2, Zenon
    <3> QED
      BY <3>1, <3>2, Zenon DEF Upload
  <2>5. h.call \notin {"CreateMultipartUpload", "CompleteMultipartUpload", "AbortMultipartUpload"}
    BY <2>1
  <2> QED
    BY <1>6, <2>1, <2>3, <2>4, <2>5, Zenon
<1>11. ASSUME ApplyAbort(r, h)
       PROVE  Cleaning'
  <2>1. h.call # "CreateMultipartUpload"
    BY <1>11 DEF ApplyAbort
  <2> QED
    BY <1>8, <1>11, <2>1, Zenon DEF ApplyAbort
<1>12. ASSUME ApplyDelete(r, h) \/ ApplyVersioning(r, h) \/ ApplyGet(r, h)
       PROVE  Cleaning'
  <2>1. /\ h.call \in {"DeleteObject", "PutBucketVersioning", "GetObject"}
        /\ UNCHANGED <<uploads, lastUpload>>
    BY <1>12, Zenon DEF ApplyDelete, ApplyVersioning, ApplyGet, store
  <2>2. h.call \notin {"CreateMultipartUpload", "CompleteMultipartUpload", "AbortMultipartUpload"}
    BY <2>1
  <2> QED
    BY <1>7, <2>1, <2>2, Zenon
<1>13. ASSUME ApplyCreate(r, h)
       PROVE  Cleaning'
  <2> DEFINE n == lastUpload + 1
  <2>1. /\ h.call = "CreateMultipartUpload" /\ lastUpload' = n
        /\ uploads' = [i \in UploadIds \cup {n} |->
                          IF i = n
                          THEN [bucket |-> h.bucket, meta |-> h.meta, author |-> h.user,
                                parts |-> <<>>, admin |-> h.op = "AdminUpload"]
                          ELSE uploads[i]]
        /\ Applied(r, [rev |-> n])
    BY <1>13, Zenon DEF ApplyCreate
  <2>2. n \in Nat /\ n \in 1 .. n /\ n \notin UploadIds /\ n # 0
    BY <1>2, <1>3
  <2>3. UploadIds' = UploadIds \cup {n}
    BY <2>1, ZenonT(40) DEF UploadIds
  <2>4. UploadIds' \subseteq 1 .. lastUpload'
    BY <1>2, <1>3, <2>1, <2>3
  <2>5. /\ uploads'[n].admin => h.op = "AdminUpload"
        /\ \A id \in UploadIds : uploads'[id] = uploads[id]
    <3>1. uploads'[n] = [bucket |-> h.bucket, meta |-> h.meta, author |-> h.user,
                         parts |-> <<>>, admin |-> h.op = "AdminUpload"]
      BY <2>1, Zenon
    <3>2. \A id \in UploadIds : uploads'[id] = uploads[id]
      BY <2>1, <2>2, Zenon
    <3>3. ASSUME h.op # "AdminUpload"
          PROVE  ~ uploads'[n].admin
      <4>1. (h.op = "AdminUpload") = FALSE
        BY <3>3
      <4>2. uploads'[n] = [bucket |-> h.bucket, meta |-> h.meta, author |-> h.user,
                           parts |-> <<>>, admin |-> FALSE]
        BY <3>1, <4>1, ZenonT(40)
      <4>3. uploads'[n].admin = FALSE
        BY <4>2
      <4> QED
        BY <4>3, Zenon
    <3> QED
      BY <3>2, <3>3, Zenon
  <2>6. PICK y : Becomes(r, y) /\ Later(h, y, "applied", h.call, h.upload, [rev |-> n])
    <3>1. [rev |-> n] \in Result
      BY <2>2, ResultTypes, SMTT(30)
    <3> QED
      BY <2>1, <3>1, AppliedMoves, Zenon
  <2>7. /\ y.op = h.op /\ y.upload = h.upload /\ y.call = h.call /\ y.phase = "applied"
        /\ y.result.rev = n
    <3>1. /\ y.op = h.op /\ y.upload = h.upload /\ y.call = h.call /\ y.phase = "applied"
          /\ y.result = [rev |-> n]
      BY <2>6, ZenonT(40) DEF Later, SameRequest
    <3> QED
      BY <3>1
  <2>8. h.op = "AdminUpload" => h.upload = 0
    BY <1>1, <1>2, <2>1, SMTT(30) DEF Holding, NoUpload
  <2>9. Holding(y)'
    BY <1>3, <2>1, <2>2, <2>7, <2>8 DEF Holding, NoUpload
  <2>10. \A q \in Requests : handler'[q] = IF q = r THEN y ELSE handler[q]
    BY <2>6, Slots, Zenon
  <2>11. ASSUME NEW g, g \in Handler, Holding(g)
         PROVE  Holding(g)'
    <3>1. g.upload \in Nat
      BY <2>11, SMTT(30) DEF Handler
    <3>2. g.op = "AdminUpload" => g.upload <= lastUpload' /\ g.upload # n
      BY <1>3, <2>1, <2>11, <3>1, SMTT(30) DEF Holding
    <3>3. 1 .. lastUpload \subseteq 1 .. lastUpload'
      BY <1>3, <2>1
    <3> QED
      BY <2>3, <2>11, <3>2, <3>3, Zenon DEF Holding
  <2>12. \A q \in Requests : Holding(handler[q])'
    <3> SUFFICES ASSUME NEW q \in Requests
                 PROVE  Holding(handler[q])'
      OBVIOUS
    <3>1. \A g : g = handler[q] => Holding(g)'
      BY <2>11, Zenon DEF Cleaning, TypeOK
    <3>2. handler'[q] = y \/ handler'[q] = handler[q]
      BY <2>10, Zenon
    <3>3. \A g : g = handler'[q] => Holding(g)'
      BY <2>9, <3>1, <3>2, Zenon
    <3> QED
      BY <3>3, Zenon DEF Holding
  <2>13. \A id \in UploadIds' :
             uploads'[id].admin => id \in excused' \/ \E q \in Requests : Holds(handler'[q], id)
    <3> TAKE id \in UploadIds'
    <3> HAVE uploads'[id].admin
    <3>1. CASE id = n
      <4>1. Holds(y, n)
        BY <2>1, <2>5, <2>7, <3>1, Zenon DEF Holds
      <4> QED
        BY <2>10, <3>1, <4>1, Zenon
    <3>2. CASE id \in UploadIds
      <4>1. id \in excused \/ \E q \in Requests : Holds(handler[q], id)
        BY <2>5, <3>2, Zenon DEF Cleaning, AdminCleansUp
      <4>2. id # 0
        BY <1>2, <1>3, <3>2, SMTT(30)
      <4>3. ~ Holds(h, id)
        BY <1>1, <2>8, <4>2 DEF Holds
      <4> QED
        BY <1>1, <2>10, <4>1, <4>3, Zenon
    <3> QED
      BY <2>3, <3>1, <3>2, Zenon
  <2>14. AdminCleansUp'
    BY <2>13, Zenon DEF AdminCleansUp, Holds
  <2> QED
    BY <2>4, <2>12, <2>14, Zenon DEF Cleaning
<1> QED
  BY <1>9, <1>10, <1>11, <1>12, <1>13, UpstreamCases, Zenon

(* No step leaves a browser upload behind that nothing excuses.            *)
LEMMA CleaningNext ==
    ASSUME TypeOK, Shapes, Stamping, Cleaning, Next
    PROVE  Cleaning'
<1>1. ASSUME NEW r \in Requests, notifyUpload(r)
      PROVE  Cleaning'
  <2> DEFINE h == handler[r]
  <2>1. h.phase = "stored" /\ UNCHANGED <<uploads, lastUpload, excused>>
    BY <1>1, Zenon DEF notifyUpload, store
  <2>2. PICK k : Becomes(r, k) /\ Later(h, k, "notifying", h.call, h.upload, h.result)
    BY <1>1, notifyUploadMoves, Zenon
  <2>3. k.op = h.op /\ k.upload = h.upload /\ k.call = h.call /\ k.phase = "notifying"
    BY <2>2, Zenon DEF Later, SameRequest
  <2>4. h.call # "CreateMultipartUpload" /\ h.call # "AbortMultipartUpload"
    BY <2>1 DEF Shapes, Shape, Creations
  <2>5. Holding(h) /\ UploadIds' = UploadIds
    BY <2>1, Zenon DEF Cleaning, UploadIds
  <2>6. Holding(k)'
    BY <2>1, <2>3, <2>4, <2>5, Zenon DEF Holding
  <2>7. UploadIds' \subseteq UploadIds /\ excused \subseteq excused'
    BY <2>1, <2>5, Zenon
  <2> QED
    BY <2>1, <2>2, <2>4, <2>6, <2>7, HoldsOn, Zenon
<1>2. ASSUME NEW r \in Requests, Notified(r)
      PROVE  Cleaning'
  <2> DEFINE h == handler[r]
  <2>1. h.phase = "notifying" /\ UNCHANGED <<uploads, lastUpload, excused>>
    BY <1>2, Zenon DEF Notified, store
  <2>2. UploadIds' = UploadIds /\ UploadIds' \subseteq UploadIds /\ excused \subseteq excused'
    BY <2>1, Zenon DEF UploadIds
  <2>3. PICK k : /\ Becomes(r, k)
                 /\ \/ /\ h.op = "AdminUpload" /\ h.call = "PutObject"
                       /\ Later(h, k, "calling", "AbortMultipartUpload", h.upload, NoResult)
                    \/ ~ (h.op = "AdminUpload" /\ h.call = "PutObject") /\ k = Blank
    BY <1>2, NotifiedMoves, Zenon
  <2>4. Shape(h) /\ Holding(h)
    BY Zenon DEF Shapes, Cleaning
  <2>5. CASE /\ h.op = "AdminUpload" /\ h.call = "PutObject"
             /\ Later(h, k, "calling", "AbortMultipartUpload", h.upload, NoResult)
    <3>1. k.upload = h.upload /\ k.call = "AbortMultipartUpload" /\ k.phase = "calling"
      BY <2>5, Zenon DEF Later
    <3>2. Holding(k)'
      BY <2>1, <2>2, <2>4, <2>5, <3>1, Zenon DEF Holding
    <3> QED
      BY <2>1, <2>2, <2>3, <2>5, <3>2, HoldsOn, Zenon
  <2>6. CASE ~ (h.op = "AdminUpload" /\ h.call = "PutObject") /\ k = Blank
    <3>1. h.op = "AdminUpload" => h.call = "CompleteMultipartUpload"
      BY <2>1, <2>4, <2>6 DEF Shape, Creations
    <3>2. \A id \in UploadIds : ~ Holds(h, id)
      BY <2>1, <2>4, <3>1, Zenon DEF Holding, Holds
    <3> QED
      BY <2>1, <2>2, <2>3, <2>6, <3>2, BlankHolding, HoldsNothing, ZenonT(40)
  <2> QED
    BY <2>3, <2>5, <2>6, Zenon
<1>3. ASSUME NEW r \in Requests, NEW commits \in BOOLEAN, PopDelivers(r, commits)
      PROVE  Cleaning'
  <2>1. /\ handler[r].phase = "streaming" /\ UNCHANGED <<uploads, lastUpload, excused>>
        /\ Becomes(r, Blank)
    BY <1>3, ZenonT(40) DEF PopDelivers, Finish, store
  <2>2. handler[r].op # "AdminUpload"
    BY <2>1 DEF Shapes, Shape
  <2>3. PICK k : k = Blank
    BY Zenon
  <2> QED
    BY <2>1, <2>2, <2>3, BlankHolding, HoldsOther, Zenon
<1>4. ASSUME NEW m \in sending, KafkaAppends(m)
      PROVE  Cleaning'
  <2>1. UNCHANGED <<uploads, lastUpload, excused, handler>>
    BY <1>4, Zenon DEF KafkaAppends, store
  <2> QED
    BY <2>1, Zenon DEF Cleaning, AdminCleansUp, Holding, Holds, UploadIds
<1>5. ASSUME Crash
      PROVE  Cleaning'
  <2>1. /\ UNCHANGED <<uploads, lastUpload>> /\ handler' = [r \in Requests |-> Blank]
        /\ excused' = excused \cup {id \in UploadIds : uploads[id].admin}
    BY <1>5, Zenon DEF Crash, store
  <2>2. UploadIds' = UploadIds
    BY <2>1, Zenon DEF UploadIds
  <2>3. AdminCleansUp'
    BY <2>1, <2>2, ZenonT(40) DEF AdminCleansUp
  <2>4. \A r \in Requests : handler'[r].op # "AdminUpload"
    BY <2>1 DEF Blank
  <2> QED
    BY <2>1, <2>2, <2>3, <2>4, Zenon DEF Cleaning, Holding
<1> QED
  BY <1>1, <1>2, <1>3, <1>4, <1>5, QuietCleans, UpstreamCleans, NextCases, Zenon


-----------------------------------------------------------------------------
(* The initial state.                                                      *)

(* Whether there was an earlier upload; its bucket and its uploader.       *)
WasUsed == Used # <<>>
UsedBucket == Used[1][1]
UsedBy == Used[1][2]

(* There was at most one earlier upload.                                   *)
LEMMA UsedOnce ==
    /\ WasUsed => UsedBucket \in Buckets /\ UsedBucket \notin Preloaded /\ UsedBy \in Users
    /\ DOMAIN Used = IF WasUsed THEN {1} ELSE {}
    /\ Len(Used) = IF WasUsed THEN 1 ELSE 0
    /\ Range(Used) = IF WasUsed THEN {Used[1]} ELSE {}
<1>1. /\ Used \in Seq((Buckets \ Preloaded) \X Users)
      /\ Len(Used) \in Nat /\ Len(Used) <= 1 /\ DOMAIN Used = 1 .. Len(Used)
  BY UploadsAssumption
<1>2. Len(Used) = IF WasUsed THEN 1 ELSE 0
  BY <1>1 DEF WasUsed
<1>3. DOMAIN Used = IF WasUsed THEN {1} ELSE {}
  <2>1. 1 .. 1 = {1} /\ 1 .. 0 = {}
    OBVIOUS
  <2> QED
    BY <1>1, <1>2, <2>1, Zenon
<1>4. WasUsed => Used[1] \in (Buckets \ Preloaded) \X Users
  BY <1>1, <1>2
<1>5. Range(Used) = IF WasUsed THEN {Used[1]} ELSE {}
  BY <1>3, Zenon DEF Range
<1>6. WasUsed => UsedBucket \in Buckets /\ UsedBucket \notin Preloaded /\ UsedBy \in Users
  BY <1>4 DEF UsedBucket, UsedBy
<1> QED
  BY <1>2, <1>3, <1>5, <1>6, Zenon

(* The store the gateway starts with.                                      *)
LEMMA InitStore ==
    ASSUME Init
    PROVE  /\ mode \in [Buckets -> {"off", "on", "suspended"}]
           /\ DOMAIN versions = Buckets /\ versions = [b \in Buckets |-> versions[b]]
           /\ \A b \in Buckets : \A v \in versions[b] :
                  v = External \/ (WasUsed /\ b = UsedBucket /\ v = EarlierVersion(UsedBy, b))
           /\ created = IF WasUsed THEN {EarlierRevision(UsedBucket)} ELSE {}
           /\ \E content \in Contents :
                  uploads = [i \in DOMAIN Used |-> EarlierUpload(UsedBy, UsedBucket, content)]
           /\ lastUpload = Len(Used) /\ lastWrite = Len(Used)
           /\ confirmed = DOMAIN Used
           /\ WasUsed => topicsFor(UsedBucket) \X {1} \subseteq produced
<1>1. mode \in [Buckets -> {"off", "on", "suspended"}]
  <2>1. PICK on : mode = [b \in Buckets |-> IF b \in on THEN "on" ELSE "off"]
    BY Zenon DEF Init
  <2> QED
    BY <2>1
<1>2. versions = [b \in Buckets |->
           IF b \in Preloaded THEN {External}
           ELSE {EarlierVersion(x[2], b) : x \in {y \in Range(Used) : y[1] = b}}]
  BY Zenon DEF Init
<1>3. DOMAIN versions = Buckets /\ versions = [b \in Buckets |-> versions[b]]
  BY <1>2, Zenon
<1>4. ASSUME NEW b \in Buckets, NEW v \in versions[b]
      PROVE  v = External \/ (WasUsed /\ b = UsedBucket /\ v = EarlierVersion(UsedBy, b))
  <2>1. CASE b \in Preloaded
    BY <1>2, <1>4, <2>1, Zenon
  <2>2. CASE b \notin Preloaded
    <3>1. PICK x \in Range(Used) : x[1] = b /\ v = EarlierVersion(x[2], b)
      BY <1>2, <1>4, <2>2, Zenon
    <3>2. WasUsed /\ x = Used[1]
      BY <3>1, UsedOnce, Zenon
    <3> QED
      BY <3>1, <3>2, Zenon DEF UsedBucket, UsedBy
  <2> QED
    BY <2>1, <2>2, Zenon
<1>5. created = IF WasUsed THEN {EarlierRevision(UsedBucket)} ELSE {}
  <2>1. created = {EarlierRevision(x[1]) : x \in Range(Used)}
    BY Zenon DEF Init
  <2> QED
    BY <2>1, UsedOnce, Zenon DEF UsedBucket
<1>6. \E content \in Contents :
          uploads = [i \in DOMAIN Used |-> EarlierUpload(UsedBy, UsedBucket, content)]
  <2>1. PICK content \in Contents \ {Empty} :
            uploads = [i \in DOMAIN Used |-> EarlierUpload(Used[i][2], Used[i][1], content)]
    BY Zenon DEF Init
  <2>2. \A i \in DOMAIN Used : i = 1
    <3>1. DOMAIN Used = IF WasUsed THEN {1} ELSE {}
      BY UsedOnce, Zenon
    <3> QED
      BY <3>1, Zenon
  <2>3. uploads = [i \in DOMAIN Used |-> EarlierUpload(UsedBy, UsedBucket, content)]
    BY <2>1, <2>2, Zenon DEF UsedBy, UsedBucket
  <2> QED
    BY <2>1, <2>3, Zenon
<1>7. WasUsed => topicsFor(UsedBucket) \X {1} \subseteq produced
  <2>1. produced = UNION {topicsFor(x[1]) \X {1} : x \in Range(Used)}
    BY Zenon DEF Init
  <2>2. WasUsed => Used[1] \in Range(Used)
    BY UsedOnce, Zenon
  <2>3. WasUsed => topicsFor(UsedBucket) \X {1} \in {topicsFor(x[1]) \X {1} : x \in Range(Used)}
    BY <2>2, Zenon DEF UsedBucket
  <2> QED
    BY <2>1, <2>3, Zenon
<1>8. lastUpload = Len(Used) /\ lastWrite = Len(Used) /\ confirmed = DOMAIN Used
  BY Zenon DEF Init
<1> QED
  BY <1>1, <1>3, <1>4, <1>5, <1>6, <1>7, <1>8, Zenon

(* The topics the gateway starts with.                                     *)
LEMMA InitTopics ==
    ASSUME Init
    PROVE  LET e == UploadEvent(EarlierRevision(UsedBucket), UsedBy)
           IN  topics = [t \in Topics |-> IF WasUsed /\ t \in topicsFor(UsedBucket) THEN <<e>> ELSE <<>>]
BY Zenon DEF Init, WasUsed, UsedBucket, UsedBy

(* The earlier upload, its revision, its event and the multipart upload    *)
(* that is still open.                                                     *)
LEMMA EarlierTypes ==
    ASSUME Init, WasUsed
    PROVE  /\ EarlierVersion(UsedBy, UsedBucket) \in Version
           /\ EarlierRevision(UsedBucket) \in StoredRevision
           /\ UploadEvent(EarlierRevision(UsedBucket), UsedBy) \in Event
           /\ \A content \in Contents : EarlierUpload(UsedBy, UsedBucket, content) \in Upload
<1>1. UsedBucket \in Buckets /\ UsedBy \in Users \cup {Nobody} /\ Empty \in Contents
  BY UsedOnce, UploadsAssumption, Zenon
<1>2. [by |-> UsedBy, complete |-> TRUE] \in Metadata
  BY <1>1, SMTT(30) DEF Metadata
<1>3. EarlierVersion(UsedBy, UsedBucket) \in Version
  BY <1>1, <1>2, SMTT(30) DEF EarlierVersion, Version, Null
<1>4. EarlierRevision(UsedBucket) \in StoredRevision
  BY <1>1 DEF EarlierRevision, StoredRevision, Null, Absent
<1>5. UploadEvent(EarlierRevision(UsedBucket), UsedBy) \in Event
  <2>1. ASSUME NEW c \in StoredRevision
        PROVE  UploadEvent(c, UsedBy) \in Event
    BY <1>1, SMTT(30) DEF UploadEvent, Event, StoredRevision
  <2> QED
    BY <1>4, <2>1, Zenon
<1>6. \A content \in Contents : EarlierUpload(UsedBy, UsedBucket, content) \in Upload
  BY <1>1, <1>2 DEF EarlierUpload, Upload
<1> QED
  BY <1>3, <1>4, <1>5, <1>6, Zenon

(* What the gateway starts with has its type.                              *)
LEMMA InitType ==
    ASSUME Init
    PROVE  TypeOK
<1>1. External \in Version
  <2>1. [by |-> Nobody, complete |-> FALSE] \in Metadata /\ Empty \in Contents
    BY UploadsAssumption DEF Metadata
  <2> QED
    BY <2>1, SMTT(30) DEF External, Version, Null
<1>2. versions \in [Buckets -> SUBSET Version]
  <2>1. \A b \in Buckets : versions[b] \in SUBSET Version
    BY <1>1, InitStore, EarlierTypes, Zenon
  <2> QED
    BY <2>1, InitStore, Zenon
<1>3. UploadIds \subseteq Nat /\ uploads \in [UploadIds -> Upload]
  <2>1. PICK content \in Contents :
            uploads = [i \in DOMAIN Used |-> EarlierUpload(UsedBy, UsedBucket, content)]
    BY InitStore, Zenon
  <2>2. UploadIds = DOMAIN Used /\ DOMAIN Used \subseteq {1} /\ (DOMAIN Used # {} => WasUsed)
    BY <2>1, UsedOnce, Zenon DEF UploadIds
  <2>3. \A i \in DOMAIN Used : EarlierUpload(UsedBy, UsedBucket, content) \in Upload
    BY <2>2, EarlierTypes, Zenon
  <2>4. uploads \in [UploadIds -> Upload]
    BY <2>1, <2>2, <2>3, Zenon
  <2>5. {1} \subseteq Nat
    OBVIOUS
  <2> QED
    BY <2>2, <2>4, <2>5, Zenon
<1>4. lastUpload \in Nat /\ lastWrite \in Nat /\ confirmed \subseteq Nat
  BY InitStore, UsedOnce
<1>5. handler \in [Requests -> Handler]
  BY BlankType, Zenon DEF Init
<1>6. sending \subseteq [topic : Topics, event : Event] /\ created \subseteq StoredRevision
  <2>1. sending = {}
    BY Zenon DEF Init
  <2> QED
    BY <2>1, InitStore, EarlierTypes, Zenon
<1>7. topics \in [Topics -> Seq(Event)]
  <2> DEFINE e == UploadEvent(EarlierRevision(UsedBucket), UsedBy)
  <2>1. WasUsed => <<e>> \in Seq(Event)
    <3>1. \A x \in Event : <<x>> \in Seq(Event)
      OBVIOUS
    <3> QED
      BY <3>1, EarlierTypes, Zenon
  <2>2. <<>> \in Seq(Event)
    OBVIOUS
  <2>3. topics = [t \in Topics |-> IF WasUsed /\ t \in topicsFor(UsedBucket) THEN <<e>> ELSE <<>>]
    BY InitTopics, Zenon
  <2> HIDE DEF e
  <2> QED
    BY <2>1, <2>2, <2>3, Zenon
<1>8. next \in [Topics -> Nat]
  <2>1. next = [t \in Topics |-> 0]
    BY Zenon DEF Init
  <2> QED
    BY <2>1
<1> QED
  BY <1>2, <1>3, <1>4, <1>5, <1>6, <1>7, <1>8, InitStore, ZenonT(40) DEF TypeOK

(* The earlier upload is announced, numbered and stamped; no slot is used. *)
LEMMA InitSound ==
    ASSUME Init
    PROVE  Sound
<1>1. TypeOK
  BY InitType, Zenon
<1>2. \A r \in Requests : handler[r] = Blank
  BY ZenonT(40) DEF Init
<1>3. /\ Blank.op = "none" /\ Blank.call = "none" /\ Blank.phase = "idle"
  BY DEF Blank
<1>4. Shapes
  BY <1>2, BlankShape, Zenon DEF Shapes
<1>5. PICK content \in Contents :
          uploads = [i \in DOMAIN Used |-> EarlierUpload(UsedBy, UsedBucket, content)]
  BY InitStore, Zenon
<1>6. \A id \in UploadIds : id = 1 /\ WasUsed /\ uploads[id] = EarlierUpload(UsedBy, UsedBucket, content)
  BY <1>5, UsedOnce, Zenon DEF UploadIds
<1>7. Numbered
  <2>1. \A c \in created : WasUsed /\ c = EarlierRevision(UsedBucket)
    BY InitStore, Zenon
  <2>2. \A c \in created : c.rev = 1 /\ (c.version > Null => c.version = Null + 1)
    BY <2>1 DEF EarlierRevision, Null, Absent
  <2>3. WasUsed => lastWrite = 1
    BY InitStore, UsedOnce, Zenon
  <2>4. \A n \in confirmed : n = 1 /\ WasUsed
    BY InitStore, UsedOnce, Zenon
  <2>5. ASSUME NEW b \in Buckets, NEW v \in versions[b], v.id > Null
        PROVE  /\ v.id = Null + v.rev
               /\ [rev |-> v.rev, bucket |-> b, version |-> v.id, etag |-> v.content] \in created
    <3>1. v # External
      BY <2>5 DEF External, Null
    <3>2. WasUsed /\ b = UsedBucket /\ v = EarlierVersion(UsedBy, b)
      BY <2>5, <3>1, InitStore, ZenonT(40)
    <3>3. /\ mode[b] = "on" /\ v.id = Null + 1 /\ v.rev = 1 /\ v.content = Empty
      BY <2>5, <3>2 DEF EarlierVersion, Null
    <3>4. EarlierRevision(b) = [rev |-> v.rev, bucket |-> b, version |-> v.id, etag |-> v.content]
      BY <3>3, Zenon DEF EarlierRevision
    <3>5. EarlierRevision(b) \in created
      BY <3>2, InitStore, Zenon
    <3> QED
      BY <3>3, <3>4, <3>5, ZenonT(40)
  <2>6. \A c \in created : c.rev <= lastWrite
    BY <2>1, <2>2, <2>3
  <2>7. \A n \in confirmed : n <= lastWrite
    BY <2>3, <2>4
  <2>8. \A c, d \in created : c.rev = d.rev => c = d
    BY <2>1, Zenon
  <2>9. \A c \in created : c.version > Null => c.version = Null + c.rev
    BY <2>2, Zenon
  <2> QED
    BY <2>5, <2>6, <2>7, <2>8, <2>9, Zenon DEF Numbered
<1>8. Announced
  <2> DEFINE e == UploadEvent(EarlierRevision(UsedBucket), UsedBy)
  <2>1. WasUsed => Revisions(e) = EarlierRevision(UsedBucket) /\ e.bucket = UsedBucket
    BY DEF Revisions, UploadEvent, EarlierRevision
  <2>2. topics = [t \in Topics |-> IF WasUsed /\ t \in topicsFor(UsedBucket) THEN <<e>> ELSE <<>>]
    BY InitTopics, Zenon
  <2>3. WasUsed => EarlierRevision(UsedBucket) \in created
    BY InitStore, Zenon
  <2> HIDE DEF e
  <2>4. \A t \in Topics : \A d \in Range(topics[t]) : EventTrue(t, d)
    <3> SUFFICES ASSUME NEW t \in Topics, NEW d \in Range(topics[t])
                 PROVE  EventTrue(t, d)
      OBVIOUS
    <3>1. PICK i \in DOMAIN topics[t] : d = topics[t][i]
      BY Zenon DEF Range
    <3>2. WasUsed /\ t \in topicsFor(UsedBucket) /\ topics[t] = <<e>>
      <4>1. topics[t] # <<>>
        BY <3>1
      <4> QED
        BY <2>2, <4>1, Zenon
    <3>3. d = e
      BY <3>1, <3>2
    <3> QED
      BY <2>1, <2>3, <3>2, <3>3, Zenon DEF EventTrue
  <2>5. \A m \in sending : EventTrue(m.topic, m.event)
    BY Zenon DEF Init
  <2>6. ConfirmedProduced
    <3> SUFFICES ASSUME NEW c \in created
                 PROVE  topicsFor(c.bucket) \X {c.rev} \subseteq produced
      BY Zenon DEF ConfirmedProduced
    <3>1. WasUsed /\ c = EarlierRevision(UsedBucket)
      BY InitStore, Zenon
    <3>2. c.bucket = UsedBucket /\ c.rev = 1
      BY <3>1, SMTT(30) DEF EarlierRevision
    <3> QED
      BY <3>1, <3>2, InitStore, Zenon
  <2> QED
    BY <1>1, <2>4, <2>5, <2>6, AnnouncedParts, ZenonT(40)
<1>9. Knowing
  BY <1>2, <1>3, <1>8 DEF Knowing, Knows
<1>10. Stamping
  <2>1. \A b \in Buckets : \A v \in versions[b] :
            v.meta.by = v.author /\ (v.author # Nobody => v.meta.complete)
    BY InitStore, SMTT(30) DEF External, EarlierVersion
  <2>2. \A id \in UploadIds :
            uploads[id].meta.by = uploads[id].author /\ uploads[id].meta.complete
    BY <1>6 DEF EarlierUpload
  <2>3. MetadataTruthful
    BY <2>1, <2>2, Zenon DEF MetadataTruthful
  <2>4. \A r \in Requests : Stamped(handler[r])
    BY <1>2, <1>3 DEF Stamped
  <2> QED
    BY <2>3, <2>4, Zenon DEF Stamping
<1>11. Popping
  <2>1. delivered = {}
    BY Zenon DEF Init
  <2>2. PopExact
    BY <2>1, Zenon DEF PopExact
  <2>3. \A r \in Requests : handler[r].op # "Pop"
    BY <1>2, <1>3
  <2> QED
    BY <2>2, <2>3, Zenon DEF Popping, Reads
<1>12. Cleaning
  <2>1. AdminCleansUp
    BY <1>6 DEF AdminCleansUp, EarlierUpload
  <2>2. WasUsed => lastUpload = 1
    BY InitStore, UsedOnce, Zenon
  <2>3. UploadIds \subseteq 1 .. lastUpload
    BY <1>6, <2>2, SMTT(30)
  <2>4. \A r \in Requests : handler[r].op # "AdminUpload"
    BY <1>2, <1>3
  <2> QED
    BY <2>1, <2>3, <2>4, ZenonT(40) DEF Cleaning, Holding
<1> QED
  BY <1>1, <1>4, <1>7, <1>9, <1>10, <1>11, <1>12, Zenon DEF Sound


-----------------------------------------------------------------------------
(* The theorems.                                                           *)

(* A step that changes nothing.                                            *)
LEMMA SoundStutters ==
    ASSUME Sound, UNCHANGED vars
    PROVE  Sound'
<1>1. UNCHANGED <<versions, mode, uploads, lastUpload, lastWrite, created, handler, sending, topics,
                  next, produced, confirmed, delivered, excused>>
  BY Zenon DEF vars, store, history
<1>2. TypeOK'
  BY <1>1, Zenon DEF Sound, TypeOK, UploadIds
<1>3. Shapes' /\ Numbered'
  BY <1>1, Zenon DEF Sound, Shapes, Shape, Numbered
<1>4. Knowing' /\ Stamping'
  BY <1>1, Zenon DEF Sound, Knowing, Announced, Knows, Stamping, MetadataTruthful, Stamped,
                     Revisions, topicsFor, UploadIds
<1>5. Popping'
  BY <1>1, Zenon DEF Sound, Popping, PopExact, Reads, PopEvent, Exact, CanRead
<1>6. Cleaning'
  BY <1>1, ZenonT(40) DEF Sound, Cleaning, AdminCleansUp, Holding, Holds, UploadIds
<1> QED
  BY <1>2, <1>3, <1>4, <1>5, <1>6, Zenon DEF Sound

(* The inductive invariant of the handlers, the upstream service and the   *)
(* topics, for every set of buckets, users and slots and every             *)
(* interleaving of their steps.                                            *)
THEOREM Invariant == Spec => []Sound
<1>1. Init => Sound
  BY InitSound, Zenon
<1>2. Sound /\ [Next]_vars => Sound'
  <2> SUFFICES ASSUME Sound, [Next]_vars
               PROVE  Sound'
    OBVIOUS
  <2>1. CASE UNCHANGED vars
    BY <2>1, SoundStutters, Zenon
  <2>2. CASE Next
    <3>1. TypeOK /\ Shapes /\ Numbered /\ Knowing /\ Stamping /\ Popping /\ Cleaning
      BY Zenon DEF Sound
    <3>2. TypeOK' /\ Shapes' /\ Numbered'
      BY <2>2, <3>1, TypeNext, ShapesNext, NumberedNext, Zenon
    <3>3. Knowing' /\ Stamping' /\ Popping' /\ Cleaning'
      BY <2>2, <3>1, KnowingNext, StampingNext, PoppingNext, CleaningNext, Zenon
    <3> QED
      BY <3>2, <3>3, Zenon DEF Sound
  <2> QED
    BY <2>1, <2>2, Zenon
<1> QED
  BY <1>1, <1>2, PTL DEF Spec

(* notifyUpload and kafkaUploadNotificationTopics: an event names an       *)
(* object that was stored, in its own topics, and an upload the client is  *)
(* told of has been handed to the producer of every one of its topics.     *)
THEOREM EventsFollowObjects == Spec => []Announced
<1>1. Sound => Announced
  BY Zenon DEF Sound, Knowing
<1> QED
  BY <1>1, Invariant, PTL

(* ensureUploadedByMetadata: what is stored through the gateway carries    *)
(* the name of the user that uploaded it, whatever the request said.       *)
THEOREM MetadataNamesUploader == Spec => []MetadataTruthful
<1>1. Sound => MetadataTruthful
  BY Zenon DEF Sound, Stamping
<1> QED
  BY <1>1, Invariant, PTL

(* handlePopAPI: what a pop delivers is the object its event names.        *)
THEOREM PopsDeliverTheNamedObject == Spec => []PopExact
<1>1. Sound => PopExact
  BY Zenon DEF Sound, Popping
<1> QED
  BY <1>1, Invariant, PTL

(* handleAdminBucketUpload: an open multipart upload of the browser still  *)
(* has its handler, unless a call failed whose answer the handler needed.  *)
THEOREM BrowserUploadsCleanUp == Spec => []AdminCleansUp
<1>1. Sound => AdminCleansUp
  BY Zenon DEF Sound, Cleaning
<1> QED
  BY <1>1, Invariant, PTL
=============================================================================
