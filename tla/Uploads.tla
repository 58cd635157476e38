------------------------------ MODULE Uploads ------------------------------
(***************************************************************************)
(* The life of an object: the handlers that create objects in the          *)
(* upstream store (internal/server/handlers_object.go,                     *)
(* handlers_multipart.go and the browser upload of                         *)
(* internal/adminpage/adminpage.go), the upload event each of them         *)
(* publishes (internal/server/upload_notifications.go,                     *)
(* internal/uploadnotify/kafka.go) and the pop handler that reads the      *)
(* event back and streams the object (internal/server/pop.go).             *)
(*                                                                         *)
(* The upstream S3 service and Kafka are external.  A call to the service  *)
(* takes effect or not, its answer may be lost after it took effect, and   *)
(* the SDK may then send it again when its body can be replayed.  A        *)
(* produced record is appended to its topic or never arrives, whether or   *)
(* not the handler that produced it still waits.  Clients disconnect at    *)
(* any time and the gateway may crash.  Each bucket holds one key.         *)
(***************************************************************************)
EXTENDS Naturals, Sequences, Functions

CONSTANTS
    Requests,       \* request slots: handlers that may run at once
    Users,          \* principals
    Buckets,        \* buckets
    Global,         \* the global topic
    Nobody,         \* uploader of what was put upstream without the gateway
    Contents,       \* object contents; the ETag is a function of the content
    Empty,          \* the content of an empty file
    Perm,           \* [Users -> [Buckets -> SUBSET {"r", "w", "c", "d"}]]
    ReadAll,        \* users in the s3gateway-all-r group
    Preloaded,      \* buckets that hold an object put upstream without the gateway
    Used,           \* the earlier upload, if any: <<bucket, uploader>>
    Versioned,      \* buckets that may have versioning on from the start
    BucketTopic,    \* ENABLE_KAFKA_BUCKET_TOPIC
    GlobalTopic,    \* whether KAFKA_GLOBAL_TOPIC is set
    MaxStarts,      \* bound: requests started
    MaxRetries      \* bound: calls the SDK sends again

ASSUME UploadsAssumption ==
    /\ Perm \in [Users -> [Buckets -> SUBSET {"r", "w", "c", "d"}]]
    /\ ReadAll \subseteq Users
    /\ Preloaded \subseteq Buckets /\ Versioned \subseteq Buckets
    /\ Used \in Seq((Buckets \ Preloaded) \X Users) /\ Len(Used) <= 1
    /\ Empty \in Contents
    /\ BucketTopic \in BOOLEAN /\ GlobalTopic \in BOOLEAN
    /\ Nobody \notin Users /\ Global \notin Buckets
    /\ MaxStarts \in Nat /\ MaxRetries \in Nat

VARIABLES
    versions,   \* [Buckets -> SUBSET Version]
    mode,       \* [Buckets -> {"off", "on", "suspended"}], bucket versioning
    uploads,    \* multipart uploads in progress: upload id |-> Upload
    lastUpload, \* the last upload id given out
    lastWrite,  \* the number of the last write to an object, delete markers included
    handler,    \* [Requests -> Handler]
    sending,    \* records produced and not appended: late, or lost
    topics,     \* [Topics -> Seq(Event)]
    next,       \* [Topics -> Nat], committed offset of the pop group
    started,    \* requests started
    retried,    \* calls sent again
    created,    \* history: every revision ever stored
    produced,   \* history: <<topic, revision>> handed to the producer
    confirmed,  \* history: revisions whose upload was answered with success
    excused,    \* history: uploads whose id was never learnt, or whose abort failed
    delivered   \* history: what pop streamed completely, with its event

store == <<versions, mode, uploads, lastUpload, lastWrite, created>>

history == <<produced, confirmed, delivered>>

counts == <<started, retried>>

vars == <<store, handler, sending, topics, next, counts, history, excused>>

-----------------------------------------------------------------------------
Topics == Buckets \cup {Global}

Absent == 0         \* no version id in the answer: versioning was never on

Null == 1           \* the version id "null"; immutable ids are greater

(* Object metadata, as far as the upload policy looks at it: the value of  *)
(* uploaded-by and whether the keys of REQUIRED_UPLOAD_METADATA_KEYS are   *)
(* there.  The author of a version, or of a multipart upload, is history:  *)
(* the principal whose request supplied its metadata.                      *)
Metadata == [by : Users \cup {Nobody}, complete : BOOLEAN]

CanRead(u, b) == "r" \in Perm[u][b] \/ u \in ReadAll

CanReadAll(u) == u \in ReadAll

CanWrite(u, b) == "w" \in Perm[u][b]

CanConfigure(u, b) == "c" \in Perm[u][b]

CanDeleteObject(u, b) == "d" \in Perm[u][b]

(* Mutant: a client's own uploaded-by is kept.                             *)
KeepUploadedByMetadata(meta, user) == IF meta.by = Nobody THEN [meta EXCEPT !.by = user] ELSE meta

ensureUploadedByMetadata(meta, user) == [meta EXCEPT !.by = user]

missingRequiredUploadMetadata(meta) == ~ meta.complete

topicsFor(b) ==
    (IF BucketTopic THEN {b} ELSE {}) \cup (IF GlobalTopic THEN {Global} ELSE {})

-----------------------------------------------------------------------------
(* The upstream store.                                                     *)

(* v is the current version of the object of b: the one written last.      *)
Current(b, v) == v \in versions[b] /\ \A w \in versions[b] : w.rev <= v.rev

Live(b, v) == Current(b, v) /\ ~ v.deleted

Revision == lastWrite + 1

(* With versioning every write has an id of its own.                       *)
NewId(b) == IF mode[b] = "on" THEN Null + Revision ELSE Null

(* What the answer to a creation says of the version.                      *)
ReportedId(b) == IF mode[b] = "off" THEN Absent ELSE NewId(b)

Without(b, id) == {v \in versions[b] : v.id # id}

(* Without versioning the null version is replaced, with it every write    *)
(* adds a version.                                                         *)
Pushed(b, v) == {v} \cup IF mode[b] = "on" THEN versions[b] ELSE Without(b, Null)

(* What the handler learns of a revision: its ETag and version.            *)
Stored(b, content) ==
    [rev |-> Revision, bucket |-> b, version |-> ReportedId(b), etag |-> content]

(* b receives a new revision.                                              *)
Store(b, content, meta, author) ==
    /\ versions' = [versions EXCEPT ![b] =
           Pushed(b, [id |-> NewId(b), content |-> content, meta |-> meta, author |-> author,
                      rev |-> Revision, deleted |-> FALSE])]
    /\ lastWrite' = Revision
    /\ created' = created \cup {Stored(b, content)}
    /\ UNCHANGED mode

(* A delete that names a version removes it, be it a delete marker.        *)
DeleteVersion(b, id) ==
    /\ versions' = [versions EXCEPT ![b] = Without(b, id)]
    /\ UNCHANGED <<mode, lastWrite, created>>

(* Without versioning the object is gone, with it a delete marker becomes  *)
(* the current version.                                                    *)
DeleteCurrent(b) ==
    /\ IF mode[b] = "off"
       THEN versions' = [versions EXCEPT ![b] = {}] /\ UNCHANGED lastWrite
       ELSE /\ versions' = [versions EXCEPT ![b] =
                   Pushed(b, [id |-> NewId(b), content |-> Empty,
                              meta |-> [by |-> Nobody, complete |-> TRUE], author |-> Nobody,
                              rev |-> Revision, deleted |-> TRUE])]
            /\ lastWrite' = Revision
    /\ UNCHANGED <<mode, created>>

UploadIds == DOMAIN uploads

Drop(u) == uploads' = [i \in UploadIds \ {u} |-> uploads[i]]

(* Mutant: the read of a pop carries no If-Match.                          *)
NamesAnyVersion(e, v) ==
    /\ ~ v.deleted
    /\ e.version # Absent => v.id = e.version
    /\ e.version = Absent => Current(e.bucket, v)

(* The version a pop reads: the one the event names, or the current one,   *)
(* and, unless the id is immutable, only if its ETag is the event's.       *)
NamesVersion(e, v) ==
    /\ ~ v.deleted
    /\ e.version # Absent => v.id = e.version
    /\ e.version = Absent => Current(e.bucket, v)
    /\ e.version \in {Absent, Null} => v.content = e.etag

-----------------------------------------------------------------------------
(* Handlers.  A handler is always in one of these phases:                  *)
(*   "idle"      no request in this slot;                                  *)
(*   "calling"   an upstream call was sent;                                *)
(*   "applied"   it took effect (or was read), its answer is on its way;   *)
(*   "reading"   a browser upload reads the next part from the browser;    *)
(*   "stored"    the handler knows that its object is stored;              *)
(*   "notifying" it waits for Kafka;                                       *)
(*   "streaming" pop writes the object to its client.                      *)

NoUpload == 0

NoResult == [rev |-> 0]

Blank == [op |-> "none", phase |-> "idle", call |-> "none", user |-> Nobody,
          bucket |-> Global, source |-> Global, content |-> Empty,
          meta |-> [by |-> Nobody, complete |-> TRUE], upload |-> NoUpload, parts |-> 0,
          result |-> NoResult, gone |-> FALSE,
          topic |-> Global, status |-> "on", version |-> Absent]

Creations == {"PutObject", "CopyObject", "CompleteMultipartUpload"}

Free(r) == handler[r].phase = "idle" /\ started < MaxStarts

Request(op, call, user, b) ==
    [Blank EXCEPT !.op = op, !.call = call, !.user = user, !.bucket = b, !.phase = "calling"]

(* The request of h enters slot r and sends its first upstream call.       *)
Start(r, h) ==
    /\ Free(r)
    /\ started' = started + 1
    /\ handler' = [handler EXCEPT ![r] = h]
    /\ UNCHANGED <<store, sending, topics, next, retried, history, excused>>

(* The handlers up to their upstream call.  A request that its caller may  *)
(* not make, or that lacks required metadata, changes nothing.             *)
handlePutObject(r, u, b, content, meta) ==
    /\ CanWrite(u, b)
    /\ ~ missingRequiredUploadMetadata(ensureUploadedByMetadata(meta, u))
    /\ Start(r, [Request("PutObject", "PutObject", u, b) EXCEPT
                        !.content = content, !.meta = ensureUploadedByMetadata(meta, u)])

(* With the COPY directive the store takes the metadata from the source.   *)
handleCopyObject(r, u, b, source, replace, meta) ==
    /\ CanWrite(u, b) /\ CanRead(u, source)
    /\ replace => ~ missingRequiredUploadMetadata(ensureUploadedByMetadata(meta, u))
    /\ IF replace
       THEN Start(r, [Request("CopyReplace", "CopyObject", u, b) EXCEPT
                           !.source = source, !.meta = ensureUploadedByMetadata(meta, u)])
       ELSE Start(r, [Request("CopyObject", "CopyObject", u, b) EXCEPT !.source = source])

handleCreateMultipart(r, u, b, meta) ==
    /\ CanWrite(u, b)
    /\ ~ missingRequiredUploadMetadata(ensureUploadedByMetadata(meta, u))
    /\ Start(r, [Request("CreateMultipartUpload", "CreateMultipartUpload", u, b) EXCEPT
                        !.meta = ensureUploadedByMetadata(meta, u)])

handleUploadPart(r, u, b, id, content) ==
    /\ CanWrite(u, b)
    /\ Start(r, [Request("UploadPart", "UploadPart", u, b) EXCEPT
                        !.upload = id, !.content = content])

handleUploadPartCopy(r, u, b, id, source) ==
    /\ CanWrite(u, b) /\ CanRead(u, source)
    /\ Start(r, [Request("UploadPartCopy", "UploadPartCopy", u, b) EXCEPT
                        !.upload = id, !.source = source])

handleCompleteMultipart(r, u, b, id) ==
    /\ CanWrite(u, b)
    /\ Start(r, [Request("CompleteMultipartUpload", "CompleteMultipartUpload", u, b) EXCEPT
                        !.upload = id])

handleAbortMultipart(r, u, b, id) ==
    /\ CanWrite(u, b)
    /\ Start(r, [Request("AbortMultipartUpload", "AbortMultipartUpload", u, b) EXCEPT
                        !.upload = id])

handleDeleteObject(r, u, b, version) ==
    /\ CanDeleteObject(u, b)
    /\ Start(r, [Request("DeleteObject", "DeleteObject", u, b) EXCEPT !.version = version])

(* A bucket has one key, so a batch of keys is one delete, and a key that  *)
(* the upstream refuses inside its success is a call without effect.       *)
handleDeleteObjects(r, u, b, version) ==
    /\ CanDeleteObject(u, b)
    /\ Start(r, [Request("DeleteObject", "DeleteObject", u, b) EXCEPT !.version = version])

handleAdminBucketDelete(r, u, b) ==
    /\ CanDeleteObject(u, b)
    /\ Start(r, [Request("DeleteObject", "DeleteObject", u, b) EXCEPT !.version = Absent])

handlePutBucketVersioning(r, u, b, status) ==
    /\ CanConfigure(u, b)
    /\ Start(r, [Request("PutBucketVersioning", "PutBucketVersioning", u, b) EXCEPT
                        !.status = status])

handleAdminBucketUpload(r, u, b, meta) ==
    /\ CanWrite(u, b)
    /\ ~ missingRequiredUploadMetadata([meta EXCEPT !.by = u])
    /\ Start(r, [Request("AdminUpload", "CreateMultipartUpload", u, b) EXCEPT
                        !.meta = [meta EXCEPT !.by = u]])

(* handlePopAPI: the group's next record of the topic is handed to the     *)
(* handler, which checks the event's bucket again and reads the object.    *)
(* Calls for one topic and group do not overlap.                           *)
handlePopAPI(r, u, t) ==
    /\ IF t = Global THEN GlobalTopic /\ CanReadAll(u) ELSE BucketTopic /\ CanRead(u, t)
    /\ \A q \in Requests : ~ (handler[q].op = "Pop" /\ handler[q].topic = t)
    /\ next[t] < Len(topics[t])
    /\ LET e == topics[t][next[t] + 1]
       IN  /\ CanRead(u, e.bucket)
           /\ Start(r, [Request("Pop", "GetObject", u, e.bucket) EXCEPT !.topic = t])

PopEvent(h) == topics[h.topic][next[h.topic] + 1]

-----------------------------------------------------------------------------
(* The upstream service executes the call of slot r.                       *)

Becomes(r, h) == handler' = [handler EXCEPT ![r] = h]

Applied(r, result) ==
    Becomes(r, [handler[r] EXCEPT !.phase = "applied", !.result = result])

ApplyPut(r, h) ==
    /\ h.call = "PutObject"
    /\ Store(h.bucket, h.content, h.meta, h.user)
    /\ Applied(r, Stored(h.bucket, h.content))
    /\ UNCHANGED <<uploads, lastUpload>>

ApplyCopy(r, h) ==
    /\ h.call = "CopyObject"
    /\ \E v \in versions[h.source] :
           /\ Live(h.source, v)
           /\ IF h.op = "CopyReplace"
              THEN Store(h.bucket, v.content, h.meta, h.user)
              ELSE Store(h.bucket, v.content, v.meta, v.author)
           /\ Applied(r, Stored(h.bucket, v.content))
    /\ UNCHANGED <<uploads, lastUpload>>

ApplyCreate(r, h) ==
    /\ h.call = "CreateMultipartUpload"
    /\ lastUpload' = lastUpload + 1
    /\ uploads' = [i \in UploadIds \cup {lastUpload'} |->
                      IF i = lastUpload'
                      THEN [bucket |-> h.bucket, meta |-> h.meta, author |-> h.user,
                            parts |-> <<>>, admin |-> h.op = "AdminUpload"]
                      ELSE uploads[i]]
    /\ Applied(r, [rev |-> lastUpload'])
    /\ UNCHANGED <<versions, mode, lastWrite, created>>

Addressed(h) == h.upload \in UploadIds /\ uploads[h.upload].bucket = h.bucket

ApplyPart(r, h) ==
    /\ h.call = "UploadPart"
    /\ Addressed(h)
    /\ uploads' = [uploads EXCEPT ![h.upload].parts = <<h.content>>]
    /\ Applied(r, NoResult)
    /\ UNCHANGED <<versions, mode, lastWrite, created, lastUpload>>

ApplyPartCopy(r, h) ==
    /\ h.call = "UploadPartCopy"
    /\ Addressed(h)
    /\ \E v \in versions[h.source] :
           Live(h.source, v) /\ uploads' = [uploads EXCEPT ![h.upload].parts = <<v.content>>]
    /\ Applied(r, NoResult)
    /\ UNCHANGED <<versions, mode, lastWrite, created, lastUpload>>

ApplyComplete(r, h) ==
    /\ h.call = "CompleteMultipartUpload"
    /\ Addressed(h) /\ uploads[h.upload].parts # <<>>
    /\ LET up == uploads[h.upload]
       IN  /\ Store(h.bucket, up.parts[1], up.meta, up.author)
           /\ Applied(r, Stored(h.bucket, up.parts[1]))
    /\ Drop(h.upload)
    /\ UNCHANGED lastUpload

ApplyAbort(r, h) ==
    /\ h.call = "AbortMultipartUpload"
    /\ Addressed(h)
    /\ Drop(h.upload)
    /\ Applied(r, NoResult)
    /\ UNCHANGED <<versions, mode, lastWrite, created, lastUpload>>

ApplyDelete(r, h) ==
    /\ h.call = "DeleteObject"
    /\ IF h.version = Absent THEN DeleteCurrent(h.bucket) ELSE DeleteVersion(h.bucket, h.version)
    /\ Applied(r, NoResult)
    /\ UNCHANGED <<uploads, lastUpload>>

ApplyVersioning(r, h) ==
    /\ h.call = "PutBucketVersioning"
    /\ mode' = [mode EXCEPT ![h.bucket] = h.status]
    /\ Applied(r, NoResult)
    /\ UNCHANGED <<versions, uploads, lastUpload, lastWrite, created>>

ApplyGet(r, h) ==
    /\ h.call = "GetObject"
    /\ \E v \in versions[h.bucket] :
           NamesVersion(PopEvent(h), v) /\ Applied(r, v)
    /\ UNCHANGED store

UpstreamApplies(r) ==
    /\ handler[r].phase = "calling"
    /\ LET h == handler[r]
       IN  \/ ApplyPut(r, h) \/ ApplyCopy(r, h) \/ ApplyCreate(r, h) \/ ApplyPart(r, h)
           \/ ApplyPartCopy(r, h) \/ ApplyComplete(r, h) \/ ApplyAbort(r, h)
           \/ ApplyDelete(r, h) \/ ApplyVersioning(r, h) \/ ApplyGet(r, h)
    /\ UNCHANGED <<sending, topics, next, counts, history, excused>>

-----------------------------------------------------------------------------
(* The handler learns how its call ended.                                  *)

Finish(r) == Becomes(r, Blank)

(* The deferred abort of handleAdminBucketUpload.                          *)
Abort(r, h) ==
    Becomes(r, [h EXCEPT !.call = "AbortMultipartUpload", !.phase = "calling",
                         !.result = NoResult])

Answered(r) ==
    /\ handler[r].phase = "applied"
    /\ LET h == handler[r]
       IN  CASE h.call \in Creations -> Becomes(r, [h EXCEPT !.phase = "stored"])
             [] h.op = "AdminUpload" /\ h.call = "CreateMultipartUpload" ->
                    Becomes(r, [h EXCEPT !.phase = "reading", !.upload = h.result.rev])
             [] h.op = "AdminUpload" /\ h.call = "UploadPart" ->
                    Becomes(r, [h EXCEPT !.phase = "reading", !.parts = 1])
             [] h.op = "Pop" -> Becomes(r, [h EXCEPT !.phase = "streaming"])
             [] OTHER -> Finish(r)
    /\ UNCHANGED <<store, sending, topics, next, counts, history, excused>>

(* Mutant: a failed completion is taken for the end of the upload.         *)
NeedsCleanupUnlessEnded(h) ==
    h.op = "AdminUpload" /\ h.call = "UploadPart"

(* Without an upload id there is nothing to abort, and an abort is tried   *)
(* once.                                                                   *)
NeedsCleanup(h) ==
    h.op = "AdminUpload" /\ h.call \notin {"CreateMultipartUpload", "AbortMultipartUpload"}

(* The handler sees an error: the call had no effect, or its answer was    *)
(* lost.                                                                   *)
CallFails(r) ==
    /\ handler[r].phase \in {"calling", "applied"}
    /\ LET h == handler[r]
       IN  /\ IF NeedsCleanup(h) THEN Abort(r, h) ELSE Finish(r)
           /\ excused' = excused \cup
                  CASE h.op # "AdminUpload" -> {}
                    [] h.call = "CreateMultipartUpload" -> {h.result.rev} \ {0}
                    [] h.call = "AbortMultipartUpload" -> {h.upload}
                    [] OTHER -> {}
    /\ UNCHANGED <<store, sending, topics, next, counts, history>>

(* The body of an S3 upload is a stream, which cannot be sent twice.       *)
Replayable(h) == h.op \notin {"PutObject", "UploadPart"}

(* The SDK lost the answer and sends the call again.                       *)
SDKRetries(r) ==
    /\ handler[r].phase = "applied"
    /\ retried < MaxRetries
    /\ retried' = retried + 1
    /\ Replayable(handler[r])
    /\ LET h == handler[r]
       IN  /\ Becomes(r, [h EXCEPT !.phase = "calling", !.result = NoResult])
           /\ excused' = IF h.op = "AdminUpload" /\ h.call = "CreateMultipartUpload"
                         THEN excused \cup {h.result.rev} ELSE excused
    /\ UNCHANGED <<store, sending, topics, next, started, history>>

-----------------------------------------------------------------------------
(* The browser upload after its multipart upload was created.              *)

AdminCall(r, call, content) ==
    /\ Becomes(r, [handler[r] EXCEPT !.call = call, !.phase = "calling", !.content = content,
                                     !.result = NoResult])
    /\ UNCHANGED <<store, sending, topics, next, counts, history, excused>>

(* One part was read and is sent.                                          *)
AdminUploadPart(r, content) ==
    /\ handler[r].phase = "reading" /\ handler[r].parts = 0
    /\ content # Empty
    /\ AdminCall(r, "UploadPart", content)

(* The closing boundary was read.  A file without a part is stored with    *)
(* PutObject, and its multipart upload is aborted afterwards.              *)
AdminUploadEnds(r) ==
    /\ handler[r].phase = "reading"
    /\ AdminCall(r, IF handler[r].parts = 0 THEN "PutObject" ELSE "CompleteMultipartUpload",
                 Empty)

(* The body broke off, was too large or not of the declared size.          *)
AdminUploadRejected(r) ==
    /\ handler[r].phase = "reading"
    /\ Abort(r, handler[r])
    /\ UNCHANGED <<store, sending, topics, next, counts, history, excused>>

-----------------------------------------------------------------------------
(* Notification.                                                           *)

(* The client disconnects and the context of the request is cancelled.  A  *)
(* call that is under way may then fail, which CallFails covers; here the  *)
(* upstream answer is already known.                                       *)
ClientLeaves(r) ==
    /\ handler[r].phase = "stored"
    /\ ~ handler[r].gone
    /\ Becomes(r, [handler[r] EXCEPT !.gone = TRUE])
    /\ UNCHANGED <<store, sending, topics, next, counts, history, excused>>

(* Mutant: the event is published under the context of the request.        *)
DestinationsWhilePresent(h) == IF h.gone THEN {} ELSE topicsFor(h.bucket)

(* context.WithoutCancel: a client that left changes nothing.              *)
Destinations(h) == topicsFor(h.bucket)

UploadEvent(c, user) ==
    [rev |-> c.rev, bucket |-> c.bucket, version |-> c.version, etag |-> c.etag, uploader |-> user]

(* Notify submits the record for every topic before it waits.              *)
notifyUpload(r) ==
    /\ handler[r].phase = "stored"
    /\ LET h == handler[r]
           e == UploadEvent(h.result, h.user)
       IN  /\ sending' = sending \cup {[topic |-> t, event |-> e] : t \in Destinations(h)}
           /\ produced' = produced \cup (Destinations(h) \X {h.result.rev})
           /\ Becomes(r, [h EXCEPT !.phase = "notifying"])
    /\ UNCHANGED <<store, topics, next, counts, confirmed, delivered, excused>>

(* Every record was acknowledged or failed, or the timeout passed; a       *)
(* failure is only logged and the client gets its success.                 *)
Notified(r) ==
    /\ handler[r].phase = "notifying"
    /\ confirmed' = confirmed \cup {handler[r].result.rev}
    /\ IF handler[r].op = "AdminUpload" /\ handler[r].call = "PutObject"
       THEN Abort(r, handler[r])
       ELSE Finish(r)
    /\ UNCHANGED <<store, sending, topics, next, counts, produced, delivered, excused>>

KafkaAppends(m) ==
    /\ sending' = sending \ {m}
    /\ topics' = [topics EXCEPT ![m.topic] = Append(@, m.event)]
    /\ UNCHANGED <<store, handler, next, counts, history, excused>>

-----------------------------------------------------------------------------

Committed(offset) == offset + 1

(* streamPoppedObject wrote and flushed the whole body; the offset is      *)
(* committed, or the commit fails and the event is delivered again.        *)
PopDelivers(r, commits) ==
    /\ handler[r].phase = "streaming"
    /\ LET h == handler[r]
       IN  /\ delivered' = delivered \cup
                  {[event |-> PopEvent(h), got |-> h.result, user |-> h.user]}
           /\ next' = IF commits THEN [next EXCEPT ![h.topic] = Committed(@)] ELSE next
           /\ Finish(r)
    /\ UNCHANGED <<store, sending, topics, counts, produced, confirmed, excused>>

(* The body broke off, the client left, or Kafka wants to rebalance.       *)
PopInterrupted(r) ==
    /\ handler[r].phase = "streaming"
    /\ Finish(r)
    /\ UNCHANGED <<store, sending, topics, next, counts, history, excused>>

-----------------------------------------------------------------------------
(* The gateway process dies.  A record it produced may still arrive.       *)
Crash ==
    /\ \E r \in Requests : handler[r].phase # "idle"
    /\ handler' = [r \in Requests |-> Blank]
    /\ excused' = excused \cup {id \in UploadIds : uploads[id].admin}
    /\ UNCHANGED <<store, sending, topics, next, counts, history>>

External ==
    [id |-> Null, content |-> Empty, meta |-> [by |-> Nobody, complete |-> FALSE],
     author |-> Nobody, rev |-> 0, deleted |-> FALSE]

(* Earlier, user u uploaded an object to b, which was announced, and a     *)
(* part of a multipart upload that is still open.                          *)
EarlierRevision(b) ==
    [rev |-> 1, bucket |-> b, version |-> IF mode[b] = "on" THEN Null + 1 ELSE Absent,
     etag |-> Empty]

EarlierVersion(u, b) ==
    [id |-> IF mode[b] = "on" THEN Null + 1 ELSE Null, content |-> Empty,
     meta |-> [by |-> u, complete |-> TRUE], author |-> u, rev |-> 1, deleted |-> FALSE]

EarlierUpload(u, b, content) ==
    [bucket |-> b, meta |-> [by |-> u, complete |-> TRUE], author |-> u,
     parts |-> <<content>>, admin |-> FALSE]

Init ==
    /\ \E on \in SUBSET Versioned :
           mode = [b \in Buckets |-> IF b \in on THEN "on" ELSE "off"]
    /\ versions = [b \in Buckets |->
           IF b \in Preloaded THEN {External}
           ELSE {EarlierVersion(x[2], b) : x \in {y \in Range(Used) : y[1] = b}}]
    /\ \E content \in Contents \ {Empty} :
           uploads = [i \in DOMAIN Used |-> EarlierUpload(Used[i][2], Used[i][1], content)]
    /\ lastUpload = Len(Used) /\ lastWrite = Len(Used)
    /\ handler = [r \in Requests |-> Blank]
    /\ sending = {}
    /\ topics = [t \in Topics |->
           IF Used # <<>> /\ t \in topicsFor(Used[1][1])
           THEN <<UploadEvent(EarlierRevision(Used[1][1]), Used[1][2])>> ELSE <<>>]
    /\ next = [t \in Topics |-> 0]
    /\ started = 0 /\ retried = 0
    /\ created = {EarlierRevision(x[1]) : x \in Range(Used)}
    /\ produced = UNION {topicsFor(x[1]) \X {1} : x \in Range(Used)}
    /\ confirmed = DOMAIN Used
    /\ excused = {} /\ delivered = {}

Arrives(r) ==
    /\ Free(r)
    /\ \E u \in Users, b \in Buckets :
        \/ \E c \in Contents, m \in Metadata : handlePutObject(r, u, b, c, m)
        \/ \E source \in Buckets, replace \in BOOLEAN, m \in Metadata :
               handleCopyObject(r, u, b, source, replace, m)
        \/ \E m \in Metadata : handleCreateMultipart(r, u, b, m)
        \/ \E id \in 1..lastUpload :
               \/ \E c \in Contents : handleUploadPart(r, u, b, id, c)
               \/ \E source \in Buckets : handleUploadPartCopy(r, u, b, id, source)
               \/ handleCompleteMultipart(r, u, b, id)
               \/ handleAbortMultipart(r, u, b, id)
        \/ \E id \in {Absent} \cup {v.id : v \in versions[b]} :
               handleDeleteObject(r, u, b, id) \/ handleDeleteObjects(r, u, b, id)
        \/ handleAdminBucketDelete(r, u, b)
        \/ \E status \in {"on", "suspended"} : handlePutBucketVersioning(r, u, b, status)
        \/ \E m \in Metadata : handleAdminBucketUpload(r, u, b, m)

Next ==
    \/ \E r \in Requests :
        \/ Arrives(r)
        \/ \E u \in Users, t \in Topics : handlePopAPI(r, u, t)
        \/ UpstreamApplies(r) \/ Answered(r) \/ CallFails(r) \/ SDKRetries(r)
        \/ \E c \in Contents : AdminUploadPart(r, c)
        \/ AdminUploadEnds(r) \/ AdminUploadRejected(r)
        \/ ClientLeaves(r) \/ notifyUpload(r) \/ Notified(r)
        \/ \E commits \in BOOLEAN : PopDelivers(r, commits)
        \/ PopInterrupted(r)
    \/ \E m \in sending : KafkaAppends(m)
    \/ Crash

Spec == Init /\ [][Next]_vars

-----------------------------------------------------------------------------

Revisions(e) == [rev |-> e.rev, bucket |-> e.bucket, version |-> e.version, etag |-> e.etag]

(* Events follow the store: whatever Kafka holds or is sent names a        *)
(* revision that was stored, with the ETag and version the store gave it,  *)
(* on a topic of its bucket; and an upload that was answered with success  *)
(* was handed to every configured topic first, even when its client had    *)
(* already left (notifyUpload after the upstream answer and before         *)
(* WriteHeader; context.WithoutCancel).                                    *)
Announced ==
    /\ \A t \in Topics :
       \A e \in Range(topics[t]) \cup {m.event : m \in {x \in sending : x.topic = t}} :
           Revisions(e) \in created /\ t \in topicsFor(e.bucket)
    /\ \A c \in created : c.rev \in confirmed => topicsFor(c.bucket) \X {c.rev} \subseteq produced

(* The uploaded-by of every object, and of every multipart upload, is the  *)
(* principal who supplied its metadata, through copies and multipart       *)
(* uploads that others complete and whatever the client sent; only what    *)
(* was put upstream without the gateway, and its copies, may lack the      *)
(* required metadata.                                                      *)
MetadataTruthful ==
    LET Truthful(x) == x.meta.by = x.author /\ (x.author # Nobody => x.meta.complete)
    IN  /\ \A b \in Buckets : \A v \in versions[b] : Truthful(v)
        /\ \A id \in UploadIds : Truthful(uploads[id])

(* What pop delivers is the content the event announced, however often the *)
(* object was overwritten, deleted or re-versioned in between; with an     *)
(* immutable version id it is the very revision; and the caller may read   *)
(* its bucket (streamPoppedObject, popIfMatchETag).                        *)
PopExact ==
    \A d \in delivered :
        /\ ~ d.got.deleted
        /\ d.got.content = d.event.etag
        /\ d.event.version > Null => d.got.rev = d.event.rev
        /\ CanRead(d.user, d.event.bucket)

Holds(h, id) ==
    /\ h.op = "AdminUpload"
    /\ \/ h.upload = id
       \/ h.call = "CreateMultipartUpload" /\ h.phase = "applied" /\ h.result.rev = id

(* A browser upload leaves no multipart upload behind: one that is still   *)
(* there belongs to a handler that still runs, unless its id never reached *)
(* the gateway, its abort failed, or the gateway crashed (the deferred     *)
(* AbortMultipartUpload of handleAdminBucketUpload).                       *)
AdminCleansUp ==
    \A id \in UploadIds :
        uploads[id].admin => id \in excused \/ \E r \in Requests : Holds(handler[r], id)
=============================================================================
