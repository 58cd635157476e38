------------------------------ MODULE Requests ------------------------------
(***************************************************************************)
(* One request from its composition to its audit event.  A client composes *)
(* it parameter by parameter; ServeHTTP answers it or hands it to a        *)
(* handler (modules Routing and Handlers), which checks the caller's       *)
(* permissions (Authz), decodes and encodes documents (Documents) and      *)
(* calls the upstream; and the audit middleware records it when the        *)
(* handler has returned or panicked (WithS3Audit, internal/server/         *)
(* audit.go).                                                              *)
(***************************************************************************)
EXTENDS Handlers

CONSTANTS
    Names,          \* the query parameter names clients use
    MaxParams,      \* bound: parameters in one query
    Environments,   \* callers, buckets, faults and upstream answers
    LifecycleDocs,  \* the bodies of PutBucketLifecycleConfiguration
    DeleteDocs,     \* the bodies of DeleteObjects
    StoredRules,    \* the lifecycle rules the upstream holds
    Listings,       \* the paginated bucket lists of the upstream
    QueueHeads,     \* what a pop finds in the queue
    Objects         \* the objects a lifecycle rule may select

ASSUME RequestsAssumption ==
    /\ Names \subseteq STRING
    /\ MaxParams \in Nat
    /\ \A e \in Environments :
           e.fault \in Faults /\ e.up \in UpstreamAnswers /\ e.refused \subseteq Nat

VARIABLES
    req,        \* the request
    phase,      \* "composing", "served" (ServeHTTP is over), "logged"
    context,    \* what the handler was called with, a sequence of length 0 or 1
    route,      \* what ServeHTTP did: the operation it called, or a status
    event       \* the audit event, or NoEvent

vars == <<req, phase, context, route, event>>

NoEvent == "none"

Init ==
    /\ req \in [method : Methods, path : Paths, form : Forms, query : {<<>>}]
    /\ phase = "composing"
    /\ context = <<>>
    /\ route = "none"
    /\ event = NoEvent

(* The client adds a query parameter.                                      *)
AddParameter(name, class) ==
    /\ phase = "composing"
    /\ Cardinality(DOMAIN req.query) < MaxParams
    /\ name \notin DOMAIN req.query
    /\ req' = [req EXCEPT !.query = (name :> class) @@ @]
    /\ UNCHANGED <<phase, context, route, event>>

AnswersItself(outcome) == outcome \in Statuses \cup {"Health"}

(* ServeHTTP answers without calling a handler.                            *)
Refuse ==
    /\ phase = "composing"
    /\ AnswersItself(ServeHTTP(req))
    /\ phase' = "served"
    /\ route' = [operation |-> ServeHTTP(req), completed |-> TRUE,
                 result |-> Reply(IF req.path = "health" THEN "200" ELSE ServeHTTP(req))]
    /\ UNCHANGED <<req, context, event>>

Inputs(operation) ==
    CASE operation = "PutBucketLifecycleConfiguration" -> LifecycleDocs
      [] operation = "DeleteObjects"                   -> DeleteDocs
      [] operation = "GetBucketLifecycleConfiguration" -> StoredRules
      [] operation = "ListBuckets"                     -> Listings
      [] operation = "PopObject"                       -> QueueHeads
      [] OTHER                                         -> {Nothing}

(* The handlers that stream an object panic with http.ErrAbortHandler when *)
(* the upstream body breaks off.                                           *)
MayAbort(operation, result) == operation \in {"GetObject", "PopObject"} /\ result.status = "200"

(* ServeHTTP calls a handler, which returns or panics.                     *)
Serve(env, input, completed) ==
    /\ phase = "composing"
    /\ phase' = "served"
    /\ LET operation == ServeHTTP(req)
           h == [rules |-> RulesFromGroups(env.groups),
                 bucket |-> IF req.path = "noBucket" THEN <<"">> ELSE env.bucket,
                 source |-> env.source, request |-> req,
                 fault |-> env.fault, up |-> env.up, refused |-> env.refused,
                 input |-> input]
           result == Handle(operation, h)
       IN  /\ completed \/ MayAbort(operation, result)
           /\ context' = <<[env |-> env, bucket |-> h.bucket, input |-> input]>>
           /\ route' = [operation |-> operation, completed |-> completed, result |-> result]
    /\ UNCHANGED <<req, event>>

s3AuditOutcome(status, completed) ==
    CASE ~ completed                                      -> "server_error"
      [] completed /\ StatusCode[status] < 400            -> "success"
      [] completed /\ StatusCode[status] \in 400 .. 499   -> "client_error"
      [] OTHER                                            -> "server_error"

isS3AuditExcluded(r) == r.path = "health"

(* The deferred logS3Audit of WithS3Audit.                                 *)
logS3Audit ==
    /\ phase = "served"
    /\ phase' = "logged"
    /\ event' = IF isS3AuditExcluded(req) THEN NoEvent
                ELSE [action  |-> classifyS3Request(req),
                      status  |-> route.result.status,
                      outcome |-> s3AuditOutcome(route.result.status, route.completed)]
    /\ UNCHANGED <<req, context, route>>

Done == phase = "logged" /\ UNCHANGED vars

Next ==
    \/ \E name \in Names : \E class \in ValueClasses(name) : AddParameter(name, class)
    \/ Refuse
    \/ /\ phase = "composing"
       /\ ~ AnswersItself(ServeHTTP(req))
       /\ \E env \in Environments, input \in Inputs(ServeHTTP(req)), completed \in BOOLEAN :
              Serve(env, input, completed)
    \/ logS3Audit
    \/ Done

Spec == Init /\ [][Next]_vars

-----------------------------------------------------------------------------
Dispatched == phase # "composing" /\ ~ AnswersItself(route.operation)

Operation == route.operation

Result == route.result

(* The audit event of a request that ServeHTTP handed to an operation's    *)
(* handler names that operation, whatever else its query says ("Keep       *)
(* operation precedence aligned with ServeHTTP", audit.go:222).  Paths     *)
(* that name no bucket are left to AuditNamesRoute.                        *)
AuditNamesOperation ==
    (phase = "logged" /\ Dispatched /\ req.path # "noBucket") => event.action = Operation

(* The handler returned after an upstream call that neither failed nor put *)
(* an error or a broken document into a successful status.  Only a pop of  *)
(* an empty queue makes no call.                                           *)
CarriedOut ==
    /\ route.completed
    /\ IF Result.calls = <<>> THEN Operation = "PopObject" /\ Result.status = "204"
       ELSE context[1].env.up = "ok"

(* The client is told of success, by a status below 300, only when the     *)
(* operation was carried out (extractUpstreamErrorInfo).  DeleteObjects    *)
(* succeeds even if the upstream refused objects: its answer then lists    *)
(* exactly those as errors and none of them as deleted.  The audit log     *)
(* says "success" of every status below 400: apart from what was carried   *)
(* out, that is a redirect or a Not Modified of the upstream's own, whose  *)
(* status the event shows, never a failure behind a successful status.     *)
SuccessMeansDone ==
    (phase = "logged" /\ Dispatched) =>
        /\ (route.completed /\ StatusCode[Result.status] < 300) =>
               /\ CarriedOut
               /\ Operation = "DeleteObjects" =>
                      LET objects == DOMAIN Result.sent[1]
                          refused == context[1].env.refused
                      IN  /\ Result.shown[1].Error = objects \cap refused
                          /\ Result.shown[1].Deleted \in {{}, objects \ refused}
        /\ event.outcome = "success" =>
               \/ CarriedOut
               \/ /\ route.completed
                  /\ StatusCode[event.status] \in 300 .. 399
                  /\ event.status = context[1].env.up

PlainMutations == {"PutObject", "CopyObject", "DeleteObject", "CreateBucket", "DeleteBucket"}

MultipartOperations ==
    {"ListParts", "UploadPart", "UploadPartCopy", "CompleteMultipartUpload",
     "AbortMultipartUpload"}

(* The intent of a request survives dispatch: an ordinary mutation is      *)
(* reached only without the parameters of another operation (a part upload *)
(* or an abort with a bad identifier never overwrites or deletes an        *)
(* object), a request with an uploadId reaches only multipart operations,  *)
(* an aws-chunked body only the two handlers that decode it, an            *)
(* encryption option none, and an unknown parameter no S3 operation.       *)
IntentPreserved ==
    (Dispatched /\ req.path # "pop") =>
        /\ Operation \in PlainMutations => DOMAIN req.query \subseteq {"x-id", "versionId"}
        /\ "uploadId" \in DOMAIN req.query => Operation \in MultipartOperations
        /\ IsAWSChunkedPayload(req) => Operation \in {"PutObject", "UploadPart"}
        /\ req.form \notin {"encryption", "malformedQuery"}
        /\ DOMAIN req.query \subseteq supportedS3QueryParameters

(* What the comment in classifyS3Request says of the requests that are     *)
(* refused: "malformed and unsupported requests are attributed to the      *)
(* route they actually reach" (audit.go:222).  A request that ServeHTTP    *)
(* gives to handlePopAPI is not recorded as an S3 operation, and one that  *)
(* it gives to an operation is recorded as that operation.                 *)
AuditNamesRoute ==
    phase = "logged" =>
        /\ req.path = "popMalformed" => event.action \in {"PopObject", Unsupported, Unknown}
        /\ Dispatched => event.action = Operation

-----------------------------------------------------------------------------
(* The permission table of the README: a letter and the operations it      *)
(* opens.  ListBuckets and GetBucketLocation take any letter.              *)
OperationsOf ==
    [r |-> {"HeadBucket", "ListObjects", "ListObjectsV2", "ListObjectVersions", "GetObject",
            "HeadObject", "GetObjectAttributes", "GetObjectTagging", "GetObjectAcl",
            "GetBucketVersioning", "GetBucketLifecycleConfiguration", "GetBucketTagging",
            "GetBucketAcl", "ListParts", "ListMultipartUploads", "PopObject"}
               \cup ConfigReadOperations,
     w |-> {"PutObject", "CopyObject", "CreateMultipartUpload", "UploadPart", "UploadPartCopy",
            "CompleteMultipartUpload", "AbortMultipartUpload", "PutObjectTagging",
            "DeleteObjectTagging"},
     c |-> {"CreateBucket", "PutBucketVersioning", "PutBucketLifecycleConfiguration",
            "PutBucketTagging", "PutBucketAcl", "PutObjectAcl"},
     d |-> {"DeleteObject", "DeleteObjects"},
     b |-> {"DeleteBucket", "DeleteBucketLifecycleConfiguration", "DeleteBucketTagging"}]

(* The letters that groups give on a bucket, as the README describes them: *)
(* <namespace>-<letters> with no other letter in it, and the reserved      *)
(* group that reads every bucket.                                          *)
Letters(groups, bucket) ==
    {l \in PermLetters :
        \E g \in groups :
            \/ g = AllBucketsReadGroup /\ l = "r"
            \/ /\ g.namespace = bucket[1] /\ g.namespace \notin {"", "*"}
               /\ l \in ToSet(g.letters) /\ ToSet(g.letters) \subseteq PermLetters}

Allowed(operation, groups, bucket) ==
    IF operation \in {"ListBuckets", "GetBucketLocation"}
    THEN operation = "ListBuckets" \/ Letters(groups, bucket) # {}
    ELSE \E l \in Letters(groups, bucket) : operation \in OperationsOf[l]

(* What the caller may do with the request as a whole: a copy also reads   *)
(* its source, and a pop of every bucket takes the reserved group.         *)
Entitled(operation, c) ==
    IF operation = "PopObject" /\ c.bucket = popGlobalScope
    THEN AllBucketsReadGroup \in c.env.groups
    ELSE /\ Allowed(operation, c.env.groups, c.bucket)
         /\ operation \in {"CopyObject", "UploadPartCopy"} =>
                "r" \in Letters(c.env.groups, c.env.source)

(* The permissions are the ones of the README's table, exactly.  No        *)
(* handler calls the upstream about a bucket (the one in the path, or the  *)
(* one a popped event names) for a caller without the operation's letter   *)
(* on it, and a caller who has it is forbidden by the upstream only, the   *)
(* governance-retention bypass excepted.                                   *)
PermissionExact ==
    Dispatched =>
        LET c == context[1]
        IN  /\ \A i \in DOMAIN Result.calls :
                   /\ Entitled(Operation, c)
                   /\ Allowed(Operation, c.env.groups, Result.calls[i].bucket)
            /\ (Entitled(Operation, c) /\ c.env.fault # "bypass" /\ Result.status = "403") =>
                   Result.calls # <<>> /\ c.env.up = "403"

ChecksummedWrites ==
    {"PutBucketVersioning", "PutBucketTagging", "PutBucketLifecycleConfiguration",
     "PutObjectTagging", "DeleteObjects"}

(* What a client claims about the XML body of a configuration write holds  *)
(* of every body that is forwarded: the gateway sends a new document       *)
(* upstream with a digest of its own, so a wrong Content-MD5, a wrong      *)
(* checksum, or a trailer it would have to verify, declared or discovered  *)
(* only at the end of the body, stops the request                          *)
(* (decodeXMLWithChecksums, preserveXMLRequestTrailers).                   *)
ClaimsHonoured ==
    (Dispatched /\ Operation \in ChecksummedWrites \cup {"CreateBucket"} /\ Result.calls # <<>>) =>
        /\ context[1].env.fault \notin {"badDigest", "wrongMD5", "badBody"}
        /\ Operation \in ChecksummedWrites =>
               context[1].env.fault \notin {"wrongChecksum", "trailer", "lateTrailer"}

(* An object stored upstream under a rule, or deleted, is one the client's *)
(* document names.  A lifecycle rule that is forwarded selects exactly the *)
(* objects that satisfy every predicate written anywhere in it, in the     *)
(* order of the document; an object identifier of DeleteObjects carries    *)
(* the key as it was written and every condition that was written with it  *)
(* (lifecycleXMLTokenReader, deleteObjectsTokenReader and the decoders).   *)
ScopeKept ==
    (Dispatched /\ Result.sent # Nothing) =>
        LET sent    == Result.sent[1]
            written == context[1].input.kids
        IN  CASE Operation = "PutBucketLifecycleConfiguration" ->
                     /\ Len(sent) = Len(written)
                     /\ \A i \in DOMAIN sent, o \in Objects :
                            Selects(sent[i], o) <=> WrittenSelects(written[i], o)
              [] Operation = "DeleteObjects" ->
                     LET objects == SelectSeq(written, LAMBDA e : e.name = "Object")
                     IN  /\ Len(sent) = Len(objects)
                         /\ \A i \in DOMAIN sent : \A j \in DOMAIN objects[i].kids :
                                LET f == objects[i].kids[j]
                                IN  /\ f.name \in DOMAIN sent[i]
                                    /\ sent[i][f.name] = IF f.name = "Key" THEN f.text[1]
                                                         ELSE TrimSpace(f.text[1])

(* A client that reads the lifecycle configuration of a bucket and writes  *)
(* it back changes nothing: the document GetBucketLifecycleConfiguration   *)
(* shows is one that Put accepts, and its rules select the same objects    *)
(* and do the same to them as the stored ones, also when they were stored  *)
(* in the old form, with a prefix and no filter                            *)
(* (encodeLifecycleConfigXML, lifecycleRuleLegacyPrefix).                  *)
ReadBackStable ==
    (Dispatched /\ Operation = "GetBucketLifecycleConfiguration" /\ Result.shown # Nothing) =>
        LET doc    == Result.shown[1]
            again  == decodeLifecycleConfigXML(doc)
            stored == context[1].input
            Actions(r) == [r EXCEPT !.Filter = <<>>, !.LegacyPrefix = <<>>]
        IN  /\ ValidLifecycle(doc)
            /\ Len(again) = Len(stored)
            /\ \A i \in DOMAIN again :
                   /\ Actions(again[i]) = Actions(stored[i])
                   /\ \A o \in Objects : Selects(again[i], o) <=> Selects(stored[i], o)

(* A list of buckets that is shown without a continuation token is the     *)
(* whole list: it names every bucket of the upstream that the caller has   *)
(* a letter on, over however many pages, and no other; if the upstream's   *)
(* pages run in a circle the request fails (ListAllBuckets).               *)
ListsOwnBuckets ==
    (Dispatched /\ Operation = "ListBuckets" /\ Result.shown # Nothing /\ ~ Paginated(req.query)) =>
        LET pages == context[1].input
        IN  /\ \E t \in DOMAIN pages : pages[t].next = NoToken
            /\ Result.shown[1] =
                   {b \in UNION {pages[t].buckets : t \in DOMAIN pages} :
                       Letters(context[1].env.groups, b) # {}}
=============================================================================
