------------------------------ MODULE Handlers ------------------------------
(***************************************************************************)
(* The handlers of the S3 operations (internal/server/handlers_*.go): what *)
(* each checks, in which order, what it sends upstream and what it         *)
(* answers.                                                                *)
(*                                                                         *)
(* A handler is a function of the request it is called with:               *)
(*   h.rules   the permissions of the authenticated user                   *)
(*   h.bucket, h.source   the bucket of the path and of the copy source    *)
(*   h.request the method, the path and the query (module Routing)         *)
(*   h.fault   what is wrong with the headers or the body, if anything     *)
(*   h.up      how the upstream answers                                    *)
(*   h.refused the objects of a DeleteObjects request, by their place in   *)
(*             it, that the upstream refuses to delete                     *)
(*   h.input   what else the operation reads: the XML document in the      *)
(*             body, the lifecycle rules or the list of buckets that the   *)
(*             upstream holds, the upload event at the head of the queue   *)
(* Its result is the status, the upstream calls it made, what the last of  *)
(* them carried and what the response shows.                               *)
(*                                                                         *)
(* The handlers that write object data continue in module Uploads and      *)
(* GetObject's transfer in module Transfers; here they are their checks    *)
(* and their first upstream call.                                          *)
(***************************************************************************)
EXTENDS Routing, Authz, Documents

Faults ==
    {"none",
     "badHeader",        \* a header or parameter of the operation does not parse
     "badSource",        \* x-amz-copy-source names no bucket
     "aclGrant",         \* a grant, or a canned ACL that shares the resource
     "aclOwner",         \* bucket-owner-read or bucket-owner-full-control
     "aclBody",          \* an ACL write with a body
     "unsupported",      \* a header for a feature the gateway does not implement
     "bypass",           \* x-amz-bypass-governance-retention: true
     "badDigest",        \* Content-MD5 or a checksum header is not a digest
     "wrongMD5", "wrongChecksum",  \* it is the digest of another body
     "trailer",          \* a declared trailer
     "lateTrailer",      \* a trailer that only the end of the body reveals
     "badBody"}          \* the body is not the operation's document

(* The statuses of the responses, and their values.                        *)
StatusCode ==
    "200" :> 200 @@ "204" :> 204 @@ "301" :> 301 @@ "304" :> 304 @@ "307" :> 307
        @@ "400" :> 400 @@ "403" :> 403 @@ "404" :> 404 @@ "405" :> 405
        @@ "501" :> 501 @@ "502" :> 502 @@ "503" :> 503

(* How an upstream call ends: with a result; with a redirect or an error   *)
(* of that status; with an API error or a broken response inside a         *)
(* successful status.                                                      *)
UpstreamAnswers ==
    {"ok", "301", "304", "307", "403", "404", "503", "clientErrorIn200", "brokenIn200"}

(* Mutant: the status of the upstream response is passed on as it is.      *)
StatusPassedOn(answer) == IF answer \in DOMAIN StatusCode THEN answer ELSE "200"

extractUpstreamErrorInfo(answer) ==
    CASE answer \in DOMAIN StatusCode -> answer
      [] answer = "clientErrorIn200"  -> "400"
      [] answer = "brokenIn200"       -> "502"

Nothing == <<>>

Reply(status) == [status |-> status, calls |-> <<>>, sent |-> Nothing, shown |-> Nothing]

Calls(h, api) == <<[api |-> api, bucket |-> h.bucket]>>

(* One upstream call, and the answer to it.                                *)
CallWith(h, api, success, sent, shown) ==
    IF h.up = "ok"
    THEN [status |-> success, calls |-> Calls(h, api), sent |-> sent, shown |-> shown]
    ELSE [status |-> extractUpstreamErrorInfo(h.up), calls |-> Calls(h, api),
          sent |-> sent, shown |-> Nothing]

Call(h, api, success) == CallWith(h, api, success, Nothing, Nothing)

(* A handler returns at the first of its checks that does not pass; a      *)
(* check is "pass" or the status of the error it writes.                   *)
After(checks, result) ==
    LET failed == SelectInSeq(checks, LAMBDA c : c # "pass")
    IN  IF failed = 0 THEN result ELSE Reply(checks[failed])

Check(holds, status) == IF holds THEN "pass" ELSE status

Permission(granted) == Check(granted, "403")

HeadersParse(h) == Check(h.fault # "badHeader", "400")

-----------------------------------------------------------------------------
(* Checks several handlers share.                                          *)

aclHeadersAreNoOp(h, bucketLevel) ==
    h.fault # "aclGrant" /\ (h.fault = "aclOwner" => ~ bucketLevel)

OwnerRetainingACL(h, bucketLevel) == Check(aclHeadersAreNoOp(h, bucketLevel), "501")

aclWriteIsNoOp(h, bucketLevel) == h.fault # "aclBody" /\ aclHeadersAreNoOp(h, bucketLevel)

(* requireSupportedDeleteConditions, requireSupportedUploadProperties and  *)
(* the settings parseCreateBucketHeaders refuses.                          *)
SupportedHeaders(h) == Check(h.fault # "unsupported", "501")

NoGovernanceRetentionBypass(h) == Check(h.fault # "bypass", "403")

(* Mutant: the lifecycle document is forgotten.                            *)
TrailersPreservedForSome(r) ==
    \/ r.method = "POST" /\ "delete" \in DOMAIN r.query
    \/ r.method = "PUT" /\ DOMAIN r.query \cap {"tagging", "versioning"} # {}

(* preserveXMLRequestTrailers: the copies of the request that the          *)
(* middleware makes share the trailer map only if it exists beforehand.    *)
TrailersPreserved(r) ==
    \/ r.method = "POST" /\ "delete" \in DOMAIN r.query
    \/ r.method = "PUT" /\ DOMAIN r.query \cap {"tagging", "versioning", "lifecycle"} # {}

(* decodeXMLWithContentMD5.                                                *)
BodyWithContentMD5(h, valid) ==
    Check(h.fault \notin {"badDigest", "wrongMD5", "badBody"} /\ valid, "400")

(* decodeXMLWithChecksums and decodeDeleteObjectsWithChecksums.            *)
BodyWithChecksums(h, valid) ==
    IF h.fault \in {"trailer", "wrongChecksum"} THEN "400"
    ELSE IF BodyWithContentMD5(h, valid) # "pass" THEN BodyWithContentMD5(h, valid)
    ELSE Check(~ (h.fault = "lateTrailer" /\ TrailersPreserved(h.request)), "400")

(* requireBucketExists and requireObjectExists: a gateway-local answer is  *)
(* given only for a resource that exists.                                  *)
IfBucketExists(h, local) ==
    IF h.up = "ok" THEN [local EXCEPT !.calls = Calls(h, "HeadBucket")]
    ELSE Call(h, "HeadBucket", "200")

IfObjectExists(h, local) ==
    After(<<HeadersParse(h)>>,
          IF h.up = "ok" THEN [local EXCEPT !.calls = Calls(h, "HeadObject")]
          ELSE Call(h, "HeadObject", "200"))

-----------------------------------------------------------------------------
(* The list of buckets.                                                    *)

(* A listing maps a continuation token to a page: its buckets and the next *)
(* token, NoToken after the last page.  A listing that fails is a set of   *)
(* no bucket lists, any other a set of one.                                *)
NoToken == "none"

FirstPage == "first"

(* Mutant: a repeated token ends the list.                                 *)
StopAtRepeatedToken(found) == {found}

RepeatedToken(found) == {}

(* ListAllBuckets from the page of token on.                               *)
RECURSIVE ListAllBuckets(_, _, _, _)
ListAllBuckets(listing, token, seen, found) ==
    LET all  == found \cup listing[token].buckets
        next == listing[token].next
    IN  IF next = NoToken THEN {all}
        ELSE IF next \in seen THEN RepeatedToken(all)
        ELSE ListAllBuckets(listing, next, seen \cup {next}, all)

(* One page, from the token of the request.                                *)
ListPage(listing, token) ==
    IF listing[token].next = token THEN {} ELSE {listing[token].buckets}

ListBucketsParameters == {"max-buckets", "bucket-region", "prefix", "continuation-token", "x-id"}

Paginated(query) == DOMAIN query \ {"x-id"} # {}

handleListBuckets(h) ==
    LET query == h.request.query
        token == IF "continuation-token" \in DOMAIN query THEN "t1" ELSE FirstPage
        lists == IF Paginated(query) THEN ListPage(h.input, token)
                 ELSE ListAllBuckets(h.input, FirstPage, {}, {})
        shown == {{b \in list : BucketPerm(h.rules, b) # {}} : list \in lists}
    IN  After(<<Check(DOMAIN query \subseteq ListBucketsParameters, "400"), HeadersParse(h)>>,
              IF h.up = "ok" /\ shown = {}
              THEN [Reply("502") EXCEPT !.calls = Calls(h, "ListBuckets")]
              ELSE CallWith(h, "ListBuckets", "200", Nothing, SetToSeq(shown)))

-----------------------------------------------------------------------------
(* Buckets (handlers_bucket.go, handlers_bucket_config.go).                *)

handleCreateBucket(h) ==
    After(<<Permission(CanCreateBucket(h.rules, h.bucket)), OwnerRetainingACL(h, TRUE),
            SupportedHeaders(h), HeadersParse(h), BodyWithContentMD5(h, TRUE)>>,
          Call(h, "CreateBucket", "200"))

handleHeadBucket(h) ==
    After(<<Permission(CanRead(h.rules, h.bucket))>>, Call(h, "HeadBucket", "200"))

handleGetBucketLocation(h) ==
    After(<<Permission(BucketPerm(h.rules, h.bucket) # {})>>, Call(h, "GetBucketLocation", "200"))

handleDeleteBucket(h) ==
    After(<<Permission(CanDeleteBucket(h.rules, h.bucket))>>, Call(h, "DeleteBucket", "204"))

handlePutBucketVersioning(h) ==
    After(<<Permission(CanConfigure(h.rules, h.bucket)), BodyWithChecksums(h, TRUE)>>,
          Call(h, "PutBucketVersioning", "200"))

handleGetBucketVersioning(h) ==
    After(<<Permission(CanRead(h.rules, h.bucket))>>, Call(h, "GetBucketVersioning", "200"))

handlePutBucketTagging(h) ==
    After(<<Permission(CanConfigure(h.rules, h.bucket)), BodyWithChecksums(h, TRUE)>>,
          Call(h, "PutBucketTagging", "200"))

handleGetBucketTagging(h) ==
    After(<<Permission(CanRead(h.rules, h.bucket))>>, Call(h, "GetBucketTagging", "200"))

handleDeleteBucketTagging(h) ==
    After(<<Permission(CanDeleteBucket(h.rules, h.bucket))>>, Call(h, "DeleteBucketTagging", "204"))

handleGetBucketACL(h) ==
    After(<<Permission(CanRead(h.rules, h.bucket))>>, IfBucketExists(h, Reply("200")))

handlePutBucketACL(h) ==
    After(<<Permission(CanConfigure(h.rules, h.bucket)), Check(aclWriteIsNoOp(h, TRUE), "501")>>,
          IfBucketExists(h, Reply("200")))

handleGetObjectACL(h) ==
    After(<<Permission(CanRead(h.rules, h.bucket))>>, IfObjectExists(h, Reply("200")))

handlePutObjectACL(h) ==
    After(<<Permission(CanConfigure(h.rules, h.bucket)), Check(aclWriteIsNoOp(h, FALSE), "501")>>,
          IfObjectExists(h, Reply("200")))

NotConfigured ==
    {"GetBucketPolicy", "GetBucketPolicyStatus", "GetBucketCors", "GetBucketWebsite",
     "GetBucketReplication"}

handleBucketConfigRead(h, operation) ==
    After(<<Permission(CanRead(h.rules, h.bucket))>>,
          IfBucketExists(h, Reply(IF operation \in NotConfigured THEN "404" ELSE "200")))

handlePutBucketLifecycleConfiguration(h) ==
    After(<<Permission(CanConfigure(h.rules, h.bucket)), HeadersParse(h),
            BodyWithChecksums(h, ValidLifecycle(h.input))>>,
          CallWith(h, "PutBucketLifecycleConfiguration", "200",
                   <<decodeLifecycleConfigXML(h.input)>>, Nothing))

handleGetBucketLifecycleConfiguration(h) ==
    After(<<Permission(CanRead(h.rules, h.bucket))>>,
          CallWith(h, "GetBucketLifecycleConfiguration", "200", Nothing,
                   <<encodeLifecycleConfigXML(h.input)>>))

handleDeleteBucketLifecycleConfiguration(h) ==
    After(<<Permission(CanDeleteBucket(h.rules, h.bucket))>>,
          Call(h, "DeleteBucketLifecycle", "204"))

-----------------------------------------------------------------------------
(* Objects (handlers_object.go, handlers_multipart.go).                    *)

handlePutObjectTagging(h) ==
    After(<<Permission(CanWrite(h.rules, h.bucket)), BodyWithChecksums(h, TRUE),
            HeadersParse(h)>>,
          Call(h, "PutObjectTagging", "200"))

handleGetObjectTagging(h) ==
    After(<<Permission(CanRead(h.rules, h.bucket)), HeadersParse(h)>>,
          Call(h, "GetObjectTagging", "200"))

handleDeleteObjectTagging(h) ==
    After(<<Permission(CanWrite(h.rules, h.bucket))>>, Call(h, "DeleteObjectTagging", "204"))

(* req.Quiet, which goes upstream with the identifiers.                    *)
Quiet(doc) == Has(doc, "Quiet") /\ Value(doc, "Quiet") = <<"true">>

(* What the upstream reports inside its success: the objects it deleted,   *)
(* unless the request is quiet, and those it refused to delete.            *)
DeleteObjectsOutput(objects, quiet, refused) ==
    [Deleted |-> IF quiet THEN {} ELSE DOMAIN objects \ refused,
     Errors  |-> DOMAIN objects \cap refused]

(* The document of the answer, which has both lists.                       *)
DeleteResult(out) == [Deleted |-> out.Deleted, Error |-> out.Errors]

handleDeleteObjects(h) ==
    LET objects == ObjectIdentifiers(h.input)
        quiet   == Quiet(h.input)
    IN  After(<<Permission(CanDeleteObject(h.rules, h.bucket)), SupportedHeaders(h),
                NoGovernanceRetentionBypass(h), BodyWithChecksums(h, ValidDelete(h.input)),
                HeadersParse(h)>>,
              CallWith(h, "DeleteObjects", "200", <<objects, quiet>>,
                       <<DeleteResult(DeleteObjectsOutput(objects, quiet, h.refused))>>))

handleDeleteObject(h) ==
    After(<<Permission(CanDeleteObject(h.rules, h.bucket)), SupportedHeaders(h),
            NoGovernanceRetentionBypass(h), HeadersParse(h)>>,
          Call(h, "DeleteObject", "204"))

handleListObjectVersions(h) ==
    After(<<Permission(CanRead(h.rules, h.bucket)), HeadersParse(h)>>,
          Call(h, "ListObjectVersions", "200"))

handleListObjects(h) ==
    After(<<Permission(CanRead(h.rules, h.bucket)), HeadersParse(h)>>,
          Call(h, "ListObjects", "200"))

handleListObjectsV2(h) ==
    After(<<Permission(CanRead(h.rules, h.bucket)), HeadersParse(h)>>,
          Call(h, "ListObjectsV2", "200"))

PartNumberParses(h) ==
    Check("partNumber" \in DOMAIN h.request.query => h.request.query["partNumber"] = "valid", "400")

handleGetObject(h) ==
    After(<<Permission(CanRead(h.rules, h.bucket)), PartNumberParses(h), HeadersParse(h)>>,
          Call(h, "GetObject", "200"))

handleHeadObject(h) ==
    After(<<Permission(CanRead(h.rules, h.bucket)), PartNumberParses(h), HeadersParse(h)>>,
          Call(h, "HeadObject", "200"))

handleGetObjectAttributes(h) ==
    After(<<Permission(CanRead(h.rules, h.bucket)), HeadersParse(h)>>,
          Call(h, "GetObjectAttributes", "200"))

handleListMultipartUploads(h) ==
    After(<<Permission(CanRead(h.rules, h.bucket)), HeadersParse(h)>>,
          Call(h, "ListMultipartUploads", "200"))

handleListParts(h) ==
    After(<<Permission(CanRead(h.rules, h.bucket)), HeadersParse(h)>>,
          Call(h, "ListParts", "200"))

handlePutObject(h) ==
    After(<<Permission(CanWrite(h.rules, h.bucket)), OwnerRetainingACL(h, FALSE),
            SupportedHeaders(h), HeadersParse(h)>>,
          Call(h, "PutObject", "200"))

(* Mutant: reading the source takes no permission.                         *)
CopyFromAnywhere(h) ==
    <<Permission(CanWrite(h.rules, h.bucket)), Check(h.fault # "badSource", "400")>>

CopyPermissions(h) ==
    <<Permission(CanWrite(h.rules, h.bucket)), Check(h.fault # "badSource", "400"),
      Permission(CanRead(h.rules, h.source))>>

handleCopyObject(h) ==
    After(CopyPermissions(h) \o <<OwnerRetainingACL(h, FALSE), SupportedHeaders(h), HeadersParse(h)>>,
          Call(h, "CopyObject", "200"))

handleUploadPartCopy(h) ==
    After(CopyPermissions(h) \o <<HeadersParse(h)>>, Call(h, "UploadPartCopy", "200"))

handleCreateMultipart(h) ==
    After(<<Permission(CanWrite(h.rules, h.bucket)), OwnerRetainingACL(h, FALSE),
            SupportedHeaders(h), HeadersParse(h)>>,
          Call(h, "CreateMultipartUpload", "200"))

handleUploadPart(h) ==
    After(<<Permission(CanWrite(h.rules, h.bucket)), HeadersParse(h)>>,
          Call(h, "UploadPart", "200"))

handleCompleteMultipart(h) ==
    After(<<Permission(CanWrite(h.rules, h.bucket)), HeadersParse(h)>>,
          Call(h, "CompleteMultipartUpload", "200"))

handleAbortMultipart(h) ==
    After(<<Permission(CanWrite(h.rules, h.bucket)), HeadersParse(h)>>,
          Call(h, "AbortMultipartUpload", "204"))

-----------------------------------------------------------------------------
(* The pop API (pop.go).  The scope in the path is a bucket or             *)
(* popGlobalScope; the queue of its topic holds an event about a bucket,   *)
(* nothing, or a record that is no upload event, or cannot be reached.     *)

popGlobalScope == <<"_all">>

NoUploadEvent == {<<"empty queue">>, <<"invalid record">>, <<"unavailable">>}

ReadScope(h) ==
    IF h.bucket = popGlobalScope THEN CanReadAll(h.rules) ELSE CanRead(h.rules, h.bucket)

PopEvent(h) ==
    CASE h.input = <<"empty queue">>    -> Reply("204")
      [] h.input = <<"invalid record">> -> Reply("502")
      [] h.input = <<"unavailable">>    -> Reply("503")
      [] OTHER ->
             After(<<Check(h.bucket \in {popGlobalScope, h.input}, "502"),
                     Permission(CanRead(h.rules, h.input))>>,
                   Call([h EXCEPT !.bucket = h.input], "GetObject", "200"))

handlePopAPI(h) == After(<<HeadersParse(h), Permission(ReadScope(h))>>, PopEvent(h))

-----------------------------------------------------------------------------
ConfigReadOperations == {ConfigReadOperation[key] : key \in DOMAIN ConfigReadOperation}

(* The call of the handler that ServeHTTP dispatches to.                   *)
Handle(operation, h) ==
    CASE operation = "ListBuckets"             -> handleListBuckets(h)
      [] operation = "CreateBucket"            -> handleCreateBucket(h)
      [] operation = "HeadBucket"              -> handleHeadBucket(h)
      [] operation = "GetBucketLocation"       -> handleGetBucketLocation(h)
      [] operation = "DeleteBucket"            -> handleDeleteBucket(h)
      [] operation = "PutBucketVersioning"     -> handlePutBucketVersioning(h)
      [] operation = "GetBucketVersioning"     -> handleGetBucketVersioning(h)
      [] operation = "PutBucketTagging"        -> handlePutBucketTagging(h)
      [] operation = "GetBucketTagging"        -> handleGetBucketTagging(h)
      [] operation = "DeleteBucketTagging"     -> handleDeleteBucketTagging(h)
      [] operation = "GetBucketAcl"            -> handleGetBucketACL(h)
      [] operation = "PutBucketAcl"            -> handlePutBucketACL(h)
      [] operation = "GetObjectAcl"            -> handleGetObjectACL(h)
      [] operation = "PutObjectAcl"            -> handlePutObjectACL(h)
      [] operation \in ConfigReadOperations    -> handleBucketConfigRead(h, operation)
      [] operation = "PutBucketLifecycleConfiguration" ->
             handlePutBucketLifecycleConfiguration(h)
      [] operation = "GetBucketLifecycleConfiguration" ->
             handleGetBucketLifecycleConfiguration(h)
      [] operation = "DeleteBucketLifecycleConfiguration" ->
             handleDeleteBucketLifecycleConfiguration(h)
      [] operation = "PutObjectTagging"        -> handlePutObjectTagging(h)
      [] operation = "GetObjectTagging"        -> handleGetObjectTagging(h)
      [] operation = "DeleteObjectTagging"     -> handleDeleteObjectTagging(h)
      [] operation = "DeleteObjects"           -> handleDeleteObjects(h)
      [] operation = "DeleteObject"            -> handleDeleteObject(h)
      [] operation = "ListObjectVersions"      -> handleListObjectVersions(h)
      [] operation = "ListObjects"             -> handleListObjects(h)
      [] operation = "ListObjectsV2"           -> handleListObjectsV2(h)
      [] operation = "GetObject"               -> handleGetObject(h)
      [] operation = "HeadObject"              -> handleHeadObject(h)
      [] operation = "GetObjectAttributes"     -> handleGetObjectAttributes(h)
      [] operation = "ListMultipartUploads"    -> handleListMultipartUploads(h)
      [] operation = "ListParts"               -> handleListParts(h)
      [] operation = "PutObject"               -> handlePutObject(h)
      [] operation = "CopyObject"              -> handleCopyObject(h)
      [] operation = "UploadPartCopy"          -> handleUploadPartCopy(h)
      [] operation = "CreateMultipartUpload"   -> handleCreateMultipart(h)
      [] operation = "UploadPart"              -> handleUploadPart(h)
      [] operation = "CompleteMultipartUpload" -> handleCompleteMultipart(h)
      [] operation = "AbortMultipartUpload"    -> handleAbortMultipart(h)
      [] operation = "PopObject"               -> handlePopAPI(h)
=============================================================================
