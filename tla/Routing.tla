------------------------------ MODULE Routing ------------------------------
(***************************************************************************)
(* Which operation a request reaches (Server.ServeHTTP and the checks it   *)
(* makes before dispatch, internal/server/server.go) and which operation   *)
(* the audit log says it was (WithS3Audit and classifyS3Request,           *)
(* internal/server/audit.go).  The two are separate pieces of code that    *)
(* must agree; both are transcribed here, each from its own lines.         *)
(*                                                                         *)
(* A path is one of seven kinds: "health" (/healthz and /readyz), "root",  *)
(* "bucket" (with or without the trailing slash), "object", "pop" (two     *)
(* components after /api/pop/), "popMalformed" (any other path below       *)
(* /api/pop) and "noBucket" (//key).  A query maps parameter names to a    *)
(* class of value: "valid", "blank", or "odd", which for uploadId is a     *)
(* repeated parameter, for partNumber one value that is not a positive     *)
(* 32-bit number and for list-type a value other than 2.  (A repeated      *)
(* partNumber is treated like a blank one.)                                *)
(***************************************************************************)
EXTENDS Naturals, FiniteSets, SequencesExt

Methods == {"GET", "HEAD", "PUT", "POST", "DELETE", "PATCH"}

Paths == {"health", "root", "bucket", "object", "pop", "popMalformed", "noBucket"}

(* What the headers and the raw query add: a copy source, an aws-chunked   *)
(* body, both, an encryption option, a query that does not parse.          *)
Forms == {"plain", "copy", "streaming", "streamingCopy", "encryption", "malformedQuery"}

Valued == {"uploadId", "partNumber", "list-type"}

ValueClasses(name) == IF name \in Valued THEN {"valid", "blank", "odd"} ELSE {"valid"}

Statuses == {"400", "404", "405", "501"}

Unsupported == "UnsupportedOperation"

Unknown == "UnknownOperation"

-----------------------------------------------------------------------------
(* The checks both sides share.                                            *)

bucketConfigReadKeys ==
    <<"policy", "policyStatus", "cors", "website", "replication", "logging",
      "notification", "requestPayment", "accelerate", "publicAccessBlock">>

bucketOnlySubresources ==
    ToSet(bucketConfigReadKeys)
        \cup {"delete", "lifecycle", "location", "versioning", "versions"}

supportedS3QueryParameters ==
    bucketOnlySubresources \cup
    {"acl", "attributes", "bucket-region", "continuation-token", "delimiter",
     "encoding-type", "fetch-owner", "key-marker", "list-type", "marker",
     "max-buckets", "max-keys", "max-parts", "max-uploads",
     "optional-object-attributes", "part-number-marker", "partNumber", "prefix",
     "response-cache-control", "response-content-disposition",
     "response-content-encoding", "response-content-language",
     "response-content-type", "response-expires", "start-after", "tagging",
     "upload-id-marker", "uploadId", "uploads", "version-id-marker",
     "versionId", "withUpdatedAt", "x-id"}

(* firstUnsupportedSubresource sorts the names it does not know and        *)
(* returns the first; "" sorts first and also means that there is none.    *)
SomeUnsupported(q) ==
    /\ ~ (DOMAIN q \subseteq supportedS3QueryParameters)
    /\ "" \notin DOMAIN q

objectPath(path) == path \in {"object", "noBucket", "popMalformed"}

ValidUploadId(r) ==
    "uploadId" \in DOMAIN r.query =>
        /\ objectPath(r.path)
        /\ r.query["uploadId"] = "valid"
        /\ DOMAIN r.query \subseteq
               {"uploadId", "partNumber", "part-number-marker", "max-parts", "x-id"}

ValidPartNumber(r) ==
    "partNumber" \in DOMAIN r.query =>
        /\ objectPath(r.path)
        /\ r.query["partNumber"] # "blank"
        /\ "uploadId" \in DOMAIN r.query \/ r.method \in {"GET", "HEAD"}

(* validateS3OperationQuery returns nil.                                   *)
ValidOperationQuery(r) ==
    /\ "" \notin DOMAIN r.query
    /\ DOMAIN r.query \cap {"max-buckets", "bucket-region"} # {} =>
           r.method = "GET" /\ r.path = "root"
    /\ ValidUploadId(r)
    /\ ValidPartNumber(r)
    /\ "attributes" \in DOMAIN r.query => objectPath(r.path)

plainMutationQueryAllowed(method, onObject, q) ==
    method \in {"PUT", "DELETE"} =>
        \A name \in DOMAIN q :
            \/ name = "x-id"
            \/ onObject /\ method = "DELETE" /\ name = "versionId"

isPopAPIMethod(method) == method \in {"GET", "POST"}

ConfigReadOperation ==
    [policy |-> "GetBucketPolicy", policyStatus |-> "GetBucketPolicyStatus",
     cors |-> "GetBucketCors", website |-> "GetBucketWebsite",
     replication |-> "GetBucketReplication", logging |-> "GetBucketLogging",
     notification |-> "GetBucketNotificationConfiguration",
     requestPayment |-> "GetBucketRequestPayment",
     accelerate |-> "GetBucketAccelerateConfiguration",
     publicAccessBlock |-> "GetPublicAccessBlock"]

ConfigReads == [key \in DOMAIN ConfigReadOperation |-> [GET |-> ConfigReadOperation[key]]]

HasCopySource(r) == r.form \in {"copy", "streamingCopy"}

(* The first selector of order that the query names decides; another       *)
(* method than the ones it is defined for is refused.                      *)
Selected(order, operations, r, refused) ==
    LET selector == order[SelectInSeq(order, LAMBDA s : s \in DOMAIN r.query)]
    IN  IF r.method \in DOMAIN operations[selector]
        THEN operations[selector][r.method]
        ELSE refused

NamesSelector(order, q) == ToSet(order) \cap DOMAIN q # {}

-----------------------------------------------------------------------------
(* ServeHTTP.                                                              *)

BucketSelectors ==
    <<"lifecycle", "versioning", "tagging", "acl">> \o bucketConfigReadKeys
        \o <<"delete", "location", "versions", "uploads">>

BucketOperations ==
    [lifecycle  |-> [PUT |-> "PutBucketLifecycleConfiguration",
                     GET |-> "GetBucketLifecycleConfiguration",
                     DELETE |-> "DeleteBucketLifecycleConfiguration"],
     versioning |-> [PUT |-> "PutBucketVersioning", GET |-> "GetBucketVersioning"],
     tagging    |-> [PUT |-> "PutBucketTagging", GET |-> "GetBucketTagging",
                     DELETE |-> "DeleteBucketTagging"],
     acl        |-> [GET |-> "GetBucketAcl", PUT |-> "PutBucketAcl"],
     delete     |-> [POST |-> "DeleteObjects"],
     location   |-> [GET |-> "GetBucketLocation"],
     versions   |-> [GET |-> "ListObjectVersions"],
     uploads    |-> [GET |-> "ListMultipartUploads"]] @@ ConfigReads

ListType(r) == IF "list-type" \in DOMAIN r.query THEN r.query["list-type"] ELSE "blank"

ServeList(r) ==
    CASE ListType(r) = "blank" -> "ListObjects"
      [] ListType(r) = "valid" -> "ListObjectsV2"
      [] ListType(r) = "odd"   -> "400"

ServeBucket(r) ==
    IF NamesSelector(BucketSelectors, r.query)
    THEN Selected(BucketSelectors, BucketOperations, r, "501")
    ELSE IF ~ plainMutationQueryAllowed(r.method, FALSE, r.query) THEN "501"
    ELSE CASE r.method = "PUT"    -> "CreateBucket"
           [] r.method = "DELETE" -> "DeleteBucket"
           [] r.method = "HEAD"   -> "HeadBucket"
           [] r.method = "GET"    -> ServeList(r)
           [] OTHER               -> "501"

ObjectSelectors == <<"acl", "tagging", "uploads", "attributes", "uploadId">>

ServePart(r) ==
    IF "partNumber" \in DOMAIN r.query /\ r.query["partNumber"] = "valid"
    THEN IF HasCopySource(r) THEN "UploadPartCopy" ELSE "UploadPart"
    ELSE "400"

ObjectOperations(r) ==
    [acl        |-> [GET |-> "GetObjectAcl", PUT |-> "PutObjectAcl"],
     tagging    |-> [PUT |-> "PutObjectTagging", GET |-> "GetObjectTagging",
                     DELETE |-> "DeleteObjectTagging"],
     uploads    |-> [POST |-> "CreateMultipartUpload"],
     attributes |-> [GET |-> "GetObjectAttributes"],
     uploadId   |-> [GET |-> "ListParts", PUT |-> ServePart(r),
                     POST |-> "CompleteMultipartUpload",
                     DELETE |-> "AbortMultipartUpload"]]

ServeObject(r) ==
    IF DOMAIN r.query \cap bucketOnlySubresources # {} THEN "501"
    ELSE IF NamesSelector(ObjectSelectors, r.query)
    THEN Selected(ObjectSelectors, ObjectOperations(r), r, "501")
    ELSE IF ~ plainMutationQueryAllowed(r.method, TRUE, r.query) THEN "501"
    ELSE CASE r.method = "GET"    -> "GetObject"
           [] r.method = "HEAD"   -> "HeadObject"
           [] r.method = "PUT"    -> IF HasCopySource(r) THEN "CopyObject" ELSE "PutObject"
           [] r.method = "DELETE" -> "DeleteObject"
           [] OTHER               -> "501"

(* Mutant: the query of a streaming request is not looked at.              *)
StreamsToAnyObjectPut(r) ==
    r.method = "PUT" /\ r.form # "streamingCopy" /\ r.path \in {"object", "popMalformed"}

supportsStreamingPayload(r) ==
    /\ r.method = "PUT"
    /\ ~ HasCopySource(r)
    /\ r.path \in {"object", "popMalformed"}
    /\ DOMAIN r.query \subseteq {"x-id", "uploadId", "partNumber"}

IsAWSChunkedPayload(r) == r.form \in {"streaming", "streamingCopy"}

(* handlePopAPI up to its own checks of the path and the method.           *)
ServePop(r) ==
    IF r.path = "popMalformed" THEN "404"
    ELSE IF isPopAPIMethod(r.method) THEN "PopObject" ELSE "405"

ServeHTTP(r) ==
    IF r.path = "health" THEN "Health"
    ELSE IF r.form = "encryption" THEN "501"
    ELSE IF r.path \in {"pop", "popMalformed"} THEN ServePop(r)
    ELSE IF r.form = "malformedQuery" THEN "400"
    ELSE IF SomeUnsupported(r.query) THEN "501"
    ELSE IF IsAWSChunkedPayload(r) /\ ~ supportsStreamingPayload(r) THEN "400"
    ELSE IF ~ ValidOperationQuery(r) THEN "400"
    ELSE CASE r.path = "root"   -> IF r.method = "GET" THEN "ListBuckets" ELSE "404"
           [] r.path = "bucket" -> ServeBucket(r)
           [] OTHER             -> ServeObject(r)

-----------------------------------------------------------------------------
(* classifyS3Request.                                                      *)

(* Mutant: the audit looks at versioning after tagging.                    *)
AuditBucketSelectorsReordered ==
    <<"lifecycle", "tagging", "versioning", "acl">> \o bucketConfigReadKeys
        \o <<"delete", "location", "versions", "uploads">>

AuditBucketSelectors ==
    <<"lifecycle", "versioning", "tagging", "acl">> \o bucketConfigReadKeys
        \o <<"delete", "location", "versions", "uploads">>

AuditBucketActions ==
    [lifecycle  |-> [PUT |-> "PutBucketLifecycleConfiguration",
                     GET |-> "GetBucketLifecycleConfiguration",
                     DELETE |-> "DeleteBucketLifecycleConfiguration"],
     versioning |-> [PUT |-> "PutBucketVersioning", GET |-> "GetBucketVersioning"],
     tagging    |-> [PUT |-> "PutBucketTagging", GET |-> "GetBucketTagging",
                     DELETE |-> "DeleteBucketTagging"],
     acl        |-> [GET |-> "GetBucketAcl", PUT |-> "PutBucketAcl"],
     delete     |-> [POST |-> "DeleteObjects"],
     location   |-> [GET |-> "GetBucketLocation"],
     versions   |-> [GET |-> "ListObjectVersions"],
     uploads    |-> [GET |-> "ListMultipartUploads"]] @@ ConfigReads

classifyBucketAction(r) ==
    IF NamesSelector(AuditBucketSelectors, r.query)
    THEN Selected(AuditBucketSelectors, AuditBucketActions, r, Unsupported)
    ELSE IF ~ plainMutationQueryAllowed(r.method, FALSE, r.query) THEN Unsupported
    ELSE CASE r.method = "PUT"    -> "CreateBucket"
           [] r.method = "DELETE" -> "DeleteBucket"
           [] r.method = "HEAD"   -> "HeadBucket"
           [] r.method = "GET"    -> IF ListType(r) = "blank" THEN "ListObjects"
                                     ELSE "ListObjectsV2"
           [] OTHER               -> Unsupported

AuditObjectSelectors == <<"acl", "tagging", "uploads", "attributes", "uploadId">>

AuditObjectActions(r) ==
    [acl        |-> [GET |-> "GetObjectAcl", PUT |-> "PutObjectAcl"],
     tagging    |-> [PUT |-> "PutObjectTagging", GET |-> "GetObjectTagging",
                     DELETE |-> "DeleteObjectTagging"],
     uploads    |-> [POST |-> "CreateMultipartUpload"],
     attributes |-> [GET |-> "GetObjectAttributes"],
     uploadId   |-> [GET |-> "ListParts",
                     PUT |-> IF HasCopySource(r) THEN "UploadPartCopy" ELSE "UploadPart",
                     POST |-> "CompleteMultipartUpload",
                     DELETE |-> "AbortMultipartUpload"]]

classifyObjectAction(r) ==
    IF DOMAIN r.query \cap bucketOnlySubresources # {} THEN Unsupported
    ELSE IF NamesSelector(AuditObjectSelectors, r.query)
    THEN Selected(AuditObjectSelectors, AuditObjectActions(r), r, Unsupported)
    ELSE IF ~ plainMutationQueryAllowed(r.method, TRUE, r.query) THEN Unsupported
    ELSE CASE r.method = "GET"    -> "GetObject"
           [] r.method = "HEAD"   -> "HeadObject"
           [] r.method = "PUT"    -> IF HasCopySource(r) THEN "CopyObject" ELSE "PutObject"
           [] r.method = "DELETE" -> "DeleteObject"
           [] OTHER               -> Unsupported

(* A malformed pop path is below "/api": s3AuditResource takes it for an   *)
(* object path.                                                            *)
classifyS3Request(r) ==
    IF r.path = "pop" THEN IF isPopAPIMethod(r.method) THEN "PopObject" ELSE Unsupported
    ELSE IF \/ r.form = "malformedQuery"
            \/ SomeUnsupported(r.query)
            \/ ~ ValidOperationQuery(r)
    THEN Unsupported
    ELSE CASE r.path = "root"     -> IF r.method = "GET" THEN "ListBuckets" ELSE Unsupported
           [] r.path = "noBucket" -> Unknown
           [] r.path = "bucket"   -> classifyBucketAction(r)
           [] OTHER               -> classifyObjectAction(r)
=============================================================================
