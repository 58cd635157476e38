----------------------------- MODULE MCRequests -----------------------------
(* Instances of Requests.  The queries: every parameter that ServeHTTP or  *)
(* classifyS3Request looks at by name, one of those that only modify a     *)
(* read, one that is not supported, and the empty name.  The callers, the  *)
(* faults, the upstream's answers and the documents vary one at a time:    *)
(* at most one thing is wrong with a request.                              *)
EXTENDS Requests

AllSelectors ==
    {"acl", "attributes", "continuation-token", "delete", "lifecycle", "list-type",
     "location", "max-buckets", "part-number-marker", "partNumber", "policy",
     "accelerate", "tagging", "uploadId", "uploads", "versionId", "versioning",
     "versions", "x-id", "prefix", "retention", ""}

FewSelectors == {"tagging", "uploadId", "x-id"}

-----------------------------------------------------------------------------
Group(namespace, letters) == [namespace |-> namespace, letters |-> letters]

TeamAll == Group("team", <<"r", "w", "c", "d", "b">>)

Everything == {TeamAll, Group("other", <<"r">>)}

GroupSets ==
    {{}, {AllBucketsReadGroup}, {TeamAll}, Everything,
     {Group("team", <<"w">>), AllBucketsReadGroup},
     {Group("team", <<"w">>), Group("team", <<"b">>)},
     {Group("team", <<"r", "c">>)}, {Group("team", <<"d">>)},
     {Group("team", <<"r", "x", "w">>)},          \* an unknown letter
     {Group("*", <<"r">>)}, {Group("team", <<>>)}}

(* Those whose namespaces, rather than letters, are of interest.           *)
FewGroupSets ==
    {{}, {AllBucketsReadGroup}, Everything, {Group("team", <<"w">>), AllBucketsReadGroup},
     {Group("*", <<"r">>)}}

Team == <<"team", "x">>
Other == <<"other", "y">>

Buckets == {Team, <<"team">>, <<"teams", "x">>, <<"", "team">>, popGlobalScope}

Env(groups, bucket, fault, up) ==
    [groups |-> groups, bucket |-> bucket, source |-> Other, fault |-> fault, up |-> up,
     refused |-> {}]

MCEnvironments ==
    {Env(g, Team, "none", "ok") : g \in GroupSets}
        \cup {Env(g, b, "none", "ok") : g \in FewGroupSets, b \in Buckets}
        \cup {Env(g, Team, f, "ok") : g \in {{}, Everything}, f \in Faults}
        \cup {Env(Everything, Team, "none", u) : u \in UpstreamAnswers}
        \cup {[Env(Everything, Team, "none", "ok") EXCEPT !.refused = places] :
                  places \in {{1}, {2}, {1, 2}}}

FewEnvironments == {Env(Everything, Team, "none", "ok")}

-----------------------------------------------------------------------------
TagXML(key) == Element("Tag", <<Field("Key", <<key>>), Field("Value", <<>>)>>)

Scopes ==
    {<<>>,
     <<Field("Prefix", <<"a">>)>>,
     <<Field("Prefix", <<"a", "b", "b", "b">>)>>,
     <<Field("Prefix", <<"a">>), Field("Prefix", <<>>)>>,
     <<Field("Prefix", <<"a">>), Element("Filter", <<>>)>>,
     <<Element("Filter", <<>>), Element("Filter", <<Field("Prefix", <<"a">>)>>)>>}
    \cup
    {<<Element("Filter", kids)>> : kids \in
        {<<>>,
         <<Field("Prefix", <<>>)>>,
         <<Field("Prefix", <<"a">>)>>,
         <<Field("Prefix", <<" ", "a">>)>>,
         <<Field("Prefix", <<"a">>), Field("Prefix", <<"a", "b">>)>>,
         <<Field("Prefix", <<"a">>), TagXML("t")>>,
         <<TagXML("t")>>,
         <<Element("Tag", <<Field("Key", <<"t">>)>>)>>,
         <<Element("Tag", <<Field("Key", <<"t">>), Field("Key", <<"u">>),
                            Field("Value", <<>>)>>)>>,
         <<TagXML("t"), TagXML("u")>>,
         <<[TagXML("t") EXCEPT !.own = FALSE]>>,
         <<Field("ObjectSizeGreaterThan", 1)>>,
         <<Field("ObjectSizeLessThan", 2)>>,
         <<Field("ObjectSizeLessThan", -1)>>,
         <<Field("StorageClass", "GLACIER")>>,
         <<Element("And", <<>>)>>,
         <<Element("And", <<Field("Prefix", <<"a">>), TagXML("t"), TagXML("u")>>)>>,
         <<Element("And", <<TagXML("t"), TagXML("u"), TagXML("v")>>)>>,
         <<Element("And", <<Field("Prefix", <<"a">>), Field("Prefix", <<>>)>>)>>,
         <<Element("And", <<Field("ObjectSizeGreaterThan", 0),
                            Field("ObjectSizeLessThan", 2), TagXML("u")>>)>>,
         <<Element("And", <<Field("ObjectSizeGreaterThan", 2),
                            Field("ObjectSizeLessThan", 2)>>)>>,
         <<Element("And", <<Field("Prefix", <<"a">>), TagXML("t")>>),
           Element("And", <<Field("Prefix", <<"a">>)>>)>>,
         <<Element("And", <<Element("And", <<TagXML("t")>>), TagXML("u")>>)>>}}

Deletes(days) == Element("Expiration", <<Field("Days", days)>>)

ActionLists ==
    {<<Element("Expiration", kids)>> : kids \in
        {<<>>, <<Field("Days", 0)>>, <<Field("Days", 1), Field("Date", 5)>>,
         <<Field("ExpiredObjectDeleteMarker", TRUE)>>,
         <<Field("Days", 1), Field("ExpiredObjectDeleteMarker", TRUE)>>}}
    \cup
    {<<Element("Transition", kids)>> : kids \in
        {<<Field("Days", 0), Field("StorageClass", "GLACIER")>>,
         <<Field("Date", 5), Field("StorageClass", "STANDARD_IA")>>,
         <<Field("Days", 1), Field("Date", 5), Field("StorageClass", "GLACIER")>>,
         <<Field("StorageClass", "GLACIER")>>, <<Field("Days", 1)>>}}
    \cup
    {<<Element("NoncurrentVersionTransition", kids)>> : kids \in
        {<<Field("NoncurrentDays", 1), Field("StorageClass", "GLACIER")>>,
         <<Field("NewerNoncurrentVersions", 1), Field("StorageClass", "GLACIER")>>}}
    \cup
    {<<Element("NoncurrentVersionExpiration", kids)>> : kids \in
        {<<>>, <<Field("NewerNoncurrentVersions", 1)>>, <<Field("NoncurrentDays", 0)>>}}
    \cup
    {<<Element("AbortIncompleteMultipartUpload", kids)>> : kids \in
        {<<>>, <<Field("DaysAfterInitiation", 1)>>, <<Field("DaysAfterInitiation", 0)>>}}
    \cup {<<Deletes(1), Deletes(2)>>}

Rule(scope, actions) == Element("Rule", <<Field("Status", "enabled")>> \o scope \o actions)

Config(rules) == Element("LifecycleConfiguration", rules)

ToA == <<Element("Filter", <<Field("Prefix", <<"a">>)>>)>>

MCLifecycleDocs ==
    {Config(<<Rule(scope, <<Deletes(1)>>)>>) : scope \in Scopes}
        \cup {Config(<<Rule(ToA, actions)>>) : actions \in ActionLists}
        \cup {Config(<<>>), Config(<<Rule(ToA, <<Deletes(1)>>), Rule(<<>>, <<>>)>>),
              Config(<<Rule(ToA, <<>>), Rule(ToA, <<>>), Rule(ToA, <<>>)>>),
              Config(<<Element("Rule", ToA)>>),
              Element("Delete", <<Rule(ToA, <<>>)>>)}

FewLifecycleDocs == {Config(<<Rule(ToA, <<Deletes(1)>>)>>)}

-----------------------------------------------------------------------------
NoActions ==
    [Status |-> "disabled", ID |-> <<>>, Filter |-> <<>>, LegacyPrefix |-> <<>>,
     Expiration |-> <<>>, Transitions |-> <<>>, NoncurrentVersionTransitions |-> <<>>,
     NoncurrentVersionExpiration |-> <<>>, Abort |-> <<>>]

StoredTag(key) == [Key |-> <<key>>, Value |-> <<>>]

Filters ==
    {<<>>, <<[Prefix |-> <<>>]>>, <<[Prefix |-> <<" ", "a">>]>>, <<[Tag |-> StoredTag("t")]>>,
     <<[ObjectSizeGreaterThan |-> 0]>>,
     <<[And |-> [Prefix |-> <<"a">>, ObjectSizeLessThan |-> 2,
                 Tags |-> <<StoredTag("t"), StoredTag("u")>>]]>>}

MCStoredRules ==
    {<<[NoActions EXCEPT !.Filter = f, !.Expiration = <<[Days |-> 1]>>]>> : f \in Filters}
        \cup
    {<<[NoActions EXCEPT !.LegacyPrefix = <<p>>, !.Expiration = <<[Date |-> 5]>>]>> :
        p \in {<<>>, <<"a">>, <<"a", "b">>}}
        \cup
    {<<[NoActions EXCEPT !.Status = "enabled", !.ID = <<"i">>,
            !.Transitions = <<[Days |-> 0, StorageClass |-> "GLACIER"],
                              [Date |-> 5, StorageClass |-> "STANDARD_IA"]>>,
            !.NoncurrentVersionTransitions =
                <<[NoncurrentDays |-> 1, NewerNoncurrentVersions |-> 2,
                   StorageClass |-> "GLACIER"]>>],
       [NoActions EXCEPT !.NoncurrentVersionExpiration = <<[NewerNoncurrentVersions |-> 1]>>,
            !.Abort = <<[DaysAfterInitiation |-> 3]>>,
            !.Expiration = <<[ExpiredObjectDeleteMarker |-> TRUE]>>]>>}

MCObjects ==
    [key : {<<"a">>, <<"a", "b">>, <<" ", "a">>},
     tags : SUBSET {StoredTag("t"), StoredTag("u")},
     size : {0, 1, 2}]

-----------------------------------------------------------------------------
ObjectXML(kids) == Element("Object", kids)

MCDeleteDocs ==
    {Element("Delete", <<ObjectXML(kids)>>) : kids \in
        {<<>>, <<Field("Key", <<>>)>>, <<Field("Key", <<" ", "a">>)>>,
         <<Field("Key", <<"a">>), Field("Key", <<"b">>)>>,
         <<Field("Key", <<"a">>), Field("VersionId", <<"v">>)>>,
         <<Field("Key", <<"a">>), Field("VersionId", <<" ", "v">>), Field("ETag", <<"e">>)>>,
         <<Field("Key", <<"a">>), Field("VersionId", <<"v">>), Field("VersionId", <<"w">>)>>,
         <<Field("Key", <<"a">>), Field("ETag", <<" ">>)>>,
         <<Field("Key", <<"a">>), Field("Size", <<"1">>)>>}}
        \cup
    {Element("Delete", <<ObjectXML(<<Field("Key", <<"a">>), Field("ETag", <<"e">>)>>),
                         Field("Quiet", quiet), ObjectXML(<<Field("Key", <<"b">>)>>)>>) :
        quiet \in {<<"true">>, <<"false">>}}
        \cup
    {Element("Delete", <<>>),
     Element("Delete", [i \in 1..3 |-> ObjectXML(<<Field("Key", <<"a">>)>>)])}

FewDeleteDocs == {Element("Delete", <<ObjectXML(<<Field("Key", <<"a">>)>>)>>)}

-----------------------------------------------------------------------------
Page(buckets, next) == [buckets |-> buckets, next |-> next]

TwoPages == [first |-> Page({Team}, "t1"), t1 |-> Page({Other, <<"", "team">>}, NoToken)]

MCListings ==
    {TwoPages,
     [first |-> Page({Team}, "t1"), t1 |-> Page({Other}, "t1")],
     [first |-> Page({Team}, "t1"), t1 |-> Page({Other}, "t2"), t2 |-> Page({<<"team">>}, "t1")],
     [first |-> Page({<<"teams", "x">>}, "t1"), t1 |-> Page({}, "t2"),
      t2 |-> Page({Team}, NoToken)]}

FewListings == {TwoPages}

MCQueueHeads == NoUploadEvent \cup {Team, Other}

FewQueueHeads == {Team}
=============================================================================
