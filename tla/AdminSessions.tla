--------------------------- MODULE AdminSessions ---------------------------
(***************************************************************************)
(* The browser sessions of the administration pages                        *)
(* (internal/adminpage/adminpage.go, kafka_topics.go): AdminSessionStore,  *)
(* which holds the sessions in memory; AdminGorillaStore, which puts their *)
(* identifiers into encrypted, dated cookies; and the page handlers, which *)
(* look the session up when they start, and call the directory or the      *)
(* upstream afterwards.                                                    *)
(*                                                                         *)
(* The tabs of a browser share its cookie jar.  A tab sends a request with *)
(* the cookie the jar holds at that moment; requests are handled, and      *)
(* their responses change the jar, in any order.  Session identifiers are  *)
(* random and never repeat: they are numbered as they are issued.          *)
(***************************************************************************)
EXTENDS Integers, FiniteSets, Authz

CONSTANTS
    Tabs,         \* browser tabs, each with at most one request at a time
    Browser,      \* the browser of each tab
    Users,        \* who may log in
    Directory,    \* the groups the directory lists for each user
    Buckets,      \* the buckets the page handlers are asked about
    ReservedTopics, \* Kafka topics that belong to no bucket: internal, _all, the global one
    TypedSuffixes, \* bucket name suffixes typed into the form, as words
    MaxEntries,   \* the capacity of AdminSessionStore
    TTL,          \* the lifetime of a session and of its cookie
    MaxTime,      \* bound: the clock
    MaxLogins     \* bound: sessions issued

ASSUME AdminAssumption ==
    /\ MaxEntries \in Nat \ {0} /\ TTL \in Nat \ {0}
    /\ MaxTime \in Nat /\ MaxLogins \in Nat
    /\ \A u \in Users : \A g \in Directory[u] : g.letters \in Seq(STRING)

VARIABLES
    now,      \* the clock
    store,    \* AdminSessionStore.data: from the live identifiers
    issued,   \* the logins so far, by identifier: who, with which groups, when
    seen,     \* when a request was last accepted with each identifier
    ended,    \* the identifiers that were logged out
    jar,      \* the cookie each browser holds
    reqs,     \* the request of each tab
    called    \* what a page handler did with its session in the last step

vars == <<now, store, issued, seen, ended, jar, reqs, called>>

NoID == 0

NoCookie == [id |-> NoID, at |-> 0]

Keep == [id |-> -1, at |-> 0]     \* a response that sets no cookie

NoCall == [api |-> "none", bucket |-> <<"">>, trusted |-> TRUE, id |-> NoID]

Idle == [phase |-> "idle", kind |-> "page", cookie |-> NoCookie, id |-> NoID,
         user |-> "none", groups |-> {}, set |-> Keep]

Init ==
    /\ now = 0
    /\ store = <<>>
    /\ issued = <<>>
    /\ seen = <<>>
    /\ ended = {}
    /\ jar = [b \in {Browser[t] : t \in Tabs} |-> NoCookie]
    /\ reqs = [t \in Tabs |-> Idle]
    /\ called = NoCall

-----------------------------------------------------------------------------
(* AdminSessionStore.                                                      *)

With(data, id, entry) == [o \in DOMAIN data \cup {id} |-> IF o = id THEN entry ELSE data[o]]

Without(ids) == [id \in DOMAIN store \ ids |-> store[id]]

Expired == {id \in DOMAIN store : now > store[id].expires}

(* Mutant: the time of the last use is not kept.                           *)
TouchedExpiryOnly(id) ==
    IF id \in DOMAIN store \ Expired
    THEN [store EXCEPT ![id].expires = now + TTL]
    ELSE Without({id})

(* get.                                                                    *)
Touched(id) ==
    IF id \in DOMAIN store \ Expired
    THEN [store EXCEPT ![id].lastSeen = now, ![id].expires = now + TTL]
    ELSE Without({id})

Oldest(data) == {id \in DOMAIN data : \A o \in DOMAIN data : data[id].lastSeen <= data[o].lastSeen}

(* save; the caller's id is only kept if the store still has it.           *)
SavedAs(id) == IF id \in DOMAIN store \ Expired THEN id ELSE Len(issued) + 1

(* evictOneOldestLocked deletes one, whichever the map yields first.       *)
Saved(id, user, groups) ==
    LET live  == Without(Expired)
        entry == [user |-> user, groups |-> groups, expires |-> now + TTL, lastSeen |-> now]
        room  == IF Cardinality(DOMAIN live) >= MaxEntries /\ id \notin DOMAIN live
                 THEN {[o \in DOMAIN live \ {victim} |-> live[o]] : victim \in Oldest(live)}
                 ELSE {live}
    IN  {With(data, SavedAs(id), entry) : data \in room}

-----------------------------------------------------------------------------
(* AdminGorillaStore.                                                      *)

(* Mutant: the codec accepts a cookie of any age.                          *)
DecodedAtAnyAge(c) == c # NoCookie

(* securecookie.DecodeMulti, with the codecs' MaxAge.                      *)
Decoded(c) == c # NoCookie /\ now - c.at <= TTL

(* New: the session a request's cookie leads to, and what looking for it   *)
(* does to the store.                                                      *)
SessionOf(c) == IF Decoded(c) /\ c.id \in DOMAIN store \ Expired THEN c.id ELSE NoID

AfterLookup(c) == IF Decoded(c) THEN Touched(c.id) ELSE store

(* Save with a negative MaxAge, by clearAdminSession, after the lookup.    *)
Cleared(c) ==
    IF SessionOf(c) = NoID THEN AfterLookup(c) ELSE Without({c.id})

-----------------------------------------------------------------------------
(* The clock, the browsers and the process.                                *)

Tick ==
    /\ now < MaxTime
    /\ now' = now + 1
    /\ UNCHANGED <<store, issued, seen, ended, jar, reqs>>

Send(t, kind) ==
    /\ reqs[t].phase = "idle"
    /\ reqs' = [reqs EXCEPT ![t] =
           [Idle EXCEPT !.phase = "sent", !.kind = kind, !.cookie = jar[Browser[t]]]]
    /\ UNCHANGED <<now, store, issued, seen, ended, jar>>

Receive(t) ==
    /\ reqs[t].phase = "answered"
    /\ jar' = IF reqs[t].set = Keep THEN jar ELSE [jar EXCEPT ![Browser[t]] = reqs[t].set]
    /\ reqs' = [reqs EXCEPT ![t] = Idle]
    /\ UNCHANGED <<now, store, issued, seen, ended>>

(* The sessions are gone, and the responses that were not sent; with       *)
(* COOKIE_SECRET set the cookies still decode.                             *)
Restart ==
    /\ store # <<>>
    /\ store' = <<>>
    /\ reqs' = [t \in Tabs |-> Idle]
    /\ UNCHANGED <<now, issued, seen, ended, jar>>

-----------------------------------------------------------------------------
(* The handlers.                                                           *)

Answer(t, cookie) ==
    reqs' = [reqs EXCEPT ![t] = [Idle EXCEPT !.phase = "answered", !.set = cookie]]

See(id) == seen' = With(seen, id, now)

(* currentAdminSession at the start of a page handler.  Without a session  *)
(* the cookie is cleared and the browser sent to the login page.           *)
BeginPage(t) ==
    LET c == reqs[t].cookie
        id == SessionOf(c)
    IN  /\ reqs[t].phase = "sent" /\ reqs[t].kind = "page"
        /\ store' = AfterLookup(c)
        /\ IF id = NoID
           THEN Answer(t, NoCookie) /\ UNCHANGED seen
           ELSE /\ reqs' = [reqs EXCEPT ![t].phase = "acting", ![t].id = id,
                                        ![t].cookie = NoCookie,
                                        ![t].user = store[id].user,
                                        ![t].groups = store[id].groups]
                /\ See(id)
        /\ UNCHANGED <<now, issued, ended, jar>>

adminCreateBucketSpaces(groups) ==
    {ParseGroup(g).prefix : g \in {h \in groups : ValidGroup(h) /\ PermCreateBucket \in ParseGroup(h).perm}}

(* strings.Trim(suffix, "-").                                              *)
TrimHyphens(words) ==
    LET solid == {i \in DOMAIN words : words[i] # ""}
    IN  IF solid = {} THEN <<>>
        ELSE SubSeq(words, CHOOSE i \in solid : \A j \in solid : i <= j,
                           CHOOSE i \in solid : \A j \in solid : i >= j)

(* The part of the name after the space; empty: an error.                  *)
adminBuildBucketName(space, suffix) ==
    TrimHyphens(IF Len(suffix) > 1 /\ suffix[1] = space THEN Tail(suffix) ELSE suffix)

Calls(api, bucket, trusted) ==
    {[api |-> api, bucket |-> bucket, trusted |-> trusted, id |-> NoID]}

handleAdminCreateBucket(groups, space, suffix, trusted) ==
    LET rest == adminBuildBucketName(space, suffix)
        name == <<space>> \o rest
    IN  IF /\ trusted
           /\ space \in adminCreateBucketSpaces(groups)
           /\ rest # <<>>
           /\ CanCreateBucket(RulesFromGroups(groups), name)
        THEN Calls("CreateBucket", name, trusted) ELSE {}

handleAdminBucketPage(groups, bucket) ==
    IF CanRead(RulesFromGroups(groups), bucket) THEN Calls("ListObjectsV2", bucket, TRUE) ELSE {}

handleAdminBucketDownload(groups, bucket) ==
    IF CanRead(RulesFromGroups(groups), bucket) THEN Calls("GetObject", bucket, TRUE) ELSE {}

(* Mutant: the origin of the form is not checked.                          *)
DeleteFromAnywhere(groups, bucket, trusted) ==
    IF CanDeleteObject(RulesFromGroups(groups), bucket)
    THEN Calls("DeleteObject", bucket, trusted) ELSE {}

handleAdminBucketDelete(groups, bucket, trusted) ==
    IF trusted /\ CanDeleteObject(RulesFromGroups(groups), bucket)
    THEN Calls("DeleteObject", bucket, trusted) ELSE {}

(* The dashboard shows, of all buckets, those in a namespace of a group;   *)
(* the page of Kafka topics, the topics of those that can be read.         *)
ShownBuckets(groups) ==
    {b \in Buckets :
        \E g \in {h \in groups : ValidGroup(h)} :
            ParseGroup(g).prefix \in {AllBucketsPrefix, BucketNamespace(b)}}

visibleAdminKafkaTopics(groups) ==
    LET rules == RulesFromGroups(groups)
    IN  {topic \in Buckets \cup ReservedTopics :
            \/ CanReadAll(rules)
            \/ topic \notin ReservedTopics /\ CanRead(rules, topic)}

handleAdminDashboard(groups) ==
    UNION {Calls("ShowBucket", b, TRUE) : b \in ShownBuckets(groups)}

handleAdminKafkaTopics(groups) ==
    UNION {Calls("ShowTopic", topic, TRUE) : topic \in visibleAdminKafkaTopics(groups)}

(* What a page handler may do once it has a session.                       *)
CreateCalls(groups) ==
    UNION {handleAdminCreateBucket(groups, space, suffix, trusted) :
              space \in {b[1] : b \in Buckets}, suffix \in TypedSuffixes, trusted \in BOOLEAN}

ReadCalls(groups) ==
    UNION {handleAdminBucketPage(groups, b) \cup handleAdminBucketDownload(groups, b) : b \in Buckets}

DeleteCalls(groups) ==
    UNION {handleAdminBucketDelete(groups, b, trusted) : b \in Buckets, trusted \in BOOLEAN}

PageCalls(groups) ==
    handleAdminDashboard(groups) \cup handleAdminKafkaTopics(groups)
        \cup CreateCalls(groups) \cup ReadCalls(groups) \cup DeleteCalls(groups)

(* The rest of the page handler, with the session it looked up before: a   *)
(* call and its answer, or a refusal (NoCall); neither sets a cookie.      *)
Act(t) ==
    /\ reqs[t].phase = "acting"
    /\ \E call \in PageCalls(reqs[t].groups) \cup {NoCall} :
           called' = [call EXCEPT !.id = reqs[t].id]
    /\ reqs' = [reqs EXCEPT ![t] = Idle]
    /\ UNCHANGED <<now, store, issued, seen, ended, jar>>

(* handleAdminLogin until it calls the directory.                          *)
BeginLogin(t) ==
    LET c == reqs[t].cookie
    IN  /\ reqs[t].phase = "sent" /\ reqs[t].kind = "login"
        /\ store' = AfterLookup(c)
        /\ IF SessionOf(c) # NoID
           THEN Answer(t, Keep) /\ See(SessionOf(c))
           ELSE /\ reqs' = [reqs EXCEPT ![t].phase = "directory", ![t].cookie = NoCookie]
                /\ UNCHANGED seen
        /\ UNCHANGED <<now, issued, ended, jar>>

(* A wrong password, a limit, or a failure of the form or the directory.   *)
LoginRefused(t) ==
    /\ reqs[t].phase \in {"directory", "sent"} /\ reqs[t].kind = "login"
    /\ Answer(t, Keep)
    /\ UNCHANGED <<now, store, issued, seen, ended, jar>>

(* authenticateCredentials succeeds, and the rest of handleAdminLogin.  The *)
(* session that it saves is the one it found at the start, which had no     *)
(* identifier.                                                              *)
SaveLogin(t, user) ==
    LET id == SavedAs(reqs[t].id)
        groups == Directory[user]
    IN  /\ reqs[t].phase = "directory"
        /\ Len(issued) < MaxLogins
        /\ store' \in Saved(reqs[t].id, user, groups)
        /\ issued' = Append(issued, [user |-> user, groups |-> groups, at |-> now])
        /\ See(id)
        /\ Answer(t, [id |-> id, at |-> now])
        /\ UNCHANGED <<now, ended, jar>>

(* handleAdminLogout; a form of another origin changes nothing.            *)
handleAdminLogout(t, trusted) ==
    LET c == reqs[t].cookie
    IN  /\ reqs[t].phase = "sent" /\ reqs[t].kind = "logout"
        /\ IF trusted
           THEN /\ store' = Cleared(c)
                /\ ended' = ended \cup ({c.id} \ {NoID})
                /\ Answer(t, NoCookie)
           ELSE Answer(t, Keep) /\ UNCHANGED <<store, ended>>
        /\ UNCHANGED <<now, issued, seen, jar>>

Handle(t) ==
    \/ BeginPage(t)
    \/ BeginLogin(t)
    \/ LoginRefused(t)
    \/ \E user \in Users : SaveLogin(t, user)
    \/ \E trusted \in BOOLEAN : handleAdminLogout(t, trusted)

Exchange(t) == (\E kind \in {"page", "login", "logout"} : Send(t, kind)) \/ Receive(t)

Next ==
    \/ \E t \in Tabs : Act(t)
    \/ (Tick \/ Restart \/ \E t \in Tabs : Exchange(t) \/ Handle(t)) /\ called' = NoCall

Spec == Init /\ [][Next]_vars

-----------------------------------------------------------------------------
Accepts(t) == reqs[t].phase = "sent" /\ reqs'[t].phase = "acting"

(* However busy a session is, it is accepted only within the lifetime      *)
(* counted from its login, and it acts for the user, and with the groups,  *)
(* that the directory named at that login: the store extends a session     *)
(* with every request, the cookie's date does not move ("Admin sessions    *)
(* expire 30 minutes after login", README.md:377).  Once logged out it is  *)
(* not accepted again: not from another tab, not from a request sent       *)
(* before the logout and handled after it, not when the response that      *)
(* clears the cookie is overtaken (clearAdminSession).                     *)
SessionBounded ==
    [][\A t \in Tabs : Accepts(t) =>
           LET login == issued[reqs'[t].id]
           IN  /\ now - login.at <= TTL
               /\ reqs'[t].id \notin ended
               /\ reqs'[t].user = login.user
               /\ reqs'[t].groups = login.groups]_vars

(* The store holds at most MaxEntries sessions, and a live session is lost *)
(* only to its own logout, to a restart, or at a login into a full store   *)
(* in which every other session was used at least as recently              *)
(* (AdminSessionStore.save, evictOneOldestLocked).                         *)
EvictsLeastRecent ==
    [][/\ Cardinality(DOMAIN store') <= MaxEntries
       /\ \A id \in (DOMAIN store \ DOMAIN store') \ Expired :
              \/ id \in ended'
              \/ store' = <<>> /\ issued' = issued
              \/ /\ Cardinality(DOMAIN store \ Expired) = MaxEntries
                 /\ \A o \in DOMAIN store \ Expired : seen[id] <= seen[o]]_vars

LetterOf ==
    [CreateBucket |-> {PermCreateBucket}, ListObjectsV2 |-> {PermRead}, GetObject |-> {PermRead},
     DeleteObject |-> {PermDeleteObject}, ShowTopic |-> {PermRead}, ShowBucket |-> PermLetters]

(* What a page does upstream, or shows, the groups of the session's login  *)
(* allow: the letter of the operation is granted on the very bucket it     *)
(* names, also when the name was put together from a space and a typed     *)
(* suffix; and a change is made only for a form of the gateway's own       *)
(* pages (hasTrustedAdminOrigin).  Topics that belong to no bucket take    *)
(* the right to read all buckets.                                          *)
PagesWithinRights ==
    called.api # "none" =>
        LET rules == RulesFromGroups(issued[called.id].groups)
        IN  /\ LetterOf[called.api] \cap BucketPerm(rules, called.bucket) # {}
            /\ called.api \in {"CreateBucket", "DeleteObject"} => called.trusted
            /\ called.api = "ShowTopic" /\ called.bucket \in ReservedTopics => CanReadAll(rules)
=============================================================================
