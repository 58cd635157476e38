----------------------------- MODULE AdminProofs -----------------------------
(***************************************************************************)
(* Proofs about AdminSessions for every number of tabs, browsers, users    *)
(* and sessions, every directory and every capacity and lifetime.          *)
(***************************************************************************)
EXTENDS AdminSessions, FiniteSetTheorems, TLAPS

Groups == {Directory[u] : u \in Users}
Login == [user : Users, groups : Groups, at : Nat]
Entry == [user : Users, groups : Groups, expires : Nat, lastSeen : Nat]
Cookie == [id : Int, at : Nat]
Request ==
    [phase : {"idle", "sent", "acting", "directory", "answered"},
     kind : {"page", "login", "logout"}, cookie : Cookie, id : Int,
     user : Users \cup {"none"}, groups : Groups \cup {{}}, set : Cookie]

(* A cookie carries the identifier and the time of one login. *)
Genuine(c) ==
    c \in Cookie /\ (c = NoCookie \/ (c.id \in 1 .. Len(issued) /\ c.at = issued[c.id].at))

(* What the request of a tab knows of its session is what the login said. *)
Sound(q) ==
    /\ q \in Request
    /\ Genuine(q.cookie)
    /\ q.set = Keep \/ Genuine(q.set)
    /\ q.phase \in {"sent", "directory"} => q.id = NoID
    /\ q.phase = "acting" => /\ q.id \in 1 .. Len(issued)
                             /\ q.user = issued[q.id].user
                             /\ q.groups = issued[q.id].groups

(* The store holds the sessions as they were issued; a logout leaves one in  *)
(* it only if its cookie no longer decodes.                                  *)
Stored(data) ==
    /\ DOMAIN data \subseteq 1 .. Len(issued)
    /\ data \in [DOMAIN data -> Entry]
    /\ \A id \in DOMAIN data :
           /\ data[id].user = issued[id].user
           /\ data[id].groups = issued[id].groups
           /\ id \in ended => now - issued[id].at > TTL

Genuineness ==
    /\ now \in Nat
    /\ issued \in Seq(Login)
    /\ ended \subseteq 1 .. Len(issued)
    /\ Stored(store)
    /\ jar \in [{Browser[t] : t \in Tabs} -> Cookie]
    /\ \A b \in DOMAIN jar : Genuine(jar[b])
    /\ reqs \in [Tabs -> Request]
    /\ \A t \in Tabs : Sound(reqs[t])

-----------------------------------------------------------------------------
(* The requests that carry nothing. *)
LEMMA IdleSound == Sound(Idle) /\ Genuine(NoCookie) /\ Keep \in Cookie /\ Idle \in Request
<1>1. NoCookie \in Cookie /\ Keep \in Cookie
  BY DEF NoCookie, Keep, Cookie, NoID
<1>2. Genuine(NoCookie)
  BY <1>1 DEF Genuine
<1>3. Idle \in Request
  BY <1>1 DEF Idle, Request, NoID
<1>4. Sound(Idle)
  BY <1>2, <1>3 DEF Idle, Sound
<1>5. QED
  BY <1>1, <1>2, <1>3, <1>4

(* Removing sessions keeps the store sound. *)
LEMMA WithoutStored ==
    ASSUME Stored(store), NEW ids
    PROVE  Stored(Without(ids))
BY DEF Stored, Without

(* A use of a session changes only its times. *)
LEMMA TouchedStored ==
    ASSUME Genuineness, NEW id
    PROVE  Stored(Touched(id))
<1>1. CASE id \in DOMAIN store \ Expired
  <2>1. Touched(id) = [store EXCEPT ![id].lastSeen = now, ![id].expires = now + TTL]
    BY <1>1 DEF Touched
  <2>2. now \in Nat /\ now + TTL \in Nat
    BY AdminAssumption DEF Genuineness
  <2>3. store[id] \in Entry
    BY <1>1 DEF Genuineness, Stored
  <2>4. /\ Touched(id)[id] = [store[id] EXCEPT !.lastSeen = now, !.expires = now + TTL]
        /\ DOMAIN Touched(id) = DOMAIN store
        /\ \A o \in DOMAIN store : o # id => Touched(id)[o] = store[o]
        /\ Touched(id) = [o \in DOMAIN store |-> Touched(id)[o]]
    BY <1>1, <2>1, Zenon
  <2>5. /\ Touched(id)[id] \in Entry
        /\ Touched(id)[id].user = store[id].user
        /\ Touched(id)[id].groups = store[id].groups
    BY <2>2, <2>3, <2>4, Zenon DEF Entry
  <2>6. QED
    BY <1>1, <2>4, <2>5, Zenon DEF Genuineness, Stored
<1>2. CASE id \notin DOMAIN store \ Expired
  BY <1>2, WithoutStored DEF Touched, Genuineness
<1>3. QED
  BY <1>1, <1>2

(* Looking a session up leaves only genuine sessions in the store. *)
LEMMA AfterLookupStored ==
    ASSUME Genuineness, NEW c
    PROVE  Stored(AfterLookup(c))
BY TouchedStored DEF AfterLookup, Genuineness

(* The session a cookie leads to is one of the store's, and recent. *)
LEMMA SessionFacts ==
    ASSUME Genuineness, NEW c, Genuine(c), SessionOf(c) # NoID
    PROVE  /\ SessionOf(c) = c.id /\ c.id \in DOMAIN store /\ c.id \in 1 .. Len(issued)
           /\ store[c.id].user = issued[c.id].user /\ store[c.id].groups = issued[c.id].groups
           /\ now - issued[c.id].at <= TTL
           /\ c.id \notin ended
<1>1. SessionOf(c) = c.id /\ Decoded(c) /\ c.id \in DOMAIN store
  BY DEF SessionOf
<1>2. c # NoCookie /\ now - c.at <= TTL
  BY <1>1 DEF Decoded
<1>3. c.id \in 1 .. Len(issued) /\ c.at = issued[c.id].at
  BY <1>2 DEF Genuine
<1>4. issued[c.id] \in Login
  BY <1>3 DEF Genuineness
<1>5. c.id \notin ended
  BY <1>1, <1>2, <1>3, <1>4, AdminAssumption DEF Genuineness, Stored, Login
<1>6. QED
  BY <1>1, <1>2, <1>3, <1>5 DEF Genuineness, Stored

(* After a logout the session is gone, or its cookie too old. *)
LEMMA ClearedFacts ==
    ASSUME Genuineness, NEW c, Genuine(c)
    PROVE  /\ Stored(Cleared(c))
           /\ c.id \in DOMAIN Cleared(c) => (c # NoCookie => now - issued[c.id].at > TTL)
<1>1. CASE SessionOf(c) # NoID
  BY <1>1, WithoutStored, Zenon DEF Cleared, Without, Genuineness
<1>2. CASE SessionOf(c) = NoID
  <2>1. Cleared(c) = AfterLookup(c) /\ Stored(Cleared(c))
    BY <1>2, AfterLookupStored DEF Cleared
  <2>2. CASE Decoded(c)
    <3>1. c.id \notin DOMAIN store \ Expired
      <4>1. 0 \notin DOMAIN store
        BY DEF Genuineness, Stored
      <4>2. QED
        BY <1>2, <2>2, <4>1 DEF SessionOf, NoID
    <3>2. Cleared(c) = Without({c.id})
      BY <2>1, <2>2, <3>1 DEF AfterLookup, Touched
    <3>3. QED
      BY <2>1, <3>2 DEF Without
  <2>3. CASE ~Decoded(c)
    <3>1. c # NoCookie => ~(now - c.at <= TTL) /\ c.at = issued[c.id].at
      BY <2>3 DEF Decoded, Genuine
    <3>2. c.at \in Nat /\ now \in Nat /\ TTL \in Nat
      BY AdminAssumption DEF Genuine, Cookie, Genuineness
    <3>3. QED
      BY <2>1, <3>1, <3>2
  <2>4. QED
    BY <2>2, <2>3
<1>3. QED
  BY <1>1, <1>2

-----------------------------------------------------------------------------
(* The process starts without sessions, and no browser holds a cookie. *)
LEMMA GenuineInit == Init => Genuineness
<1> SUFFICES ASSUME Init PROVE Genuineness
  OBVIOUS
<1>1. Stored(store)
  BY DEF Init, Stored
<1>2. QED
  BY <1>1, IdleSound DEF Init, Genuineness, Genuine

(* Steps that issue nothing: what is left to show. *)
LEMMA Kept ==
    ASSUME Genuineness, UNCHANGED <<now, issued, ended>>, Stored(store'),
           jar' = jar \/ (\E b \in DOMAIN jar, c \in Cookie :
                              Genuine(c) /\ jar' = [jar EXCEPT ![b] = c]),
           NEW t \in Tabs, NEW q, Sound(q), reqs' = [reqs EXCEPT ![t] = q]
    PROVE  Genuineness'
<1>1. \A c : Genuine(c) => Genuine(c)'
  BY DEF Genuine
<1>2. \A p : Sound(p) => p \in Request
  BY DEF Sound
<1>3. reqs' \in [Tabs -> Request] /\ \A u \in Tabs : Sound(reqs'[u])
  BY <1>2 DEF Genuineness
<1>4. jar' \in [{Browser[u] : u \in Tabs} -> Cookie] /\ \A b \in DOMAIN jar' : Genuine(jar'[b])
  BY Zenon DEF Genuineness
<1>5. \A u \in Tabs : Sound(reqs[u])'
  BY <1>3 DEF Sound, Genuine
<1>6. Stored(store)'
  BY DEF Stored
<1>7. \A b \in DOMAIN jar' : Genuine(jar[b])'
  BY <1>4 DEF Genuine
<1>8. QED
  BY <1>3, <1>4, <1>5, <1>6, <1>7 DEF Genuineness

(* A response that sets no cookie, clears it or sets a genuine one. *)
LEMMA AnswerSound ==
    ASSUME NEW c, c = Keep \/ Genuine(c)
    PROVE  Sound([Idle EXCEPT !.phase = "answered", !.set = c])
<1> DEFINE q == [Idle EXCEPT !.phase = "answered", !.set = c]
<1>1. c \in Cookie
  BY IdleSound DEF Genuine
<1>2. q.phase = "answered" /\ q.set = c /\ q.cookie = NoCookie
  BY DEF Idle
<1>3. q \in Request
  BY <1>1, IdleSound, Zenon DEF Request
<1>4. QED
  BY <1>2, <1>3, IdleSound DEF Sound

(* A request carries the cookie its browser holds. *)
LEMMA SendKeeps ==
    ASSUME Genuineness, NEW t \in Tabs, NEW kind \in {"page", "login", "logout"}, Send(t, kind)
    PROVE  Genuineness'
<1> DEFINE c == jar[Browser[t]]
           q == [Idle EXCEPT !.phase = "sent", !.kind = kind, !.cookie = c]
<1>1. Genuine(c)
  BY DEF Genuineness
<1>2. q.phase = "sent" /\ q.set = Keep /\ q.cookie = c /\ q.id = NoID
  BY DEF Idle
<1>3. q \in Request
  BY <1>1, IdleSound, Zenon DEF Request, Genuine
<1>4. Sound(q)
  BY <1>1, <1>2, <1>3 DEF Sound
<1>5. reqs' = [reqs EXCEPT ![t] = q] /\ UNCHANGED <<now, store, issued, ended, jar>>
  BY DEF Send
<1>6. Stored(store')
  BY <1>5 DEF Genuineness
<1> HIDE DEF q
<1>7. QED
  BY <1>4, <1>5, <1>6, Kept, Zenon

(* A response puts the cookie it carries into the jar of its browser. *)
LEMMA ReceiveKeeps ==
    ASSUME Genuineness, NEW t \in Tabs, Receive(t)
    PROVE  Genuineness'
<1>1. reqs' = [reqs EXCEPT ![t] = Idle] /\ UNCHANGED <<now, store, issued, ended>>
  BY DEF Receive
<1>2. jar' = jar \/ (\E b \in DOMAIN jar, c \in Cookie : Genuine(c) /\ jar' = [jar EXCEPT ![b] = c])
  <2>1. CASE reqs[t].set = Keep
    BY <2>1 DEF Receive
  <2>2. CASE reqs[t].set # Keep
    <3>1. Genuine(reqs[t].set) /\ reqs[t].set \in Cookie
      BY <2>2 DEF Genuineness, Sound, Genuine
    <3>2. Browser[t] \in DOMAIN jar
      BY DEF Genuineness
    <3>3. QED
      BY <2>2, <3>1, <3>2, Zenon DEF Receive
  <2>3. QED
    BY <2>1, <2>2
<1>3. Stored(store')
  BY <1>1 DEF Genuineness
<1>4. QED
  BY <1>1, <1>2, <1>3, IdleSound, Kept, Zenon

(* A page handler that goes on has the session as it was issued. *)
LEMMA BeginPageKeeps ==
    ASSUME Genuineness, NEW t \in Tabs, BeginPage(t)
    PROVE  Genuineness'
<1> DEFINE c == reqs[t].cookie
<1>1. /\ store' = AfterLookup(c) /\ UNCHANGED <<now, issued, ended, jar>>
  BY DEF BeginPage
<1>2. Stored(store')
  BY <1>1, AfterLookupStored
<1>3. Genuine(c) /\ Sound(reqs[t]) /\ reqs[t] \in Request
  BY DEF Genuineness, Sound
<1>4. CASE SessionOf(c) = NoID
  <2> DEFINE q == [Idle EXCEPT !.phase = "answered", !.set = NoCookie]
  <2>1. reqs' = [reqs EXCEPT ![t] = q]
    BY <1>4 DEF BeginPage, Answer
  <2>2. Sound(q)
    BY IdleSound, AnswerSound, Zenon
  <2> HIDE DEF q
  <2>3. QED
    BY <1>1, <1>2, <2>1, <2>2, Kept, Zenon
<1>5. CASE SessionOf(c) # NoID
  <2> DEFINE q == [reqs[t] EXCEPT !.phase = "acting", !.id = c.id, !.cookie = NoCookie,
                                  !.user = store[c.id].user, !.groups = store[c.id].groups]
  <2>1. /\ SessionOf(c) = c.id /\ c.id \in DOMAIN store /\ c.id \in 1 .. Len(issued)
        /\ store[c.id].user = issued[c.id].user /\ store[c.id].groups = issued[c.id].groups
    BY <1>3, <1>5, SessionFacts
  <2>2. reqs' = [reqs EXCEPT ![t] = q]
    BY <1>5, <2>1, Zenon DEF BeginPage, Genuineness
  <2>3. store[c.id] \in Entry
    BY <2>1 DEF Genuineness, Stored
  <2>4. q \in Request
    <3>1. c.id \in Int /\ store[c.id].user \in Users /\ store[c.id].groups \in Groups
          /\ NoCookie \in Cookie
      BY <1>3, <2>3, IdleSound DEF Entry, Genuine, Cookie
    <3>2. QED
      BY <1>3, <3>1, Zenon DEF Request
  <2>5. Sound(q)
    BY <1>3, <2>1, <2>4, IdleSound, Zenon DEF Sound, Request
  <2> HIDE DEF q
  <2>6. QED
    BY <1>1, <1>2, <2>2, <2>5, Kept, ZenonT(40)
<1>6. QED
  BY <1>4, <1>5

(* A login that has read its form has no session yet. *)
LEMMA BeginLoginKeeps ==
    ASSUME Genuineness, NEW t \in Tabs, BeginLogin(t)
    PROVE  Genuineness'
<1> DEFINE c == reqs[t].cookie
           q == [Idle EXCEPT !.phase = "answered", !.set = Keep]
           p == [reqs[t] EXCEPT !.phase = "directory", !.cookie = NoCookie]
<1>1. store' = AfterLookup(c) /\ UNCHANGED <<now, issued, ended, jar>>
  BY DEF BeginLogin
<1>2. Stored(store')
  BY <1>1, AfterLookupStored
<1>3. Sound(reqs[t]) /\ reqs[t] \in Request /\ reqs[t].phase = "sent"
  BY DEF Genuineness, Sound, BeginLogin
<1>4. reqs' = [reqs EXCEPT ![t] = q] \/ reqs' = [reqs EXCEPT ![t] = p]
  BY Zenon DEF BeginLogin, Answer, Genuineness
<1>5. Sound(q)
  BY AnswerSound, Zenon
<1>6. p \in Request
  BY <1>3, IdleSound, ZenonT(40) DEF Request, Genuine
<1>7. Sound(p)
  BY <1>3, <1>6, IdleSound DEF Sound, Request
<1> HIDE DEF p, q
<1>8. QED
  BY <1>1, <1>2, <1>4, <1>5, <1>7, Kept

(* A login that the directory refuses changes no session. *)
LEMMA LoginRefusedKeeps ==
    ASSUME Genuineness, NEW t \in Tabs, LoginRefused(t)
    PROVE  Genuineness'
<1> DEFINE q == [Idle EXCEPT !.phase = "answered", !.set = Keep]
<1>1. reqs' = [reqs EXCEPT ![t] = q] /\ UNCHANGED <<now, store, issued, ended, jar>>
  BY DEF LoginRefused, Answer
<1>2. Sound(q)
  BY AnswerSound, Zenon
<1>3. Stored(store')
  BY <1>1 DEF Genuineness
<1> HIDE DEF q
<1>4. QED
  BY <1>1, <1>2, <1>3, Kept, Zenon

(* What a page does with its session changes no session. *)
LEMMA ActKeeps ==
    ASSUME Genuineness, NEW t \in Tabs, Act(t)
    PROVE  Genuineness'
<1>1. reqs' = [reqs EXCEPT ![t] = Idle] /\ UNCHANGED <<now, store, issued, ended, jar>>
  BY DEF Act
<1>2. Stored(store')
  BY <1>1 DEF Genuineness
<1>3. QED
  BY <1>1, <1>2, IdleSound, Kept, Zenon

(* Time only makes sessions and cookies older. *)
LEMMA TickKeeps ==
    ASSUME Genuineness, Tick
    PROVE  Genuineness'
<1>1. now' = now + 1 /\ now \in Nat /\ UNCHANGED <<store, issued, ended, jar, reqs>>
  BY DEF Tick, Genuineness
<1>2. Stored(store)'
  <2>1. ASSUME NEW id \in DOMAIN store, id \in ended PROVE now' - issued[id].at > TTL
    <3>1. issued[id] \in Login /\ now - issued[id].at > TTL
      BY <2>1 DEF Genuineness, Stored
    <3>2. QED
      BY <1>1, <3>1, AdminAssumption DEF Login
  <2>2. QED
    BY <1>1, <2>1 DEF Genuineness, Stored
<1>3. QED
  BY <1>1, <1>2 DEF Genuineness, Genuine, Sound

(* A restart forgets the sessions, not the logins they came from. *)
LEMMA RestartKeeps ==
    ASSUME Genuineness, Restart
    PROVE  Genuineness'
<1>1. /\ store' = <<>> /\ reqs' = [t \in Tabs |-> Idle]
      /\ UNCHANGED <<now, issued, ended, jar>>
  BY DEF Restart
<1>2. Stored(store)'
  BY <1>1 DEF Stored
<1>3. \A t \in Tabs : Sound(reqs[t])'
  BY <1>1, IdleSound DEF Sound, Genuine
<1>4. QED
  BY <1>1, <1>2, <1>3, IdleSound DEF Genuineness, Genuine

(* The session found at the start of a login had no identifier, so that the  *)
(* login issues a new one.                                                   *)
LEMMA SaveLoginKeeps ==
    ASSUME Genuineness, NEW t \in Tabs, NEW user \in Users, SaveLogin(t, user)
    PROVE  Genuineness'
<1> DEFINE n == Len(issued) + 1
           new == [user |-> user, groups |-> Directory[user], at |-> now]
           entry == [user |-> user, groups |-> Directory[user],
                     expires |-> now + TTL, lastSeen |-> now]
<1>0. PICK c : c = [id |-> n, at |-> now]
  BY Zenon
<1> DEFINE q == [Idle EXCEPT !.phase = "answered", !.set = c]
<1>1. issued \in Seq(Login) /\ Len(issued) \in Nat /\ now \in Nat /\ new \in Login
  BY DEF Genuineness, Login, Groups
<1>2. issued' = Append(issued, new) /\ UNCHANGED <<now, ended, jar>>
  BY DEF SaveLogin
<1>3. /\ issued' \in Seq(Login) /\ Len(issued') = n /\ issued'[n] = new
      /\ \A i \in 1 .. Len(issued) : issued'[i] = issued[i]
  BY <1>1, <1>2
<1>4. SavedAs(reqs[t].id) = n
  <2>1. reqs[t].id = 0
    BY DEF Genuineness, Sound, SaveLogin, NoID
  <2>2. 0 \notin DOMAIN store
    BY DEF Genuineness, Stored
  <2>3. QED
    BY <2>1, <2>2 DEF SavedAs
<1>5. PICK data : /\ Stored(data)
                  /\ store' = With(data, n, entry)
  <2>1. store' \in Saved(reqs[t].id, user, Directory[user])
    BY DEF SaveLogin
  <2>2. PICK data : /\ \/ data = Without(Expired)
                       \/ \E victim : data = [o \in DOMAIN Without(Expired) \ {victim} |->
                                                Without(Expired)[o]]
                    /\ store' = With(data, n, entry)
    BY <1>4, <2>1, Zenon DEF Saved
  <2>3. Stored(Without(Expired))
    BY WithoutStored DEF Genuineness
  <2>4. Stored(data)
    BY <2>2, <2>3, Zenon DEF Stored
  <2>5. QED
    BY <2>2, <2>4
<1>6. Stored(store)'
  <2>1. entry \in Entry
    BY <1>1, AdminAssumption DEF Entry, Groups
  <2>2. store' = [x \in {n} \cup DOMAIN data |-> IF x = n THEN entry ELSE data[x]]
    BY <1>5 DEF With
  <2>3. n \notin ended /\ n \notin DOMAIN data
    BY <1>1, <1>5 DEF Genuineness, Stored
  <2>4. DOMAIN store' \subseteq 1 .. Len(issued')
    BY <1>1, <1>3, <1>5, <2>2 DEF Stored
  <2>5. store' \in [DOMAIN store' -> Entry]
    BY <1>5, <2>1, <2>2 DEF Stored
  <2>6. ASSUME NEW x \in DOMAIN store'
        PROVE  /\ store'[x].user = issued'[x].user
               /\ store'[x].groups = issued'[x].groups
               /\ x \in ended => now - issued'[x].at > TTL
    <3>1. CASE x = n
      BY <1>3, <2>2, <2>3, <3>1
    <3>2. CASE x # n
      BY <1>3, <1>5, <2>2, <3>2 DEF Stored
    <3>3. QED
      BY <3>1, <3>2
  <2>7. QED
    BY <1>2, <2>4, <2>5, <2>6 DEF Stored
<1>7. \A d : Genuine(d) => Genuine(d)'
  BY <1>1, <1>3 DEF Genuine
<1>8. \A p : Sound(p) => Sound(p)'
  BY <1>1, <1>3, <1>7 DEF Sound
<1>9. Sound(q)'
  <2>1. c \in Cookie /\ Genuine(c)'
    BY <1>0, <1>1, <1>2, <1>3 DEF Genuine, Cookie
  <2>2. q.phase = "answered" /\ q.set = c /\ q.cookie = NoCookie
    BY DEF Idle
  <2>3. q \in Request
    BY <2>1, IdleSound, Zenon DEF Request
  <2>4. QED
    BY <1>7, <2>1, <2>2, <2>3, IdleSound DEF Sound
<1>10. reqs' = [reqs EXCEPT ![t] = q]
  BY <1>0, <1>4 DEF SaveLogin, Answer
<1> HIDE DEF q
<1>11. reqs' \in [Tabs -> Request] /\ \A u \in Tabs : Sound(reqs[u])'
  <2>1. q \in Request
    BY <1>9 DEF Sound
  <2>2. \A u \in Tabs : reqs'[u] = IF u = t THEN q ELSE reqs[u]
    BY <1>10 DEF Genuineness
  <2>3. reqs' \in [Tabs -> Request]
    BY <1>10, <2>1 DEF Genuineness
  <2>4. ASSUME NEW u \in Tabs PROVE Sound(reqs[u])'
    <3>1. Sound(reqs[u])
      BY DEF Genuineness
    <3>2. CASE u = t
      BY <1>9, <2>2, <3>2 DEF Sound, Genuine
    <3>3. CASE u # t
      <4>1. reqs'[u] = reqs[u]
        BY <2>2, <3>3
      <4>2. QED
        BY <1>1, <1>3, <3>1, <4>1 DEF Sound, Genuine
    <3>4. QED
      BY <3>2, <3>3
  <2>5. QED
    BY <2>3, <2>4
<1>12. \A b \in DOMAIN jar' : Genuine(jar[b])'
  BY <1>1, <1>2, <1>3 DEF Genuineness, Genuine
<1>13. ended' \subseteq 1 .. Len(issued')
  BY <1>1, <1>2, <1>3 DEF Genuineness
<1>14. QED
  BY <1>1, <1>2, <1>3, <1>6, <1>11, <1>12, <1>13 DEF Genuineness

(* A logout that finds its session deletes it; one that does not find it  *)
(* had a cookie too old to decode.                                        *)
LEMMA LogoutKeeps ==
    ASSUME Genuineness, NEW t \in Tabs, NEW trusted \in BOOLEAN, handleAdminLogout(t, trusted)
    PROVE  Genuineness'
<1> DEFINE c == reqs[t].cookie
           q == [Idle EXCEPT !.phase = "answered", !.set = NoCookie]
           p == [Idle EXCEPT !.phase = "answered", !.set = Keep]
<1>1. Sound(p) /\ Sound(q)
  BY AnswerSound, IdleSound, Zenon
<1>2. Genuine(c)
  BY DEF Genuineness, Sound
<1>3. UNCHANGED <<now, issued, jar>>
  BY DEF handleAdminLogout
<1>4. CASE ~trusted
  <2>1. reqs' = [reqs EXCEPT ![t] = p] /\ UNCHANGED <<store, ended>>
    BY <1>4 DEF handleAdminLogout, Answer
  <2>2. Stored(store')
    BY <2>1 DEF Genuineness
  <2> HIDE DEF p
  <2>3. QED
    BY <1>1, <1>3, <2>1, <2>2, Kept, Zenon
<1>5. CASE trusted
  <2>1. /\ store' = Cleared(c) /\ ended' = ended \cup ({c.id} \ {NoID})
        /\ reqs' = [reqs EXCEPT ![t] = q]
    BY <1>5 DEF handleAdminLogout, Answer
  <2> HIDE DEF q
  <2>2. c.id # NoID => c # NoCookie /\ c.id \in 1 .. Len(issued)
    BY <1>2 DEF Genuine, NoCookie
  <2>3. Stored(store)'
    <3>1. /\ Stored(store')
          /\ c.id \in DOMAIN store' => (c # NoCookie => now - issued[c.id].at > TTL)
      BY <1>2, <2>1, ClearedFacts
    <3>2. QED
      BY <1>3, <2>1, <2>2, <3>1 DEF Stored
  <2>4. \A u \in Tabs : reqs'[u] = IF u = t THEN q ELSE reqs[u]
    BY <2>1 DEF Genuineness
  <2>5. reqs' \in [Tabs -> Request] /\ \A u \in Tabs : Sound(reqs'[u])
    BY <1>1, <2>1, <2>4 DEF Genuineness, Sound
  <2>6. \A u \in Tabs : Sound(reqs[u])'
    BY <1>3, <2>5 DEF Sound, Genuine
  <2>7. ended' \subseteq 1 .. Len(issued')
    BY <1>3, <2>1, <2>2, Zenon DEF Genuineness
  <2>8. QED
    BY <1>3, <2>3, <2>5, <2>6, <2>7 DEF Genuineness, Genuine
<1>6. QED
  BY <1>4, <1>5

(* Every step keeps sessions and cookies genuine. *)
LEMMA GenuineNext ==
    ASSUME Genuineness, [Next]_vars
    PROVE  Genuineness'
<1>1. ASSUME NEW t \in Tabs, Act(t) \/ Exchange(t) \/ Handle(t) PROVE Genuineness'
  BY <1>1, ActKeeps, SendKeeps, ReceiveKeeps, BeginPageKeeps, BeginLoginKeeps,
     LoginRefusedKeeps, SaveLoginKeeps, LogoutKeeps DEF Exchange, Handle
<1>2. CASE UNCHANGED vars
  BY <1>2 DEF vars, Genuineness, Stored, Sound, Genuine
<1>3. QED
  BY <1>1, <1>2, TickKeeps, RestartKeeps DEF Next

(* No action but BeginPage accepts a request. *)
LEMMA AcceptedByBeginPage ==
    ASSUME Genuineness, Next, NEW t \in Tabs, Accepts(t)
    PROVE  BeginPage(t)
<1>1. Idle.phase = "idle"
  BY DEF Idle
<1>2. \A c : [Idle EXCEPT !.phase = "answered", !.set = c].phase = "answered"
  BY DEF Idle
<1>3. ASSUME NEW u \in Tabs, Act(u) \/ Exchange(u) \/ Handle(u), ~(u = t /\ BeginPage(u))
      PROVE  FALSE
  <2>1. reqs[t].phase = "sent" /\ reqs'[t].phase = "acting" /\ reqs \in [Tabs -> Request]
    BY DEF Accepts, Genuineness
  <2>2. reqs'[t] # reqs[t]
    BY <2>1
  <2>3. u = t
    BY <1>3, <2>1, <2>2, Zenon DEF Act, Exchange, Handle, Send, Receive, BeginPage, BeginLogin,
       LoginRefused, SaveLogin, handleAdminLogout, Answer
  <2>4. CASE Act(u) \/ Exchange(u)
    BY <1>1, <2>1, <2>3, <2>4 DEF Act, Exchange, Send, Receive
  <2>5. CASE BeginLogin(u)
    BY <1>2, <2>1, <2>3, <2>5, ZenonT(40) DEF BeginLogin, Answer, Request
  <2>6. CASE LoginRefused(u) \/ \E user \in Users : SaveLogin(u, user)
    BY <1>2, <2>1, <2>3, <2>6, Zenon DEF LoginRefused, SaveLogin, Answer
  <2>7. CASE \E trusted \in BOOLEAN : handleAdminLogout(u, trusted)
    BY <1>2, <2>1, <2>3, <2>7, Zenon DEF handleAdminLogout, Answer
  <2>8. QED
    BY <1>3, <2>3, <2>4, <2>5, <2>6, <2>7 DEF Handle
<1>4. ~Tick /\ ~Restart
  BY <1>1 DEF Accepts, Tick, Restart
<1>5. QED
  BY <1>3, <1>4 DEF Next

(* A session is accepted within its lifetime, for the user and the groups of *)
(* its login, and never after its logout.                                    *)
THEOREM SessionsAreBounded == Spec => SessionBounded
<1> DEFINE A == \A t \in Tabs : Accepts(t) =>
                   LET login == issued[reqs'[t].id]
                   IN  /\ now - login.at <= TTL
                       /\ reqs'[t].id \notin ended
                       /\ reqs'[t].user = login.user
                       /\ reqs'[t].groups = login.groups
<1>1. ASSUME Genuineness, Next PROVE A
  <2> SUFFICES ASSUME NEW t \in Tabs, Accepts(t)
               PROVE  /\ now - issued[reqs'[t].id].at <= TTL
                      /\ reqs'[t].id \notin ended
                      /\ reqs'[t].user = issued[reqs'[t].id].user
                      /\ reqs'[t].groups = issued[reqs'[t].id].groups
    OBVIOUS
  <2> DEFINE c == reqs[t].cookie
  <2>1. BeginPage(t) /\ Genuine(c) /\ reqs[t] \in Request /\ reqs \in [Tabs -> Request]
    BY <1>1, AcceptedByBeginPage DEF Genuineness, Sound
  <2>2. SessionOf(c) # NoID
    <3>1. SessionOf(c) = NoID => reqs'[t].phase = "answered"
      BY <2>1, Zenon DEF BeginPage, Answer, Idle
    <3>2. QED
      BY <3>1 DEF Accepts
  <2>3. /\ SessionOf(c) = c.id
        /\ store[c.id].user = issued[c.id].user /\ store[c.id].groups = issued[c.id].groups
        /\ now - issued[c.id].at <= TTL /\ c.id \notin ended
    BY <1>1, <2>1, <2>2, SessionFacts
  <2>4. /\ reqs'[t].id = c.id /\ reqs'[t].user = store[c.id].user
        /\ reqs'[t].groups = store[c.id].groups
    BY <2>1, <2>2, <2>3 DEF BeginPage, Request
  <2>5. QED
    BY <2>3, <2>4
<1>2. Genuineness /\ [Next]_vars => [A]_vars
  BY <1>1
<1>3. Spec => []Genuineness
  BY GenuineInit, GenuineNext, PTL DEF Spec
<1>4. Spec => [][A]_vars
  BY <1>2, <1>3, PTL DEF Spec
<1>5. QED
  BY <1>4 DEF SessionBounded

-----------------------------------------------------------------------------
(* What the groups of a user allow, in terms of the groups.                  *)
LEMMA GroupRules ==
    ASSUME NEW groups, NEW g \in groups, ValidGroup(g)
    PROVE  \E r \in RulesFromGroups(groups) :
               r.prefix = ParseGroup(g).prefix /\ ParseGroup(g).perm \subseteq r.perm
<1> DEFINE parsed == {ParseGroup(h) : h \in {k \in groups : ValidGroup(k)}}
           p == ParseGroup(g).prefix
           rule == [prefix |-> p, perm |-> UNION {r.perm : r \in {q \in parsed : q.prefix = p}}]
<1>1. ParseGroup(g) \in parsed
  OBVIOUS
<1>2. rule \in RulesFromGroups(groups)
  BY <1>1, Zenon DEF RulesFromGroups
<1>3. ParseGroup(g).perm \subseteq rule.perm
  BY <1>1
<1>4. QED
  BY <1>2, <1>3

(* A group that shows a bucket on the dashboard grants some letter on it.    *)
LEMMA ShownBucketsGranted ==
    ASSUME NEW groups \in Groups, NEW b \in ShownBuckets(groups)
    PROVE  PermLetters \cap BucketPerm(RulesFromGroups(groups), b) # {}
<1>1. PICK g \in groups : /\ ValidGroup(g)
                          /\ ParseGroup(g).prefix \in {AllBucketsPrefix, BucketNamespace(b)}
  BY DEF ShownBuckets
<1>2. PICK r \in RulesFromGroups(groups) :
         r.prefix = ParseGroup(g).prefix /\ ParseGroup(g).perm \subseteq r.perm
  BY <1>1, GroupRules
<1>3. CASE ParseGroup(g).prefix = AllBucketsPrefix
  <2>1. PermRead \in ParseGroup(g).perm
    BY <1>1, <1>3, Zenon DEF ParseGroup, ValidGroup
  <2>2. PermRead \in r.perm \cap {PermRead}
    BY <1>2, <2>1
  <2>3. PermRead \in BucketPerm(RulesFromGroups(groups), b)
    BY <1>2, <1>3, <2>2, Zenon DEF BucketPerm
  <2>4. QED
    BY <2>3 DEF PermLetters
<1>4. CASE ParseGroup(g).prefix # AllBucketsPrefix
  <2>1. g # AllBucketsReadGroup
    BY <1>4 DEF ParseGroup
  <2>2. g.letters \in Seq(STRING)
    BY AdminAssumption DEF Groups
  <2>3. ParseGroup(g).perm = ToSet(g.letters) \cap PermLetters
    BY <2>1 DEF ParseGroup
  <2>4. g.letters # <<>> /\ ToSet(g.letters) \subseteq PermLetters
    BY <1>1, <2>1, Zenon DEF ValidGroup
  <2>5. g.letters[1] \in ToSet(g.letters)
    BY <2>2, <2>4 DEF ToSet
  <2>6. g.letters[1] \in r.perm /\ g.letters[1] \in PermLetters
    BY <1>2, <2>3, <2>4, <2>5
  <2>7. r.perm \subseteq BucketPerm(RulesFromGroups(groups), b)
    BY <1>1, <1>2, <1>4 DEF BucketPerm
  <2>8. QED
    BY <2>6, <2>7
<1>5. QED
  BY <1>3, <1>4

(* The group that reads everything reads every bucket. *)
LEMMA ReadAllReads ==
    ASSUME NEW rules, NEW b, CanReadAll(rules)
    PROVE  CanRead(rules, b)
<1>1. PICK r \in rules : r.prefix = AllBucketsPrefix /\ PermRead \in r.perm
  BY DEF CanReadAll
<1>2. PermRead \in r.perm \cap {PermRead}
  BY <1>1
<1>3. QED
  BY <1>1, <1>2, Zenon DEF CanRead, BucketPerm

(* The rights behind a call. *)
Rightful(call, groups) ==
    LET rules == RulesFromGroups(groups)
    IN  /\ LetterOf[call.api] \cap BucketPerm(rules, call.bucket) # {}
        /\ call.api \in {"CreateBucket", "DeleteObject"} => call.trusted
        /\ call.api = "ShowTopic" /\ call.bucket \in ReservedTopics => CanReadAll(rules)

CallFields(call) ==
    call = [api |-> call.api, bucket |-> call.bucket, trusted |-> call.trusted, id |-> call.id]

(* Every page handler checks the right it needs on the bucket it uses.       *)
LEMMA PageCallsRightful ==
    ASSUME NEW groups \in Groups, NEW call \in PageCalls(groups)
    PROVE  Rightful(call, groups) /\ CallFields(call)
<1> DEFINE rules == RulesFromGroups(groups)
<1>1. CASE call \in handleAdminDashboard(groups)
  <2>1. PICK b \in ShownBuckets(groups) : call \in Calls("ShowBucket", b, TRUE)
    BY <1>1, Zenon DEF handleAdminDashboard
  <2>2. call = [api |-> "ShowBucket", bucket |-> b, trusted |-> TRUE, id |-> NoID]
    BY <2>1 DEF Calls
  <2>3. PermLetters \cap BucketPerm(rules, b) # {}
    BY ShownBucketsGranted
  <2>4. QED
    BY <2>2, <2>3 DEF Rightful, CallFields, LetterOf
<1>2. CASE call \in handleAdminKafkaTopics(groups)
  <2>1. PICK b \in visibleAdminKafkaTopics(groups) : call \in Calls("ShowTopic", b, TRUE)
    BY <1>2, Zenon DEF handleAdminKafkaTopics
  <2>2. call = [api |-> "ShowTopic", bucket |-> b, trusted |-> TRUE, id |-> NoID]
    BY <2>1 DEF Calls
  <2>3. CanRead(rules, b) /\ (b \in ReservedTopics => CanReadAll(rules))
    BY ReadAllReads DEF visibleAdminKafkaTopics
  <2>4. QED
    BY <2>2, <2>3 DEF Rightful, CallFields, LetterOf, CanRead
<1>3. CASE \E space, suffix : \E trusted \in BOOLEAN :
              call \in handleAdminCreateBucket(groups, space, suffix, trusted)
  <2>1. PICK space, suffix, trusted :
             call \in handleAdminCreateBucket(groups, space, suffix, trusted)
    BY <1>3
  <2> DEFINE name == <<space>> \o adminBuildBucketName(space, suffix)
  <2>2. trusted /\ CanCreateBucket(rules, name) /\ call \in Calls("CreateBucket", name, trusted)
    BY <2>1 DEF handleAdminCreateBucket
  <2> HIDE DEF name
  <2>3. call = [api |-> "CreateBucket", bucket |-> name, trusted |-> trusted, id |-> NoID]
    BY <2>2 DEF Calls
  <2>4. QED
    BY <2>2, <2>3 DEF Rightful, CallFields, LetterOf, CanCreateBucket, CanConfigure
<1>4. CASE \E b : call \in handleAdminBucketPage(groups, b) \cup handleAdminBucketDownload(groups, b)
  <2>1. PICK b, api : /\ CanRead(rules, b) /\ api \in {"ListObjectsV2", "GetObject"}
                      /\ call \in Calls(api, b, TRUE)
    BY <1>4, Zenon DEF handleAdminBucketPage, handleAdminBucketDownload
  <2>2. call = [api |-> api, bucket |-> b, trusted |-> TRUE, id |-> NoID]
    BY <2>1 DEF Calls
  <2>3. QED
    BY <2>1, <2>2 DEF Rightful, CallFields, LetterOf, CanRead
<1>5. CASE \E b : \E trusted \in BOOLEAN : call \in handleAdminBucketDelete(groups, b, trusted)
  <2>1. PICK b, trusted : call \in handleAdminBucketDelete(groups, b, trusted)
    BY <1>5
  <2>2. trusted /\ CanDeleteObject(rules, b) /\ call \in Calls("DeleteObject", b, trusted)
    BY <2>1 DEF handleAdminBucketDelete
  <2>3. call = [api |-> "DeleteObject", bucket |-> b, trusted |-> trusted, id |-> NoID]
    BY <2>2 DEF Calls
  <2>4. QED
    BY <2>2, <2>3 DEF Rightful, CallFields, LetterOf, CanDeleteObject
<1>6. call \in CreateCalls(groups) => \E space, suffix : \E trusted \in BOOLEAN :
              call \in handleAdminCreateBucket(groups, space, suffix, trusted)
  BY SMT DEF CreateCalls
<1>7. call \in ReadCalls(groups) => \E b : call \in handleAdminBucketPage(groups, b)
                                                   \cup handleAdminBucketDownload(groups, b)
  BY DEF ReadCalls
<1>8. call \in DeleteCalls(groups) => \E b : \E trusted \in BOOLEAN :
              call \in handleAdminBucketDelete(groups, b, trusted)
  BY SMT DEF DeleteCalls
<1>9. QED
  BY <1>1, <1>2, <1>3, <1>4, <1>5, <1>6, <1>7, <1>8 DEF PageCalls

(* A page that acts does so with the groups of its session's login.          *)
LEMMA ActWithinRights ==
    ASSUME Genuineness, NEW t \in Tabs, Act(t)
    PROVE  PagesWithinRights'
<1> DEFINE id == reqs[t].id
           groups == reqs[t].groups
<1>1. id \in 1 .. Len(issued) /\ groups = issued[id].groups /\ UNCHANGED issued
  BY DEF Act, Genuineness, Sound
<1>2. groups \in Groups
  <2>1. issued[id] \in Login
    BY <1>1 DEF Genuineness
  <2>2. QED
    BY <1>1, <2>1 DEF Login
<1>3. PICK call \in PageCalls(groups) \cup {NoCall} : called' = [call EXCEPT !.id = id]
  BY DEF Act
<1>4. CASE call = NoCall
  BY <1>3, <1>4, Zenon DEF NoCall, PagesWithinRights
<1>5. CASE call \in PageCalls(groups)
  <2>1. Rightful(call, groups) /\ CallFields(call)
    BY <1>2, <1>5, PageCallsRightful
  <2>2. /\ called'.api = call.api /\ called'.bucket = call.bucket
        /\ called'.trusted = call.trusted /\ called'.id = id
    BY <1>3, <2>1 DEF CallFields
  <2>3. QED
    BY <1>1, <2>1, <2>2 DEF Rightful, PagesWithinRights
<1>6. QED
  BY <1>3, <1>4, <1>5

(* What the pages do and show is within the rights of the session's login.   *)
THEOREM PagesAreWithinRights == Spec => []PagesWithinRights
<1>0. NoCall.api = "none"
  BY DEF NoCall
<1>1. called = NoCall => PagesWithinRights
  BY <1>0 DEF PagesWithinRights
<1>2. called' = NoCall => PagesWithinRights'
  BY <1>0 DEF PagesWithinRights
<1>3. ASSUME Genuineness, PagesWithinRights, [Next]_vars PROVE PagesWithinRights'
  <2>1. CASE UNCHANGED vars
    BY <1>3, <2>1 DEF vars, PagesWithinRights
  <2>2. QED
    BY <1>2, <1>3, <2>1, ActWithinRights DEF Next
<1>4. Init => PagesWithinRights
  BY <1>1 DEF Init
<1>5. QED
  BY <1>3, <1>4, GenuineInit, GenuineNext, PTL DEF Spec

-----------------------------------------------------------------------------
(* The store is within its capacity and knows when each session was used.    *)
Fresh ==
    /\ IsFiniteSet(DOMAIN store) /\ Cardinality(DOMAIN store) <= MaxEntries
    /\ \A id \in DOMAIN store : id \in DOMAIN seen /\ seen[id] = store[id].lastSeen

(* What may be lost from the store in a step. *)
Lost ==
    \A id \in (DOMAIN store \ DOMAIN store') \ Expired :
        \/ id \in ended'
        \/ store' = <<>> /\ issued' = issued
        \/ /\ Cardinality(DOMAIN store \ Expired) = MaxEntries
           /\ \A o \in DOMAIN store \ Expired : seen[id] <= seen[o]

(* Fewer sessions are not too many. *)
LEMMA FewerFresh ==
    ASSUME Fresh, NEW ids, store' = Without(ids), seen' = seen
    PROVE  Fresh'
<1>1. DOMAIN store' \in SUBSET DOMAIN store
  BY DEF Without
<1>2. IsFiniteSet(DOMAIN store') /\ Cardinality(DOMAIN store') <= Cardinality(DOMAIN store)
  BY <1>1, FS_Subset DEF Fresh
<1>3. Cardinality(DOMAIN store') \in Nat /\ Cardinality(DOMAIN store) \in Nat
  BY <1>2, FS_CardinalityType DEF Fresh
<1>4. Cardinality(DOMAIN store') <= MaxEntries
  BY <1>2, <1>3, AdminAssumption DEF Fresh
<1>5. QED
  BY <1>2, <1>4 DEF Fresh, Without

(* Looking for a session refreshes it, and loses at most an expired one. *)
LEMMA LookupFresh ==
    ASSUME Genuineness, Fresh, NEW c, store' = AfterLookup(c),
           seen' = IF SessionOf(c) = NoID THEN seen ELSE With(seen, SessionOf(c), now)
    PROVE  Fresh' /\ Lost
<1>1. CASE ~Decoded(c)
  BY <1>1 DEF AfterLookup, SessionOf, Fresh, Lost
<1>2. CASE Decoded(c) /\ c.id \notin DOMAIN store \ Expired
  <2>1. store' = Without({c.id}) /\ seen' = seen
    BY <1>2 DEF AfterLookup, Touched, SessionOf
  <2>2. Lost
    BY <1>2, <2>1 DEF Lost, Without
  <2>3. QED
    BY <2>1, <2>2, FewerFresh
<1>3. CASE Decoded(c) /\ c.id \in DOMAIN store \ Expired
  <2>1. c.id # NoID
    BY <1>3 DEF Genuineness, Stored, NoID
  <2>2. SessionOf(c) = c.id /\ seen' = With(seen, c.id, now)
    BY <1>3, <2>1 DEF SessionOf
  <2>3. store' = [store EXCEPT ![c.id].lastSeen = now, ![c.id].expires = now + TTL]
    BY <1>3 DEF AfterLookup, Touched
  <2>4. DOMAIN store' = DOMAIN store /\ \A o \in DOMAIN store : o # c.id => store'[o] = store[o]
    BY <2>3
  <2>5. store'[c.id] = [store[c.id] EXCEPT !.lastSeen = now, !.expires = now + TTL]
    BY <1>3, <2>3, Zenon
  <2>6. store[c.id] \in Entry
    BY <1>3 DEF Genuineness, Stored
  <2>7. store'[c.id].lastSeen = now
    BY <2>5, <2>6 DEF Entry
  <2>8. QED
    BY <2>2, <2>4, <2>7 DEF Fresh, Lost, With
<1>4. QED
  BY <1>1, <1>2, <1>3

(* A login into a full store evicts a session that was used least recently. *)
LEMMA SaveLoginFresh ==
    ASSUME Genuineness, Fresh, NEW t \in Tabs, NEW user \in Users, SaveLogin(t, user)
    PROVE  Fresh' /\ Lost
<1> DEFINE n == Len(issued) + 1
           live == Without(Expired)
           entry == [user |-> user, groups |-> Directory[user],
                     expires |-> now + TTL, lastSeen |-> now]
<1>1. reqs[t].id = 0 /\ 0 \notin DOMAIN store /\ n \notin DOMAIN store
  BY DEF Genuineness, Sound, SaveLogin, NoID, Stored
<1>2. SavedAs(reqs[t].id) = n
  BY <1>1 DEF SavedAs
<1>3. seen' = With(seen, n, now)
  BY <1>2 DEF SaveLogin, See
<1>4. DOMAIN live = DOMAIN store \ Expired /\ \A o \in DOMAIN live : live[o] = store[o]
  BY DEF Without
<1>5. DOMAIN live \in SUBSET DOMAIN store
  BY <1>4
<1>6. /\ IsFiniteSet(DOMAIN live) /\ Cardinality(DOMAIN live) <= Cardinality(DOMAIN store)
      /\ Cardinality(DOMAIN live) \in Nat /\ Cardinality(DOMAIN store) \in Nat
  BY <1>5, FS_Subset, FS_CardinalityType DEF Fresh
<1>7. Cardinality(DOMAIN live) <= MaxEntries /\ MaxEntries \in Nat
  BY <1>6, AdminAssumption DEF Fresh
<1>8. PICK data : /\ store' = With(data, n, entry)
                  /\ \/ Cardinality(DOMAIN live) < MaxEntries /\ data = live
                     \/ /\ Cardinality(DOMAIN live) >= MaxEntries
                        /\ \E victim \in Oldest(live) :
                              data = [o \in DOMAIN live \ {victim} |-> live[o]]
  <2>1. store' \in Saved(reqs[t].id, user, Directory[user])
    BY Zenon DEF SaveLogin
  <2>2. reqs[t].id \notin DOMAIN live
    BY <1>1, <1>4
  <2> DEFINE full == Cardinality(DOMAIN live) >= MaxEntries
             evicted == {[o \in DOMAIN live \ {victim} |-> live[o]] : victim \in Oldest(live)}
             room == IF full /\ reqs[t].id \notin DOMAIN live THEN evicted ELSE {live}
  <2>3. PICK data \in room : store' = With(data, n, entry)
    BY <1>2, <2>1, Zenon DEF Saved
  <2>4. data \in IF full THEN evicted ELSE {live}
    BY <2>2, <2>3, Zenon
  <2>5. ~full => Cardinality(DOMAIN live) < MaxEntries
    BY <1>6, <1>7
  <2>6. QED
    BY <2>3, <2>4, <2>5, Zenon
<1>9. DOMAIN data \in SUBSET DOMAIN live /\ \A o \in DOMAIN data : data[o] = store[o]
  BY <1>4, <1>8, Zenon
<1>10. IsFiniteSet(DOMAIN data) /\ Cardinality(DOMAIN data) < MaxEntries
  <2>1. IsFiniteSet(DOMAIN data)
    BY <1>6, <1>9, FS_Subset
  <2>2. CASE data = live /\ Cardinality(DOMAIN live) < MaxEntries
    BY <2>1, <2>2
  <2>3. CASE \E victim \in Oldest(live) : data = [o \in DOMAIN live \ {victim} |-> live[o]]
    <3>1. PICK victim \in Oldest(live) : data = [o \in DOMAIN live \ {victim} |-> live[o]]
      BY <2>3
    <3>2. victim \in DOMAIN live /\ DOMAIN data = DOMAIN live \ {victim}
      BY <3>1 DEF Oldest
    <3>3. Cardinality(DOMAIN data) = Cardinality(DOMAIN live) - 1
      BY <1>6, <3>2, FS_RemoveElement
    <3>4. QED
      BY <1>6, <1>7, <2>1, <3>3
  <2>4. QED
    BY <1>8, <2>2, <2>3, Zenon
<1>11. DOMAIN store' = DOMAIN data \cup {n}
       /\ \A o \in DOMAIN store' : store'[o] = IF o = n THEN entry ELSE data[o]
  BY <1>8 DEF With
<1>12. IsFiniteSet(DOMAIN store') /\ Cardinality(DOMAIN store') <= MaxEntries
  <2>1. n \notin DOMAIN data
    BY <1>1, <1>5, <1>9
  <2>2. /\ IsFiniteSet(DOMAIN data \cup {n})
        /\ Cardinality(DOMAIN data \cup {n}) = Cardinality(DOMAIN data) + 1
    BY <1>10, <2>1, FS_AddElement
  <2>3. Cardinality(DOMAIN data) \in Nat
    BY <1>10, FS_CardinalityType
  <2>4. QED
    BY <1>7, <1>10, <1>11, <2>2, <2>3
<1>13. ASSUME NEW o \in DOMAIN store'
       PROVE  o \in DOMAIN seen' /\ seen'[o] = store'[o].lastSeen
  <2>1. CASE o = n
    BY <1>3, <1>11, <2>1 DEF With
  <2>2. CASE o # n
    BY <1>3, <1>5, <1>9, <1>11, <2>2 DEF With, Fresh
  <2>3. QED
    BY <2>1, <2>2
<1>14. Lost
  <2> SUFFICES ASSUME NEW id \in (DOMAIN store \ DOMAIN store') \ Expired
               PROVE  /\ Cardinality(DOMAIN store \ Expired) = MaxEntries
                      /\ \A o \in DOMAIN store \ Expired : seen[id] <= seen[o]
    BY Zenon DEF Lost
  <2>1. id \in DOMAIN live /\ id \notin DOMAIN data
    BY <1>4, <1>11
  <2>2. PICK victim \in Oldest(live) : data = [o \in DOMAIN live \ {victim} |-> live[o]]
    BY <1>8, <2>1, Zenon
  <2>3. id = victim /\ Cardinality(DOMAIN live) >= MaxEntries
    BY <1>8, <2>1, <2>2
  <2>4. Cardinality(DOMAIN store \ Expired) = MaxEntries
    BY <1>4, <1>6, <1>7, <2>3
  <2>5. \A o \in DOMAIN live : live[id].lastSeen <= live[o].lastSeen
    BY <2>2, <2>3 DEF Oldest
  <2>6. QED
    BY <1>4, <1>5, <2>1, <2>4, <2>5 DEF Fresh
<1>15. QED
  BY <1>12, <1>13, <1>14 DEF Fresh

(* A logout loses only the session it ends, or expired ones. *)
LEMMA LogoutFresh ==
    ASSUME Genuineness, Fresh, NEW t \in Tabs, NEW trusted \in BOOLEAN,
           handleAdminLogout(t, trusted)
    PROVE  Fresh' /\ Lost
<1> DEFINE c == reqs[t].cookie
<1>1. seen' = seen
  BY DEF handleAdminLogout
<1>2. CASE ~trusted
  BY <1>1, <1>2 DEF handleAdminLogout, Fresh, Lost
<1>3. CASE trusted /\ SessionOf(c) = NoID
  <2>1. store' = AfterLookup(c)
    BY <1>3 DEF handleAdminLogout, Cleared
  <2>2. QED
    BY <1>1, <1>3, <2>1, LookupFresh
<1>4. CASE trusted /\ SessionOf(c) # NoID
  <2>1. store' = Without({c.id}) /\ c.id \in ended'
    BY <1>4 DEF handleAdminLogout, Cleared, SessionOf
  <2>2. Lost
    BY <2>1 DEF Lost, Without
  <2>3. QED
    BY <1>1, <2>1, <2>2, FewerFresh
<1>5. QED
  BY <1>2, <1>3, <1>4

(* Every step keeps the store within its size and loses only what it may. *)
LEMMA FreshNext ==
    ASSUME Genuineness, Fresh, [Next]_vars
    PROVE  Fresh' /\ Lost
<1>1. CASE UNCHANGED <<store, seen>>
  BY <1>1 DEF Fresh, Lost
<1>2. CASE Restart
  <2>1. store' = <<>> /\ seen' = seen /\ issued' = issued /\ DOMAIN store' = {}
    BY <1>2 DEF Restart
  <2>2. IsFiniteSet(DOMAIN store') /\ Cardinality(DOMAIN store') = 0
    BY <2>1, FS_EmptySet
  <2>3. QED
    BY <2>1, <2>2, AdminAssumption DEF Fresh, Lost
<1>3. ASSUME NEW t \in Tabs, BeginPage(t) PROVE Fresh' /\ Lost
  <2> DEFINE c == reqs[t].cookie
  <2>1. /\ store' = AfterLookup(c)
        /\ seen' = IF SessionOf(c) = NoID THEN seen ELSE With(seen, SessionOf(c), now)
    BY <1>3 DEF BeginPage, See
  <2>2. QED
    BY <2>1, LookupFresh
<1>4. ASSUME NEW t \in Tabs, BeginLogin(t) PROVE Fresh' /\ Lost
  <2> DEFINE c == reqs[t].cookie
  <2>1. /\ store' = AfterLookup(c)
        /\ seen' = IF SessionOf(c) = NoID THEN seen ELSE With(seen, SessionOf(c), now)
    BY <1>4 DEF BeginLogin, See
  <2>2. QED
    BY <2>1, LookupFresh
<1>5. \/ UNCHANGED <<store, seen>> \/ Restart
      \/ \E t \in Tabs : \/ BeginPage(t) \/ BeginLogin(t)
                         \/ \E user \in Users : SaveLogin(t, user)
                         \/ \E trusted \in BOOLEAN : handleAdminLogout(t, trusted)
  BY Zenon DEF Next, vars, Act, Tick, Exchange, Handle, Send, Receive, LoginRefused
<1>6. QED
  BY <1>1, <1>2, <1>3, <1>4, <1>5, SaveLoginFresh, LogoutFresh

(* The store keeps to its capacity, and a live session is lost only to its   *)
(* logout, a restart, or a login into a full store, least recently used first. *)
THEOREM EvictionIsLeastRecent == Spec => EvictsLeastRecent
<1> DEFINE A == /\ Cardinality(DOMAIN store') <= MaxEntries
                /\ \A id \in (DOMAIN store \ DOMAIN store') \ Expired :
                       \/ id \in ended'
                       \/ store' = <<>> /\ issued' = issued
                       \/ /\ Cardinality(DOMAIN store \ Expired) = MaxEntries
                          /\ \A o \in DOMAIN store \ Expired : seen[id] <= seen[o]
<1>1. Init => Fresh
  <2>1. DOMAIN <<>> = {}
    OBVIOUS
  <2>2. QED
    BY <2>1, FS_EmptySet, AdminAssumption DEF Init, Fresh
<1>2. Genuineness /\ Fresh /\ [Next]_vars => [A]_vars
  BY FreshNext, Zenon DEF Fresh, Lost
<1>3. Genuineness /\ Fresh /\ [Next]_vars => Fresh'
  BY FreshNext
<1>4. Spec => [][A]_vars
  BY <1>1, <1>2, <1>3, GenuineInit, GenuineNext, PTL DEF Spec
<1>5. QED
  BY <1>4 DEF EvictsLeastRecent
=============================================================================
