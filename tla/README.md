# Verification of s3gateway

TLA+ models of the gateway, TLC runs that check them on small instances, and
TLAPS proofs that hold for every instance. `PROJECT.json` lists the components,
the runs, the mutants that show each property can fail, the source lines behind
every definition, the hazards and the theorems. Paths below are relative to
`src/internal/` unless they say otherwise.

Check a run with `tlc -config MCKafkaPop.cfg MCKafkaPop`, proofs with
`tlapm KafkaPopProofs.tla`.

## 1. The system

s3gateway stands between S3 clients and one upstream S3 service. It checks the
signature of a request, recovers the user and password from the access key,
binds to LDAP with them, derives the user's rights per bucket from LDAP groups,
and forwards the operation with its own upstream credentials. After an upload it
publishes an event to Kafka. The pop API hands out uploaded objects by consuming
those events. A browser UI uploads, lists, downloads and deletes.

```
   withTransferLimits -> WithS3Audit -> WithAuth -> ServeHTTP -> handler -> upstream S3
                                           |                        |
                           limiter, group cache, LDAP          notifyUpload -> Kafka
                                                                                |
   browser -> adminpage (session) -> upstream S3, notifyUpload  pop API <- kafkapop.Manager
   every slog record -> splunkhec.Handler -> Splunk
   run: boot the Kafka clients -> serve -> drain -> close the clients -> flush Splunk
```

### Inventory

| Component | State it keeps | What makes it correct | Modules |
|---|---|---|---|
| Pop consumer manager (`kafkapop`) | consumers by (topic, group), users, gates, idle timers, `closers` WaitGroup, force context | calls of a key serialized; no client used after close; each closed once; no record lost or committed early; shutdown returns | `KafkaPop`, `KafkaPopDelivery`, `PopQueue` |
| Authentication limiter (`authn`) | keyed LRU tables with token buckets and in-flight counts, shared and reserved pool, trusted credentials | permits accounted for; tables bounded; backend rate bounded; reserve only for accepted credentials | `AuthLimiter`, `Admission` |
| Authentication (`groupcache`, `server`, `ldap`) | an entry per user, rejected credentials, running lookups | a caller gets its own, recent groups; one verdict per credential; nobody left waiting | `Authentication` |
| Splunk handler (`splunkhec`) | pending events, dropped count, flush permit | no event lost uncounted or reordered; `Close` returns and delivers | `SplunkHEC` |
| Dispatch and audit (`server`) | the request and its audit event | both name the same operation; no request falls through to another one | `Routing`, `Requests` |
| Operation handlers (`server`, `upstream`, `s3http`) | none beyond the request | exact permissions; success only when done; documents keep their scope | `Handlers`, `Documents`, `Authz`, `Requests` |
| Uploads (`server`, `adminpage`, `uploadnotify`) | upstream objects, versions, multipart uploads, Kafka topics | events name what was stored; pop delivers what was announced; browser uploads clean up | `Uploads` |
| Chunked bodies (`sigv4`) | reader position, running signature, held byte | only signed bytes go upstream; a failed body stays incomplete | `ChunkedBody` |
| Sessions and pages (`adminpage`) | session table, cookies | sessions bounded by their login; pages within the rights of the login | `AdminSessions`, `Authz` |
| Transfer limits (`server`, `upstream`) | slots, deadline, timer | an idle transfer is cut, an active one is not | `Transfers`, `Process` |
| Readiness (`server`) | cached result, one check in flight | not ready only because of a backend | `Readiness`, `Process` |
| Start and shutdown (`app`) | phase, clients, budget | clients outlive the handlers; the process ends | `Process` |
| Topic lister, configuration, credentials, certificates, example client | none | | not modelled (section 7) |

### How the parts interact

- `Authentication` asks the limiter for a permit around each LDAP lookup. It uses
  it through `Admission`, and `AuthLimiter` is proved to implement `Admission`.
- `KafkaPopDelivery` extends `KafkaPop`: what a call does while it holds the
  permit is refined into poll, handle, commit and rewind, beside rebalances. It
  implements `PopQueue`.
- The pop handler of `Uploads` is the callback of `Consume`. `Uploads` keeps of
  Kafka only the topic and the committed offset: it uses what `KafkaPopDelivery`
  establishes.
- `Requests` composes `Routing`, `Handlers`, `Documents` and `Authz`. The handlers
  that write data go on in `Uploads`, `GetObject`'s transfer in `Transfers`.
- `Process` composes `Transfers` and `Readiness` with start and shutdown.
- `AdminSessions` and `Requests` use the same `Authz`.

### Where the difficulty is

- Several goroutines act on a consumer: calls, idle-timer callbacks, evicting
  calls, close workers, two shutdowns. Clients are closed outside the mutex.
- A state is read, the lock released, and the state used later: the idle
  generation, the cached groups, a session, the object an event announced.
- Completion races cancellation: gate and context, lookup and context, transfer
  and watchdog, delivery and `Notify`'s deadline, flush and `Close`.
- Remote calls fail after they took effect: commit, `PutObject`, HEC post.
- Two pieces of code must agree: dispatch and audit classification, a lifecycle
  decoder and its encoder, the permission table and the handlers.
- A stream is forwarded before its end has been validated.

`PROJECT.json` lists each of these under `hazards` at its line.

## 2. Modules and the code

Everything a piece of code does under one mutex is one step. Each unlock, channel
operation and remote call ends a step. Operators keep the source's names. A
definition that no specification uses, in front of a similar one, is a mutant:
`PROJECT.json` says which property it breaks.

**KafkaPop** (`kafkapop/manager.go`). `consumers`, `users`, `gate`, `idleTimer`,
`idleGeneration`, `closers`, `isClosed`, `closeDone` are the fields of the same
names. `lastUsed` is kept as the order `older`. A `groupConsumer` and its client
are one member of `Clients`. Timers are pairs of consumer and generation that are
`armed`, `fired` (waiting for `mu`) or `closingIdle`. Evicting calls, callbacks
and close workers close a client in a step of their own. `forced` is the force
context. A caller's context that ends and a failing `newClient` may happen
whenever the code can observe them.

**KafkaPopDelivery** adds the steps of `Consume` between the gate and `release`,
the local position of each client, the committed offset, and the group: a
rebalance interrupts a call, moves the partition, and fences the old owner. The
Kafka client is external and as weak as `manager.go` relies on: a commit may fail
with or without having taken effect, a poll may return a record with an error.
**PopQueue** is what the pop API promises per topic and group.

**AuthLimiter** (`authn/limiter.go`). One action per method. Token buckets refill
at each tick; the LRU lists are sequences. `NormalizeLimits` and the reserve
clamp are operators. Rates are whole tokens per tick. **Admission** is the
capacity it promises.

**Authentication** (`server/server.go`, `groupcache/cache.go`, `ldap/ldap.go`).
A request and a lookup are state machines over the critical sections of
`GroupsForCredentialsContext`, `startGroupLookup` and `lookupCredentialGroups`.
A group set is the credential LDAP returned it for; ages are counted in ticks.

**SplunkHEC** (`splunkhec/handler.go`). Events have sizes. The worker, callers of
`Flush` and `Close` compete for the flush permit, send batches, and put back what
was not accepted. A request may be stored by the collector and still fail.

**Routing** (`server/server.go`, `server/audit.go`). `ServeHTTP` and
`classifyS3Request` as two functions of a request, each transcribed from its own
lines.

**Handlers** (`server/handlers_*.go`, `server/pop.go`, `upstream/buckets.go`,
`s3http/errors.go`, `s3xml`). Every operation as a function from the request, the
caller's rules, what is wrong with headers or body, and the upstream's answer to
the status, the upstream calls in order and what they carry. The upstream succeeds,
answers with a redirect, a Not Modified or an error status, or fails behind a
successful one; a `DeleteObjects` that succeeds may still refuse single objects.

**Documents** (`server/handlers_lifecycle.go`, `handlers_lifecycle_xml.go`,
`handlers_object.go`). The strict token readers, decoders and encoders of
lifecycle rules and of `DeleteObjects`, over element trees.

**Authz** (`authz/authz.go`). Group names to rules, and every `Can...` question.

**Requests** puts the four together: a client composes a request parameter by
parameter, `ServeHTTP` answers or calls a handler, which returns or panics, and
the audit middleware records it.

**Uploads** (`server/handlers_object.go`, `handlers_multipart.go`,
`handlers_bucket.go`, `pop.go`, `upload_notifications.go`, `uploadnotify/kafka.go`,
`adminpage/adminpage.go`). A handler starts with its authorization and metadata
checks, calls the upstream, gets an answer, an error, or an error after the
effect, publishes, and answers. The SDK repeats a call whose body it can replay.
The store keeps the versions of a bucket's object as a set, ordered by the number
of the write that made each (`lastWrite`, delete markers included), and the
multipart uploads. The gateway may crash, and clients may leave. Simplifications:
a bucket has one key; at most one object was uploaded and announced before
(`Used`); a copy reads the source's current version; a browser upload has at most
one part; a record Kafka loses is one that stays in `sending`. The histories `created`, `produced`,
`confirmed`, `excused` and `delivered` guard nothing.

**ChunkedBody** (`sigv4/sigv4.go`). A client frames its payload, the transmission
cuts, damages, drops, repeats or reorders frames, and the upstream client reads
through `trailerGuardReader` and `awsChunkedReader` (or `payloadHashReader`) with
buffers of any size. A signature stands for the chain of chunks it signs, a
checksum for what was summed; damaged ones belong to nothing the server can read.
A signed chunk above `maxSignedChunkBytes` is refused, and so is a line that a
damaged transmission made longer than `readLineBounded` allows (`LineTooLong`).

**Transfers** (`server/transfer_limits.go`, `upstream/response_progress.go`), with
handlers as sequences of blocking I/O: a step is any number of reads or writes,
each of which may succeed (`Again`, `Advance`), fail or block, and the body of an
object goes back and forth between client and upstream (`Copies`). A failed body
read or upstream call is answered with an error document, a failed write is not;
**Readiness** (`server.cachedReadiness` and the checks); **Process** (`app/run.go`,
`app/app.go`): the Kafka clients opened one by one, serving, the drain, the forced
close when the budget is spent, the clean-up. Clocks hold the time that is left.

**AdminSessions** (`adminpage/adminpage.go`, `kafka_topics.go`). The session store,
dated cookies, tabs that share a cookie jar, requests that act on a session they
looked up before, responses that overtake each other, and a restart. Pages are
the authorization and the upstream call of each handler.

## 3. Runs

| Run | Instance | Properties |
|---|---|---|
| `pop_cache` | 3 calls, 2 keys, 3 clients, cache of 1, 1 close worker, 2 shutdowns | `Serialized` `NoUseAfterClose` `IdleTimersExact` `ShutdownReturns` `QueuedCallServed` |
| `pop_delivery` | 2 calls for 1 key, 2 clients, 2 records, 1 shutdown | `RefinesQueue` `BlockedRebalanceProceeds` |
| `limiter` | 3 attempts, 2 clients, 2 principals, 2 credentials, 2 ticks, 5 configurations | `PermitsAccounted` `BackendRateBounded` `AdmissionImplemented` |
| `authentication` | 2 requests, 2 lookups, two passwords of one user | `OwnRecentGroups` `OneVerdict` `NobodyStranded` |
| `splunk` | 6 events of two sizes, buffer and batch of 4, 1 caller of `Flush` | `EventsAccounted` `CloseDelivers` `CloseReturns` `EventsDelivered` |
| `requests` | every method, path and form, up to 2 of 22 parameters | `AuditNamesOperation` `SuccessMeansDone` `IntentPreserved` `PermissionExact` `ClaimsHonoured` `ScopeKept` `ReadBackStable` `ListsOwnBuckets` |
| `routing_audit` | the same with few parameters | `AuditNamesRoute` (violated, section 6) |
| `uploads` | 2 concurrent requests of 2 users, 2 buckets, both topics, 1 SDK retry | `Announced` `MetadataTruthful` `PopExact` `AdminCleansUp` |
| `body_decoding` | payloads of up to 3 bytes, 4 modes, 1 fault, reads of 1 to 3 bytes | `OnlySignedBytes` `CompleteIsIntact` `HonestBodyDelivered` |
| `body_end` | payloads of up to 1 byte | `CompleteIsValidated` (violated, section 6) |
| `admin` | 2 tabs of one browser, 2 users, 3 logins, store of 2 | `PagesWithinRights` `SessionBounded` `EvictsLeastRecent` |
| `process` | 2 requests, 1 slot, 3 Kafka clients | `OnlyIdleCut` `ClientsClosedInTime` `NotReadyMeansOutage` `EveryRequestEnds` `ProcessExits` |

What they show, in words:

- Two calls for a topic and group never work at once, not even on two consumers
  that existed one after the other. No client is used after eviction, expiry or
  an unforced shutdown closed it. Every idle consumer has a timer that will
  remove it, and no other timer is scheduled. Both of two concurrent shutdowns
  return even when a handler never does, and a queued call is served unless the
  handler in front of it never returns.
- No record is skipped by a failed handler, a rebalance, a lost commit answer, an
  expiry or a forced shutdown, and the committed offset never covers a record no
  handler finished. A blocked rebalance is let through.
- Permits are given back to where they came from, whatever the LRU lists evicted.
  The backend sees no more calls than configured, for the sum of both pools, also
  for negative and over-reserved configurations.
- A caller is let through only with the groups of its own user and password,
  fetched at most the TTL and two lookups before it arrived.
- Every log event is delivered, queued, in hand, or counted as dropped; `Close`
  reports success only with nothing left.
- The audit log names the operation that ran. A status below 300 is reported only
  for what was done, with the refused objects of a batch listed; the log's
  `success` covers also the redirects and Not Modified answers of the upstream
  (`s3AuditOutcome` draws the line at 400), and then shows their status. Every
  handler asks for exactly the letter of the README's table, and
  what a document says about objects to expire or delete reaches the upstream
  unchanged, or nothing does.
- Events name stored revisions only, a success was announced first, `uploaded-by`
  is true, pop delivers the announced content or nothing, and a browser upload
  leaves no multipart upload it could have aborted.
- In the signed modes only what the client signed reaches the upstream, in order.
  After an error the body stays incomplete. An honest stream arrives whole, unless
  a signed chunk is above the limit: then it is always refused.
- A session is accepted only within the lifetime counted from its login and never
  after its logout. A live session is lost only to a logout, a restart, or as the
  least recently used one.
- The watchdog cuts only a transfer that made no progress for the whole timeout.
  Every request ends unless its transfer makes progress for ever, which the code
  allows ("Transfers can run longer while they keep making progress",
  `src/README.md:656`): a peer that stalls cannot hold a request, one that trickles
  can only where no absolute deadline is set, and neither can after the handler
  returned. The clients outlive the handlers, and the process exits within its
  budgets, trickling transfers or not.

Each property has a mutant: a plausible bug in the mapped code under which TLC
finds the property violated on the same instance.

### Why the bounds are enough

- Pop: eviction needs a full cache and a second key. A stale idle timer needs one
  consumer taken, released and taken again. A rebalance needs two clients for one
  key, a skipped record two records. One close worker makes consumers queue. The
  safety properties and the refinement of `PopQueue` are proved for all sizes.
- Limiter: one shared and one reserved slot make the third attempt compete. Two
  keys over a table of one force eviction. Two ticks refill and expire.
- Authentication: two passwords of one user collide on the entry, and on a cache
  of one. A second lookup is what overlaps or follows the first.
- Splunk: six events overflow a buffer of four while a batch is in hand. Sizes
  differ so that a batch can end early and a small event fits where a large one
  did not.
- Requests: precedence is between pairs of parameters. Callers, faults, upstream
  answers and documents vary one at a time, so at most one thing is wrong with a
  request: the handlers return at the first error.
- Uploads: two requests cover every pairwise race.
- Bodies: three bytes are split into one, two or three chunks, and a buffer of
  one, two or three places meets the held byte in every position. The limit of
  two bytes for a signed chunk is kept by some streams and exceeded by others.
- Process: a pop is a download that may be interrupted, so the five kinds of the
  instance (`MCKinds`) include the behaviours of all. Two requests meet only at
  the slots and in the readiness check; `Arrivals` lets the second be of any kind
  when the first keeps it from a slot, and a copy or a probe otherwise.

Every bound is a named constant (`MaxTime`, `MaxLife`, `MaxWait`, `MaxOffset`,
`MaxStarts`, `MaxRetries`, `MaxLogins`, `MaxFaults`, `NumEvents`, `MaxParams`).
Symmetry is used for interchangeable requests, lookups and tabs, and never with
liveness. Where a run checks liveness, `ArrivalOrder` (`Arrivals`) lets interchangeable calls,
clients and requests come in the order of their names instead; no fairness is
assumed of an arrival, so no liveness rests on that order. Deadlock checking is
off where the calls of an instance are used up and the system rightly stops.

## 4. Fairness

- `KafkaPop!Fairness`: runnable goroutines run, timers fire, a started close ends
  (`closeConsumer` has a timeout), the shutdown deadline passes. `TakeGate` is
  strongly fair since Go serves blocked channel senders in turn. Nothing is
  assumed of callbacks.
- `KafkaPopDelivery!DFairness`: polls and commits end (`m.timeout`); a handler
  returns only once its context is cancelled.
- `SplunkHEC!FairSpec`: the ticker fires, a waiting flush gets the permit in turn,
  requests end, `select` does not ignore a closed context for ever. Nothing is
  assumed of the answers.
- `ChunkedBody!Fairness`: the upstream client goes on reading, and the reader does
  not wait for anything but the body, whose end is known.
- `Process!Fairness`: goroutines run, timers fire, time passes, and Kafka I/O
  returns once its context is done. Clients, upstream and brokers owe nothing:
  they may stall or trickle for ever.

## 5. Proofs

Every theorem holds for every value of the constants that satisfies the named
assumption of its module (`PopAssumption`, `MaxOffsetAssumption`,
`LimiterAssumption`, `AuthAssumption`, `SplunkAssumption`, `AdminAssumption`,
`TransferAssumption`, `ReadinessAssumption`, `ChunkedBodyAssumption`,
`UploadsAssumption`): sets of calls and attempts are finite, limits and timeouts
are naturals, `None` is not a client, `Nobody` is not a user. A limit the code
requires to be positive is positive. The bounds of the runs (records, payload
lengths, faults, retries, requests started) are constants too, so a theorem holds
for every bound.

**KafkaPopProofs**: `TypeCorrect`, `Serialization`, `ClientsOpenInUse`,
`SingleOwner`, `WaitGroupCorrect`, `NoLateAdd`, `CloseComplete`,
`IdleTimersAgree`, `DeliveryImplementsQueue`. The invariant is built in layers,
each preserved given the ones below.
- `Shape` types the state and says in which phases a call has a pinned consumer.
- `Counted`: a timer is in one of its three states, and generations grow.
  Without it `closers` could not be matched with the timers that owe a `Done`.
- `Ownership`: pins are counted by `users`, a cached consumer is open, a pinned
  one stays cached until `CloseContext`, a consumer has at most one closer, and
  an open one has somebody who will close it. `NoUseAfterClose` alone is not
  inductive: it does not say why nobody else closes a consumer in use.
- `Permits`: a permit is held by one call or one worker.
- `Done`: once `closeDone` is set nothing is open, cached or scheduled.
- `IdleTimers`: an armed timer has the current generation of an idle cached
  consumer (`ArmedOK`), no timer is of a generation to come (`GenerationsOK`), and
  an idle consumer is waited for by a timer or a callback (`IdleOK`). Without the
  second a new timer could be taken for an old one.
- `Delivery`, over `KafkaPopDelivery`: a call has work in hand exactly while it
  uses the client (`Working`), the coordinator's owner believes it is a member
  (`Members`), the finished records are a prefix that ends at the committed offset
  or one before it (`Prefix`), and a record in hand (`Hand`) or the next position
  (`Positioned`) is not beyond the committed offset, and at most one behind it
  while the client may commit. That last bound is why a late commit cannot move
  the offset back: a fenced member may be far behind, but its commits are refused.
  The two clauses are conditional on `forced`, since a forced shutdown leaves a
  record without rewinding. `DSpec => Spec` (`DeliveryRefinesCache`) brings in
  that a client has one user. Then every step finishes the first uncommitted
  record, commits it, or leaves `PopQueue` alone.

**LimiterProofs**: `PermitsAreAccounted`, `BackendRateIsBounded`,
`LimiterImplementsAdmission`. `Accounts` ties every counter to the set of attempts
that hold its permit (`Counted`), bounds what was granted plus what a bucket could
still grant (`Metered`), and dates credentials (`Remembered`). The rate bound
needs the tokens on the left-hand side, since the grants alone say nothing about
the next step. The refinement proves that each step of the limiter is a step of
`Admission` or leaves it alone, with the largest configured total as capacity.

**AuthProofs**: `GroupsAreOwnAndRecent`, `VerdictsAreConsistent`,
`NobodyIsStranded`. `Serving` follows the groups from LDAP to the caller: bounds
on the age of what a lookup has (`AllSound`), of what the cache has (`Caches`) and
of what a finished lookup holds for a late caller (`Waiting`). `Registered` says
that exactly the running lookups are in `groupLookups`: with it a second lookup of
a credential cannot overlap the first, and `Verdicts` is inductive.

**SplunkProofs**: `EventsAreAccounted`, `CloseIsComplete`. `Accounting` orders what
is in hand before what is queued (`Ordered`), gives each event one place
(`Placed`), and relates what is to be sent with what was received (`Seen`). The
proof goes through the recursive functions that build batches and restore events,
with an induction along sequences (`Along`, `Recursion`) made from well-founded
minimality.

**AdminProofs**: `SessionsAreBounded`, `PagesAreWithinRights`,
`EvictionIsLeastRecent`. `Genuineness` ties cookies, entries and requests in
progress to the login they come from. A request uses a session it looked up
earlier, so the invariant covers what is held, not only the store.

**ProcessProofs**: `CutsOnlyIdle` from `Watch` (a deadline plus the quiet time is
the timeout, unless expired), `ClosesClientsInTime` from `Stopping` (where handlers
and clients can be in each phase), `UnreadyOnlyOnOutage` from `Diagnosed`.

**ChunkedProofs**: `DeliversOnlySigned`, `CompleteBodiesAreIntact`. `Intact` says
what the client signed (`Chain`: chunks that continue each other), what can be on
the wire after any faults (`Wired`: signatures and sums of this chain, or garbled
ones), how far the reader is (`Fits`: it verified a prefix of the chain and
decoded that prefix), and where the decoded bytes are (`Flow`: delivered, held
back by `trailerGuardReader`, or buffered). The properties speak of the delivered
bytes only; they are not inductive without the prefix of the chain that the
running signature stands for, nor without the byte withheld after an error. One
lemma per state of the reader shows that it keeps `Fits`, one per fault that the
wire keeps its form.

**UploadsProofs**: `EventsFollowObjects`, `MetadataNamesUploader`,
`PopsDeliverTheNamedObject`, `BrowserUploadsCleanUp`. `Sound` adds to the four
properties the shape of a handler between its calls (`Shapes`) and:
- `Numbered`: writes have distinct numbers and an immutable version id tells its
  write, so that an event that names a version names one object for ever;
- `Knowing`: what a handler got back from its call was stored in its bucket, and
  it produced all records before it answers;
- `Stamping`: the metadata a handler sends names its caller. A crash, a retry or a
  copy stores only what was sent or stored before;
- `Popping`: the record a pop works on is still the next one of its topic, since
  pops of a topic do not overlap, and what it holds is the object of that record;
- `Cleaning`: upload ids are never given out again, so that one that a browser
  upload completed or aborted stays gone.

Only model-checked:
- all liveness (`ShutdownReturns`, `QueuedCallServed`, `BlockedRebalanceProceeds`,
  `CloseReturns`, `EventsDelivered`, `EveryRequestEnds`, `ProcessExits`,
  `HonestBodyDelivered`): fairness and `ENABLED` are out of the prover's reach;
- `Requests`: the questions are about finitely many requests and documents, which
  TLC enumerates; `Documents` folds over element trees, and what such a fold
  returns for every input needs an induction the prover cannot instantiate, and
  `Documents` and `Handlers` are written with recursive operators.

## 6. Findings

- `routing_audit`: the comment at `server/audit.go:222` says operation precedence
  is kept aligned with `ServeHTTP` so that malformed requests are attributed to the
  route they reach. `ServeHTTP` sends every path below `/api/pop` to the pop
  handler, but `classifyS3Request` recognises only well-formed ones: `GET
  /api/pop/images` is recorded as `GetObject` on the bucket `api`. `//key` reaches
  an object handler and is recorded as `UnknownOperation`. `AuditNamesOperation`
  holds for all other requests.
- `body_end`: the comment at `sigv4/sigv4.go:852` and the test at
  `sigv4/sigv4_streaming_test.go:521` say the decoded stream is complete only if
  the final chunk, trailer and checksums were validated. `beginChunk` returns the
  `io.EOF` of `readLineBounded` unchanged (`sigv4.go:1104`) when the body ends where
  a chunk header should be, and `trailerGuardReader` takes it for the clean end:
  all data chunks without the final one are delivered completely.
  `CompleteIsIntact` states what does hold: after an error the body is never
  complete, and a complete body whose end was validated is the client's. In the
  signed modes `OnlySignedBytes` protects the content also without that end.

## 7. Not modelled

- The topic lister: one read-only pass that adds up offsets.
- Configuration: environment parsing; the ranges it guarantees are the assumptions
  on the constants.
- Credentials, canonicalisation, HMAC: cryptography, where a signature is valid or
  it is not.
- Certificates and the example client: pure I/O, and not part of the gateway.
- Parsing single header values, copying response headers, writing XML, templates,
  breadcrumbs, page sizes: stateless formatting that no decision depends on.
- Numbers and dates of lifecycle rules, values of optional headers: abstract.
