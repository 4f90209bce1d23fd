# Verification of the account lookup service

TLA+ models of the Mojaloop account lookup service (`src/src/`), the TLC runs
that check them on small instances and the theorems TLAPS proves about them for
instances of every size. Paths below are relative to the repository.

The service answers "which DFSP owns this party?". A requester sends
`GET /parties/{Type}/{ID}` and is answered later by a callback: a
`PUT /parties/...` with the party or a `PUT /parties/.../error`. It asks an
*oracle* for the owner; if the oracle does not know and proxies to other schemes
exist, it asks every proxy and remembers in the *proxy cache* (Redis, through
`inter-scheme-proxy-cache-lib`) whom it still waits for. A cron job calls back
requesters whose cached entry expired. Everything between two `await`s of a
handler is atomic, everything else interleaves, also between processes.

## Inventory

| Part | State | Operations | Talks to |
|---|---|---|---|
| Lookup: `domain/parties/services/GetPartiesService.js`, `BasePartiesService.js` | per request only (`wasLast`, `sentList`) | `handleRequest`, discovery, `handleError` | oracle, proxy cache, participants |
| Answers: `PutPartiesService.js`, `PutPartiesErrorService.js` | per request only | `handleRequest` | oracle, proxy cache, requester |
| Proxy cache (external) | per source and party: pending proxies, success flag, expiry | `setSendToProxiesList`, `receivedSuccessResponse`, `receivedErrorResponse`, `isPendingCallback`, `processExpiredAlsKeys` | used by the three above and the job below |
| Expiry: `domain/timeout/index.js`, `TimeoutPartiesService.js` | none | `sendTimeoutCallback` | proxy cache, requester |
| Timeout handler: `handlers/TimeoutHandler.js`, `lib/createDistLock.js` | `isRunning`, cron job, lock in Redis with a time to live | `timeout`, `register`, `stop` | expiry |
| Oracle administration: `domain/oracle/oracle.js`, `models/oracle/oracleEndpoint.js` | table `oracleEndpoint` | `createOracle`, `updateOracle`, `deleteOracle`, `getOracle` | database |
| Oracle requests: `models/oracle/facade.js`, `oracleEndpointCached.js`, `oracleGetCached.js`, `lib/cache.js` | two in-process caches with a time to live | `oracleRequest`, `oracleBatchRequest` | oracles (external) |
| Participants: `domain/participants/participants.js` | none | get, put, put error, post, post batch, delete | oracle, participants |
| Participant endpoints: `models/participantEndpoint/facade.js` | cache of endpoints (shared library) | `sendRequest`, `sendErrorToParticipant`, `validateParticipant` | DFSPs, central ledger |
| Servers, plugins, validation, health, monitoring, reference tables | none that the properties tell apart | | |

What is hard, and what makes each part correct:

- **Lookup and answers.** Sends to proxies settle in any order; a send can fail
  although the proxy has the request; answers can overtake the send's own
  response; two cache calls of one handler are not atomic; a requester may
  repeat a lookup, and the cache key does not tell the two apart. Correct means:
  the list in the cache says exactly who can still answer, an error is passed on
  only when nobody can find the party any more, nobody is told twice, and
  somebody is told at all.
- **Expiry and timeout handler.** Ticks overlap within and between processes, a
  lock can lapse under its holder, a process can die between callback and
  removal. Correct means: one callback per expired entry, and the job never
  wedges.
- **Oracle administration.** Check and write are separate queries and no unique
  index backs them. Correct means: one active oracle per type and currency, and
  deleted oracles stay deleted.
- **Oracle requests.** GET and POST choose the oracle by different criteria, from
  caches that are stale after an admin write, and a read may be handed what another
  request is reading. Correct means: lists never go back in time, and a party is
  found by a request that is led to the oracle that holds it.
- **Participants.** The oracle acts, its answer gets lost, the callback is
  delivered and its answer gets lost; deletions validate first and delete later;
  a batch asks several oracles in turn. Correct means: one callback per request,
  to somebody it names, which says what the oracle did.
- **Routing of /parties requests.** Who is in the scheme is asked of the ledger at
  every step, an exception counts as no, several owners are served in parallel
  and one failure ends the lookup. Correct means: a lookup that reached an owner
  counts as such, nobody is forgotten, members of the scheme are reached directly
  and are never mapped to a proxy, and a foreign requester reaches only owners.

`PROJECT.json` lists the components and the hazards, each at its line.

## Modules

| Module | What it models |
|---|---|
| `InterSchemeDiscovery` | the life of lookups of one party from the oracle's answer to the last callback: discovery, answers of proxies, cache entry, expiry |
| `LookupVerdict` | what a requester can rely on in that: the abstract specification that `InterSchemeDiscovery` implements |
| `TimeoutHandler` | ticks of the cron job, `isRunning`, the lock, `stop()`, crashes |
| `ExpiryWorker` | the one worker that all those ticks are meant to be: the abstract specification of `TimeoutHandler` |
| `PartyRouting` | the requests of `/parties` before and after the discovery: who may ask, whom a lookup is forwarded to, who is called back |
| `OracleRouting` | which oracle a request goes to, through the cached lists and answers, against admin writes |
| `OracleAdmin` | the oracle table and concurrent admin requests |
| `OracleTable` | a table that checks and writes in one step: the abstract specification of `OracleAdmin` |
| `Participants` | the requests of `/participants` for one party |
| `PartyRegistry` | a registry in which each request takes effect once, then is reported: the abstract specification of `Participants` |
| `ParticipantsBatch` | `POST /participants` with a list of parties |
| `MC...` | the instances for TLC: symmetries and functions a `.cfg` cannot write |
| `..._proofs` | the theorems about the module of that name |

The modules share interfaces, not variables. `PartyRouting` ends a lookup with
`"discovery"`, where `InterSchemeDiscovery` begins, and leaves open whether an
answer belongs to a discovery, which is what the latter decides. The oracle is one
set of records in `PartyRouting`, `Participants` and `InterSchemeDiscovery`;
`OracleRouting` opens it up into several oracles and asks which one is meant.
It assumes nothing of what `OracleAdmin` is about: the rows of its table are any
rows, several of one currency included (finding 2). `TimeoutHandler` has the tick of the job
as several steps in several processes, of which `InterSchemeDiscovery` sees the
callback and the removal of an entry.

### InterSchemeDiscovery

`get[l]` is where `GetPartiesService` of lookup `l` stands, `send[l][p]` the
promise of the request forwarded to proxy `p`, `wasLast[l]` the variable of
`#sendOutProxyRequests`, `put[l][p]` the request at the proxy and then its answer
on the way through a PUT handler. `pending`, `hasSuccess` and `expiry` are the
cache entry of a source, `mapping` the oracle's entry for the party.

| Action | Code |
|---|---|
| `ReceiveLookup`, `ConsultOracle`, `DropReference` | `handleRequest`, `processOraclePartyListResponse`, `#processSingleOracleParty` |
| `Discover` | `triggerInterSchemeDiscoveryFlow` up to the sends |
| `ReachProxy`, `SendSucceeds`, `SendFails`, `RemoveFailedProxy` | `#sendOutProxyRequests`, one promise chain per proxy |
| `ConcludeDiscovery`, `ConcludeDirect`, `ReportFailure` | after `Promise.all`; `handleError` |
| `CountSuccess`, `PostMapping`, `ForwardSuccess` | `PutPartiesService` |
| `CheckPending`, `CountError`, `CheckOracle`, `CleanupOracle`, `ForwardError` | `PutPartiesErrorService` |
| `Expire`, `FindExpired`, `SendTimeoutCallback`, `RemoveExpired` | the entry's time is up; the job finds the key and prepares the callback; sends it; removes the entry |

The cache library is not under `src/`. Its contract is taken from the calls the
services make, from `docs/Proxy/Readme.md:30-39` and from the names and comments
in the code: storing refuses while an entry exists; a success or an error takes
the proxy off the list; `receivedErrorResponse` says whether it was the last and
no success came before; the entry goes with its last proxy; the expiry job
finds the key, calls back and then removes what entry is there by then, even if the
callback fails; answers may be counted, and the lookup may fail, between any two of
these (`expiring[s]` is the lookup whose entry the job is at). One deviation of
the Readme: it has Redis expire `:expiresAt` and emit an event, while the code
polls with a cron job; the model follows the code. The cache itself is assumed
to be reachable.

Abstractions: one party; the mapping in the oracle names the proxy behind which
the owner is (or nothing); the requester is a local participant, whose checks by
`validateParticipant` pass, and sends no destination header (all this varies in
`PartyRouting`); an answering DFSP is the proxy it sits behind. `Faults` says which
outgoing calls may fail: `send` (before or after delivery), `oracle`, `proxymap`
(the DFSP-to-proxy mapping) and `callback`; with `list` the oracle may answer
without a list, which counts as an empty one. Two things are coarser than the code,
as `PartyRouting` has them in full: a lookup that finds no proxies to ask
(`#sendPartyNotFoundErrorCallback`) or cannot ask which there are goes to `failing`,
like any other exception, where `PartyRouting` has the separate callback (`deny`);
and a success whose destination is not validated, for which the service posts no
mapping, does not occur, because the requester is a local participant.

### LookupVerdict

`phase[l]` is what has become of a lookup (idle, with the oracle, asking the
proxies, failed), `timeout[l]` whether its time has run out and been dealt with,
`outcome[l][p]` what proxy `p` contributed. The promises are in the guards: the time
runs out only for a lookup that has not failed, to which a proxy owes an answer and
for which no error was final (a lookup may still fail between the job finding its
entry and the callback: both then report); a success counts and the error of one
proxy is final only while the proxies are asked; an error is final only if every
other proxy has failed and none has found the party; a proxy still expected cannot
be late; an outcome is given once. `InterSchemeDiscovery` maps to it by `PhaseOf`,
`TimeoutOf` and `OutcomeOf`, and `KeepsVerdict` says that the mapped steps are steps
of `LookupVerdict` or none.

### TimeoutHandler

`pc[t]` is where tick `t` stands in `timeout()`, `work[t][e]` what it has done
about an expired entry, `job[i]`, `isRunning[i]` the module state of process `i`,
`lock` the holder of the Redis lock. `Disturbances` says what may happen: the
lock's time to live ends under a live holder (`ttl`), a shutdown (`stop`), a
`crash`, a failing `callback`, a failing `lock` service, a failing `cache`. A lock
service that fails may have taken the lock before its answer got lost
(`NotAcquired`: the process then holds a lock it does not know of), and may fail to
release it (`ReleaseLock`, `StopReleasesLock`: the error is only logged); either way
the lock stays until its time to live ends. The last process that is on neither stops nor crashes. `CloseEntry` is the last answer to
a lookup, which removes the entry under the job. `disturbed` records that a
tick lost its lock at work, or died over an entry it had called back about: the
code can call back twice then.

With `DIST_LOCK` disabled, which is the default configuration, two processes can
both call back for the same entry; the theorems below say so in their assumption.

`ExpiryWorker` has no processes: one worker takes the expired entries in hand, calls
back about each once and removes it; if it dies before a callback the entries wait
for the next. `HandOf` takes all ticks together for its hand, and `KeepsWorker` says
that the processes do only what the worker does, up to the first disturbance; after
it callbacks may repeat, but only about entries that have expired.

### OracleAdmin

`status` and `key` are the rows of `oracleEndpoint`; an admin request `a` has a
program counter, the row it updates, the key it asks for and the key it read.
`CheckCreate`/`InsertOracle` are `createOracle`, `FindOracle`/`CheckUpdate`/
`WriteUpdate` are `updateOracle`, `DeleteOracle` is `deleteOracle`. A request the
code rejects changes nothing and is no step. The columns `value` and
`isDefault` are left out (the latter is in `OracleRouting`), and so is the endpoint type, of which there is one. An
absent currency is `None`. `unguarded` records that two changes for one key or of
one row overlapped, or that an update left the currency out. Everything else may
overlap: deletions at any moment, and changes of other keys and rows, also of the
row whose key is asked for.

`OracleTable` has the rows alone, and changes them one at a time: `Register` and
`Rekey` write a key only if no active row has it, `Retire` is final. By `KeepsTable`
the requests, for all their database calls, look like that until something is
unguarded, and change one row at a time, reviving none, even after it.

### PartyRouting

`call[r]` is the request, `pc[r]` where its handler stands, `requester[r]` the
variable of that name in the state of `BasePartiesService`, `task[r][f]` what the
lookup is doing about DFSP `f`, as one branch of `Promise.all`, and `sendTo[r][f]`
whom it forwards to. `refs` is what the oracle lists, `via` the proxy cache's
mapping of DFSPs to proxies. `read`, `sent`, `told` and `lost` are history: owners
the oracle named, lookups and callbacks that reached somebody, calls that failed.

| Action | Code |
|---|---|
| `AcceptGet`, `AcceptPut`, `AcceptSubId`, `AcceptError` | the routes under `api/parties`, with `validateSourceFspHeader` and the path validation (`Lookup` and `Found` are their GET and PUT) |
| `ValidateRequester`, `ToDestination`, `ValidateDestination` | `validateRequester`, `forwardRequestToDestination`, `#validateLocalDestinationForExternalSource` |
| `AskOracle`, `CheckOwner`, `DropReference`, `ForwardLookup`, `Conclude`, `Discover` | `sendOracleDiscoveryRequest` (`PartyLists`), `#filterOraclePartyList`, `#processSingleOracleParty`, `Promise.all`, the start of the discovery |
| `ValidateSource`, `CountSuccess`, `PostMapping` | `PutPartiesService` |
| `CountError`, `CheckExternal`, `CleanupOracle` | `PutPartiesErrorService` |
| `IdentifyDestination` (`ReachedAs`, `Unreachable`), `Reply`, `HandleError`, `DenyDestination`, `ReportFailure` | `identifyDestinationForCallback`, the callbacks, `handleError`, `sendPartyResolutionErrorCallback` |
| `RegisterElsewhere`, `DeleteElsewhere`, `MapElsewhere` | other requests, which change oracle and cache meanwhile |

Participants of the scheme (`Local`, `Proxy`) and others (`External`) are fixed
sets; what varies is the ledger's answer, which may be an exception (`ledger`), and
`validateParticipant` turns that into "no". The route refuses a source the ledger
does not know, so the branches of the service for requesters behind a proxy are
reached only when the ledger answers the two questions differently; see finding 3.
A branch that failed does not stop the others, as with `Promise.all`: they go on
after the error callback.

### OracleRouting

`past[writes]` is the table of active oracles of one identifier type, `past[n]` what
it was after `n` administrative writes, `cached` the cache `oracleEndpoints`, whose
key includes the flag for the check of the database pool, `answers` the cache
`oracleGet`, `holds[o]` whether oracle `o` knows an owner of the party.
`ReadList`/`KeepList` are `getOracleEndpointCached` before and after the query,
`PickOracle` is `determineOracleEndpoint` (and the choice of `oracleBatchRequest`),
`AskOracle`/`KeepAnswer` are `sendOracleGetRequest` through its cache, `Store` and
`Delete` the other requests; `GET /oracles` of a type ends with its list (`AfterList`).
`Administer` is a write of the oracle administration, which leaves the caches as they
are; `ExpireList` and `ExpireAnswer` are the caches' time to live. The caches are off
by default and the default expiry is 3 s; with caches off every entry expires at once,
which is among the behaviours.

The cache (catbox, not under `src/`) has a read wait for the same read under way
instead of doing it twice, so what a request gets without asking is the entry or what
another request has read and not yet put there: `KnownLists` and `KnownAnswers`.
`newest` and `due` are history: how many writes there had been when the database was
last asked for a key, and the oracles at which a GET, by what they held and had
answered when it started, must find the party.

### Participants and ParticipantsBatch

`req[r]` is the request, `pc[r]` where its handler stands, `held` what the oracle
records of each `{SubId}` of the party; `seen`, `acted`, `told` and `lost` are
history: what `validatePartyDeletion` read, whether the oracle carried out the
request, the callbacks delivered, the answers that were lost. An action is the
stretch of a handler up to the answer of one call: `Accept...` the routes, with and
without `{SubId}`,
`CheckParticipant` the question to the ledger, `GetParticipants`,
`PutParticipants`, `PostParticipants`, `DeleteParticipants` and
`PutParticipantsError` the handlers of that name, `ValidatePartyDeletion` the check
of `models/oracle/facade.js`, which is off by default
(`DELETE_PARTICIPANT_VALIDATION_ENABLED`, `ValidateDelete`), `Reply` and `Deny` the
callbacks of the try block and `ReportFailure` that of the catch block. Calls may
fail before or after they took effect.

`PartyRegistry` has no handlers. A request is submitted once, takes effect at most
once and before the first callback about it, in one step that sets one record or
clears all; a callback of success needs the effect, one of error its absence or a
lost or failed call; a second callback needs a first whose answer was lost.
`KeepsRegistry` says that `Participants` does nothing else to requests, records and
callbacks. `DeletionIsValidated` is about what a request was told: the oracle deletes
for a DFSP that it named to this request as an owner. That it is one still, at that
moment, the code cannot know and the property does not say.

In the batch, `list[b]` is the `partyList`, `todo[b]` the part of `typeMap` whose
oracle is still to be asked, `entry[b]` the `overallReturnList`. The oracles' order
is left open. A party listed twice is taken for one, `list[b]` being a set. What an
oracle stores (`OracleStores`) is external; its answer may
leave parties out (`partial`) or not arrive. `wrote` and `blind` are history: what
was stored for the batch, and parties about which no answer said what happened.

## Runs

| Run | Instance | States | What it shows |
|---|---|---|---|
| `discovery` | 1 lookup, 3 proxies, all faults but `list` | 296,000 | list, sends, answers and expiry agree; an error passed on means the list is empty; nobody is forgotten; the discovery implements `LookupVerdict` |
| `discovery_retry` | 2 lookups of one requester, 2 proxies, no faults | 5,130,000 | answers to an old lookup in the entry of a new one |
| `discovery_answered` | 1 lookup, 3 proxies, `list`, fair | 140,000 | the requester hears back |
| `silent_end` | 1 lookup, 2 proxies, `send` | | **violated**: `wasLast` overwritten, requester never called |
| `timeout_handler` | 2 processes, 3 ticks, 2 entries, all disturbances, fair | 105,000 | one callback per entry, one tick at work, expired entries are removed, `isRunning` is reset; the ticks implement `ExpiryWorker` |
| `party_routing` | 1 request, 2 local and 1 external DFSP, 1 proxy, 1 SubId, all faults, deletions validated | 428,000 | who is forwarded what, and who hears of it |
| `proxied_refused` | the same without faults and validation | | **violated**: a lookup through a proxy is refused by the route |
| `oracle_routing` | 2 requests, 2 oracles, 1 currency, 1 admin write | 2,073,000 | lists do not go back in time; a party is found by a GET that is led to the oracle that holds it |
| `oracle_admin` | 2 admins, 3 rows, 2 types, 2 currencies | 1,002,000 | unique keys while overlapping changes differ in key and row, deleted stays deleted; the requests implement `OracleTable` |
| `two_active_oracles` | 1 admin, 2 rows, 2 types, 1 currency | | **violated**: an update without currency makes a duplicate |
| `participants` | 2 requests, 2 DFSPs, 1 SubId, all faults, deletions validated | 2,279,000 | one true callback per request, to somebody it names; a deletion only for a named owner; the handlers implement `PartyRegistry` |
| `participants_batch` | 1 batch of up to 4 parties, 2 types, all faults | 16,000 | the returned list is complete and true |

Bounds. Two proxies are the least for which "last" and "not last" differ, and
three let an answer be neither first nor last. Two lookups are enough for one entry
to meet answers of another request. Two ticks of one process and one of another
cover both ways ticks can meet. Three rows hold a deleted, an active and a
competing oracle. Two local DFSPs, two references and one proxy give a lookup two
owners, a reachable and an unreachable one, and a destination that is not an owner;
one request suffices for `PartyRouting` because others matter only for what they
do to oracle and cache, which `RegisterElsewhere`, `DeleteElsewhere` and
`MapElsewhere` do at any time. Two requests and one write let a list be read before
the write and cached after it, and one read be handed what the other reads; two
oracles let a deletion, a registration and a read differ in the oracle they go to. Two
participants' requests let the owner change between the validation of a deletion
and the deletion. Four parties of a batch can be two of one type, one of another
and a rejected one. Named bounds: `MaxWrites` (admin writes), `MaxRefs`
(references), and `calls`, which stops at 2, for "more than once". Deadlock is not
checked (`CHECK_DEADLOCK FALSE`) because each instance has finitely many requests,
entries or row ids and may come to rest.

Symmetry is used for proxies, participants, requests, rows and types in runs
without liveness properties; the refinements checked there state no fairness.
`oracle_routing` has a view as well (`MCOracleRouting.StateView`), which leaves out of
the comparison of states what no later step and no property reads: the variables of a
request that is over, `newest` and `past` where no list of theirs is known. The count is
of states that differ in the view.
`DeletedStaysDeleted`, `DeletionIsValidated` and `ErrorMeansListEmpty` are action
properties.

Fairness. A handler that was started goes on and every awaited HTTP call settles
(it has a timeout), so weak fairness on `GetStep`, `SendStep` and `PutStep`; time
passes and the cron keeps firing, so weak fairness on `ExpiryStep` and on ticks;
the lock has a time to live. Nothing is assumed of requesters and proxies:
`ReceiveLookup` and `Answer` have no fairness. `ReachProxy` belongs to `SendStep`
because a send that succeeds has been delivered. In `timeout_handler` the lock and
the cache may fail, and a tick then ends without result; that some tick gets the
lock and some tick gets to read the cache, if they try again and again, is strong
fairness, that is, lock and cache do not fail every single time. At least one
process stays up (`OthersOn`). A process that starts late, or again after a crash,
is one of `Instance` whose first tick comes late.

## Findings

1. **A discovery can end in silence** (`silent_end`,
   `GetPartiesService.js:272`). Proxy A answers with an error while the response
   to its own request is still on the way; the send to proxy B fails as the last
   outstanding one, so `wasLast` becomes true; then A's send resolves and stores
   `undefined`. The entry is gone, no error is thrown, no timeout follows.
2. **Two active oracles with the same key** (`two_active_oracles`,
   `oracleEndpoint.js:135`, `oracle.js:202`). The uniqueness check reads an absent
   currency as NULL, the write reads it as "unchanged". The same state is reached
   by two overlapping requests, since check and write are separate.
3. **A proxied lookup is refused at the door** (`proxied_refused`,
   `api/parties/{Type}/{ID}.js:75`). The discovery diagram and a unit test have the
   service accept a requester it does not know when it comes through a proxy, and
   map it to that proxy; `validateSourceFspHeader` refuses it before.

Observed while modelling, and not shown by runs of their own:

- An error answer of a proxy whose send timed out after delivery is forwarded while
  others may still find the party (`send[l][p] # "dropped"`).
- After an invalid mapping the error is forwarded instead of restarting the lookup, as
  one of the diagrams has it.
- A malformed identifier in `GET /participants` is answered by nobody: the
  rejection is only logged (`participants.js:89`; exception of `RequesterHears`).
- A `DELETE /participants` with a SubId removes the records of all SubIds
  (`participants.js:617`); `DeleteParticipants` models it so.
- A former owner may delete: if the owner changes between `validatePartyDeletion` and
  the deletion, the deletion of the old one still goes through (`facade.js:209`).
- Two overlapping `POST /oracles` for one key both insert (`oracle.js:68`;
  `unguarded`).
- A `PUT /oracles/{ID}` that changes only the URL is refused as a duplicate of itself
  (`oracle.js:181`): the row matches its own key.
- A party registered for a currency goes to the oracle chosen without one, while a
  `GET` with that currency asks the currency's oracle (`models/oracle/facade.js:126`).
  `FoundWhereHeld` is about what an oracle holds, not about where a registration went.

## Proofs

All theorems hold for every value of the constants that meets the named
assumptions, which only type them. `TypeCorrect` is in every proof module, so every
run's `TypeOK` is proved. The strengthenings that the proofs need, where they are
not properties of a run, were checked by TLC first.

- `DiscoveryInvariant`: `DiscoveryInv` is inductive. `PendingIsOutstanding` alone
  is not: a failed send or a counted answer must take the proxy off *its own*
  lookup's list, so the invariant adds that an entry exists exactly while its
  list is not empty (`EntryWaits`), that it belongs to a lookup of its source
  (`OwnerOK`) that is sending or done without having seen `wasLast`
  (`EntryAlive`), that a lookup that has decided nothing has sent nothing
  (`NothingSent`), and that the expiry job is at the entry of a lookup that went out
  to the proxies (`JobOK`). `PendingOutstanding` and `FailureClosesEntry` follow.
- `SoleLookupVerdicts`: with `OneLookupPerSource`, `VerdictInv` is inductive on
  top of it. Proxies off the list without a success are spent (`RestSpent`), and
  an uncounted answer off the list belongs to a written-off send
  (`UncountedDropped`); both hold while the entry is there or the requester was not
  told of its expiry (`Expecting`). `LastErrorVerdict` and `StrayErrorCause` follow. The
  assumption is needed: an answer to a lookup that timed out is counted for its
  retry, because the cache key does not name the request.
- `OneErrorIsReported`, under the same assumption: at most one of
  `GetPartiesService`, the last answer and a direct forward reports an error.
  The invariant `Errors` says of each what excludes the others: the last error
  leaves no `wasLast`, a discovery that failed has written off every send or seen
  `wasLast`, a lookup forwarded directly failed only with its one send.
- `ErrorsPassedOnLast`, under the same assumption: the action property
  `ErrorMeansListEmpty`. A handler that forwards an error has either just emptied the
  list, and nobody refills it, or found the proxy not expected any more, which by
  `UncountedDropped` takes an entry that is gone or a send written off.
- `NobodyForgotten`, under the same assumption: `DiscoveryIsPursued`, the safety part
  of what `DiscoveryIsAnswered` says with fairness. It is inductive with one more
  fact: a success flag in the cache comes with the answer that set it
  (`SuccessGiven`), so that an entry that goes with its last proxy goes with a verdict.
- `DiscoveryImplementsVerdict`, under the same assumption: the refinement
  `KeepsVerdict`. Initial states map to initial states, and each action to one step
  of `LookupVerdict` or to none; `VerdictInv` supplies the abstract guards, for
  instance that no other proxy is open when an error becomes final.
- `CallbackInvariant`, with the lock enabled or a single process: one tick per
  process by `isRunning` (`OneTickPerProcess`), the lock held by the process at
  work (`LockHeldAtWork`) and every called entry either gone or in the hands of
  the tick that called (`CallIsPending`). `OneCallback` and `TicksAreAlone` follow.
- `RunningIsReset` needs neither lock nor assumption: while `isRunning` is set a tick
  of the process is under way (`RunningHasTick`), whatever fails, so no path through
  `timeout()` leaves it set.
- `TicksImplementWorker`, with the lock enabled or a single process: the refinement
  `KeepsWorker`. Of the ticks only the one at work has anything in hand
  (`HandOfTick`), so its steps are the worker's; a crash without a callback is the
  worker's `Abandon`; `FoundExpired`, which holds even after a disturbance, gives
  the part of the promise that is left then.
- `OracleInvariant`: while nothing is unguarded the requests at work differ in key and
  in row (`Apart`), what each has checked is still free (`CheckedFree`: nobody else
  writes that key, and deletions only free keys) and the row each updates is as it was
  read (`ReadStillTrue`). `OneActive` follows; `DeletedForGood` needs only the types. `RequestsImplementTable` is the refinement
  `KeepsTable`: the write of a request is the step of the table, and what the request
  checked and read before is, by the invariant, still so at that moment.
- `RoutingInvariant`: neither property of `OracleRouting` is inductive. `AgeIsKnown`
  says that everything that can be handed on under a key, entry or read under way, is
  the table as of the last read; it needs that the table's past does not change and
  that a new read happens only when nothing can be handed on. `ListsGoForward`
  follows. `DueInv` says of a GET that the oracles it is due to find the party at still
  hold it and have no denial that could be handed on (`DueOf`), that the oracle it asks
  is one its list leaves to pick (`PickedOf`), and that it found what it was due to
  (`FoundOf`). `HeldIsFound` follows. No theorem assumes anything of the table, the
  caches' age or the administration.
- `RequestsInvariant`: `RequestsInv` says, for each place a handler can stand at,
  what the oracle has done and who has been told. `VerdictIsUnique`,
  `VerdictIsReliable` and `EndIsHeard` follow; `DeletionIsChecked` is an action
  property from the same invariant. `RequestsImplementRegistry` is the refinement
  `KeepsRegistry`: the oracle's write is where a request takes effect, `Fresh` says
  that nobody has been told by then, `Honest` that what is told is believable.
- `BatchesInvariant`: entries exist exactly for rejected parties and for parties of
  the types that were asked, and agree with what was stored unless the oracle's
  answer was silent. `ListTrue` and `OwnStored` follow.
- `PartyInvariant`: for each request, what its place in the handler says of its
  header and requester (`Called`, `Named`), that nothing is sent before the routing
  (`Untouched`) and nothing is unaccounted for after it (`Settled`), to whom each
  branch may send (`Forwarding`, `Behalf`), and what was reached (`Reached`).
  `ForwardedLookupsCount`, `NobodyIsForgotten`, `OwnersAreNamed`, `NoDetours` and
  `MappingsAreExternal` follow.

Some of these say what holds *until* something the code does not guard against:
`OneCallback`, `TicksAreAlone` and `TicksImplementWorker` until a lock is lost under
its holder or a process dies over an entry it called back about; `OneActive` and
`RequestsImplementTable` until overlapping changes meet in key or row or an update
leaves the currency out; `NoDetours` and `MappingsAreExternal` while the ledger
answers. `PROJECT.json` says at each hazard whether a property covers it.

Only model-checked: the liveness properties `DiscoveryIsAnswered`,
`ExpiredIsRemoved` and `IsRunningIsReset`, which are out of the prover's reach, as is
`ENABLED`. Of the first and the last, `NobodyForgotten` and `RunningIsReset` prove
what does not depend on fairness.

## Not modelled

- Servers, routes and start-up (`server.js`, `plugins.js`, `api/routes.js`,
  `bin/`, handlers' `register.js`), configuration, request schemas, transformation to
  ISO 20022, tracing, metrics: no state the properties tell apart. Path and source
  validation are part of the actions that accept a request.
- Migrations and seeds: data, most of it lists of currencies and types.
- Health, monitoring and the endpoint cache API: probes and a reset for operators.
- Header rewriting, signatures and endpoint templates of `sendRequest`.
- Failures of the proxy cache inside a discovery: an exception there leaves the
  handlers where `oracle` failures leave them, but the library's own partial effects
  are not known from this repository. `PartyRouting` has them outside the
  discovery (`cache`).
- `register()` of the timeout handler as a step: it runs once, and its effect is the
  initial state. A process that stops does not register again.
- Several identifier types and endpoint types at once; `GET /oracles` by currency
  alone; the values of rows.
- Functions nobody calls: `timeoutProxyGetPartiesLookups`,
  `#setProxyGetPartiesTimeout`. A lookup forwarded directly to a proxy therefore has
  no timeout, and no property claims an answer for it.

## Plan

What is left, in the order of its worth:

1. Failures of the proxy cache between the steps of a discovery, once the
   library's contract for a failed call is known.
2. Two requests in `PartyRouting` without the environment actions, to see which of
   its behaviours real requests produce.
3. `OracleRouting` over the steps of `OracleAdmin` instead of atomic writes, and
   several identifier types.
4. Abstract specifications of `PartyRouting` and `OracleRouting`, and their proofs.
5. Restart of a timeout handler as the same process, with the lock of its
   predecessor.
