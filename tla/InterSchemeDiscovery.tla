------------------------ MODULE InterSchemeDiscovery ------------------------
(***************************************************************************)
(* The inter-scheme lookup of one party.  A requester of the local scheme  *)
(* sends GET /parties; when the oracle knows no owner the service asks     *)
(* every proxy, remembers in the proxy cache whom it waits for, and turns  *)
(* the proxies' PUT callbacks, the failed sends and the expiry of the      *)
(* cached entry into callbacks to the requester.                           *)
(*                                                                         *)
(* Every action is the stretch of a handler between two awaits.  The       *)
(* handlers run interleaved: GetPartiesService per lookup, one send per    *)
(* proxy inside it, PutPartiesService or PutPartiesErrorService per        *)
(* answer, and the expiry job.                                             *)
(***************************************************************************)
EXTENDS Naturals

CONSTANTS
  Dfsp,      \* participants of the local scheme that look the party up
  Proxy,     \* proxies registered in the scheme
  Lookup,    \* GET /parties requests for the party
  SourceOf,  \* the fspiop-source of each lookup
  Faults,    \* which calls leaving the service may fail, or be answered badly
  None       \* no oracle mapping, no owner

ASSUME LookupAssumption == SourceOf \in [Lookup -> Dfsp]
ASSUME FaultAssumption  ==
  Faults \subseteq {"send", "oracle", "list", "proxymap", "callback"}
ASSUME NoneAssumption   == None \notin Proxy \cup Lookup

GetPc == {"idle", "oracle", "dropRef", "discover", "sending", "direct",
          "done", "failing", "told", "mute"}

SendPc == {"none", "flying", "sent", "failed", "dropped"}

(***************************************************************************)
(* How far the answer of a proxy to a lookup has got.  The ok... and       *)
(* err... values are steps of the two PUT handlers, the rest their ends:   *)
(* "found" and "lateOk" (success forwarded), "lastErr" and "lateErr"       *)
(* (error forwarded), "absorbed" (error kept back) and "returned" (the     *)
(* handler threw: handleError answers the sender, not the requester).      *)
(***************************************************************************)
AnswerPc == {"none", "asked", "okIn", "okCounted", "okMapped", "okLate",
             "errIn", "errPending", "errLast", "errStray", "errClean",
             "errCleaned", "errLate",
             "found", "lateOk", "lastErr", "lateErr", "absorbed", "returned"}

VARIABLES
  get,        \* get[l]: GetPartiesService of lookup l
  send,       \* send[l][p]: the GET forwarded to proxy p for l
  wasLast,    \* wasLast[l]: the variable of #sendOutProxyRequests
  put,        \* put[l][p]: the request at proxy p and the answer it gave
  pending,    \* proxy cache: the set als:source:type:id
  hasSuccess, \* proxy cache: a success was received for the entry
  expiry,     \* proxy cache: the :expiresAt record, "none" without an entry
  owner,      \* the lookup that stored the entry (history)
  expiring,   \* the lookup whose expired entry the timeout job is handling
  discovery,  \* discovery[l]: was an entry stored, did it time out (history)
  mapping     \* oracle: the proxy behind which the party's DFSP is

getVars   == <<get, send, wasLast>>
cacheVars == <<pending, hasSuccess, expiry, owner>>
vars == <<get, send, wasLast, put, pending, hasSuccess, expiry, owner,
          expiring, discovery, mapping>>

TypeOK ==
  /\ get \in [Lookup -> GetPc]
  /\ send \in [Lookup -> [Proxy -> SendPc]]
  /\ wasLast \in [Lookup -> BOOLEAN]
  /\ put \in [Lookup -> [Proxy -> AnswerPc]]
  /\ pending \in [Dfsp -> SUBSET Proxy]
  /\ hasSuccess \in [Dfsp -> BOOLEAN]
  /\ expiry \in [Dfsp -> {"none", "armed", "expired"}]
  /\ owner \in [Dfsp -> Lookup \cup {None}]
  /\ expiring \in [Dfsp -> Lookup \cup {None}]
  /\ discovery \in [Lookup -> {"none", "stored", "timedOut", "untold"}]
  /\ mapping \in Proxy \cup {None}

\* An earlier lookup may have left a mapping in the oracle.
Init ==
  /\ get = [l \in Lookup |-> "idle"]
  /\ send = [l \in Lookup |-> [p \in Proxy |-> "none"]]
  /\ wasLast = [l \in Lookup |-> FALSE]
  /\ put = [l \in Lookup |-> [p \in Proxy |-> "none"]]
  /\ pending = [s \in Dfsp |-> {}]
  /\ hasSuccess = [s \in Dfsp |-> FALSE]
  /\ expiry = [s \in Dfsp |-> "none"]
  /\ owner = [s \in Dfsp |-> None]
  /\ expiring = [s \in Dfsp |-> None]
  /\ discovery = [l \in Lookup |-> "none"]
  /\ mapping \in Proxy \cup {None}

-----------------------------------------------------------------------------
(***************************************************************************)
(* The proxy cache (inter-scheme-proxy-cache-lib, external), as the        *)
(* services use it: an entry per source and party holds the proxies still  *)
(* to answer and whether one found the party; it goes away with its        *)
(* :expiresAt record once every proxy has answered.                        *)
(***************************************************************************)
SetSendToProxiesList(s, l) ==
  /\ pending' = [pending EXCEPT ![s] = Proxy]
  /\ hasSuccess' = [hasSuccess EXCEPT ![s] = FALSE]
  /\ expiry' = [expiry EXCEPT ![s] = "armed"]
  /\ owner' = [owner EXCEPT ![s] = l]

ReceivedResponse(s, p, success) ==
  LET left == pending[s] \ {p} IN
  /\ pending' = [pending EXCEPT ![s] = left]
  /\ hasSuccess' = [hasSuccess EXCEPT ![s] = left # {} /\ (@ \/ success)]
  /\ expiry' = [expiry EXCEPT ![s] = IF left = {} THEN "none" ELSE @]
  /\ UNCHANGED owner

\* Mutants: a success is forgotten; the list is compared before the removal.
IsLastEvenAfterSuccess(s, p) == pending[s] = {p}
IsLastBeforeRemoval(s, p) == pending[s] = {} /\ ~hasSuccess[s]

\* What receivedErrorResponse returns: the last answer, and no success.
IsLastWithoutSuccess(s, p) == pending[s] = {p} /\ ~hasSuccess[s]

RemoveEntry(s) ==
  /\ pending' = [pending EXCEPT ![s] = {}]
  /\ hasSuccess' = [hasSuccess EXCEPT ![s] = FALSE]
  /\ expiry' = [expiry EXCEPT ![s] = "none"]
  /\ UNCHANGED owner

-----------------------------------------------------------------------------
(***************************************************************************)
(* GET /parties/{Type}/{ID}: GetPartiesService.                            *)
(***************************************************************************)
ReceiveLookup(l) ==
  /\ get[l] = "idle"
  /\ get' = [get EXCEPT ![l] = "oracle"]
  /\ UNCHANGED <<send, wasLast, put, cacheVars, expiring, discovery, mapping>>

\* What the oracle says of the owner; an answer without a list names nobody.
Owners == {mapping} \cup {m \in {None} : "list" \in Faults}

\* The oracle's party list decides: no owner, an owner behind a known proxy,
\* an owner without a proxy mapping, or the oracle call failed.
ConsultOracle(l) ==
  /\ get[l] = "oracle"
  /\ \/ /\ None \in Owners
        /\ get' = [get EXCEPT ![l] = "discover"]
        /\ UNCHANGED send
     \/ /\ mapping # None
        /\ get' = [get EXCEPT ![l] = "direct"]
        /\ send' = [send EXCEPT ![l][mapping] = "flying"]
     \/ /\ mapping # None /\ "proxymap" \in Faults
        /\ get' = [get EXCEPT ![l] = "dropRef"]
        /\ UNCHANGED send
     \/ /\ "oracle" \in Faults
        /\ get' = [get EXCEPT ![l] = "failing"]
        /\ UNCHANGED send
  /\ UNCHANGED <<wasLast, put, cacheVars, expiring, discovery, mapping>>

\* sendDeleteOracleRequest: whatever the oracle holds by now is deleted.
DropReference(l) ==
  /\ get[l] = "dropRef"
  /\ \/ /\ mapping' = None
        /\ get' = [get EXCEPT ![l] = "discover"]
     \/ /\ "oracle" \in Faults
        /\ get' = [get EXCEPT ![l] = "failing"]
        /\ UNCHANGED mapping
  /\ UNCHANGED <<send, wasLast, put, cacheVars, expiring, discovery>>

\* Mutant: the entry of the lookup under way is overwritten before the refusal.
DiscoverOverwriting(l) ==
  LET s == SourceOf[l] IN
  /\ get[l] = "discover"
  /\ SetSendToProxiesList(s, l)
  /\ discovery' = [discovery EXCEPT ![l] = "stored"]
  /\ IF expiry[s] # "none"
     THEN /\ get' = [get EXCEPT ![l] = "failing"]
          /\ UNCHANGED send
     ELSE /\ get' = [get EXCEPT ![l] = "sending"]
          /\ send' = [send EXCEPT ![l] = [p \in Proxy |-> "flying"]]
  /\ UNCHANGED <<wasLast, put, expiring, mapping>>

\* triggerInterSchemeDiscoveryFlow up to the sends: without a proxy, or with
\* an entry already stored for the source and party, the lookup fails.  The
\* callback of #sendPartyNotFoundErrorCallback is not told from that of
\* handleError here; PartyRouting does ("deny").
Discover(l) ==
  LET s == SourceOf[l] IN
  /\ get[l] = "discover"
  /\ IF Proxy = {} \/ expiry[s] # "none"
     THEN /\ get' = [get EXCEPT ![l] = "failing"]
          /\ UNCHANGED <<send, cacheVars, discovery>>
     ELSE /\ get' = [get EXCEPT ![l] = "sending"]
          /\ send' = [send EXCEPT ![l] = [p \in Proxy |-> "flying"]]
          /\ discovery' = [discovery EXCEPT ![l] = "stored"]
          /\ SetSendToProxiesList(s, l)
  /\ UNCHANGED <<wasLast, put, expiring, mapping>>

\* The forwarded GET reaches the proxy, before its 202 reaches the service.
ReachProxy(l, p) ==
  /\ send[l][p] = "flying" /\ put[l][p] = "none"
  /\ put' = [put EXCEPT ![l][p] = "asked"]
  /\ UNCHANGED <<getVars, cacheVars, expiring, discovery, mapping>>

\* The send resolves.  Its then-branch yields undefined, and the next then
\* stores that in wasLast, whatever another proxy's failure had put there.
SendSucceeds(l, p) ==
  /\ send[l][p] = "flying" /\ put[l][p] # "none"
  /\ send' = [send EXCEPT ![l][p] = "sent"]
  /\ wasLast' = [wasLast EXCEPT ![l] = FALSE]
  /\ UNCHANGED <<get, put, cacheVars, expiring, discovery, mapping>>

\* The send rejects: refused, or timed out although the proxy has the request.
SendFails(l, p) ==
  /\ "send" \in Faults
  /\ send[l][p] = "flying"
  /\ send' = [send EXCEPT ![l][p] = "failed"]
  /\ UNCHANGED <<get, wasLast, put, cacheVars, expiring, discovery, mapping>>

\* Mutant: the failed proxy stays in the cached list.
ForgetFailedProxy(l, p) ==
  /\ get[l] = "sending" /\ send[l][p] = "failed"
  /\ send' = [send EXCEPT ![l][p] = "dropped"]
  /\ UNCHANGED <<get, wasLast, put, cacheVars, expiring, discovery, mapping>>

\* The catch-branch of #sendOutProxyRequests.
RemoveFailedProxy(l, p) ==
  LET s == SourceOf[l] IN
  /\ get[l] = "sending" /\ send[l][p] = "failed"
  /\ send' = [send EXCEPT ![l][p] = "dropped"]
  /\ wasLast' = [wasLast EXCEPT ![l] = IsLastWithoutSuccess(s, p)]
  /\ ReceivedResponse(s, p, FALSE)
  /\ UNCHANGED <<get, put, expiring, discovery, mapping>>

\* After Promise.all: nothing sent, or the last proxy failed, is an error.
ConcludeDiscovery(l) ==
  /\ get[l] = "sending"
  /\ \A p \in Proxy : send[l][p] \in {"sent", "dropped"}
  /\ get' = [get EXCEPT ![l] =
               IF wasLast[l] \/ \A p \in Proxy : send[l][p] = "dropped"
               THEN "failing" ELSE "done"]
  /\ UNCHANGED <<send, wasLast, put, cacheVars, expiring, discovery, mapping>>

\* The request to the owner the oracle named was sent, or could not be.
ConcludeDirect(l, p) ==
  /\ get[l] = "direct"
  /\ send[l][p] \in {"sent", "failed"}
  /\ get' = [get EXCEPT ![l] = IF send[l][p] = "sent" THEN "done" ELSE "failing"]
  /\ UNCHANGED <<send, wasLast, put, cacheVars, expiring, discovery, mapping>>

\* handleError: one error callback to the requester; if that fails, silence.
ReportFailure(l) ==
  /\ get[l] = "failing"
  /\ \/ get' = [get EXCEPT ![l] = "told"]
     \/ /\ "callback" \in Faults
        /\ get' = [get EXCEPT ![l] = "mute"]
  /\ UNCHANGED <<send, wasLast, put, cacheVars, expiring, discovery, mapping>>

-----------------------------------------------------------------------------
(***************************************************************************)
(* The proxies answer what they were asked, in any order, or never.        *)
(***************************************************************************)
Answer(l, p) ==
  /\ put[l][p] = "asked"
  /\ \/ put' = [put EXCEPT ![l][p] = "okIn"]
     \/ put' = [put EXCEPT ![l][p] = "errIn"]
  /\ UNCHANGED <<getVars, cacheVars, expiring, discovery, mapping>>

(***************************************************************************)
(* PUT /parties/{Type}/{ID}: PutPartiesService.                            *)
(***************************************************************************)
\* Mutant: the first success deletes the entry.
CountSuccessClosing(l, p) ==
  LET s == SourceOf[l] IN
  /\ put[l][p] = "okIn"
  /\ IF p \in pending[s]
     THEN /\ put' = [put EXCEPT ![l][p] = "okCounted"]
          /\ RemoveEntry(s)
     ELSE /\ put' = [put EXCEPT ![l][p] = "okLate"]
          /\ UNCHANGED cacheVars
  /\ UNCHANGED <<getVars, expiring, discovery, mapping>>

\* validateSourceParticipant and receivedSuccessResponse.
CountSuccess(l, p) ==
  LET s == SourceOf[l] IN
  /\ put[l][p] = "okIn"
  /\ \/ /\ p \in pending[s]
        /\ put' = [put EXCEPT ![l][p] = "okCounted"]
        /\ ReceivedResponse(s, p, TRUE)
     \/ /\ p \notin pending[s]
        /\ put' = [put EXCEPT ![l][p] = "okLate"]
        /\ UNCHANGED cacheVars
     \/ /\ "proxymap" \in Faults
        /\ put' = [put EXCEPT ![l][p] = "returned"]
        /\ UNCHANGED cacheVars
  /\ UNCHANGED <<getVars, expiring, discovery, mapping>>

\* Mutant: source and destination swapped, the mapping names the requester.
PostRequester(l, p) ==
  /\ put[l][p] = "okCounted"
  /\ mapping' = SourceOf[l]
  /\ put' = [put EXCEPT ![l][p] = "okMapped"]
  /\ UNCHANGED <<getVars, cacheVars, expiring, discovery>>

\* #updateOracleWithParticipantMapping; a failure skips the callback.
PostMapping(l, p) ==
  /\ put[l][p] = "okCounted"
  /\ \/ /\ mapping' = p
        /\ put' = [put EXCEPT ![l][p] = "okMapped"]
     \/ /\ "oracle" \in Faults
        /\ put' = [put EXCEPT ![l][p] = "returned"]
        /\ UNCHANGED mapping
  /\ UNCHANGED <<getVars, cacheVars, expiring, discovery>>

ForwardSuccess(l, p) ==
  /\ put[l][p] \in {"okMapped", "okLate"}
  /\ \/ put' = [put EXCEPT ![l][p] =
                  IF put[l][p] = "okMapped" THEN "found" ELSE "lateOk"]
     \/ /\ "callback" \in Faults
        /\ put' = [put EXCEPT ![l][p] = "returned"]
  /\ UNCHANGED <<getVars, cacheVars, expiring, discovery, mapping>>

(***************************************************************************)
(* PUT /parties/{Type}/{ID}/error: PutPartiesErrorService.                 *)
(***************************************************************************)
CheckPending(l, p) ==
  /\ put[l][p] = "errIn"
  /\ put' = [put EXCEPT ![l][p] =
               IF p \in pending[SourceOf[l]] THEN "errPending" ELSE "errStray"]
  /\ UNCHANGED <<getVars, cacheVars, expiring, discovery, mapping>>

\* Mutants: every error is forwarded; an absorbed error stays in the list.
CountErrorForwardingAll(l, p) ==
  /\ put[l][p] = "errPending"
  /\ put' = [put EXCEPT ![l][p] = "errLast"]
  /\ ReceivedResponse(SourceOf[l], p, FALSE)
  /\ UNCHANGED <<getVars, expiring, discovery, mapping>>
CountErrorKeepingList(l, p) ==
  /\ put[l][p] = "errPending"
  /\ put' = [put EXCEPT ![l][p] =
               IF IsLastWithoutSuccess(SourceOf[l], p) THEN "errLast" ELSE "absorbed"]
  /\ UNCHANGED <<getVars, cacheVars, expiring, discovery, mapping>>

\* checkLastProxyCallback; the entry may have changed since CheckPending.
CountError(l, p) ==
  LET s == SourceOf[l] IN
  /\ put[l][p] = "errPending"
  /\ put' = [put EXCEPT ![l][p] =
               IF IsLastWithoutSuccess(s, p) THEN "errLast" ELSE "absorbed"]
  /\ ReceivedResponse(s, p, FALSE)
  /\ UNCHANGED <<getVars, expiring, discovery, mapping>>

\* #isPartyFromExternalDfsp: a party the oracle maps behind a proxy is.
CheckOracle(l, p) ==
  /\ put[l][p] = "errStray"
  /\ \/ \E fsp \in Owners : put' = [put EXCEPT ![l][p] =
         IF fsp = None THEN "errLate" ELSE "errClean"]
     \/ /\ "oracle" \in Faults
        /\ put' = [put EXCEPT ![l][p] = "returned"]
  /\ UNCHANGED <<getVars, cacheVars, expiring, discovery, mapping>>

CleanupOracle(l, p) ==
  /\ put[l][p] = "errClean"
  /\ \/ /\ mapping' = None
        /\ put' = [put EXCEPT ![l][p] = "errCleaned"]
     \/ /\ "oracle" \in Faults
        /\ put' = [put EXCEPT ![l][p] = "returned"]
        /\ UNCHANGED mapping
  /\ UNCHANGED <<getVars, cacheVars, expiring, discovery>>

ForwardError(l, p) ==
  /\ put[l][p] \in {"errLast", "errLate", "errCleaned"}
  /\ \/ put' = [put EXCEPT ![l][p] =
                  IF put[l][p] = "errLast" THEN "lastErr" ELSE "lateErr"]
     \/ /\ "callback" \in Faults
        /\ put' = [put EXCEPT ![l][p] = "returned"]
  /\ UNCHANGED <<getVars, cacheVars, expiring, discovery, mapping>>

-----------------------------------------------------------------------------
(***************************************************************************)
(* Expiry: PROXY_CACHE_EXPIRES_IN_SEC passes, the timeout job finds the    *)
(* entry, calls the requester back and removes whatever entry there is by  *)
(* then; answers that arrive meanwhile are counted as ever.                *)
(***************************************************************************)
Expire(s) ==
  /\ expiry[s] = "armed"
  /\ expiry' = [expiry EXCEPT ![s] = "expired"]
  /\ UNCHANGED <<getVars, put, pending, hasSuccess, owner, expiring, discovery, mapping>>

\* processExpiredAlsKeys, one tick at a time, begins the callback for a key.
FindExpired(s) ==
  /\ expiry[s] = "expired" /\ expiring[s] = None
  /\ expiring' = [expiring EXCEPT ![s] = owner[s]]
  /\ UNCHANGED <<getVars, put, cacheVars, discovery, mapping>>

\* TimeoutPartiesService; its callback may fail.
SendTimeoutCallback(s) ==
  /\ expiring[s] # None /\ discovery[expiring[s]] = "stored"
  /\ \/ discovery' = [discovery EXCEPT ![expiring[s]] = "timedOut"]
     \/ /\ "callback" \in Faults
        /\ discovery' = [discovery EXCEPT ![expiring[s]] = "untold"]
  /\ UNCHANGED <<getVars, put, cacheVars, expiring, mapping>>

\* The key and its :expiresAt record go, whoever they belong to by now.
RemoveExpired(s) ==
  /\ expiring[s] # None /\ discovery[expiring[s]] # "stored"
  /\ expiring' = [expiring EXCEPT ![s] = None]
  /\ RemoveEntry(s)
  /\ UNCHANGED <<getVars, put, discovery, mapping>>

-----------------------------------------------------------------------------
GetStep(l) ==
  \/ ReceiveLookup(l) \/ ConsultOracle(l) \/ DropReference(l) \/ Discover(l)
  \/ ConcludeDiscovery(l) \/ ReportFailure(l)
  \/ \E p \in Proxy : ConcludeDirect(l, p)

SendStep(l, p) ==
  \/ ReachProxy(l, p) \/ SendSucceeds(l, p) \/ SendFails(l, p)
  \/ RemoveFailedProxy(l, p)

PutStep(l, p) ==
  \/ CountSuccess(l, p) \/ PostMapping(l, p) \/ ForwardSuccess(l, p)
  \/ CheckPending(l, p) \/ CountError(l, p) \/ CheckOracle(l, p)
  \/ CleanupOracle(l, p) \/ ForwardError(l, p)

ExpiryStep(s) ==
  Expire(s) \/ FindExpired(s) \/ SendTimeoutCallback(s) \/ RemoveExpired(s)

Next ==
  \/ \E l \in Lookup : GetStep(l)
  \/ \E l \in Lookup, p \in Proxy :
       SendStep(l, p) \/ Answer(l, p) \/ PutStep(l, p)
  \/ \E s \in Dfsp : ExpiryStep(s)

Spec == Init /\ [][Next]_vars

\* Handlers that were started go on, every HTTP call settles, time passes and
\* the expiry job keeps running.  Requesters and proxies owe nothing.
Fairness ==
  /\ \A l \in Lookup : WF_vars(get[l] # "idle" /\ GetStep(l))
  /\ \A l \in Lookup, p \in Proxy : WF_vars(SendStep(l, p)) /\ WF_vars(PutStep(l, p))
  /\ \A s \in Dfsp : WF_vars(ExpiryStep(s))

FairSpec == Spec /\ Fairness
-----------------------------------------------------------------------------
(***************************************************************************)
(* Properties.                                                             *)
(***************************************************************************)
\* The cached entry is the one lookup l stored.
EntryOf(l) == expiry[SourceOf[l]] # "none" /\ owner[SourceOf[l]] = l

\* A requester that never has two lookups of the party under way.
OneLookupPerSource ==
  \A l, m \in Lookup : SourceOf[l] = SourceOf[m] => l = m

\* Answers by what the cache makes of them: not yet compared with the list,
\* taken off the list as a success, not found in the list.
Uncounted == {"none", "asked", "okIn", "errIn", "errPending"}
Counted == {"okCounted", "okMapped", "found"}
Stray   == {"errStray", "errClean", "errCleaned", "errLate", "lateErr"}

\* Proxy q will not find the party for l any more: its send was written off
\* before it was counted, or its error was absorbed.
Spent(l, q) == \/ send[l][q] = "dropped" /\ put[l][q] \notin Counted
               \/ put[l][q] = "absorbed"

Outstanding(l) == EntryOf(l) => \A p \in pending[SourceOf[l]] :
  /\ send[l][p] # "dropped"
  /\ put[l][p] \in Uncounted \cup {"returned"}

LastErrorFinal(l) == \A p, q \in Proxy :
  put[l][p] \in {"errLast", "lastErr"} /\ q # p => Spent(l, q)

\* The entry of lookup l is there, or the requester was not told that it expired.
Expecting(l) == EntryOf(l) \/ discovery[l] = "stored"

StrayCaused(l) == Expecting(l) =>
  \A q \in Proxy : put[l][q] \in Stray => send[l][q] = "dropped"

\* A proxy the entry of a lookup still waits for has given no answer the
\* service has already dealt with, and its send was not written off: no entry
\* waits for an answer that was consumed.
PendingIsOutstanding == \A l \in Lookup : Outstanding(l)

\* "Last proxy callback": an error is forwarded as the verdict of a discovery
\* only when every other proxy has failed, by an error answer that was
\* absorbed or by a send that was written off; none is still expected and
\* none has found the party.
LastErrorIsFinal == \A l \in Lookup : LastErrorFinal(l)

\* An error answer to a discovery is taken for a stray one, which deletes the
\* oracle mapping and is forwarded even after a success, only when the entry
\* is gone after a timeout or the send to that proxy had been written off.
StrayErrorHasCause == \A l \in Lookup : StrayCaused(l)

\* When GetPartiesService reports a lookup as failed, no entry of it is left
\* that the expiry job could find: the requester gets no second verdict from
\* there, unless the job was at this entry already.
FailureLeavesNoEntry ==
  \A l \in Lookup : get[l] \in {"failing", "told", "mute"} => ~EntryOf(l)

\* Callbacks with an error for lookup l: by GetPartiesService, by a proxy's
\* answer, by the expiry job.
ErrorsFor(l) ==
  {<<"get", m>> : m \in {k \in {l} : get[k] = "told"}}
    \cup {<<"put", p>> : p \in {q \in Proxy : put[l][q] \in {"lastErr", "lateErr"}}}
    \cup {<<"expiry", m>> : m \in {k \in {l} : discovery[k] = "timedOut"}}

\* Unless the entry timed out, or a request reached a proxy although its send
\* failed, the requester of a lookup gets at most one error callback.
OneErrorCallback ==
  \A l \in Lookup :
    /\ discovery[l] \in {"none", "stored"}
    /\ \A p \in Proxy : put[l][p] # "none" => send[l][p] \notin {"failed", "dropped"}
    => \A x, y \in ErrorsFor(l) : x = y

\* Discovery diagram: a proxy's error to a discovery request is passed on only
\* if SentToProxies is empty.  The exception is a proxy whose own send had been
\* written off although it has the request.
ErrorMeansListEmpty ==
  [][\A l \in Lookup, p \in Proxy :
       /\ put[l][p] # put'[l][p]
       /\ put'[l][p] \in {"lastErr", "lateErr"}
       /\ discovery[l] # "none" /\ send[l][p] # "dropped"
       => pending[SourceOf[l]] = {}]_vars

Pursued(l) ==
  discovery[l] = "stored" /\ (\A p \in Proxy : send[l][p] # "dropped") =>
    \/ EntryOf(l) \/ expiring[SourceOf[l]] = l
    \/ \E p \in Proxy : put[l][p] \in Counted \cup {"errLast", "lastErr", "returned"}

\* The requester of a discovery is never left without anybody who would call
\* it: as long as no send was written off, there is an entry to expire, a
\* timeout under way, or an answer that was taken as a verdict (which a failing
\* call may have sent back to the proxy).
DiscoveryIsPursued == \A l \in Lookup : Pursued(l)

Answered(l) ==
  \/ get[l] = "told" \/ discovery[l] = "timedOut"
  \/ \E p \in Proxy : put[l][p] \in {"found", "lateOk", "lastErr", "lateErr"}

\* A requester whose lookup went out to the proxies is called back: by an
\* answer, by a failure or by the expiry of the entry.
DiscoveryIsAnswered ==
  \A l \in Lookup : get[l] = "sending" ~> Answered(l)

\* "if any failed proxy request was last": a discovery whose last proxy failed
\* does not end in silence.  The entry is gone, no handler has anything left
\* to do for it, and nobody called the requester.
NoSilentEnd ==
  \A l \in Lookup :
    ~ /\ get[l] = "done" /\ discovery[l] = "stored" /\ ~EntryOf(l)
      /\ \A p \in Proxy : put[l][p] \in {"none", "asked", "absorbed"}
-----------------------------------------------------------------------------
(***************************************************************************)
(* The inductive invariant behind the safety properties above.             *)
(***************************************************************************)
\* An entry is there for a lookup of its source.
OwnerOK == \A s \in Dfsp : expiry[s] # "none" =>
             owner[s] \in Lookup /\ SourceOf[owner[s]] = s

\* The expiry job is at the entry of a lookup that was sent to the proxies.
JobOK == \A s \in Dfsp : expiring[s] # None =>
  /\ expiring[s] \in Lookup /\ SourceOf[expiring[s]] = s
  /\ discovery[expiring[s]] # "none"

EntryWaits == \A s \in Dfsp : expiry[s] = "none" <=> pending[s] = {}

Undecided == {"idle", "oracle", "dropRef", "discover"}

\* A lookup has sent nothing before it has decided whom to ask.
NothingSent(l) == get[l] \in Undecided =>
  /\ discovery[l] = "none" /\ ~wasLast[l]
  /\ \A p \in Proxy : send[l][p] = "none" /\ put[l][p] = "none"

\* A lookup with an entry is still sending or has concluded without failure.
EntryAlive(l) == EntryOf(l) =>
  get[l] \in {"sending", "done"} /\ ~wasLast[l] /\ discovery[l] # "none"

LookupInv(l) == NothingSent(l) /\ EntryAlive(l) /\ Outstanding(l)

DiscoveryInv ==
  TypeOK /\ OwnerOK /\ JobOK /\ EntryWaits /\ \A l \in Lookup : LookupInv(l)

\* What holds besides when a requester has one lookup of the party at a time.
RestSpent(l) == EntryOf(l) /\ ~hasSuccess[SourceOf[l]] =>
  \A q \in Proxy \ pending[SourceOf[l]] : Spent(l, q)

UncountedDropped(l) == Expecting(l) =>
  \A q \in Proxy \ pending[SourceOf[l]] :
    put[l][q] \in Uncounted => send[l][q] = "dropped"

VerdictInv(l) ==
  RestSpent(l) /\ UncountedDropped(l) /\ LastErrorFinal(l) /\ StrayCaused(l)

SoleLookupInv == OneLookupPerSource => \A l \in Lookup : VerdictInv(l)
-----------------------------------------------------------------------------
(***************************************************************************)
(* What of this a requester can rely on: LookupVerdict.                    *)
(***************************************************************************)
Failed == {"failing", "told", "mute"}

PhaseOf(l) ==
  CASE get[l] \in Failed -> "failed"
    [] get[l] \notin Failed /\ discovery[l] # "none" -> "asking"
    [] get[l] = "idle" /\ discovery[l] = "none" -> "idle"
    [] OTHER -> "local"

TimeoutOf(l) ==
  CASE discovery[l] \in {"timedOut", "untold"} -> "given"
    [] discovery[l] = "stored" /\ expiring[SourceOf[l]] = l -> "due"
    [] OTHER -> "none"

OutcomeOf(l, p) ==
  CASE put[l][p] \in Counted -> "found"
    [] put[l][p] \in {"errLast", "lastErr"} -> "final"
    [] put[l][p] \in {"okLate", "lateOk"} -> "lateFound"
    [] put[l][p] \in Stray -> "lateError"
    [] put[l][p] = "returned" -> "lost"
    [] put[l][p] = "absorbed" \/ (put[l][p] \in Uncounted /\ send[l][p] = "dropped") -> "missed"
    [] OTHER -> "open"

Verdict == INSTANCE LookupVerdict WITH
  phase   <- [l \in Lookup |-> PhaseOf(l)],
  timeout <- [l \in Lookup |-> TimeoutOf(l)],
  outcome <- [l \in Lookup |-> [p \in Proxy |-> OutcomeOf(l, p)]]

\* Whatever the cache, the sends and the answers do, a requester with one
\* lookup of the party at a time gets the verdicts LookupVerdict allows.
KeepsVerdict == Verdict!Spec
=============================================================================
