---------------------------- MODULE PartyRouting ----------------------------
(***************************************************************************)
(* The /parties requests for one party, as they are routed: a lookup goes  *)
(* to the destination its header names, or else to every owner the oracle  *)
(* lists, directly or through the proxy an owner is mapped to; an answer   *)
(* or an error answer goes back to the participant that asked.  References *)
(* to owners that cannot be reached are deleted in the oracle on the way.  *)
(* Who is in the scheme is asked of the ledger again and again, and an     *)
(* exception of the ledger counts as no.                                   *)
(*                                                                         *)
(* What happens once a lookup is sent to all proxies is the subject of     *)
(* InterSchemeDiscovery; here it is the end "discovery", and whether an    *)
(* answer belongs to such a lookup is left open.                           *)
(***************************************************************************)
EXTENDS FiniteSets, Naturals

CONSTANTS
  Local,           \* DFSPs in the scheme
  External,        \* DFSPs of other schemes
  Proxy,           \* proxies, participants of the scheme
  SubId,           \* values of {SubId}
  Request,         \* requests received
  Faults,          \* what may go wrong
  ValidateDelete,  \* DELETE_PARTICIPANT_VALIDATION_ENABLED
  MaxRefs,         \* bound: references the oracle holds at a time
  NoSubId,         \* no {SubId}
  None             \* no header, no request, no proxy

Dfsp  == Local \cup External
Actor == Dfsp \cup Proxy

ASSUME FaultAssumption ==
  Faults \subseteq {"path", "ledger", "oracle", "cache", "send", "callback"}
ASSUME ActorAssumption ==
  /\ None \notin Actor
  /\ Proxy \cap Dfsp = {} /\ Local \cap External = {}
ASSUME DeleteAssumption == ValidateDelete \in BOOLEAN
ASSUME BoundAssumption == MaxRefs \in Nat

Part == SubId \cup {NoSubId}
Ref  == [fsp : Dfsp, sub : Part]
Call == [op : {"GET", "PUT", "ERROR"}, source : Dfsp, dest : Dfsp \cup {None},
         proxy : Proxy \cup {None}, sub : Part]

(***************************************************************************)
(* Steps of GetPartiesService, PutPartiesService and PutPartiesErrorService, *)
(* of the calls a lookup makes for one owner, and their ends.              *)
(***************************************************************************)
Ends == {"done", "discovery", "absorbed", "mute", "refused"}
Pc == Ends \cup
  {"idle", "requester", "dest", "validate", "oracle", "branches", "discover",
   "deny", "resolution", "source", "count", "post", "pending", "external",
   "cleanup", "identify", "reply", "report", "failing"}
Task == {"none", "check", "drop", "forward", "sent", "skipped", "failed"}

VARIABLES
  refs,      \* oracle: the references to owners of the party
  via,       \* proxy cache: via[f], the proxy DFSP f is mapped to
  call,      \* call[r]: the request r
  pc,        \* pc[r]: where its handler stands
  requester, \* requester[r]: state.requester
  task,      \* task[r][f]: what the lookup is doing about DFSP f
  sendTo,    \* sendTo[r][f]: to whom the lookup is forwarded for f
  read,      \* read[r]: owners the oracle named to r (history)
  sent,      \* lookups that reached somebody, in whose name (history)
  told,      \* callbacks that reached somebody (history)
  lost       \* lost[r]: calls that failed r (history)

handler == <<call, requester, task, sendTo, read>>
world   == <<refs, via>>
history == <<sent, told, lost>>
vars == <<refs, via, call, pc, requester, task, sendTo, read, sent, told, lost>>

TypeOK ==
  /\ refs \subseteq Ref
  /\ via \in [Dfsp -> Proxy \cup {None}]
  /\ call \in [Request -> Call \cup {None}]
  /\ pc \in [Request -> Pc]
  /\ requester \in [Request -> Actor \cup {None}]
  /\ task \in [Request -> [Dfsp -> Task]]
  /\ sendTo \in [Request -> [Dfsp -> Actor \cup {None}]]
  /\ read \in [Request -> SUBSET Dfsp]
  /\ sent \subseteq [of : Request, to : Actor, dest : Dfsp, by : Actor \cup {None}]
  /\ told \subseteq [of : Request, to : Actor, dest : Dfsp,
                     verdict : {"success", "error", "failed"}]
  /\ lost \in [Request -> SUBSET {"ledger", "callback"}]

Init ==
  /\ refs \in {R \in SUBSET Ref : Cardinality(R) <= MaxRefs}
  /\ via \in {v \in [Dfsp -> Proxy \cup {None}] : \A l \in Local : v[l] = None}
  /\ call = [r \in Request |-> None]
  /\ pc = [r \in Request |-> "idle"]
  /\ requester = [r \in Request |-> None]
  /\ task = [r \in Request |-> [f \in Dfsp |-> "none"]]
  /\ sendTo = [r \in Request |-> [f \in Dfsp |-> None]]
  /\ read = [r \in Request |-> {}]
  /\ sent = {}
  /\ told = {}
  /\ lost = [r \in Request |-> {}]

-----------------------------------------------------------------------------
(***************************************************************************)
(* The services around.                                                    *)
(***************************************************************************)
Goto(r, step) == pc' = [pc EXCEPT ![r] = step]

InScheme(f) == f \in Local \cup Proxy

\* validateParticipant: is f in the scheme; an exception counts as no.
LedgerSays(r, f, known) ==
  \/ known = InScheme(f) /\ UNCHANGED lost
  \/ /\ "ledger" \in Faults /\ InScheme(f) /\ ~known
     /\ lost' = [lost EXCEPT ![r] = @ \cup {"ledger"}]

\* What the oracle lists, with a {SubId} its records only.
Listed(p) == {x \in refs : p \in {x.sub, NoSubId}}

\* sendOracleDiscoveryRequest: an answer without a list counts as an empty one.
PartyLists(r) == {Listed(call[r].sub)} \cup {L \in {{}} : "oracle" \in Faults}

\* DELETE /participants of the oracle, in the name of DFSP f: the URL has no
\* {SubId}, so every reference goes; validatePartyDeletion compares f with
\* the first owner listed.
Deleted(f) ==
  /\ ValidateDelete => \E x \in refs : x.fsp = f
  /\ refs' = {}

DeletionFails(f) ==
  \/ ValidateDelete /\ {x.fsp : x \in refs} # {f} /\ UNCHANGED refs
  \/ "oracle" \in Faults /\ refs' \in {refs, {}}

\* addDfspIdToProxyMapping.
MapTo(f, p) == via' = [via EXCEPT ![f] = p]

\* A participant registers or deletes the party, other requests learn or
\* forget where a DFSP is.
RegisterElsewhere ==
  /\ Cardinality(refs) < MaxRefs
  /\ \E x \in Ref \ refs : refs' = refs \cup {x}
  /\ UNCHANGED <<via, pc, handler, history>>

DeleteElsewhere ==
  /\ refs # {} /\ refs' = {}
  /\ UNCHANGED <<via, pc, handler, history>>

MapElsewhere ==
  /\ \E f \in External, p \in Proxy \cup {None} : via[f] # p /\ MapTo(f, p)
  /\ UNCHANGED <<refs, pc, handler, history>>

-----------------------------------------------------------------------------
(***************************************************************************)
(* The API layer.                                                          *)
(***************************************************************************)
Begin(r, c) ==
  /\ pc[r] = "idle"
  /\ call' = [call EXCEPT ![r] = c]
  /\ UNCHANGED <<world, requester, task, sendTo, read, sent, told>>

\* A request the path of which is malformed fails first.
Start(r, step) ==
  \/ Goto(r, step)
  \/ "path" \in Faults /\ Goto(r, "failing")

\* validateSourceFspHeader refuses sources unknown to the ledger.
ValidateSourceFspHeader(r, s) ==
  \/ LedgerSays(r, s, TRUE) /\ Start(r, "requester")
  \/ LedgerSays(r, s, FALSE) /\ Goto(r, "refused")

\* A GET or PUT of the party, with {SubId} n or without one.
Lookup(r, n) ==
  \E s \in Dfsp, d \in Dfsp \cup {None}, p \in Proxy \cup {None} :
    /\ Begin(r, [op |-> "GET", source |-> s, dest |-> d, proxy |-> p, sub |-> n])
    /\ ValidateSourceFspHeader(r, s)

Found(r, n) ==
  \E s, d \in Dfsp, p \in Proxy \cup {None} :
    /\ Begin(r, [op |-> "PUT", source |-> s, dest |-> d, proxy |-> p, sub |-> n])
    /\ Start(r, "source")
    /\ UNCHANGED lost

AcceptGet(r) == Lookup(r, NoSubId)

AcceptPut(r) == Found(r, NoSubId)

\* The routes with a {SubId}.
AcceptSubId(r) == \E n \in SubId : Lookup(r, n) \/ Found(r, n)

\* PUT /parties/.../error, with or without a {SubId}.
AcceptError(r) ==
  \E s, d \in Dfsp, p \in Proxy \cup {None}, n \in Part :
    /\ Begin(r, [op |-> "ERROR", source |-> s, dest |-> d, proxy |-> p, sub |-> n])
    /\ Start(r, IF p = None THEN "identify" ELSE "pending")
    /\ UNCHANGED lost

-----------------------------------------------------------------------------
(***************************************************************************)
(* GetPartiesService.                                                      *)
(***************************************************************************)
\* A lookup proceeds in the name of x.
ProceedAs(r, x) ==
  /\ requester' = [requester EXCEPT ![r] = x]
  /\ Goto(r, IF call[r].dest = None THEN "oracle" ELSE "dest")

\* validateRequester: a source of the scheme, or a proxy of the scheme that
\* speaks for it; the ledger is asked about each.
ValidateRequester(r) ==
  LET c == call[r] IN
  /\ pc[r] = "requester"
  /\ \/ LedgerSays(r, c.source, TRUE) /\ ProceedAs(r, c.source) /\ UNCHANGED via
     \/ /\ LedgerSays(r, c.source, FALSE)
        /\ \/ c.proxy # None /\ MapTo(c.source, c.proxy) /\ ProceedAs(r, c.proxy)
           \/ /\ c.proxy = None \/ "cache" \in Faults
              /\ Goto(r, "failing")
              /\ UNCHANGED <<via, requester>>
     \/ /\ c.proxy # None /\ LedgerSays(r, c.proxy, FALSE)
        /\ Goto(r, "failing")
        /\ UNCHANGED <<via, requester>>
  /\ UNCHANGED <<refs, call, task, sendTo, read, sent, told>>

\* The lookup is forwarded to x for the DFSP f, and to nobody else.
ForwardTo(r, f, x) ==
  /\ task' = [task EXCEPT ![r][f] = "forward"]
  /\ sendTo' = [sendTo EXCEPT ![r][f] = x]
  /\ Goto(r, "branches")

\* forwardRequestToDestination: to a destination of the scheme directly, but
\* for a requester outside only after a look at the oracle; to another one
\* through its proxy; without a proxy the references of the party go.
ToDestination(r) ==
  LET d == call[r].dest IN
  /\ pc[r] = "dest"
  /\ \/ /\ LedgerSays(r, d, TRUE)
        /\ IF requester[r] = call[r].source
           THEN ForwardTo(r, d, d)
           ELSE Goto(r, "validate") /\ UNCHANGED <<task, sendTo>>
     \/ /\ LedgerSays(r, d, FALSE)
        /\ \/ via[d] # None /\ ForwardTo(r, d, via[d])
           \/ /\ via[d] = None
              /\ task' = [task EXCEPT ![r][d] = "drop"]
              /\ Goto(r, "branches")
              /\ UNCHANGED sendTo
           \/ "cache" \in Faults /\ Goto(r, "failing") /\ UNCHANGED <<task, sendTo>>
  /\ UNCHANGED <<world, call, requester, read, sent, told>>

\* Mutant: any owner the oracle names will do.
ValidateNonEmpty(r) ==
  LET d == call[r].dest IN
  /\ pc[r] = "validate"
  /\ read' = [read EXCEPT ![r] = {x.fsp : x \in Listed(call[r].sub)}]
  /\ \/ read'[r] # {} /\ ForwardTo(r, d, d)
     \/ read'[r] = {} /\ Goto(r, "resolution") /\ UNCHANGED <<task, sendTo>>
  /\ UNCHANGED <<world, call, requester, history>>

\* #validateLocalDestinationForExternalSource.
ValidateDestination(r) ==
  LET d == call[r].dest IN
  /\ pc[r] = "validate"
  /\ \/ \E parties \in PartyLists(r) :
          /\ read' = [read EXCEPT ![r] = {x.fsp : x \in parties}]
          /\ \/ d \in read'[r] /\ ForwardTo(r, d, d)
             \/ d \notin read'[r] /\ Goto(r, "resolution") /\ UNCHANGED <<task, sendTo>>
     \/ "oracle" \in Faults /\ Goto(r, "failing") /\ UNCHANGED <<task, sendTo, read>>
  /\ UNCHANGED <<world, call, requester, history>>

\* #filterOraclePartyList: only records of the lookup's {SubId}, or without
\* one, name an owner; a list without any is an error, unless it is empty.
AskOracle(r) ==
  LET ownersIn(parties) == {x.fsp : x \in {y \in parties : y.sub = call[r].sub}} IN
  /\ pc[r] = "oracle"
  /\ \/ {} \in PartyLists(r) /\ Goto(r, "discover") /\ UNCHANGED <<task, read>>
     \/ \E parties \in PartyLists(r) :
          /\ ownersIn(parties) # {}
          /\ task' = [task EXCEPT ![r] =
               [f \in Dfsp |-> IF f \in ownersIn(parties) THEN "check" ELSE "none"]]
          /\ read' = [read EXCEPT ![r] = ownersIn(parties)]
          /\ Goto(r, "branches")
     \/ /\ \/ \E parties \in PartyLists(r) : parties # {} /\ ownersIn(parties) = {}
           \/ "oracle" \in Faults
        /\ Goto(r, "failing")
        /\ UNCHANGED <<task, read>>
  /\ UNCHANGED <<world, call, requester, sendTo, history>>

\* #processSingleOracleParty up to its call: an owner of the scheme is sent
\* the lookup; another one gets it through its proxy if the requester is of
\* the scheme, and without a proxy the references of the party go.
CheckOwner(r, f) ==
  LET Set(step, x) ==
        /\ task' = [task EXCEPT ![r][f] = step]
        /\ sendTo' = [sendTo EXCEPT ![r][f] = x]
      isLocalSource == requester[r] = call[r].source IN
  /\ task[r][f] = "check"
  /\ \/ LedgerSays(r, f, TRUE) /\ Set("forward", f)
     \/ /\ LedgerSays(r, f, FALSE)
        /\ \/ via[f] = None /\ Set("drop", None)
           \/ via[f] # None /\ isLocalSource /\ Set("forward", via[f])
           \/ via[f] # None /\ ~isLocalSource /\ Set("skipped", None)
           \/ "cache" \in Faults /\ Set("failed", None)
  /\ UNCHANGED <<world, call, pc, requester, read, sent, told>>

\* sendDeleteOracleRequest.
DropReference(r, f) ==
  /\ task[r][f] = "drop"
  /\ \/ Deleted(call[r].source) /\ task' = [task EXCEPT ![r][f] = "skipped"]
     \/ DeletionFails(call[r].source) /\ task' = [task EXCEPT ![r][f] = "failed"]
  /\ UNCHANGED <<via, call, pc, requester, sendTo, read, history>>

\* #forwardGetPartiesRequest: a request that failed may have arrived.
ForwardLookup(r, f) ==
  LET arrived == sent \cup {[of |-> r, to |-> sendTo[r][f], dest |-> f,
                             by |-> requester[r]]} IN
  /\ task[r][f] = "forward"
  /\ \/ sent' = arrived /\ task' = [task EXCEPT ![r][f] = "sent"]
     \/ /\ "send" \in Faults
        /\ sent' \in {sent, arrived}
        /\ task' = [task EXCEPT ![r][f] = "failed"]
  /\ UNCHANGED <<world, call, pc, requester, sendTo, read, told, lost>>

\* Mutant: the lookup counts as forwarded only if every owner was sent it.
ConcludeIfAllSent(r) ==
  /\ pc[r] = "branches"
  /\ \A f \in Dfsp : task[r][f] \in {"none", "sent", "skipped"}
  /\ Goto(r, IF \A f \in Dfsp : task[r][f] \in {"none", "sent"}
             THEN "done" ELSE "discover")
  /\ UNCHANGED <<world, handler, history>>

\* Mutant: an owner that cannot be reached ends the lookup.
ConcludeQuietly(r) ==
  /\ pc[r] = "branches"
  /\ \/ (\E f \in Dfsp : task[r][f] = "failed") /\ Goto(r, "failing")
     \/ (\A f \in Dfsp : task[r][f] \in {"none", "sent", "skipped"}) /\ Goto(r, "done")
  /\ UNCHANGED <<world, handler, history>>

\* Promise.all: the first failure is one of the lookup, though other owners
\* are still being dealt with; without one, an owner that was sent the lookup
\* is enough.
Conclude(r) ==
  /\ pc[r] = "branches"
  /\ \/ (\E f \in Dfsp : task[r][f] = "failed") /\ Goto(r, "failing")
     \/ /\ \A f \in Dfsp : task[r][f] \in {"none", "sent", "skipped"}
        /\ Goto(r, IF \E f \in Dfsp : task[r][f] = "sent" THEN "done" ELSE "discover")
  /\ UNCHANGED <<world, handler, history>>

\* triggerInterSchemeDiscoveryFlow: no proxy but the requester's is an error.
Discover(r) ==
  /\ pc[r] = "discover"
  /\ \/ Goto(r, IF Proxy \subseteq {call[r].proxy} THEN "deny" ELSE "discovery")
     \/ "cache" \in Faults /\ Goto(r, "failing")
  /\ UNCHANGED <<world, handler, history>>

-----------------------------------------------------------------------------
(***************************************************************************)
(* PutPartiesService and PutPartiesErrorService.                           *)
(***************************************************************************)
\* Mutant: the mapping is stored for every source.
MapAnySource(r) ==
  LET c == call[r] IN
  /\ pc[r] = "source"
  /\ IF c.proxy = None THEN UNCHANGED via ELSE MapTo(c.source, c.proxy)
  /\ Goto(r, IF c.proxy = None THEN "identify" ELSE "count")
  /\ UNCHANGED <<refs, handler, history>>

\* validateSourceParticipant: a source outside needs a proxy to be mapped to.
ValidateSource(r) ==
  LET c == call[r] IN
  /\ pc[r] = "source"
  /\ \/ /\ LedgerSays(r, c.source, TRUE)
        /\ Goto(r, IF c.proxy = None THEN "identify" ELSE "count")
        /\ UNCHANGED via
     \/ /\ LedgerSays(r, c.source, FALSE)
        /\ \/ c.proxy # None /\ MapTo(c.source, c.proxy) /\ Goto(r, "count")
           \/ /\ c.proxy = None \/ "cache" \in Faults
              /\ Goto(r, "failing")
              /\ UNCHANGED via
  /\ UNCHANGED <<refs, handler, sent, told>>

\* checkProxySuccessResponse: an answer to a discovery by a participant of
\* the scheme is recorded in the oracle.
CountSuccess(r) ==
  /\ pc[r] = "count"
  /\ \/ LedgerSays(r, call[r].dest, TRUE) /\ Goto(r, "post")
     \/ LedgerSays(r, call[r].dest, FALSE) /\ Goto(r, "identify")
     \/ Goto(r, "identify") /\ UNCHANGED lost
     \/ "cache" \in Faults /\ Goto(r, "failing") /\ UNCHANGED lost
  /\ UNCHANGED <<world, handler, sent, told>>

\* Mutant: the mapping names the proxy.
PostProxy(r) ==
  /\ pc[r] = "post"
  /\ refs' = refs \cup {[fsp |-> call[r].proxy, sub |-> call[r].sub]}
  /\ Goto(r, "identify")
  /\ UNCHANGED <<via, handler, history>>

\* #updateOracleWithParticipantMapping.
PostMapping(r) ==
  LET stored == refs \cup {[fsp |-> call[r].source, sub |-> call[r].sub]} IN
  /\ pc[r] = "post"
  /\ \/ refs' = stored /\ Goto(r, "identify")
     \/ "oracle" \in Faults /\ refs' \in {refs, stored} /\ Goto(r, "failing")
  /\ UNCHANGED <<via, handler, history>>

\* An error answer to a discovery is kept back unless it is the last.
CountError(r) ==
  /\ pc[r] = "pending"
  /\ \/ \E step \in {"absorbed", "identify", "external"} : Goto(r, step)
     \/ "cache" \in Faults /\ Goto(r, "failing")
  /\ UNCHANGED <<world, handler, history>>

\* #isPartyFromExternalDfsp: only the first owner listed is looked at.
CheckExternal(r) ==
  /\ pc[r] = "external"
  /\ \/ {} \in PartyLists(r) /\ Goto(r, "identify") /\ UNCHANGED lost
     \/ \E parties \in PartyLists(r) : \E x \in parties :
          \/ LedgerSays(r, x.fsp, TRUE) /\ Goto(r, "identify")
          \/ LedgerSays(r, x.fsp, FALSE) /\ Goto(r, "cleanup")
     \/ "oracle" \in Faults /\ Goto(r, "failing") /\ UNCHANGED lost
  /\ UNCHANGED <<world, handler, sent, told>>

\* cleanupOracle, with source and destination swapped.
CleanupOracle(r) ==
  /\ pc[r] = "cleanup"
  /\ \/ Deleted(call[r].dest) /\ Goto(r, "identify")
     \/ DeletionFails(call[r].dest) /\ Goto(r, "failing")
  /\ UNCHANGED <<via, handler, history>>

-----------------------------------------------------------------------------
(***************************************************************************)
(* Callbacks.                                                              *)
(***************************************************************************)
\* identifyDestinationForCallback: DFSP f is reached as x.
ReachedAs(r, f, x) ==
  \/ LedgerSays(r, f, TRUE) /\ x = f
  \/ LedgerSays(r, f, FALSE) /\ via[f] # None /\ x = via[f]

Unreachable(r, f) ==
  \/ LedgerSays(r, f, FALSE) /\ via[f] = None
  \/ /\ "cache" \in Faults /\ ~InScheme(f)
     /\ lost' = [lost EXCEPT ![r] = @ \cup {"callback"}]

IdentifyDestination(r) ==
  /\ pc[r] = "identify"
  /\ \/ \E x \in Actor :
          /\ ReachedAs(r, call[r].dest, x)
          /\ requester' = [requester EXCEPT ![r] = x]
          /\ Goto(r, "reply")
     \/ Unreachable(r, call[r].dest) /\ Goto(r, "failing") /\ UNCHANGED requester
  /\ UNCHANGED <<world, call, task, sendTo, read, sent, told>>

\* A callback to x for DFSP f; one that failed may have arrived.
Deliver(r, x, f, verdict, fails) ==
  LET arrived == told \cup {[of |-> r, to |-> x, dest |-> f, verdict |-> verdict]} IN
  \/ told' = arrived /\ Goto(r, "done") /\ UNCHANGED lost
  \/ /\ "callback" \in Faults
     /\ told' \in {told, arrived}
     /\ lost' = [lost EXCEPT ![r] = @ \cup {"callback"}]
     /\ Goto(r, fails)

\* sendSuccessCallback, sendErrorCallbackToParticipant.
Reply(r) ==
  /\ pc[r] = "reply"
  /\ Deliver(r, requester[r], call[r].dest,
             IF call[r].op = "PUT" THEN "success" ELSE "error", "failing")
  /\ UNCHANGED <<world, handler, sent>>

\* Mutant: whoever was identified before gets the error callback too.
IdentifyOnce(r, from, known, unknown) ==
  /\ pc[r] = from
  /\ requester' = [requester EXCEPT ![r] = IF @ = None THEN call[r].source ELSE @]
  /\ Goto(r, "report")
  /\ UNCHANGED <<world, call, task, sendTo, read, history>>

\* How is the sender of the request reached?
IdentifySource(r, from, known, unknown) ==
  /\ pc[r] = from
  /\ \/ \E x \in Actor :
          /\ ReachedAs(r, call[r].source, x)
          /\ requester' = [requester EXCEPT ![r] = x]
          /\ Goto(r, known)
     \/ Unreachable(r, call[r].source) /\ Goto(r, unknown) /\ UNCHANGED requester
  /\ UNCHANGED <<world, call, task, sendTo, read, sent, told>>

\* handleError: who cannot be reached is not told of a failure.
HandleError(r) == IdentifySource(r, "failing", "report", "mute")

\* sendPartyResolutionErrorCallback.
DenyDestination(r) == IdentifySource(r, "resolution", "deny", "failing")

\* The error callback about a failure; "deny" is also the end of a lookup that
\* found no proxy to ask (#sendPartyNotFoundErrorCallback).
ReportFailure(r) ==
  /\ pc[r] \in {"report", "deny"}
  /\ Deliver(r, requester[r], call[r].source, "failed",
             IF pc[r] = "report" THEN "mute" ELSE "failing")
  /\ UNCHANGED <<world, handler, sent>>

-----------------------------------------------------------------------------
Elsewhere == RegisterElsewhere \/ DeleteElsewhere \/ MapElsewhere

Accept(r) == AcceptGet(r) \/ AcceptPut(r) \/ AcceptSubId(r) \/ AcceptError(r)

GetStep(r) ==
  \/ ValidateRequester(r) \/ ToDestination(r) \/ ValidateDestination(r)
  \/ AskOracle(r) \/ Conclude(r) \/ Discover(r)
  \/ \E f \in Dfsp : CheckOwner(r, f) \/ DropReference(r, f) \/ ForwardLookup(r, f)

PutStep(r) ==
  \/ ValidateSource(r) \/ CountSuccess(r) \/ PostMapping(r)
  \/ CountError(r) \/ CheckExternal(r) \/ CleanupOracle(r)

CallBack(r) ==
  \/ IdentifyDestination(r) \/ Reply(r) \/ ReportFailure(r)
  \/ HandleError(r) \/ DenyDestination(r)

Next ==
  \/ Elsewhere
  \/ \E r \in Request : Accept(r) \/ GetStep(r) \/ PutStep(r) \/ CallBack(r)

Spec == Init /\ [][Next]_vars
-----------------------------------------------------------------------------
(***************************************************************************)
(* Properties.                                                             *)
(***************************************************************************)
ToldOf(r) == {t \in told : t.of = r}
SentOf(r) == {s \in sent : s.of = r}

Served(r) == SentOf(r) # {} /\ (ToldOf(r) # {} \/ pc[r] \in {"discover", "discovery"})
             => \E f \in Dfsp : task[r][f] = "failed"

Heard(r) ==
  /\ pc[r] = "done" => SentOf(r) # {} \/ ToldOf(r) # {}
  /\ pc[r] = "mute" => \/ lost[r] # {}
                       \/ call[r].op # "GET" /\ call[r].source \in External

OwnerNamedTo(r) == \A s \in SentOf(r) :
  s.to \in Local /\ s.by # call[r].source => s.to \in read[r]

Direct(r) == "ledger" \notin lost[r] =>
  \A m \in SentOf(r) \cup ToldOf(r) : m.dest \in Local => m.to = m.dest

\* A lookup that reached a participant is neither reported as failed nor sent
\* to all proxies, unless another of its calls failed.
ForwardedIsServed == \A r \in Request : Served(r)

\* A request that is finished with has reached somebody; only a failing call,
\* or a sender that is neither in the scheme nor behind a known proxy, leaves
\* it without a callback.
NoneVanishes == \A r \in Request : Heard(r)

\* A lookup in the name of a proxy reaches a participant of the scheme only if
\* the oracle named that participant as an owner.
OwnerIsNamed == \A r \in Request : OwnerNamedTo(r)

\* Lookups and callbacks for a participant of the scheme go to it directly,
\* whatever the proxy cache says, as long as the ledger answers.
LocalsAreDirect == \A r \in Request : Direct(r)

\* No participant of the scheme is mapped to a proxy unless the ledger failed
\* a request of its.
OnlyExternalsMapped == \A l \in Local : via[l] # None =>
  \E r \in Request : "ledger" \in lost[r] /\ call[r].source = l

\* "Source not in Scheme: Add 'Payer DFSP' to 'Proxy AB' mapping": a lookup of
\* a DFSP of another scheme that comes through a proxy is accepted, for the
\* service to map the DFSP to the proxy.
ProxiedIsAccepted ==
  \A r \in Request :
    pc[r] # "idle" /\ call[r].op = "GET" /\ call[r].proxy # None
    => pc[r] # "refused"
=============================================================================
