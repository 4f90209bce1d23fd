---------------------------- MODULE Participants ----------------------------
(***************************************************************************)
(* The /participants requests for one party: look up, register, change and *)
(* delete its owner, and the error callback of a DFSP.  The service        *)
(* accepts a request, checks the requester with the ledger, has the oracle *)
(* act and calls somebody back; whatever goes wrong on the way becomes an  *)
(* error callback to the requester.  Requests run interleaved; an action   *)
(* is the stretch of a handler up to the answer of one call.               *)
(***************************************************************************)
CONSTANTS
  Dfsp,            \* participants
  SubId,           \* values of {SubId}; each names a record of the party
  Request,         \* requests received
  Faults,          \* what may go wrong
  ValidateDelete,  \* DELETE_PARTICIPANT_VALIDATION_ENABLED
  NoSubId,         \* the route without {SubId}, and its record
  None             \* no record, no destination header, nothing read

ASSUME FaultAssumption  == Faults \subseteq {"path", "type", "ledger", "oracle", "callback"}
ASSUME DeleteAssumption == ValidateDelete \in BOOLEAN
ASSUME NoneAssumption   == None \notin Dfsp

Part == SubId \cup {NoSubId}

Records == [Part -> Dfsp \cup {None}]

Call == [op : {"GET", "PUT", "POST", "DELETE", "ERROR"}, source : Dfsp,
         fsp : Dfsp, dest : Dfsp \cup {None}, sub : Part]

(***************************************************************************)
(* Where a handler stands.  "refused" was answered synchronously, "done"   *)
(* made its callback, "mute" failed to make even the error callback, and   *)
(* "thrown" left the handler as an exception the API layer only logs.      *)
(***************************************************************************)
Pc == {"idle", "ledger", "check", "oracle", "reply", "deny", "failing",
       "done", "mute", "refused", "thrown"}

VARIABLES
  req,   \* req[r]: the request r
  pc,    \* pc[r]: where its handler stands
  held,  \* oracle: the owner of each record of the party
  seen,  \* seen[r]: what validatePartyDeletion read (history)
  acted, \* acted[r]: the oracle carried out r (history)
  told,  \* the callbacks delivered (history)
  lost   \* lost[r]: calls whose outcome the handler mistook (history)

vars == <<req, pc, held, seen, acted, told, lost>>

TypeOK ==
  /\ req \in [Request -> Call \cup {None}]
  /\ pc \in [Request -> Pc]
  /\ held \in Records
  /\ seen \in [Request -> Records \cup {None}]
  /\ acted \in [Request -> BOOLEAN]
  /\ told \subseteq [of : Request, to : Dfsp, verdict : {"success", "error", "relayed"}]
  /\ lost \in [Request -> SUBSET {"oracle", "unsent", "callback"}]

\* Records registered earlier may belong to anybody.
Init ==
  /\ req = [r \in Request |-> None]
  /\ pc = [r \in Request |-> "idle"]
  /\ held \in Records
  /\ seen = [r \in Request |-> None]
  /\ acted = [r \in Request |-> FALSE]
  /\ told = {}
  /\ lost = [r \in Request |-> {}]

-----------------------------------------------------------------------------
(***************************************************************************)
(* The API layer: the request is acknowledged and its handler started.     *)
(***************************************************************************)
\* Path validation throws: inside the try of every handler but GET's.
AfterBadPath(op) == IF op = "GET" THEN "thrown" ELSE "failing"

\* Where a handler goes first.
FirstSteps(op) ==
  {"ledger"}
    \cup {pcs \in {AfterBadPath(op)} : "path" \in Faults}
    \cup {pcs \in {"deny"} : "type" \in Faults /\ op \in {"PUT", "POST", "DELETE"}}

Begin(r, call, steps) ==
  /\ pc[r] = "idle"
  /\ req' = [req EXCEPT ![r] = call]
  /\ \E step \in steps : pc' = [pc EXCEPT ![r] = step]
  /\ UNCHANGED <<held, seen, acted, told, lost>>

\* Requests without a body.
Ask(op, s, p) == [op |-> op, source |-> s, fsp |-> s, dest |-> None, sub |-> p]

\* A destination header; one that repeats the fspId f changes nothing.
Destinations(f) == (Dfsp \ {f}) \cup {None}

\* Requests with an fspId in the body and maybe a destination header.
Register(op, s, f, d, p) ==
  [op |-> op, source |-> s, fsp |-> f, dest |-> d, sub |-> p]

AcceptGet(r) ==
  \E s \in Dfsp : Begin(r, Ask("GET", s, NoSubId), FirstSteps("GET"))

AcceptPut(r) ==
  \E s, f \in Dfsp : \E d \in Destinations(f) :
    Begin(r, Register("PUT", s, f, d, NoSubId), FirstSteps("PUT"))

\* The only route that checks the requester before it acknowledges.
AcceptPost(r) ==
  \E s, f \in Dfsp : \E d \in Destinations(f) :
    Begin(r, Register("POST", s, f, d, NoSubId),
          FirstSteps("POST") \cup {pcs \in {"refused"} : "ledger" \in Faults})

AcceptDelete(r) ==
  \E s \in Dfsp : Begin(r, Ask("DELETE", s, NoSubId), FirstSteps("DELETE"))

\* The four routes with a {SubId}.
AcceptSubId(r) ==
  \E s \in Dfsp, p \in SubId :
    \/ \E op \in {"GET", "DELETE"} : Begin(r, Ask(op, s, p), FirstSteps(op))
    \/ \E op \in {"PUT", "POST"}, f \in Dfsp : \E d \in Destinations(f) :
         Begin(r, Register(op, s, f, d, p), FirstSteps(op))

\* Both error routes, with and without a {SubId}.
AcceptError(r) ==
  \E s, d \in Dfsp, p \in Part :
    Begin(r, Register("ERROR", s, s, d, p), FirstSteps("ERROR"))

-----------------------------------------------------------------------------
(***************************************************************************)
(* The handlers.                                                           *)
(***************************************************************************)
Goto(r, step) == pc' = [pc EXCEPT ![r] = step]

\* validateParticipant: an unknown requester is an exception.
CheckParticipant(r) ==
  /\ pc[r] = "ledger" /\ req[r].op # "ERROR"
  /\ \/ Goto(r, IF req[r].op = "DELETE" /\ ValidateDelete THEN "check" ELSE "oracle")
     \/ "ledger" \in Faults /\ Goto(r, "failing")
  /\ UNCHANGED <<req, held, seen, acted, told, lost>>

\* putParticipantsErrorByTypeAndID asks for the destination; an unknown one is
\* no exception.
PutParticipantsError(r) ==
  /\ pc[r] = "ledger" /\ req[r].op = "ERROR"
  /\ \/ Goto(r, "reply")
     \/ "ledger" \in Faults /\ \E step \in {"deny", "failing"} : Goto(r, step)
  /\ UNCHANGED <<req, held, seen, acted, told, lost>>

\* The records a GET of the oracle lists, in the order the oracle pleases.
Listed(p) == {q \in Part : held[q] # None /\ p \in {q, NoSubId}}

\* Mutant: the owner is not compared with the requester.
ValidatePartyDeletionOfAny(r) ==
  /\ pc[r] = "check"
  /\ \/ \E q \in Listed(NoSubId) : Goto(r, "oracle") /\ seen' = [seen EXCEPT ![r] = held]
     \/ Listed(NoSubId) = {} /\ Goto(r, "failing") /\ UNCHANGED seen
  /\ UNCHANGED <<req, held, acted, told, lost>>

\* validatePartyDeletion: the first party listed must be the requester's.
ValidatePartyDeletion(r) ==
  /\ pc[r] = "check"
  /\ \/ \E q \in Listed(NoSubId) :
          IF held[q] = req[r].source
          THEN Goto(r, "oracle") /\ seen' = [seen EXCEPT ![r] = held]
          ELSE Goto(r, "failing") /\ UNCHANGED seen
     \/ Listed(NoSubId) = {} /\ Goto(r, "failing") /\ UNCHANGED seen
     \/ "oracle" \in Faults /\ Goto(r, "failing") /\ UNCHANGED seen
  /\ UNCHANGED <<req, held, acted, told, lost>>

\* Mutant: an empty list ends the handler without a callback.
GetParticipantsSilently(r) ==
  /\ pc[r] = "oracle" /\ req[r].op = "GET"
  /\ \/ Listed(req[r].sub) # {} /\ Goto(r, "reply")
     \/ Listed(req[r].sub) = {} /\ Goto(r, "done")
     \/ "oracle" \in Faults /\ Goto(r, "failing")
  /\ UNCHANGED <<req, held, seen, acted, told, lost>>

\* getParticipantsByTypeAndID.
GetParticipants(r) ==
  /\ pc[r] = "oracle" /\ req[r].op = "GET"
  /\ \/ Listed(req[r].sub) # {} /\ Goto(r, "reply")
     \/ Listed(req[r].sub) = {} /\ Goto(r, "deny")
     \/ "oracle" \in Faults /\ Goto(r, "failing")
  /\ UNCHANGED <<req, held, seen, acted, told, lost>>

\* The oracle carries out a write; the answer may get lost after that, and
\* "unfit" answers are no success to the handler although the oracle acted.
OracleWrites(r, records, unfit) ==
  /\ \/ /\ held' = records
        /\ acted' = [acted EXCEPT ![r] = TRUE]
        /\ \/ Goto(r, "reply") /\ UNCHANGED lost
           \/ /\ "oracle" \in Faults
              /\ \E step \in {"failing"} \cup unfit : Goto(r, step)
              /\ lost' = [lost EXCEPT ![r] = @ \cup {"oracle"}]
     \/ /\ "oracle" \in Faults
        /\ Goto(r, "failing")
        /\ UNCHANGED <<held, acted, lost>>
  /\ UNCHANGED <<req, seen, told>>

Registered(r) == [held EXCEPT ![req[r].sub] = req[r].fsp]

\* putParticipantsByTypeAndID: without data in the answer it is an error.
PutParticipants(r) ==
  /\ pc[r] = "oracle" /\ req[r].op = "PUT"
  /\ OracleWrites(r, Registered(r), {"deny"})

\* Mutant: the status of the oracle's answer is not looked at.
PostParticipantsUnchecked(r) ==
  /\ pc[r] = "oracle" /\ req[r].op = "POST"
  /\ Goto(r, "reply")
  /\ UNCHANGED <<req, held, seen, acted, told, lost>>

\* postParticipants: any status but 201 is an error.
PostParticipants(r) ==
  /\ pc[r] = "oracle" /\ req[r].op = "POST"
  /\ OracleWrites(r, Registered(r), {"deny"})

\* deleteParticipants: the URL has no {SubId}, so every record goes; no answer
\* at all is an error.
DeleteParticipants(r) ==
  /\ pc[r] = "oracle" /\ req[r].op = "DELETE"
  /\ OracleWrites(r, [p \in Part |-> None], {"deny"})

-----------------------------------------------------------------------------
(***************************************************************************)
(* Callbacks: not sent, or delivered without the answer arriving, both     *)
(* reach the handler as an exception.                                      *)
(***************************************************************************)
Deliver(r, to, verdict, fails) ==
  LET callback == [of |-> r, to |-> to, verdict |-> verdict] IN
  /\ \/ told' = told \cup {callback} /\ Goto(r, "done") /\ UNCHANGED lost
     \/ /\ "callback" \in Faults
        /\ Goto(r, fails)
        /\ \/ UNCHANGED told /\ lost' = [lost EXCEPT ![r] = @ \cup {"unsent"}]
           \/ /\ told' = told \cup {callback}
              /\ lost' = [lost EXCEPT ![r] = @ \cup {"callback"}]
  /\ UNCHANGED <<req, held, seen, acted>>

\* Mutant: without a destination header a result goes nowhere.
RecipientByHeader(call) ==
  IF call.op \in {"GET", "DELETE"} THEN call.source ELSE call.dest

\* GET and DELETE answer the requester; PUT and POST the destination header
\* or else the DFSP named in the body; an error callback goes on to its
\* destination.
Recipient(call) ==
  CASE call.op \in {"GET", "DELETE"} -> call.source
    [] call.dest # None -> call.dest
    [] OTHER -> call.fsp

\* Mutant: after the success callback the handler goes on to the error one.
ReplyFallingThrough(r) ==
  /\ pc[r] = "reply"
  /\ told' = told \cup {[of |-> r, to |-> Recipient(req[r]), verdict |-> "success"]}
  /\ Goto(r, "deny")
  /\ UNCHANGED <<req, held, seen, acted, lost>>

\* sendRequest of the result.
Reply(r) ==
  /\ pc[r] = "reply"
  /\ Deliver(r, Recipient(req[r]),
             IF req[r].op = "ERROR" THEN "relayed" ELSE "success", "failing")

\* sendErrorToParticipant in the course of a handler.
Deny(r) == pc[r] = "deny" /\ Deliver(r, req[r].source, "error", "failing")

\* The catch block of a handler.
ReportFailure(r) ==
  pc[r] = "failing" /\ Deliver(r, req[r].source, "error", "mute")

-----------------------------------------------------------------------------
Accept(r) ==
  \/ AcceptGet(r) \/ AcceptPut(r) \/ AcceptPost(r) \/ AcceptDelete(r)
  \/ AcceptSubId(r) \/ AcceptError(r)

AskOracle(r) ==
  \/ ValidatePartyDeletion(r) \/ GetParticipants(r) \/ PutParticipants(r)
  \/ PostParticipants(r) \/ DeleteParticipants(r)

CallBack(r) == Reply(r) \/ Deny(r) \/ ReportFailure(r)

Next ==
  \E r \in Request :
    \/ Accept(r) \/ CheckParticipant(r) \/ PutParticipantsError(r)
    \/ AskOracle(r) \/ CallBack(r)

Spec == Init /\ [][Next]_vars
-----------------------------------------------------------------------------
(***************************************************************************)
(* Properties.                                                             *)
(***************************************************************************)
ToldOf(r) == {t \in told : t.of = r}

Writes == {"PUT", "POST", "DELETE"}

OneOf(r) == "callback" \notin lost[r] => \A t, u \in ToldOf(r) : t = u

TrueOf(r) == \A t \in ToldOf(r) : req[r].op \in Writes =>
  /\ t.verdict = "success" => acted[r]
  /\ t.verdict = "error" /\ lost[r] = {} => ~acted[r]

\* The outcome of a request is reported once, to one participant, unless the
\* answer to a delivered callback was lost and the handler took it for failed.
OneVerdict == \A r \in Request : OneOf(r)

\* Who is told that a party was registered, changed or deleted can rely on it;
\* who is told of an error can rely on the contrary, unless the answer of the
\* oracle or of a callback was lost on the way.
VerdictIsTrue == \A r \in Request : TrueOf(r)

\* A requester whose request was accepted and is finished with hears of it,
\* unless the result went to another participant the request names, the error
\* callback failed too, or the path of a GET was malformed.
RequesterHears ==
  \A r \in Request :
    /\ pc[r] \in {"done", "mute", "thrown"}
    /\ \A t \in ToldOf(r) : t.to # req[r].source
    => \/ \E t \in ToldOf(r) : t.to \in {req[r].dest, req[r].fsp}
       \/ pc[r] = "mute" /\ "unsent" \in lost[r]
       \/ pc[r] = "thrown" /\ req[r].op = "GET"

Deletes(r) == req[r] # None /\ req[r].op = "DELETE" /\ ~acted[r] /\ acted'[r]

\* With validation on, an oracle deletes the records of a party only for a DFSP
\* it has named as an owner of the party to that very request, whatever other
\* requests have made of the records before and since.
DeletionIsValidated ==
  [][ValidateDelete => \A r \in Request :
       Deletes(r) => \E p \in Part : seen[r][p] = req[r].source]_vars
-----------------------------------------------------------------------------
Registry == INSTANCE PartyRegistry

\* Whatever the requests do at once and whatever fails, each takes effect at most
\* once and before anybody is told, and only what the service cannot know makes
\* it contradict itself.
KeepsRegistry == Registry!Spec
=============================================================================
