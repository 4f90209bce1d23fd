-------------------------- MODULE Participants_proofs --------------------------
(***************************************************************************)
(* What Participants guarantees for every set of participants, SubIds and  *)
(* requests, every combination of faults and both settings of              *)
(* DELETE_PARTICIPANT_VALIDATION_ENABLED.                                  *)
(***************************************************************************)
EXTENDS Participants, TLAPS

\* Where the handler of an operation can start.
Starts(op) == {"ledger", "failing", "deny", "refused"}
                \cup {pcs \in {"thrown"} : op = "GET"}

\* Types, with the request of every handler that was started.
Begun == \A r \in Request : pc[r] # "idle" => req[r] \in Call

TypeInv == TypeOK /\ Begun

\* A result goes to a participant the request names.
LEMMA RecipientNamed ==
  ASSUME NEW c \in Call
  PROVE  /\ Recipient(c) \in Dfsp
         /\ Recipient(c) \in {c.source, c.dest, c.fsp}
BY DEF Call, Recipient

\* Moving one handler on keeps the table of program counters typed.
LEMMA GotoTyped ==
  ASSUME TypeInv, NEW r \in Request, NEW step \in Pc, Goto(r, step),
         pc[r] # "idle", UNCHANGED req
  PROVE  pc' \in [Request -> Pc] /\ Begun'
BY DEF TypeInv, TypeOK, Begun, Goto

\* Every initial state is typed.
LEMMA TypeInit == Init => TypeInv
BY DEF Init, TypeInv, TypeOK, Begun, Pc, Records

\* Starting the handler of a request stores the request.
LEMMA BeginTyped ==
  ASSUME TypeInv, NEW r \in Request, NEW c \in Call, NEW steps \in SUBSET Pc,
         Begin(r, c, steps)
  PROVE  TypeInv'
<1>1. PICK step \in Pc : pc' = [pc EXCEPT ![r] = step]
  BY DEF Begin
<1>2. req' \in [Request -> Call \cup {None}]
  BY DEF Begin, TypeInv, TypeOK
<1>3. Begun'
  BY <1>1 DEF Begin, Begun, TypeInv, TypeOK
<1>4. pc' \in [Request -> Pc]
  BY <1>1 DEF TypeInv, TypeOK
<1> QED
  BY <1>2, <1>3, <1>4 DEF Begin, TypeInv, TypeOK, Begun

\* What a client can send is a request, and its handler starts somewhere.
LEMMA RequestsTyped ==
  /\ \A op \in {"GET", "PUT", "POST", "DELETE", "ERROR"} :
       FirstSteps(op) \in SUBSET Starts(op)
  /\ \A op \in {"GET", "DELETE"}, s \in Dfsp, p \in Part :
       Ask(op, s, p) \in Call /\ Ask(op, s, p).op = op
  /\ \A op \in {"PUT", "POST", "ERROR"}, s, f \in Dfsp, p \in Part :
       \A d \in Dfsp \cup {None} :
         Register(op, s, f, d, p) \in Call /\ Register(op, s, f, d, p).op = op
<1>1. \A op \in {"GET", "PUT", "POST", "DELETE", "ERROR"} :
        FirstSteps(op) \in SUBSET Starts(op)
  BY DEF FirstSteps, AfterBadPath, Starts
<1>2. \A op \in {"GET", "DELETE"}, s \in Dfsp, p \in Part :
        Ask(op, s, p) \in Call /\ Ask(op, s, p).op = op
  BY DEF Ask, Call
<1>3. \A op \in {"PUT", "POST", "ERROR"}, s, f \in Dfsp, p \in Part :
        \A d \in Dfsp \cup {None} :
          Register(op, s, f, d, p) \in Call /\ Register(op, s, f, d, p).op = op
  BY DEF Register, Call
<1> QED
  BY <1>1, <1>2, <1>3

\* Every way to accept a request starts the handler of some request.
LEMMA AcceptBegins ==
  ASSUME NEW r \in Request, Accept(r)
  PROVE  \E c \in Call : \E steps \in SUBSET Starts(c.op) : Begin(r, c, steps)
<1> USE RequestsTyped
<1>1. NoSubId \in Part /\ SubId \subseteq Part
  BY DEF Part
<1>2. \A f \in Dfsp : Destinations(f) \subseteq Dfsp \cup {None}
  BY DEF Destinations
<1>3. CASE AcceptGet(r)
  BY <1>1, <1>3 DEF AcceptGet
<1>4. CASE AcceptPut(r)
  BY <1>1, <1>2, <1>4 DEF AcceptPut
<1>5. CASE AcceptPost(r)
  <2>1. FirstSteps("POST") \cup {pcs \in {"refused"} : "ledger" \in Faults}
          \in SUBSET Starts("POST")
    BY DEF Starts
  <2> QED
    BY <1>1, <1>2, <1>5, <2>1 DEF AcceptPost
<1>6. CASE AcceptDelete(r)
  BY <1>1, <1>6 DEF AcceptDelete
<1>7. CASE AcceptSubId(r)
  <2>1. PICK s \in Dfsp, p \in SubId :
          \/ \E op \in {"GET", "DELETE"} : Begin(r, Ask(op, s, p), FirstSteps(op))
          \/ \E op \in {"PUT", "POST"}, f \in Dfsp : \E d \in Destinations(f) :
               Begin(r, Register(op, s, f, d, p), FirstSteps(op))
    BY <1>7 DEF AcceptSubId
  <2>2. ASSUME NEW op \in {"GET", "DELETE"}, Begin(r, Ask(op, s, p), FirstSteps(op))
        PROVE  \E c \in Call : \E steps \in SUBSET Starts(c.op) : Begin(r, c, steps)
    BY <1>1, <2>2
  <2>3. ASSUME NEW op \in {"PUT", "POST"}, NEW f \in Dfsp, NEW d \in Destinations(f),
               Begin(r, Register(op, s, f, d, p), FirstSteps(op))
        PROVE  \E c \in Call : \E steps \in SUBSET Starts(c.op) : Begin(r, c, steps)
    BY <1>1, <1>2, <2>3
  <2> QED
    BY <2>1, <2>2, <2>3
<1>8. CASE AcceptError(r)
  BY <1>1, <1>8 DEF AcceptError
<1> QED
  BY <1>3, <1>4, <1>5, <1>6, <1>7, <1>8 DEF Accept

\* Before the oracle acts nothing has happened, and nobody is told anything
\* before a callback is tried; a handler not done has told only what it
\* mistook for a failure.
Fresh(r) ==
  /\ pc[r] \in {"idle", "ledger", "check", "oracle"} => lost[r] = {} /\ ~acted[r]
  /\ pc[r] \in {"idle", "ledger", "check", "oracle", "reply", "deny"} => ToldOf(r) = {}
  /\ pc[r] # "done" /\ "callback" \notin lost[r] => ToldOf(r) = {}

\* A handler about to report stands where the oracle's action puts it.
Honest(r) == pc[r] # "idle" /\ req[r].op \in Writes =>
  /\ pc[r] = "reply" => acted[r]
  /\ pc[r] \in {"deny", "failing"} /\ lost[r] = {} => ~acted[r]

\* Who was told, and how a handler came to its end.
Heard(r) ==
  /\ \A t \in ToldOf(r) : t.to \in {req[r].source, req[r].dest, req[r].fsp}
  /\ pc[r] = "done" => ToldOf(r) # {}
  /\ pc[r] = "mute" => "unsent" \in lost[r] \/ ToldOf(r) # {}
  /\ pc[r] = "thrown" => req[r].op = "GET"

\* A deletion that comes to the oracle read a record of the requester's.
Validated(r) ==
  ValidateDelete /\ pc[r] = "oracle" /\ req[r].op = "DELETE" =>
    seen[r] \in Records /\ \E p \in Part : seen[r][p] = req[r].source

ReqInv(r) ==
  /\ Fresh(r) /\ OneOf(r) /\ Honest(r) /\ TrueOf(r) /\ Heard(r) /\ Validated(r)

RequestsInv == \A r \in Request : ReqInv(r)

-----------------------------------------------------------------------------
\* The steps of a handler that change nothing but where it stands.
LEMMA MoveKeeps ==
  ASSUME TypeInv, NEW r \in Request, NEW step \in Pc, Goto(r, step),
         pc[r] # "idle", UNCHANGED <<req, acted, told, lost>>
  PROVE  /\ pc'[r] = step
         /\ ToldOf(r)' = ToldOf(r)
         /\ pc' \in [Request -> Pc] /\ Begun'
<1>1. pc' \in [Request -> Pc] /\ Begun'
  BY GotoTyped
<1>2. pc'[r] = step
  BY DEF TypeInv, TypeOK, Goto
<1> QED
  BY <1>1, <1>2 DEF ToldOf

\* Accepting a request.
LEMMA AcceptKeeps ==
  ASSUME TypeInv, NEW r \in Request, ReqInv(r), Accept(r)
  PROVE  TypeInv' /\ ReqInv(r)'
<1>1. PICK c \in Call : \E steps \in SUBSET Starts(c.op) : Begin(r, c, steps)
  BY AcceptBegins
<1>2. PICK steps \in SUBSET Starts(c.op) : Begin(r, c, steps)
  BY <1>1
<1>3. steps \in SUBSET Pc
  BY DEF Starts, Pc
<1>4. TypeInv'
  BY <1>2, <1>3, BeginTyped
<1>5. /\ pc[r] = "idle" /\ pc'[r] \in Starts(c.op) /\ req'[r] = c
      /\ UNCHANGED <<acted, told, lost>> /\ ToldOf(r)' = ToldOf(r)
  BY <1>2 DEF Begin, TypeInv, TypeOK, ToldOf
<1>6. lost[r] = {} /\ ~acted[r] /\ ToldOf(r) = {}
  BY <1>5 DEF ReqInv, Fresh
<1> QED
  BY <1>4, <1>5, <1>6 DEF ReqInv, Fresh, OneOf, Honest, TrueOf, Heard, Validated, Starts

\* The check of the requester, and the destination of an error callback.
LEMMA LedgerKeeps ==
  ASSUME TypeInv, NEW r \in Request, ReqInv(r),
         CheckParticipant(r) \/ PutParticipantsError(r)
  PROVE  TypeInv' /\ ReqInv(r)'
<1>1. pc[r] = "ledger" /\ UNCHANGED <<req, held, seen, acted, told, lost>>
  BY DEF CheckParticipant, PutParticipantsError
<1>2. PICK step \in {"check", "oracle", "failing", "deny", "reply"} :
        /\ Goto(r, step)
        /\ step = "oracle" => ~(ValidateDelete /\ req[r].op = "DELETE")
        /\ step = "reply" => req[r].op = "ERROR"
  BY DEF CheckParticipant, PutParticipantsError
<1>3. step \in Pc
  BY DEF Pc
<1>4. /\ pc'[r] = step /\ ToldOf(r)' = ToldOf(r)
      /\ pc' \in [Request -> Pc] /\ Begun'
  BY <1>1, <1>2, <1>3, MoveKeeps
<1>5. TypeInv'
  BY <1>1, <1>4 DEF TypeInv, TypeOK
<1>6. lost[r] = {} /\ ~acted[r] /\ ToldOf(r) = {}
  BY <1>1 DEF ReqInv, Fresh
<1> QED
  BY <1>1, <1>2, <1>4, <1>5, <1>6
  DEF ReqInv, Fresh, OneOf, Honest, TrueOf, Heard, Validated, Writes

\* What validatePartyDeletion lists are records.
LEMMA ListedRecords == \A p : Listed(p) \subseteq Part
BY DEF Listed

\* The validation of a deletion.
LEMMA ValidationKeeps ==
  ASSUME TypeInv, NEW r \in Request, ReqInv(r), ValidatePartyDeletion(r)
  PROVE  TypeInv' /\ ReqInv(r)'
<1>1. pc[r] = "check" /\ UNCHANGED <<req, held, acted, told, lost>>
  BY DEF ValidatePartyDeletion
<1>2. \/ Goto(r, "failing") /\ UNCHANGED seen
      \/ /\ Goto(r, "oracle") /\ seen' = [seen EXCEPT ![r] = held]
         /\ \E q \in Part : held[q] = req[r].source
  BY ListedRecords DEF ValidatePartyDeletion
<1>3. PICK step \in {"oracle", "failing"} :
        /\ Goto(r, step)
        /\ step = "oracle" => /\ seen' = [seen EXCEPT ![r] = held]
                              /\ \E q \in Part : held[q] = req[r].source
        /\ step = "failing" => UNCHANGED seen
  BY <1>2
<1>4. step \in Pc
  BY DEF Pc
<1>5. /\ pc'[r] = step /\ ToldOf(r)' = ToldOf(r)
      /\ pc' \in [Request -> Pc] /\ Begun'
  BY <1>1, <1>3, <1>4, MoveKeeps
<1>6. /\ seen' \in [Request -> Records \cup {None}]
      /\ step = "oracle" => seen'[r] = held
  BY <1>3 DEF TypeInv, TypeOK
<1>7. TypeInv'
  BY <1>1, <1>5, <1>6 DEF TypeInv, TypeOK
<1>8. lost[r] = {} /\ ~acted[r] /\ ToldOf(r) = {}
  BY <1>1 DEF ReqInv, Fresh
<1>9. Validated(r)'
  BY <1>1, <1>3, <1>5, <1>6 DEF Validated, TypeInv, TypeOK
<1> QED
  BY <1>1, <1>3, <1>5, <1>7, <1>8, <1>9
  DEF ReqInv, Fresh, OneOf, Honest, TrueOf, Heard, Writes

\* A lookup at the oracle.
LEMMA GetKeeps ==
  ASSUME TypeInv, NEW r \in Request, ReqInv(r), GetParticipants(r)
  PROVE  TypeInv' /\ ReqInv(r)'
<1>1. /\ pc[r] = "oracle" /\ req[r].op = "GET"
      /\ UNCHANGED <<req, held, seen, acted, told, lost>>
  BY DEF GetParticipants
<1>2. PICK step \in {"reply", "deny", "failing"} : Goto(r, step)
  BY DEF GetParticipants
<1>3. step \in Pc
  BY DEF Pc
<1>4. /\ pc'[r] = step /\ ToldOf(r)' = ToldOf(r)
      /\ pc' \in [Request -> Pc] /\ Begun'
  BY <1>1, <1>2, <1>3, MoveKeeps
<1>5. TypeInv'
  BY <1>1, <1>4 DEF TypeInv, TypeOK
<1>6. lost[r] = {} /\ ~acted[r] /\ ToldOf(r) = {}
  BY <1>1 DEF ReqInv, Fresh
<1> QED
  BY <1>1, <1>2, <1>4, <1>5, <1>6
  DEF ReqInv, Fresh, OneOf, Honest, TrueOf, Heard, Validated, Writes

\* A write of the oracle: what the handler makes of its answer.
LEMMA WriteKeeps ==
  ASSUME TypeInv, NEW r \in Request, ReqInv(r), pc[r] = "oracle",
         NEW records \in Records, NEW unfit \in SUBSET {"deny"},
         OracleWrites(r, records, unfit)
  PROVE  TypeInv' /\ ReqInv(r)'
<1>1. UNCHANGED <<req, seen, told>>
  BY DEF OracleWrites
<1>2. lost[r] = {} /\ ~acted[r] /\ ToldOf(r) = {}
  BY DEF ReqInv, Fresh
<1>3. PICK step \in {"reply", "failing", "deny"} : Goto(r, step)
  BY DEF OracleWrites
<1>4. /\ pc' \in [Request -> Pc] /\ pc'[r] = step /\ Begun'
  BY <1>1, <1>3, GotoTyped DEF Pc, TypeInv, TypeOK, Goto
<1>5. /\ held' \in Records
      /\ acted' \in [Request -> BOOLEAN]
      /\ lost' \in [Request -> SUBSET {"oracle", "unsent", "callback"}]
  BY DEF OracleWrites, TypeInv, TypeOK
<1>6. TypeInv'
  BY <1>1, <1>4, <1>5 DEF TypeInv, TypeOK
<1>7. ToldOf(r)' = {}
  BY <1>1, <1>2 DEF ToldOf
<1>8. /\ step = "reply" => acted'[r]
      /\ step # "reply" /\ lost'[r] = {} => ~acted'[r]
  <2>1. CASE /\ acted' = [acted EXCEPT ![r] = TRUE]
             /\ \/ Goto(r, "reply") /\ UNCHANGED lost
                \/ lost' = [lost EXCEPT ![r] = @ \cup {"oracle"}]
    <3>1. acted'[r] /\ (Goto(r, "reply") \/ "oracle" \in lost'[r])
      BY <2>1 DEF TypeInv, TypeOK
    <3>2. Goto(r, "reply") => step = "reply"
      BY <1>3, <1>4 DEF TypeInv, TypeOK, Goto
    <3> QED
      BY <3>1, <3>2
  <2>2. CASE Goto(r, "failing") /\ UNCHANGED <<acted, lost>>
    BY <1>2, <1>4, <2>2 DEF TypeInv, TypeOK, Goto
  <2> QED
    BY <2>1, <2>2 DEF OracleWrites
<1> QED
  BY <1>1, <1>4, <1>6, <1>7, <1>8
  DEF ReqInv, Fresh, OneOf, Honest, TrueOf, Heard, Validated, Writes

\* Registering, changing and deleting.
LEMMA OracleKeeps ==
  ASSUME TypeInv, NEW r \in Request, ReqInv(r),
         PutParticipants(r) \/ PostParticipants(r) \/ DeleteParticipants(r)
  PROVE  TypeInv' /\ ReqInv(r)'
<1>1. pc[r] = "oracle"
  BY DEF PutParticipants, PostParticipants, DeleteParticipants
<1>2. Registered(r) \in Records /\ [p \in Part |-> None] \in Records
  BY <1>1 DEF Registered, Records, TypeInv, TypeOK, Begun, Call
<1> QED
  BY <1>1, <1>2, WriteKeeps DEF PutParticipants, PostParticipants, DeleteParticipants

\* What the participants told of a request are after a callback.
LEMMA DeliverTells ==
  ASSUME TypeInv, NEW r \in Request, NEW to \in Dfsp,
         NEW verdict \in {"success", "error", "relayed"},
         NEW fails \in {"failing", "mute"}, pc[r] # "idle",
         Deliver(r, to, verdict, fails)
  PROVE  LET callback == [of |-> r, to |-> to, verdict |-> verdict] IN
         /\ TypeInv' /\ UNCHANGED <<req, held, seen, acted>>
         /\ \/ /\ ToldOf(r)' = ToldOf(r) \cup {callback}
               /\ pc'[r] = "done" /\ lost'[r] = lost[r]
            \/ /\ ToldOf(r)' = ToldOf(r)
               /\ pc'[r] = fails /\ lost'[r] = lost[r] \cup {"unsent"}
            \/ /\ ToldOf(r)' = ToldOf(r) \cup {callback}
               /\ pc'[r] = fails /\ lost'[r] = lost[r] \cup {"callback"}
<1> DEFINE callback == [of |-> r, to |-> to, verdict |-> verdict]
<1>1. UNCHANGED <<req, held, seen, acted>>
  BY DEF Deliver
<1>2. PICK step \in {"done", fails} : Goto(r, step)
  BY DEF Deliver
<1>3. pc' \in [Request -> Pc] /\ Begun' /\ pc'[r] = step
  BY <1>1, <1>2, GotoTyped DEF Pc, TypeInv, TypeOK, Goto
<1>4. told' \subseteq [of : Request, to : Dfsp, verdict : {"success", "error", "relayed"}]
  BY DEF Deliver, TypeInv, TypeOK
<1>5. lost' \in [Request -> SUBSET {"oracle", "unsent", "callback"}]
  BY DEF Deliver, TypeInv, TypeOK
<1>6. TypeInv'
  BY <1>1, <1>3, <1>4, <1>5 DEF TypeInv, TypeOK
<1>7. /\ told' = told \cup {callback} => ToldOf(r)' = ToldOf(r) \cup {callback}
      /\ told' = told => ToldOf(r)' = ToldOf(r)
  BY DEF ToldOf
<1>8. \/ told' = told \cup {callback} /\ pc'[r] = "done" /\ lost'[r] = lost[r]
      \/ told' = told /\ pc'[r] = fails /\ lost'[r] = lost[r] \cup {"unsent"}
      \/ /\ told' = told \cup {callback}
         /\ pc'[r] = fails /\ lost'[r] = lost[r] \cup {"callback"}
  BY DEF Deliver, Goto, TypeInv, TypeOK
<1> QED
  BY <1>1, <1>6, <1>7, <1>8

\* A callback that is true when it is made keeps the invariant of its request.
LEMMA CallbackKeeps ==
  ASSUME TypeInv, NEW r \in Request, ReqInv(r), pc[r] \in {"reply", "deny", "failing"},
         NEW to \in Dfsp, to \in {req[r].source, req[r].dest, req[r].fsp},
         NEW verdict \in {"success", "error", "relayed"},
         NEW fails \in {"failing", "mute"},
         req[r].op \in Writes =>
           /\ verdict = "success" => acted[r]
           /\ verdict = "error" /\ lost[r] = {} => ~acted[r],
         Deliver(r, to, verdict, fails)
  PROVE  TypeInv' /\ ReqInv(r)'
<1> DEFINE callback == [of |-> r, to |-> to, verdict |-> verdict]
<1>1. /\ TypeInv' /\ UNCHANGED <<req, held, seen, acted>>
      /\ \/ /\ ToldOf(r)' = ToldOf(r) \cup {callback}
            /\ pc'[r] = "done" /\ lost'[r] = lost[r]
         \/ /\ ToldOf(r)' = ToldOf(r)
            /\ pc'[r] = fails /\ lost'[r] = lost[r] \cup {"unsent"}
         \/ /\ ToldOf(r)' = ToldOf(r) \cup {callback}
            /\ pc'[r] = fails /\ lost'[r] = lost[r] \cup {"callback"}
  BY DeliverTells
<1>2. callback.to = to /\ callback.verdict = verdict
  OBVIOUS
<1>3. "callback" \notin lost[r] => ToldOf(r) = {}
  BY DEF ReqInv, Fresh
<1> HIDE DEF callback
<1>4. Fresh(r)' /\ OneOf(r)'
  BY <1>1, <1>3 DEF Fresh, OneOf
<1>5. Honest(r)'
  BY <1>1 DEF Honest
<1>6. TrueOf(r)'
  BY <1>1, <1>2 DEF TrueOf, ReqInv
<1>7. Heard(r)'
  BY <1>1, <1>2 DEF Heard, ReqInv
<1>8. Validated(r)'
  BY <1>1 DEF Validated
<1> QED
  BY <1>1, <1>4, <1>5, <1>6, <1>7, <1>8 DEF ReqInv

\* The three callbacks of a handler.
LEMMA CallBackKeeps ==
  ASSUME TypeInv, NEW r \in Request, ReqInv(r), CallBack(r)
  PROVE  TypeInv' /\ ReqInv(r)'
<1>1. pc[r] \in {"reply", "deny", "failing"}
  BY DEF CallBack, Reply, Deny, ReportFailure
<1>2. req[r] \in Call
  BY <1>1 DEF TypeInv, Begun
<1>3. CASE Reply(r)
  <2>1. /\ Recipient(req[r]) \in Dfsp
        /\ Recipient(req[r]) \in {req[r].source, req[r].dest, req[r].fsp}
    BY <1>2, RecipientNamed
  <2>2. PICK verdict \in {"success", "relayed"} :
          Deliver(r, Recipient(req[r]), verdict, "failing")
    BY <1>3 DEF Reply
  <2>3. req[r].op \in Writes /\ verdict = "success" => acted[r]
    BY <1>3 DEF Reply, ReqInv, Honest
  <2> QED
    BY <1>1, <2>1, <2>2, <2>3, CallbackKeeps
<1>4. CASE Deny(r) \/ ReportFailure(r)
  <2>1. PICK fails \in {"failing", "mute"} : Deliver(r, req[r].source, "error", fails)
    BY <1>4 DEF Deny, ReportFailure
  <2>2. req[r].source \in Dfsp
    BY <1>2 DEF Call
  <2>3. req[r].op \in Writes /\ lost[r] = {} => ~acted[r]
    BY <1>4 DEF Deny, ReportFailure, ReqInv, Honest
  <2> QED
    BY <1>1, <2>1, <2>2, <2>3, CallbackKeeps
<1> QED
  BY <1>3, <1>4 DEF CallBack

-----------------------------------------------------------------------------
Step(r) ==
  \/ Accept(r) \/ CheckParticipant(r) \/ PutParticipantsError(r)
  \/ AskOracle(r) \/ CallBack(r)

\* A step of a request's handler keeps its invariant.
LEMMA StepKeeps ==
  ASSUME TypeInv, NEW r \in Request, ReqInv(r), Step(r)
  PROVE  TypeInv' /\ ReqInv(r)'
<1>1. CASE Accept(r)
  BY <1>1, AcceptKeeps
<1>2. CASE CheckParticipant(r) \/ PutParticipantsError(r)
  BY <1>2, LedgerKeeps
<1>3. CASE ValidatePartyDeletion(r)
  BY <1>3, ValidationKeeps
<1>4. CASE GetParticipants(r)
  BY <1>4, GetKeeps
<1>5. CASE PutParticipants(r) \/ PostParticipants(r) \/ DeleteParticipants(r)
  BY <1>5, OracleKeeps
<1>6. CASE CallBack(r)
  BY <1>6, CallBackKeeps
<1> QED
  BY <1>1, <1>2, <1>3, <1>4, <1>5, <1>6 DEF Step, AskOracle

\* A step of one handler leaves alone what the others know and have told.
LEMMA StepOfOne ==
  ASSUME TypeInv, NEW r \in Request, Step(r), NEW s \in Request, s # r
  PROVE  /\ req'[s] = req[s] /\ pc'[s] = pc[s] /\ seen'[s] = seen[s]
         /\ acted'[s] = acted[s] /\ lost'[s] = lost[s] /\ ToldOf(s)' = ToldOf(s)
<1>1. ASSUME NEW c, NEW steps, Begin(r, c, steps)
      PROVE  /\ req'[s] = req[s] /\ pc'[s] = pc[s] /\ seen'[s] = seen[s]
             /\ acted'[s] = acted[s] /\ lost'[s] = lost[s] /\ ToldOf(s)' = ToldOf(s)
  BY <1>1 DEF Begin, ToldOf, TypeInv, TypeOK
<1>2. ASSUME NEW records, NEW unfit, OracleWrites(r, records, unfit)
      PROVE  /\ req'[s] = req[s] /\ pc'[s] = pc[s] /\ seen'[s] = seen[s]
             /\ acted'[s] = acted[s] /\ lost'[s] = lost[s] /\ ToldOf(s)' = ToldOf(s)
  BY <1>2 DEF OracleWrites, Goto, ToldOf, TypeInv, TypeOK
<1>3. ASSUME NEW to, NEW verdict, NEW fails, Deliver(r, to, verdict, fails)
      PROVE  /\ req'[s] = req[s] /\ pc'[s] = pc[s] /\ seen'[s] = seen[s]
             /\ acted'[s] = acted[s] /\ lost'[s] = lost[s] /\ ToldOf(s)' = ToldOf(s)
  <2> DEFINE callback == [of |-> r, to |-> to, verdict |-> verdict]
  <2>1. told' = told \/ told' = told \cup {callback}
    BY <1>3 DEF Deliver
  <2>2. ToldOf(s)' = ToldOf(s)
    BY <2>1 DEF ToldOf
  <2>3. UNCHANGED <<req, seen, acted>> /\ pc'[s] = pc[s] /\ lost'[s] = lost[s]
    BY <1>3 DEF Deliver, Goto, TypeInv, TypeOK
  <2> QED
    BY <2>2, <2>3
<1>4. CASE Accept(r)
  BY <1>1, <1>4, AcceptBegins
<1>5. CASE CheckParticipant(r) \/ PutParticipantsError(r) \/ GetParticipants(r)
  BY <1>5 DEF CheckParticipant, PutParticipantsError, GetParticipants, Goto, ToldOf,
              TypeInv, TypeOK
<1>6. CASE ValidatePartyDeletion(r)
  BY <1>6 DEF ValidatePartyDeletion, Goto, ToldOf, TypeInv, TypeOK
<1>7. CASE PutParticipants(r) \/ PostParticipants(r) \/ DeleteParticipants(r)
  BY <1>2, <1>7 DEF PutParticipants, PostParticipants, DeleteParticipants
<1>8. CASE CallBack(r)
  BY <1>3, <1>8 DEF CallBack, Reply, Deny, ReportFailure
<1> QED
  BY <1>4, <1>5, <1>6, <1>7, <1>8 DEF Step, AskOracle

\* The invariant of a request depends on that request alone.
LEMMA OthersKeep ==
  ASSUME NEW s \in Request, ReqInv(s),
         req'[s] = req[s], pc'[s] = pc[s], seen'[s] = seen[s],
         acted'[s] = acted[s], lost'[s] = lost[s], ToldOf(s)' = ToldOf(s)
  PROVE  ReqInv(s)'
BY DEF ReqInv, Fresh, OneOf, Honest, TrueOf, Heard, Validated

\* The types and the invariant of every request hold at the start ...
LEMMA InvInit == Init => TypeInv /\ RequestsInv
<1> SUFFICES ASSUME Init
             PROVE  TypeInv /\ RequestsInv
  OBVIOUS
<1>1. ASSUME NEW r \in Request
      PROVE  ReqInv(r)
  BY DEF Init, ReqInv, Fresh, OneOf, Honest, TrueOf, Heard, Validated, ToldOf
<1> QED
  BY <1>1, TypeInit DEF RequestsInv

\* ... and every step keeps them.
LEMMA InvNext == TypeInv /\ RequestsInv /\ [Next]_vars => TypeInv' /\ RequestsInv'
<1> SUFFICES ASSUME TypeInv, RequestsInv, [Next]_vars
             PROVE  TypeInv' /\ RequestsInv'
  OBVIOUS
<1>1. ASSUME NEW r \in Request, Step(r)
      PROVE  TypeInv' /\ RequestsInv'
  <2>1. TypeInv' /\ ReqInv(r)'
    BY <1>1, StepKeeps DEF RequestsInv
  <2>2. ASSUME NEW s \in Request, s # r
        PROVE  ReqInv(s)'
    BY <1>1, <2>2, StepOfOne, OthersKeep DEF RequestsInv
  <2> QED
    BY <2>1, <2>2 DEF RequestsInv
<1>2. CASE UNCHANGED vars
  <2>1. TypeInv'
    BY <1>2 DEF vars, TypeInv, TypeOK, Begun
  <2>2. ASSUME NEW s \in Request
        PROVE  ReqInv(s)'
    BY <1>2, OthersKeep DEF vars, RequestsInv, ToldOf
  <2> QED
    BY <2>1, <2>2 DEF RequestsInv
<1> QED
  BY <1>1, <1>2 DEF Next, Step

\* The variables have their types and every request its invariant, always.
THEOREM RequestsInvariant == Spec => [](TypeInv /\ RequestsInv)
<1> QED
  BY InvInit, InvNext, PTL DEF Spec

\* The variables of the /participants handlers have their types.
THEOREM TypeCorrect == Spec => []TypeOK
<1>1. TypeInv => TypeOK
  BY DEF TypeInv
<1> QED
  BY <1>1, RequestsInvariant, PTL

\* A request gets one outcome, unless a delivered callback was taken for lost:
\* no handler goes on from its success callback to an error one.
THEOREM VerdictIsUnique == Spec => []OneVerdict
<1>1. RequestsInv => OneVerdict
  BY DEF RequestsInv, ReqInv, OneVerdict
<1> QED
  BY <1>1, RequestsInvariant, PTL

\* Success means that the oracle has acted and an error that it has not, unless
\* an answer was lost on the way.
THEOREM VerdictIsReliable == Spec => []VerdictIsTrue
<1>1. RequestsInv => VerdictIsTrue
  BY DEF RequestsInv, ReqInv, VerdictIsTrue
<1> QED
  BY <1>1, RequestsInvariant, PTL

\* Whoever asked hears of the end of the request, but for the endings that
\* RequesterHears names.
THEOREM EndIsHeard == Spec => []RequesterHears
<1>1. RequestsInv => RequesterHears
  BY DEF RequestsInv, ReqInv, Heard, RequesterHears
<1> QED
  BY <1>1, RequestsInvariant, PTL

\* A deletion that the oracle carries out was validated against records of
\* which one was the requester's.
LEMMA DeletionStep ==
  ASSUME TypeInv, RequestsInv, [Next]_vars, ValidateDelete, NEW r \in Request, Deletes(r)
  PROVE  \E p \in Part : seen[r][p] = req[r].source
<1>1. PICK s \in Request : Step(s)
  BY DEF Next, Step, Deletes, vars
<1>2. s = r
  BY <1>1, StepOfOne DEF Deletes
<1>3. /\ pc[r] = "oracle" /\ req[r].op = "DELETE"
  <2>1. CASE DeleteParticipants(r)
    BY <2>1 DEF DeleteParticipants
  <2>2. CASE ~DeleteParticipants(r)
    <3>1. ~(PutParticipants(r) \/ PostParticipants(r))
      BY DEF PutParticipants, PostParticipants, Deletes
    <3>2. ~Accept(r)
      BY AcceptBegins DEF Begin, Deletes
    <3>3. ~CallBack(r)
      BY DEF CallBack, Reply, Deny, ReportFailure, Deliver, Deletes
    <3>4. ~(\/ CheckParticipant(r) \/ PutParticipantsError(r)
            \/ ValidatePartyDeletion(r) \/ GetParticipants(r))
      BY DEF CheckParticipant, PutParticipantsError, ValidatePartyDeletion,
             GetParticipants, Deletes
    <3> QED
      BY <1>1, <1>2, <2>2, <3>1, <3>2, <3>3, <3>4 DEF Step, AskOracle
  <2> QED
    BY <2>1, <2>2
<1> QED
  BY <1>3 DEF RequestsInv, ReqInv, Validated

\* With DELETE_PARTICIPANT_VALIDATION_ENABLED no deletion passes that the
\* records read for it did not justify.
THEOREM DeletionIsChecked == Spec => DeletionIsValidated
<1>1. TypeInv /\ RequestsInv /\ [Next]_vars =>
        [ValidateDelete => \A r \in Request :
           Deletes(r) => \E p \in Part : seen[r][p] = req[r].source]_vars
  BY DeletionStep
<1> QED
  BY <1>1, RequestsInvariant, PTL DEF Spec, DeletionIsValidated

-----------------------------------------------------------------------------
(***************************************************************************)
(* The handlers implement the registry.                                    *)
(***************************************************************************)
RegistryStep == [Registry!Next]_(Registry!rvars)

\* A request that was not accepted is not there.
Unstarted == \A r \in Request : pc[r] = "idle" => req[r] = None

\* No handler goes back to where requests are accepted.
LEMMA UnstartedNext ==
  ASSUME TypeInv, Unstarted, [Next]_vars
  PROVE  Unstarted'
<1>1. ASSUME NEW r \in Request, NEW step \in Pc \ {"idle"}, pc' = [pc EXCEPT ![r] = step]
      PROVE  pc'[r] # "idle"
  BY <1>1 DEF TypeInv, TypeOK
<1>2. ASSUME NEW r \in Request, Step(r)
      PROVE  pc'[r] # "idle"
  <2>1. CASE Accept(r)
    <3>1. PICK c \in Call : \E steps \in SUBSET Starts(c.op) : Begin(r, c, steps)
      BY <2>1, AcceptBegins
    <3>2. PICK step \in Starts(c.op) : pc' = [pc EXCEPT ![r] = step]
      BY <3>1 DEF Begin
    <3>3. step \in Pc \ {"idle"}
      BY <3>2 DEF Starts, Pc
    <3> QED
      BY <1>1, <3>2, <3>3
  <2>2. CASE ~Accept(r)
    <3>1. PICK step \in {"check", "oracle", "reply", "deny", "failing", "done", "mute"} :
            Goto(r, step)
      BY <1>2, <2>2
      DEF Step, CheckParticipant, PutParticipantsError, AskOracle, CallBack,
          ValidatePartyDeletion, GetParticipants, PutParticipants, PostParticipants,
          DeleteParticipants, OracleWrites, Reply, Deny, ReportFailure, Deliver
    <3>2. step \in Pc \ {"idle"}
      BY DEF Pc
    <3> QED
      BY <1>1, <3>1, <3>2 DEF Goto
  <2> QED
    BY <2>1, <2>2
<1>3. ASSUME NEW r \in Request, Step(r), NEW s \in Request
      PROVE  pc'[s] = "idle" => req'[s] = None
  <2>1. CASE s = r
    BY <1>2, <1>3, <2>1
  <2>2. CASE s # r
    BY <1>3, <2>2, StepOfOne DEF Unstarted
  <2> QED
    BY <2>1, <2>2
<1>4. CASE UNCHANGED vars
  BY <1>4 DEF vars, Unstarted
<1> QED
  BY <1>3, <1>4 DEF Next, Step, Unstarted

\* Accepting a request submits it.
LEMMA AcceptSubmits ==
  ASSUME TypeInv, Unstarted, NEW r \in Request, Accept(r)
  PROVE  Registry!Submit(r)
<1>1. PICK c \in Call : \E steps \in SUBSET Starts(c.op) : Begin(r, c, steps)
  BY AcceptBegins
<1>2. /\ req[r] = None /\ req' = [req EXCEPT ![r] = c] /\ req'[r] = c
      /\ UNCHANGED <<held, acted, told, lost>>
  BY <1>1 DEF Begin, Unstarted, TypeInv, TypeOK
<1> QED
  BY <1>2 DEF Registry!Submit

\* The oracle's write is where a request takes effect, if it does.
LEMMA WriteTakesEffect ==
  ASSUME TypeInv, NEW r \in Request, ReqInv(r),
         PutParticipants(r) \/ PostParticipants(r) \/ DeleteParticipants(r)
  PROVE  Registry!TakeEffect(r) \/ UNCHANGED Registry!rvars
<1>1. /\ pc[r] = "oracle" /\ req[r].op \in {"PUT", "POST", "DELETE"}
      /\ req[r] \in Call
  BY DEF PutParticipants, PostParticipants, DeleteParticipants, TypeInv, Begun
<1>2. ~acted[r] /\ ToldOf(r) = {}
  BY <1>1 DEF ReqInv, Fresh
<1>3. PICK unfit \in SUBSET {"deny"} : OracleWrites(r, Registry!Effect(req[r]), unfit)
  BY DEF PutParticipants, PostParticipants, DeleteParticipants, Registered, Registry!Effect
<1>4. \/ /\ held' = Registry!Effect(req[r])
         /\ acted' = [acted EXCEPT ![r] = TRUE]
         /\ UNCHANGED lost \/ Registry!Lose(r, "oracle")
      \/ UNCHANGED <<held, acted, lost>>
  BY <1>3 DEF OracleWrites, Registry!Lose
<1>5. UNCHANGED <<req, told>>
  BY <1>3 DEF OracleWrites
<1> QED
  BY <1>1, <1>2, <1>4, <1>5
     DEF ToldOf, Registry!Answers, Registry!TakeEffect, Registry!rvars

\* A callback that is true when it is made tells what the registry would.
LEMMA DeliverIsTold ==
  ASSUME NEW r \in Request, ReqInv(r), pc[r] \in {"reply", "deny", "failing"},
         NEW to, NEW verdict, NEW fails, Deliver(r, to, verdict, fails),
         req[r] \in Call, Registry!Believable(r, verdict),
         to \in IF verdict = "error" THEN {req[r].source}
                ELSE {req[r].source, req[r].dest, req[r].fsp} \ {None}
  PROVE  Registry!Tell(r, to, verdict) \/ Registry!FailToTell(r)
<1>1. Registry!Answers(r) = {} \/ "callback" \in lost[r]
  BY DEF ReqInv, Fresh, ToldOf, Registry!Answers
<1>2. UNCHANGED <<req, held, acted>>
  BY DEF Deliver
<1>3. \/ /\ told' = told \cup {[of |-> r, to |-> to, verdict |-> verdict]}
         /\ UNCHANGED lost \/ Registry!Lose(r, "callback")
      \/ UNCHANGED told /\ Registry!Lose(r, "unsent")
  BY DEF Deliver, Registry!Lose
<1> QED
  BY <1>1, <1>2, <1>3 DEF Registry!Tell, Registry!FailToTell

LEMMA CallBackIsTold ==
  ASSUME TypeInv, NEW r \in Request, ReqInv(r), CallBack(r)
  PROVE  RegistryStep
<1>1. pc[r] \in {"reply", "deny", "failing"}
  BY DEF CallBack, Reply, Deny, ReportFailure
<1>2. req[r] \in Call /\ req[r].source \in Dfsp
  BY <1>1 DEF TypeInv, Begun, Call
<1>3. ASSUME NEW to \in Dfsp, NEW verdict \in {"success", "error", "relayed"},
             Registry!Tell(r, to, verdict) \/ Registry!FailToTell(r)
      PROVE  RegistryStep
  BY <1>3 DEF RegistryStep, Registry!Next
<1>4. CASE Reply(r)
  <2>1. PICK verdict \in {"success", "relayed"} :
          /\ Deliver(r, Recipient(req[r]), verdict, "failing")
          /\ verdict = "success" => pc[r] = "reply"
    BY <1>4 DEF Reply
  <2>2. Registry!Believable(r, verdict)
    BY <1>1, <2>1 DEF ReqInv, Honest, Writes, Registry!Believable
  <2>3. /\ Recipient(req[r]) \in Dfsp
        /\ Recipient(req[r]) \in {req[r].source, req[r].dest, req[r].fsp} \ {None}
    BY <1>2, RecipientNamed, NoneAssumption
  <2>4. Registry!Tell(r, Recipient(req[r]), verdict) \/ Registry!FailToTell(r)
    BY <1>1, <1>2, <2>1, <2>2, <2>3, DeliverIsTold
  <2> QED
    BY <1>3, <2>3, <2>4
<1>5. CASE Deny(r) \/ ReportFailure(r)
  <2>1. PICK fails \in {"failing", "mute"} : Deliver(r, req[r].source, "error", fails)
    BY <1>5 DEF Deny, ReportFailure
  <2>2. Registry!Believable(r, "error")
    BY <1>5 DEF Deny, ReportFailure, ReqInv, Honest, Writes, Registry!Believable
  <2>3. Registry!Tell(r, req[r].source, "error") \/ Registry!FailToTell(r)
    BY <1>1, <1>2, <2>1, <2>2, DeliverIsTold
  <2> QED
    BY <1>2, <1>3, <2>3
<1> QED
  BY <1>4, <1>5 DEF CallBack

\* Every step of every handler is one of the registry or none.
LEMMA RegistrySimulation ==
  ASSUME TypeInv, RequestsInv, Unstarted, [Next]_vars
  PROVE  RegistryStep
<1>1. ASSUME UNCHANGED <<req, held, acted, told, lost>> PROVE RegistryStep
  BY <1>1 DEF RegistryStep, Registry!rvars
<1>2. ASSUME NEW r \in Request, Step(r) PROVE RegistryStep
  <2>1. CASE Accept(r)
    BY <2>1, AcceptSubmits DEF RegistryStep, Registry!Next
  <2>2. CASE \/ CheckParticipant(r) \/ PutParticipantsError(r)
             \/ ValidatePartyDeletion(r) \/ GetParticipants(r)
    BY <1>1, <2>2
       DEF CheckParticipant, PutParticipantsError, ValidatePartyDeletion, GetParticipants
  <2>3. CASE PutParticipants(r) \/ PostParticipants(r) \/ DeleteParticipants(r)
    BY <2>3, WriteTakesEffect DEF RequestsInv, RegistryStep, Registry!Next
  <2>4. CASE CallBack(r)
    BY <2>4, CallBackIsTold DEF RequestsInv
  <2> QED
    BY <1>2, <2>1, <2>2, <2>3, <2>4 DEF Step, AskOracle
<1>3. CASE UNCHANGED vars
  BY <1>1, <1>3 DEF vars
<1> QED
  BY <1>2, <1>3 DEF Next, Step

\* However the requests for a party interleave and whatever calls fail, each
\* takes effect at most once, at one moment before anybody is told, and what is
\* told is what the service can know.
THEOREM RequestsImplementRegistry == Spec => KeepsRegistry
<1>1. Init => Registry!Init /\ Unstarted
  BY DEF Init, Registry!Init, Records, Unstarted
<1>2. TypeInv /\ Unstarted /\ [Next]_vars => Unstarted'
  BY UnstartedNext
<1>3. TypeInv /\ RequestsInv /\ Unstarted /\ [Next]_vars => [Registry!Next]_(Registry!rvars)
  BY RegistrySimulation DEF RegistryStep
<1> QED
  BY <1>1, <1>2, <1>3, RequestsInvariant, PTL DEF Spec, KeepsRegistry, Registry!Spec
=============================================================================
