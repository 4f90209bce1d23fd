--------------------------- MODULE PartyRegistry ---------------------------
(***************************************************************************)
(* What the /participants requests promise: a registry in which a request  *)
(* takes effect at most once, in one step between its acceptance and the   *)
(* first callback about it, and callbacks say whether it has.  The         *)
(* handlers, the ledger and the order of their calls are left out; what is *)
(* left of failures is which answers were lost, that is, what the service  *)
(* cannot know.                                                            *)
(***************************************************************************)
CONSTANTS Request, Call, Part, Dfsp, None

VARIABLES
  req,    \* req[r]: what was asked, once accepted
  held,   \* the owner of each record
  acted,  \* acted[r]: r has taken effect
  told,   \* callbacks
  lost    \* lost[r]: calls for r whose outcome remained unknown, or that failed

rvars == <<req, held, acted, told, lost>>

Init ==
  /\ req = [r \in Request |-> None]
  /\ held \in [Part -> Dfsp \cup {None}]
  /\ acted = [r \in Request |-> FALSE]
  /\ told = {}
  /\ lost = [r \in Request |-> {}]

Answers(r) == {t \in told : t.of = r}

Lose(r, call) == lost' = [lost EXCEPT ![r] = @ \cup {call}]

\* A request is accepted once and not replaced.
Submit(r) ==
  /\ req[r] = None /\ req'[r] \in Call
  /\ req' = [req EXCEPT ![r] = req'[r]]
  /\ UNCHANGED <<held, acted, told, lost>>

\* A registration or a change sets one record, a deletion clears all.
Effect(c) ==
  IF c.op = "DELETE" THEN [p \in Part |-> None] ELSE [held EXCEPT ![c.sub] = c.fsp]

\* Nothing but this changes a record; after a callback it is too late.
TakeEffect(r) ==
  /\ ~acted[r] /\ acted' = [acted EXCEPT ![r] = TRUE]
  /\ req[r] \in Call /\ req[r].op \in {"PUT", "POST", "DELETE"}
  /\ Answers(r) = {}
  /\ held' = Effect(req[r])
  /\ UNCHANGED lost \/ Lose(r, "oracle")
  /\ UNCHANGED <<req, told>>

\* Success only after the effect, an error only without it as far as known.
Believable(r, verdict) == req[r].op \in {"PUT", "POST", "DELETE"} =>
  /\ verdict = "success" => acted[r]
  /\ verdict = "error" => ~acted[r] \/ lost[r] # {}

\* One callback, or another one after the answer to the first was lost; errors
\* are for the requester.
Tell(r, to, verdict) ==
  /\ told' = told \cup {[of |-> r, to |-> to, verdict |-> verdict]}
  /\ Answers(r) = {} \/ "callback" \in lost[r]
  /\ req[r] \in Call /\ Believable(r, verdict)
  /\ to \in IF verdict = "error" THEN {req[r].source}
            ELSE {req[r].source, req[r].dest, req[r].fsp} \ {None}
  /\ UNCHANGED lost \/ Lose(r, "callback")
  /\ UNCHANGED <<req, held, acted>>

FailToTell(r) == Lose(r, "unsent") /\ UNCHANGED <<req, held, acted, told>>

Next == \E r \in Request :
  \/ Submit(r) \/ TakeEffect(r) \/ FailToTell(r)
  \/ \E to \in Dfsp, verdict \in {"success", "error", "relayed"} : Tell(r, to, verdict)

Spec == Init /\ [][Next]_rvars
=============================================================================
