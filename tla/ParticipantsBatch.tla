-------------------------- MODULE ParticipantsBatch --------------------------
(***************************************************************************)
(* POST /participants: a DFSP registers a list of parties at once.  The    *)
(* service sorts the list by identifier type, has the oracle of one type   *)
(* after the other store its parties, collects one entry per party and     *)
(* sends the collected list to the requester or to the destination its     *)
(* header names.  An exception on the way throws the list away and becomes *)
(* one error callback for the whole batch.                                 *)
(***************************************************************************)
CONSTANTS
  Party,   \* parties that can be listed
  IdType,  \* identifier types the service knows
  Batch,   \* requests received
  Faults,  \* what may go wrong
  Foreign, \* a party with the fspId of another DFSP
  BadType  \* a party of a type the service does not know

ASSUME FaultAssumption == Faults \subseteq {"ledger", "oracle", "partial", "callback"}
ASSUME KindAssumption  == Foreign \notin IdType /\ BadType \notin IdType

Pc == {"idle", "ledger", "oracles", "failing", "done", "mute"}

VARIABLES
  kind,   \* kind[p]: the type of a party, or why it is not registered
  stored, \* the oracles: the parties they hold
  pc,     \* pc[b]: where the handler of batch b stands
  list,   \* list[b]: the parties of its partyList
  todo,   \* todo[b]: the types of typeMap whose oracle is still to be asked
  entry,  \* entry[b][p]: the entries for p in overallReturnList
  wrote,  \* wrote[b]: parties the oracles stored for b (history)
  blind,  \* blind[b]: parties with an outcome b was not told (history)
  told    \* told[b]: the callbacks delivered (history)

oracleVars == <<stored, todo, entry, wrote, blind>>
vars == <<kind, stored, pc, list, todo, entry, wrote, blind, told>>

TypeOK ==
  /\ kind \in [Party -> IdType \cup {Foreign, BadType}]
  /\ stored \subseteq Party
  /\ pc \in [Batch -> Pc]
  /\ list \in [Batch -> SUBSET Party]
  /\ todo \in [Batch -> SUBSET IdType]
  /\ entry \in [Batch -> [Party -> SUBSET {"stored", "error"}]]
  /\ wrote \in [Batch -> SUBSET Party]
  /\ blind \in [Batch -> SUBSET Party]
  /\ told \in [Batch -> SUBSET {"list", "error"}]

Init ==
  /\ kind \in [Party -> IdType \cup {Foreign, BadType}]
  /\ stored = {}
  /\ pc = [b \in Batch |-> "idle"]
  /\ list = [b \in Batch |-> {}]
  /\ todo = [b \in Batch |-> {}]
  /\ entry = [b \in Batch |-> [p \in Party |-> {}]]
  /\ wrote = [b \in Batch |-> {}]
  /\ blind = [b \in Batch |-> {}]
  /\ told = [b \in Batch |-> {}]

Goto(b, step) == pc' = [pc EXCEPT ![b] = step]

-----------------------------------------------------------------------------
\* The API layer acknowledges the request and starts the handler.
Accept(b) ==
  /\ pc[b] = "idle"
  /\ Goto(b, "ledger")
  /\ \E parties \in SUBSET Party \ {{}} : list' = [list EXCEPT ![b] = parties]
  /\ UNCHANGED <<kind, oracleVars, told>>

\* Mutant: a party of another DFSP keeps a place in typeMap.
TypeMapOfAll(b) == {kind[p] : p \in list[b]} \ {BadType}

\* Types of the listed parties the requester may register, with an oracle each.
TypeMap(b) == {kind[p] : p \in list[b]} \ {Foreign, BadType}

\* pushPartyError for the parties that are not passed to an oracle.
Rejected(b) ==
  [p \in Party |-> IF p \in list[b] /\ kind[p] \in {Foreign, BadType}
                   THEN {"error"} ELSE {}]

\* validateParticipant, then the list is sorted by type.
Sort(b) ==
  /\ pc[b] = "ledger"
  /\ \/ /\ Goto(b, "oracles")
        /\ todo' = [todo EXCEPT ![b] = TypeMap(b)]
        /\ entry' = [entry EXCEPT ![b] = Rejected(b)]
     \/ "ledger" \in Faults /\ Goto(b, "failing") /\ UNCHANGED <<todo, entry>>
  /\ UNCHANGED <<kind, stored, list, wrote, blind, told>>

-----------------------------------------------------------------------------
\* Mutant: parties of other DFSPs are posted along.
ListWithForeign(b, t) == {p \in list[b] : kind[p] \in {t, Foreign}}

\* The partyList posted to the oracle of type t; the service compares no two
\* parties of it, and a party listed twice is taken for one here.
ListOf(b, t) == {p \in list[b] : kind[p] = t}

\* The oracle stores parties S, a party it holds already perhaps once more.
OracleStores(b, S) ==
  /\ stored' = stored \cup S
  /\ wrote' = [wrote EXCEPT ![b] = @ \cup S]

\* Mutant: every party the oracle was sent counts as stored.
CollectAsStored(b, reported, S) ==
  entry' = [entry EXCEPT ![b] = [p \in Party |->
    IF p \in reported THEN @[p] \cup {"stored"} ELSE @[p]]]

\* The entries of an oracle's answer join the list.
Collect(b, reported, S) ==
  entry' = [entry EXCEPT ![b] = [p \in Party |->
    IF p \in reported THEN @[p] \cup {IF p \in S THEN "stored" ELSE "error"}
    ELSE @[p]]]

\* oracleBatchRequest and what is made of its answer: entries for the parties
\* it reports; an answer without entries makes all of them errors.
AskOracle(b, t) ==
  LET asked == ListOf(b, t) IN
  /\ pc[b] = "oracles" /\ t \in todo[b]
  /\ \E S \in SUBSET asked :
       /\ OracleStores(b, S)
       /\ \/ /\ Collect(b, asked, S)
             /\ UNCHANGED blind
          \/ /\ "partial" \in Faults
             /\ \E reported \in SUBSET asked \ {{}} :
                  /\ Collect(b, reported, S)
                  /\ blind' = [blind EXCEPT ![b] = @ \cup (asked \ reported)]
          \/ /\ "partial" \in Faults
             /\ Collect(b, asked, {})
             /\ blind' = [blind EXCEPT ![b] = @ \cup asked]
  /\ todo' = [todo EXCEPT ![b] = @ \ {t}]
  /\ UNCHANGED <<kind, pc, list, told>>

\* No endpoint, a refusal, or an answer that got lost after the oracle stored
\* some parties: an exception, and no further oracle is asked.
OracleFails(b, t) ==
  /\ "oracle" \in Faults
  /\ pc[b] = "oracles" /\ t \in todo[b]
  /\ Goto(b, "failing")
  /\ \E S \in SUBSET ListOf(b, t) :
       /\ OracleStores(b, S)
       /\ blind' = [blind EXCEPT ![b] = @ \cup S]
  /\ UNCHANGED <<kind, list, todo, entry, told>>

-----------------------------------------------------------------------------
\* A callback fails before or after it was delivered.
Deliver(b, callback, fails) ==
  /\ \/ told' = [told EXCEPT ![b] = @ \cup {callback}] /\ Goto(b, "done")
     \/ /\ "callback" \in Faults
        /\ Goto(b, fails)
        /\ \/ told' = [told EXCEPT ![b] = @ \cup {callback}]
           \/ UNCHANGED told
  /\ UNCHANGED <<kind, list, oracleVars>>

\* Mutant: the list is sent after the first oracle's answer.
SendListEarly(b) ==
  /\ pc[b] = "oracles"
  /\ \E p \in Party : entry[b][p] # {}
  /\ Deliver(b, "list", "failing")

\* sendRequest once every oracle was asked.
SendList(b) ==
  pc[b] = "oracles" /\ todo[b] = {} /\ Deliver(b, "list", "failing")

\* The catch block: one error for the batch.
SendError(b) == pc[b] = "failing" /\ Deliver(b, "error", "mute")

Next ==
  \E b \in Batch :
    \/ Accept(b) \/ Sort(b) \/ SendList(b) \/ SendError(b)
    \/ \E t \in IdType : AskOracle(b, t) \/ OracleFails(b, t)

Spec == Init /\ [][Next]_vars
-----------------------------------------------------------------------------
(***************************************************************************)
(* Properties.                                                             *)
(***************************************************************************)
Complete(b) == "list" \in told[b] =>
  /\ \A p \in Party : entry[b][p] # {} => p \in list[b]
  /\ \A p \in list[b] : entry[b][p] = {} => p \in blind[b]
  /\ \A p \in Party : \A x, y \in entry[b][p] : x = y

Truthful(b) == "list" \in told[b] => \A p \in Party \ blind[b] :
  "stored" \in entry[b][p] <=> p \in wrote[b]

\* The list sent back has one entry for each party of the batch and no other,
\* which calls the party registered exactly if its oracle stored it for the
\* batch, unless that oracle left the party out of its answer.
ListIsTrue == \A b \in Batch : Complete(b) /\ Truthful(b)

\* Only parties the requester owns, of a type the service knows, reach an
\* oracle, and what is stored stays: no failure of a batch undoes it.
OnlyOwnStored == \A b \in Batch :
  /\ wrote[b] \subseteq stored \cap list[b]
  /\ \A p \in wrote[b] : kind[p] \in IdType
=============================================================================
