----------------------- MODULE ParticipantsBatch_proofs -----------------------
(***************************************************************************)
(* What ParticipantsBatch guarantees for every set of parties, types and   *)
(* batches and every combination of faults.                                *)
(***************************************************************************)
EXTENDS ParticipantsBatch, TLAPS

\* Moving one batch on keeps the table of program counters typed.
LEMMA GotoTyped ==
  ASSUME TypeOK, NEW b \in Batch, NEW step \in Pc, Goto(b, step)
  PROVE  pc' \in [Batch -> Pc]
BY DEF TypeOK, Goto

\* Every initial state is typed.
LEMMA TypeInit == Init => TypeOK
BY DEF Init, TypeOK, Pc

\* What the oracles store is parties.
LEMMA StoresTyped ==
  ASSUME TypeOK, NEW b \in Batch, NEW S \in SUBSET Party, OracleStores(b, S)
  PROVE  stored' \subseteq Party /\ wrote' \in [Batch -> SUBSET Party]
BY DEF TypeOK, OracleStores

\* Collected entries are entries.
LEMMA CollectTyped ==
  ASSUME TypeOK, NEW b \in Batch, NEW reported, NEW S, Collect(b, reported, S)
  PROVE  entry' \in [Batch -> [Party -> SUBSET {"stored", "error"}]]
<1> DEFINE new(p) == {IF p \in S THEN "stored" ELSE "error"}
           row == [p \in Party |-> IF p \in reported
                                   THEN entry[b][p] \cup new(p) ELSE entry[b][p]]
<1>1. \A p \in Party : new(p) \in SUBSET {"stored", "error"}
  OBVIOUS
<1>2. row \in [Party -> SUBSET {"stored", "error"}]
  BY <1>1 DEF TypeOK
<1>3. entry' = [entry EXCEPT ![b] = row]
  BY DEF Collect
<1> QED
  BY <1>2, <1>3 DEF TypeOK

\* A callback leaves everything but the handler and the callbacks alone.
LEMMA DeliverTyped ==
  ASSUME TypeOK, NEW b \in Batch, NEW c \in {"list", "error"}, NEW f \in Pc,
         Deliver(b, c, f)
  PROVE  TypeOK'
<1>1. pc' \in [Batch -> Pc]
  BY DEF TypeOK, Deliver, Goto, Pc
<1>2. told' \in [Batch -> SUBSET {"list", "error"}]
  BY DEF TypeOK, Deliver
<1> QED
  BY <1>1, <1>2 DEF TypeOK, Deliver, oracleVars

\* Every step keeps the variables typed.
LEMMA TypeNext == TypeOK /\ [Next]_vars => TypeOK'
<1> SUFFICES ASSUME TypeOK, [Next]_vars
             PROVE  TypeOK'
  OBVIOUS
<1>1. ASSUME NEW b \in Batch, Accept(b)
      PROVE  TypeOK'
  <2>1. pc' \in [Batch -> Pc] /\ list' \in [Batch -> SUBSET Party]
    BY <1>1 DEF Accept, TypeOK, Goto, Pc
  <2> QED
    BY <1>1, <2>1 DEF Accept, TypeOK, oracleVars
<1>2. ASSUME NEW b \in Batch, Sort(b)
      PROVE  TypeOK'
  <2>1. TypeMap(b) \in SUBSET IdType
    BY DEF TypeMap, TypeOK
  <2>2. Rejected(b) \in [Party -> SUBSET {"stored", "error"}]
    BY DEF Rejected
  <2>3a. todo' \in [Batch -> SUBSET IdType]
    BY <1>2, <2>1 DEF Sort, TypeOK
  <2>3b. entry' \in [Batch -> [Party -> SUBSET {"stored", "error"}]]
    BY <1>2, <2>2 DEF Sort, TypeOK
  <2>4. pc' \in [Batch -> Pc]
    BY <1>2 DEF Sort, TypeOK, Goto, Pc
  <2> QED
    BY <1>2, <2>3a, <2>3b, <2>4 DEF Sort, TypeOK
<1>3. ASSUME NEW b \in Batch, NEW t \in IdType, AskOracle(b, t)
      PROVE  TypeOK'
  <2>1. PICK S \in SUBSET ListOf(b, t), R \in SUBSET ListOf(b, t), T \in SUBSET ListOf(b, t) :
          /\ OracleStores(b, S)
          /\ Collect(b, R, T)
          /\ \E u \in SUBSET ListOf(b, t) : blind' = [blind EXCEPT ![b] = @ \cup u]
    <3>1. PICK S \in SUBSET ListOf(b, t) :
            /\ OracleStores(b, S)
            /\ \/ Collect(b, ListOf(b, t), S) /\ UNCHANGED blind
               \/ \E R \in SUBSET ListOf(b, t) :
                    /\ Collect(b, R, S)
                    /\ blind' = [blind EXCEPT ![b] = @ \cup (ListOf(b, t) \ R)]
               \/ /\ Collect(b, ListOf(b, t), {})
                  /\ blind' = [blind EXCEPT ![b] = @ \cup ListOf(b, t)]
      BY <1>3 DEF AskOracle
    <3>2. UNCHANGED blind => blind' = [blind EXCEPT ![b] = @ \cup {}]
      BY DEF TypeOK
    <3> QED
      BY <3>1, <3>2
  <2>2. ListOf(b, t) \in SUBSET Party
    BY DEF ListOf, TypeOK
  <2>3. stored' \subseteq Party /\ wrote' \in [Batch -> SUBSET Party]
    BY <2>1, <2>2, StoresTyped
  <2>4. entry' \in [Batch -> [Party -> SUBSET {"stored", "error"}]]
    BY <2>1, CollectTyped
  <2>5. blind' \in [Batch -> SUBSET Party]
    BY <2>1, <2>2 DEF TypeOK
  <2>6. todo' \in [Batch -> SUBSET IdType]
    BY <1>3 DEF AskOracle, TypeOK
  <2> QED
    BY <1>3, <2>3, <2>4, <2>5, <2>6 DEF AskOracle, TypeOK
<1>4. ASSUME NEW b \in Batch, NEW t \in IdType, OracleFails(b, t)
      PROVE  TypeOK'
  <2>1. ListOf(b, t) \in SUBSET Party
    BY DEF ListOf, TypeOK
  <2>2. PICK S \in SUBSET Party :
          OracleStores(b, S) /\ blind' = [blind EXCEPT ![b] = @ \cup S]
    BY <1>4, <2>1 DEF OracleFails
  <2>3. stored' \subseteq Party /\ wrote' \in [Batch -> SUBSET Party]
    BY <2>2, StoresTyped
  <2>4. blind' \in [Batch -> SUBSET Party]
    BY <2>2 DEF TypeOK
  <2>5. pc' \in [Batch -> Pc]
    BY <1>4, GotoTyped DEF OracleFails, Pc
  <2> QED
    BY <1>4, <2>3, <2>4, <2>5 DEF OracleFails, TypeOK
<1>5. ASSUME NEW b \in Batch, SendList(b) \/ SendError(b)
      PROVE  TypeOK'
  BY <1>5, DeliverTyped DEF SendList, SendError, Pc
<1>6. CASE UNCHANGED vars
  BY <1>6 DEF vars, TypeOK
<1> QED
  BY <1>1, <1>2, <1>3, <1>4, <1>5, <1>6 DEF Next

\* TypeOK: in every reachable state the handlers, the oracles and the
\* callbacks hold values of their kind.
THEOREM TypeCorrect == Spec => []TypeOK
BY TypeInit, TypeNext, PTL DEF Spec
-----------------------------------------------------------------------------
(***************************************************************************)
(* What a batch has done at each stage of its handler.                     *)
(***************************************************************************)
\* Nothing is sent before the oracles are through, nothing stored before the
\* list is sorted.
Fresh(b) ==
  /\ pc[b] \in {"idle", "ledger"} =>
       wrote[b] = {} /\ \A p \in Party : entry[b][p] = {}
  /\ pc[b] \in {"idle", "ledger", "oracles"} => told[b] = {}

\* A party whose oracle is still to be asked has neither entry nor record; one
\* whose oracle was asked has an entry or was left out of the answer.
Sorted(b) == pc[b] = "oracles" => \A p \in list[b] :
  /\ kind[p] \in todo[b] => entry[b][p] = {} /\ p \notin wrote[b]
  /\ entry[b][p] = {} => p \in blind[b] \/ kind[p] \in todo[b]

Own(b) == /\ wrote[b] \subseteq stored \cap list[b]
          /\ \A p \in wrote[b] : kind[p] \in IdType

\* Entries are of listed parties, one each, and say what was stored.
Entries(b) ==
  /\ \A p \in Party : entry[b][p] # {} => p \in list[b]
  /\ \A p \in Party : \A x, y \in entry[b][p] : x = y
  /\ \A p \in Party \ blind[b] : "stored" \in entry[b][p] <=> p \in wrote[b]

\* A list that was sent leaves out only what an oracle left out.
Sent(b) == "list" \in told[b] =>
  \A p \in list[b] : entry[b][p] = {} => p \in blind[b]

BatchInv(b) == Fresh(b) /\ Sorted(b) /\ Own(b) /\ Entries(b) /\ Sent(b)

BatchesInv == \A b \in Batch : BatchInv(b)

\* No batch has done anything initially.
LEMMA BatchesInit == Init => BatchesInv
BY DEF Init, BatchesInv, BatchInv, Fresh, Sorted, Own, Entries, Sent

\* A batch is not disturbed by what the oracles store for others.
LEMMA OthersUndisturbed ==
  ASSUME NEW b \in Batch, BatchInv(b), stored \subseteq stored', kind' = kind,
         pc'[b] = pc[b], list'[b] = list[b], todo'[b] = todo[b],
         entry'[b] = entry[b], wrote'[b] = wrote[b], blind'[b] = blind[b],
         told'[b] = told[b]
  PROVE  BatchInv(b)'
BY DEF BatchInv, Fresh, Sorted, Own, Entries, Sent

\* The oracle of type t is asked: it stores S; the parties R of the list get an
\* entry, "stored" those of T; the parties U have an outcome nobody was told.
LEMMA AskOutcome ==
  ASSUME TypeOK, NEW b \in Batch, NEW t \in IdType, AskOracle(b, t)
  PROVE  \E S, R, T, U \in SUBSET ListOf(b, t) :
           /\ OracleStores(b, S)
           /\ Collect(b, R, T)
           /\ blind' = [blind EXCEPT ![b] = @ \cup U]
           /\ ListOf(b, t) \ R \subseteq U
           /\ \A p \in ListOf(b, t) \ U : p \in T <=> p \in S
<1> DEFINE asked == ListOf(b, t)
           Outcome(S, R, T, U) ==
             /\ OracleStores(b, S)
             /\ Collect(b, R, T)
             /\ blind' = [blind EXCEPT ![b] = @ \cup U]
             /\ asked \ R \subseteq U
             /\ \A p \in asked \ U : p \in T <=> p \in S
<1> SUFFICES \E S, R, T, U \in SUBSET asked : Outcome(S, R, T, U)
  OBVIOUS
<1>1. PICK S \in SUBSET asked :
        /\ OracleStores(b, S)
        /\ \/ Collect(b, asked, S) /\ UNCHANGED blind
           \/ \E R \in SUBSET asked :
                /\ Collect(b, R, S)
                /\ blind' = [blind EXCEPT ![b] = @ \cup (asked \ R)]
           \/ /\ Collect(b, asked, {})
              /\ blind' = [blind EXCEPT ![b] = @ \cup asked]
  BY DEF AskOracle
<1>2. CASE Collect(b, asked, S) /\ UNCHANGED blind
  <2>1. blind' = [blind EXCEPT ![b] = @ \cup {}]
    BY <1>2 DEF TypeOK
  <2>2. Outcome(S, asked, S, {})
    BY <1>1, <1>2, <2>1
  <2> HIDE DEF Outcome, asked
  <2> QED
    BY <2>2
<1>3. ASSUME NEW R \in SUBSET asked, Collect(b, R, S),
             blind' = [blind EXCEPT ![b] = @ \cup (asked \ R)]
      PROVE  \E V, W, T, U \in SUBSET asked : Outcome(V, W, T, U)
  <2>1. Outcome(S, R, S, asked \ R)
    BY <1>1, <1>3
  <2>2. asked \ R \in SUBSET asked
    OBVIOUS
  <2> HIDE DEF Outcome, asked
  <2> QED
    BY <2>1, <2>2
<1>4. CASE Collect(b, asked, {}) /\ blind' = [blind EXCEPT ![b] = @ \cup asked]
  <2>1. Outcome(S, asked, {}, asked)
    BY <1>1, <1>4
  <2> HIDE DEF Outcome, asked
  <2> QED
    BY <2>1
<1> HIDE DEF Outcome, asked
<1> QED
  BY <1>1, <1>2, <1>3, <1>4

\* Asking an oracle keeps what is known of the batch.
LEMMA AskKeeps ==
  ASSUME TypeOK, NEW b \in Batch, BatchInv(b), NEW t \in IdType, AskOracle(b, t)
  PROVE  BatchInv(b)'
<1> DEFINE asked == ListOf(b, t)
<1>1. PICK S, R, T, U \in SUBSET asked :
        /\ OracleStores(b, S)
        /\ Collect(b, R, T)
        /\ blind' = [blind EXCEPT ![b] = @ \cup U]
        /\ asked \ R \subseteq U
        /\ \A p \in asked \ U : p \in T <=> p \in S
  BY AskOutcome
<1>2. /\ pc[b] = "oracles" /\ t \in todo[b] /\ pc' = pc /\ list' = list
      /\ kind' = kind /\ told' = told /\ todo'[b] = todo[b] \ {t}
  BY DEF AskOracle, TypeOK
<1>3. /\ stored' = stored \cup S /\ wrote'[b] = wrote[b] \cup S
      /\ blind'[b] = blind[b] \cup U
  BY <1>1 DEF OracleStores, TypeOK
<1>4. \A p \in Party : entry'[b][p] =
        IF p \in R THEN entry[b][p] \cup {IF p \in T THEN "stored" ELSE "error"}
        ELSE entry[b][p]
  BY <1>1 DEF Collect, TypeOK
<1>5. /\ asked \subseteq list[b] /\ list[b] \subseteq Party
      /\ \A p \in list[b] : p \in asked <=> kind[p] = t
  BY DEF ListOf, TypeOK
<1>6. \A p \in asked : entry[b][p] = {} /\ p \notin wrote[b]
  BY <1>2, <1>5 DEF BatchInv, Sorted
<1> HIDE DEF asked
<1>7. Fresh(b)' /\ Sent(b)'
  BY <1>2 DEF BatchInv, Fresh, Sent
<1>8. Sorted(b)'
  <2> SUFFICES ASSUME NEW p \in list[b]
               PROVE  /\ kind[p] \in todo'[b] => entry'[b][p] = {} /\ p \notin wrote'[b]
                      /\ entry'[b][p] = {} => p \in blind'[b] \/ kind[p] \in todo'[b]
    BY <1>2 DEF Sorted
  <2>1. CASE p \in asked
    BY <2>1, <1>1, <1>2, <1>3, <1>4, <1>5
  <2>2. CASE p \notin asked
    <3>1. entry'[b][p] = entry[b][p] /\ p \notin S
      BY <2>2, <1>1, <1>4, <1>5
    <3> QED
      BY <2>2, <3>1, <1>2, <1>3, <1>5 DEF BatchInv, Sorted
  <2> QED
    BY <2>1, <2>2
<1>9. Own(b)'
  BY <1>1, <1>2, <1>3, <1>5 DEF BatchInv, Own
<1>10. Entries(b)'
  <2>1. \A p \in Party : entry'[b][p] # {} => p \in list'[b]
    BY <1>1, <1>2, <1>4, <1>5 DEF BatchInv, Entries
  <2>2. \A p \in Party : \A x, y \in entry'[b][p] : x = y
    BY <1>1, <1>4, <1>6 DEF BatchInv, Entries
  <2>3. ASSUME NEW p \in Party \ blind'[b]
        PROVE  "stored" \in entry'[b][p] <=> p \in wrote'[b]
    <3>1. CASE p \in asked
      <4>1. p \in R /\ (p \in T <=> p \in S)
        BY <3>1, <2>3, <1>1, <1>3
      <4>2. entry'[b][p] = {IF p \in T THEN "stored" ELSE "error"}
        BY <4>1, <3>1, <1>4, <1>6
      <4> QED
        BY <4>1, <4>2, <3>1, <1>3, <1>6
    <3>2. CASE p \notin asked
      <4>1. entry'[b][p] = entry[b][p] /\ p \notin S /\ p \notin blind[b]
        BY <3>2, <2>3, <1>1, <1>3, <1>4
      <4> QED
        BY <4>1, <1>3 DEF BatchInv, Entries
    <3> QED
      BY <3>1, <3>2
  <2> QED
    BY <2>1, <2>2, <2>3 DEF Entries
<1> QED
  BY <1>7, <1>8, <1>9, <1>10 DEF BatchInv

\* Sorting the list gives entries to the parties no oracle will be asked about.
LEMMA SortKeeps ==
  ASSUME TypeOK, NEW b \in Batch, BatchInv(b), Sort(b)
  PROVE  BatchInv(b)'
<1>1. /\ wrote[b] = {} /\ told[b] = {} /\ \A p \in Party : entry[b][p] = {}
      /\ UNCHANGED <<kind, stored, list, wrote, blind, told>>
  BY DEF Sort, BatchInv, Fresh
<1>2. CASE Goto(b, "failing") /\ UNCHANGED <<todo, entry>>
  <2>1. pc'[b] = "failing"
    BY <1>2 DEF Goto, TypeOK
  <2> QED
    BY <1>1, <1>2, <2>1 DEF BatchInv, Fresh, Sorted, Own, Entries, Sent
<1>3. CASE /\ Goto(b, "oracles")
           /\ todo' = [todo EXCEPT ![b] = TypeMap(b)]
           /\ entry' = [entry EXCEPT ![b] = Rejected(b)]
  <2>1. pc'[b] = "oracles" /\ todo'[b] = TypeMap(b)
    BY <1>3 DEF Goto, TypeOK
  <2>2. \A p \in Party : entry'[b][p] =
          IF p \in list[b] /\ kind[p] \in {Foreign, BadType} THEN {"error"} ELSE {}
    BY <1>3 DEF Rejected, TypeOK
  <2>3. \A p \in list[b] : kind[p] \in {Foreign, BadType} \/ kind[p] \in TypeMap(b)
    BY DEF TypeMap
  <2>4. \A p \in list[b] : kind[p] \in TypeMap(b) => kind[p] \notin {Foreign, BadType}
    BY DEF TypeMap
  <2>5. list[b] \subseteq Party
    BY DEF TypeOK
  <2>6. Sorted(b)'
    BY <1>1, <2>1, <2>2, <2>3, <2>4, <2>5 DEF Sorted
  <2>7. Entries(b)'
    BY <1>1, <2>2 DEF Entries
  <2> QED
    BY <1>1, <2>1, <2>6, <2>7 DEF BatchInv, Fresh, Own, Sent
<1> QED
  BY <1>2, <1>3 DEF Sort

\* A callback is made in the end; the list only when every oracle was asked.
LEMMA SendKeeps ==
  ASSUME TypeOK, NEW b \in Batch, BatchInv(b), SendList(b) \/ SendError(b)
  PROVE  BatchInv(b)'
<1>1. /\ pc'[b] \in {"done", "failing", "mute"}
      /\ UNCHANGED <<kind, list, stored, todo, entry, wrote, blind>>
  BY DEF SendList, SendError, Deliver, Goto, TypeOK, oracleVars
<1>2. "list" \in told'[b] => "list" \in told[b] \/ (pc[b] = "oracles" /\ todo[b] = {})
  BY DEF SendList, SendError, Deliver, TypeOK
<1>3. Sent(b)'
  BY <1>1, <1>2 DEF BatchInv, Sorted, Sent
<1> QED
  BY <1>1, <1>3 DEF BatchInv, Fresh, Sorted, Own, Entries

\* Every step keeps what is known of every batch.
LEMMA BatchesNext == TypeOK /\ BatchesInv /\ [Next]_vars => BatchesInv'
<1> SUFFICES ASSUME TypeOK, BatchesInv, [Next]_vars, NEW c \in Batch
             PROVE  BatchInv(c)'
  BY DEF BatchesInv
<1>0. BatchInv(c)
  BY DEF BatchesInv
<1>1. ASSUME NEW b \in Batch, Accept(b)
      PROVE  BatchInv(c)'
  <2>1. CASE c = b
    <3>1. /\ pc[c] = "idle" /\ pc'[c] = "ledger"
          /\ UNCHANGED <<kind, stored, entry, wrote, blind, told>>
      BY <2>1, <1>1 DEF Accept, Goto, TypeOK, oracleVars
    <3>2. wrote[c] = {} /\ told[c] = {} /\ \A p \in Party : entry[c][p] = {}
      BY <1>0, <3>1 DEF BatchInv, Fresh
    <3> QED
      BY <3>1, <3>2 DEF BatchInv, Fresh, Sorted, Own, Entries, Sent
  <2>2. CASE c # b
    <3>1. pc'[c] = pc[c] /\ list'[c] = list[c]
      BY <2>2, <1>1 DEF Accept, Goto, TypeOK
    <3> QED
      BY <1>0, <1>1, <3>1, OthersUndisturbed DEF Accept, oracleVars
  <2> QED
    BY <2>1, <2>2
<1>2. ASSUME NEW b \in Batch, Sort(b)
      PROVE  BatchInv(c)'
  <2>1. CASE c = b
    BY <2>1, <1>0, <1>2, SortKeeps
  <2>2. CASE c # b
    <3>1. pc'[c] = pc[c] /\ todo'[c] = todo[c] /\ entry'[c] = entry[c]
      BY <2>2, <1>2 DEF Sort, Goto, TypeOK
    <3> QED
      BY <1>0, <1>2, <3>1, OthersUndisturbed DEF Sort
  <2> QED
    BY <2>1, <2>2
<1>3. ASSUME NEW b \in Batch, NEW t \in IdType, AskOracle(b, t)
      PROVE  BatchInv(c)'
  <2>1. CASE c = b
    BY <2>1, <1>0, <1>3, AskKeeps
  <2>2. CASE c # b
    <3>1. PICK S, R, T, U \in SUBSET ListOf(b, t) :
            /\ OracleStores(b, S)
            /\ Collect(b, R, T)
            /\ blind' = [blind EXCEPT ![b] = @ \cup U]
      BY <1>3, AskOutcome
    <3>2. /\ stored \subseteq stored' /\ wrote'[c] = wrote[c]
          /\ entry'[c] = entry[c] /\ blind'[c] = blind[c]
      BY <2>2, <3>1 DEF OracleStores, Collect, TypeOK
    <3>3. /\ todo'[c] = todo[c] /\ kind' = kind /\ pc' = pc /\ list' = list
          /\ told' = told
      BY <2>2, <1>3 DEF AskOracle, TypeOK
    <3> QED
      BY <1>0, <3>2, <3>3, OthersUndisturbed
  <2> QED
    BY <2>1, <2>2
<1>4. ASSUME NEW b \in Batch, NEW t \in IdType, OracleFails(b, t)
      PROVE  BatchInv(c)'
  <2>1. PICK S \in SUBSET ListOf(b, t) :
          OracleStores(b, S) /\ blind' = [blind EXCEPT ![b] = @ \cup S]
    BY <1>4 DEF OracleFails
  <2>2. /\ pc[b] = "oracles"
        /\ UNCHANGED <<kind, list, todo, entry, told>>
    BY <1>4 DEF OracleFails
  <2>3. CASE c = b
    <3>1. /\ pc'[c] = "failing" /\ stored' = stored \cup S
          /\ wrote'[c] = wrote[c] \cup S /\ blind'[c] = blind[c] \cup S
      BY <2>1, <2>3, <1>4 DEF OracleFails, OracleStores, Goto, TypeOK
    <3>2. \A p \in S : p \in list[c] /\ kind[p] \in IdType
      BY <2>1, <2>3 DEF ListOf
    <3> QED
      BY <1>0, <2>2, <2>3, <3>1, <3>2 DEF BatchInv, Fresh, Sorted, Own, Entries, Sent
  <2>4. CASE c # b
    <3>1. /\ pc'[c] = pc[c] /\ stored \subseteq stored' /\ wrote'[c] = wrote[c]
          /\ blind'[c] = blind[c]
      BY <2>1, <2>4, <1>4 DEF OracleFails, OracleStores, Goto, TypeOK
    <3> QED
      BY <1>0, <2>2, <3>1, OthersUndisturbed
  <2> QED
    BY <2>3, <2>4
<1>5. ASSUME NEW b \in Batch, SendList(b) \/ SendError(b)
      PROVE  BatchInv(c)'
  <2>1. CASE c = b
    BY <2>1, <1>0, <1>5, SendKeeps
  <2>2. CASE c # b
    <3>1. /\ pc'[c] = pc[c] /\ told'[c] = told[c]
          /\ UNCHANGED <<kind, list, stored, todo, entry, wrote, blind>>
      BY <2>2, <1>5 DEF SendList, SendError, Deliver, Goto, TypeOK, oracleVars
    <3> QED
      BY <1>0, <3>1, OthersUndisturbed
  <2> QED
    BY <2>1, <2>2
<1>6. CASE UNCHANGED vars
  BY <1>0, <1>6, OthersUndisturbed DEF vars
<1> QED
  BY <1>1, <1>2, <1>3, <1>4, <1>5, <1>6 DEF Next

\* What is known of a batch holds in every reachable state.
THEOREM BatchesInvariant == Spec => []BatchesInv
<1>1. TypeOK /\ BatchesInv /\ [Next]_vars => (TypeOK /\ BatchesInv)'
  BY TypeNext, BatchesNext
<1> QED
  BY <1>1, TypeInit, BatchesInit, PTL DEF Spec

\* ListIsTrue: the list a requester gets has exactly one entry for each party it
\* asked to register, except those an oracle left out, and the entry says what
\* the oracle did.
THEOREM ListTrue == Spec => []ListIsTrue
<1>1. ASSUME BatchesInv, NEW b \in Batch PROVE Complete(b)
  BY <1>1 DEF BatchesInv, BatchInv, Entries, Sent, Complete
<1>2. ASSUME BatchesInv, NEW b \in Batch PROVE Truthful(b)
  BY <1>2 DEF BatchesInv, BatchInv, Entries, Truthful
<1>3. BatchesInv => ListIsTrue
  BY <1>1, <1>2 DEF ListIsTrue
<1> QED
  BY <1>3, BatchesInvariant, PTL

\* OnlyOwnStored: nothing but the requester's parties of known types is stored.
THEOREM OwnStored == Spec => []OnlyOwnStored
<1>1. BatchesInv => OnlyOwnStored
  BY DEF BatchesInv, BatchInv, Own, OnlyOwnStored
<1> QED
  BY <1>1, BatchesInvariant, PTL
===============================================================================
