------------------------- MODULE OracleAdmin_proofs -------------------------
(***************************************************************************)
(* Check, then write, keeps the active oracles apart unless changes of one *)
(* row or for one key overlap or leave the currency out; deleted oracles   *)
(* stay deleted regardless.                                                *)
(***************************************************************************)
EXTENDS OracleAdmin, TLAPS

\* An empty table, nobody at work.
LEMMA OracleInvInit == Init => OracleInv
<1> SUFFICES ASSUME Init PROVE OracleInv
  OBVIOUS
<1>1. /\ \A a \in Admin : pc[a] = "idle"
      /\ \A r \in Row : status[r] = "unused"
  BY DEF Init
<1>2. TypeOK
  BY <1>1 DEF Init, TypeOK
<1>3. OneActiveOracle /\ Apart /\ CheckedFree /\ ReadStillTrue
  BY <1>1 DEF OneActiveOracle, Apart, CheckedFree, ReadStillTrue
<1> QED
  BY <1>2, <1>3 DEF OracleInv

\* What an update writes is a key; when the row is as it was read and the
\* payload names a currency, it is the key that was checked.
LEMMA WrittenKey ==
  ASSUME TypeOK, NEW a \in Admin, pc[a] = "writing"
  PROVE  /\ Written(a) \in Key
         /\ seen[a] = key[row[a]] /\ payload[a].currency # None => Written(a) = payload[a]
<1>1. payload[a] \in Key /\ seen[a] \in Key /\ key[row[a]] \in Key
  BY DEF TypeOK
<1> QED
  BY <1>1 DEF Written, Key

\* A request that is done leaves nothing behind, and the others alone.
LEMMA DoneTyped ==
  ASSUME TypeOK, NEW a \in Admin, Done(a)
  PROVE  /\ pc' \in [Admin -> {"idle", "inserting", "matching", "writing"}]
         /\ row' \in [Admin -> Row \cup {None}]
         /\ payload' \in [Admin -> Key \cup {None}]
         /\ seen' \in [Admin -> Key \cup {None}]
         /\ pc'[a] = "idle"
         /\ \A b \in Admin \ {a} : /\ pc'[b] = pc[b] /\ row'[b] = row[b]
                                   /\ payload'[b] = payload[b] /\ seen'[b] = seen[b]
BY DEF TypeOK, Done

\* Every database call of every request keeps the invariant.
LEMMA OracleInvNext == OracleInv /\ [Next]_vars => OracleInv'
<1> SUFFICES ASSUME OracleInv, [Next]_vars PROVE OracleInv'
  OBVIOUS
<1> USE DEF OracleInv
<1>1. ASSUME NEW a \in Admin, NEW p \in Key, CheckCreate(a, p) PROVE OracleInv'
  <2>1. TypeOK'
    BY <1>1 DEF CheckCreate, TypeOK
  <2>2. ASSUME ~unguarded'
        PROVE  OneActiveOracle' /\ Apart' /\ CheckedFree' /\ ReadStillTrue'
    <3>1. /\ ~unguarded
          /\ \A b \in Admin \ {a} : pc[b] # "idle" => payload[b] # p
      BY <1>1, <2>2 DEF CheckCreate, AskFor
    <3>2. /\ pc'[a] = "inserting" /\ payload'[a] = p /\ Matching(p) = {}
          /\ \A b \in Admin \ {a} : pc'[b] = pc[b] /\ payload'[b] = payload[b]
          /\ UNCHANGED <<status, key, row, seen>>
      BY <1>1 DEF CheckCreate, TypeOK
    <3>3. OneActiveOracle' /\ ReadStillTrue'
      BY <3>1, <3>2 DEF OneActiveOracle, ReadStillTrue
    <3>4. Apart'
      BY <3>1, <3>2 DEF Apart
    <3>5. CheckedFree'
      BY <3>1, <3>2 DEF CheckedFree, Matching
    <3> QED
      BY <3>3, <3>4, <3>5
  <2> QED
    BY <2>1, <2>2
<1>2. ASSUME NEW a \in Admin, NEW r \in Row, InsertOracle(a, r) PROVE OracleInv'
  <2>1. /\ pc[a] = "inserting" /\ payload[a] \in Key /\ status[r] = "unused"
        /\ status' = [status EXCEPT ![r] = "active"]
        /\ key' = [key EXCEPT ![r] = payload[a]]
        /\ Done(a) /\ UNCHANGED unguarded
    BY <1>2 DEF InsertOracle, TypeOK
  <2>2. TypeOK'
    BY <2>1, DoneTyped DEF TypeOK
  <2>3. ASSUME ~unguarded'
        PROVE  OneActiveOracle' /\ Apart' /\ CheckedFree' /\ ReadStillTrue'
    <3>1. /\ ~unguarded /\ pc'[a] = "idle"
          /\ \A b \in Admin \ {a} : /\ pc'[b] = pc[b] /\ payload'[b] = payload[b]
                                    /\ row'[b] = row[b] /\ seen'[b] = seen[b]
      BY <2>1, <2>3, DoneTyped
    <3>2. Matching(payload[a]) = {}
      BY <2>1, <3>1 DEF CheckedFree
    <3>3. \A s \in Row \ {r} : status'[s] = status[s] /\ key'[s] = key[s]
      BY <2>1 DEF TypeOK
    <3>4. key'[r] = payload[a] /\ status'[r] = "active"
      BY <2>1 DEF TypeOK
    <3>5. OneActiveOracle'
      BY <3>1, <3>2, <3>3, <3>4 DEF OneActiveOracle, Matching
    <3>6. Apart'
      BY <3>1 DEF Apart
    <3>7. CheckedFree'
      <4> SUFFICES ASSUME NEW b \in Admin, pc'[b] \in {"inserting", "writing"}
                   PROVE  Matching(payload[b])' = {}
        BY DEF CheckedFree
      <4>1. b # a /\ payload'[b] = payload[b] /\ payload[b] # payload[a]
            /\ Matching(payload[b]) = {}
        BY <2>1, <3>1 DEF Apart, CheckedFree
      <4> QED
        BY <3>3, <3>4, <4>1 DEF Matching
    <3>8. ReadStillTrue'
      <4> SUFFICES ASSUME NEW b \in Admin, pc'[b] \in {"matching", "writing"}
                   PROVE  seen'[b] = key'[row'[b]]
        BY DEF ReadStillTrue
      <4>1. b # a /\ row[b] \in Row \ {r} /\ seen[b] = key[row[b]]
        BY <2>1, <3>1 DEF ReadStillTrue, TypeOK
      <4> QED
        BY <3>1, <3>3, <4>1
    <3> QED
      BY <3>5, <3>6, <3>7, <3>8
  <2> QED
    BY <2>2, <2>3
<1>3. ASSUME NEW a \in Admin, NEW r \in Row, NEW p \in Key, FindOracle(a, r, p)
      PROVE  OracleInv'
  <2>1. TypeOK'
    BY <1>3 DEF FindOracle, TypeOK
  <2>2. ASSUME ~unguarded'
        PROVE  OneActiveOracle' /\ Apart' /\ CheckedFree' /\ ReadStillTrue'
    <3>1. /\ ~unguarded
          /\ \A b \in Admin \ {a} : pc[b] # "idle" => payload[b] # p /\ row[b] # r
      BY <1>3, <2>2 DEF FindOracle, AskFor, Updates
    <3>2. /\ pc'[a] = "matching" /\ row'[a] = r /\ seen'[a] = key[r] /\ payload'[a] = p
          /\ \A b \in Admin \ {a} : /\ pc'[b] = pc[b] /\ payload'[b] = payload[b]
                                    /\ row'[b] = row[b] /\ seen'[b] = seen[b]
          /\ UNCHANGED <<status, key>>
      BY <1>3 DEF FindOracle, TypeOK
    <3>3. OneActiveOracle' /\ ReadStillTrue'
      BY <3>1, <3>2 DEF OneActiveOracle, ReadStillTrue
    <3>4. Apart'
      BY <3>1, <3>2 DEF Apart
    <3>5. CheckedFree'
      BY <3>1, <3>2 DEF CheckedFree, Matching
    <3> QED
      BY <3>3, <3>4, <3>5
  <2> QED
    BY <2>1, <2>2
<1>4. ASSUME NEW a \in Admin, CheckUpdate(a) PROVE OracleInv'
  <2>1. CASE /\ Matching(payload[a]) = {} /\ pc[a] = "matching"
             /\ pc' = [pc EXCEPT ![a] = "writing"]
             /\ UNCHANGED <<row, payload, seen, status, key, unguarded>>
    <3>1. TypeOK'
      BY <2>1 DEF TypeOK
    <3>2. ASSUME ~unguarded'
          PROVE  OneActiveOracle' /\ Apart' /\ CheckedFree' /\ ReadStillTrue'
      <4>1. pc'[a] = "writing" /\ \A b \in Admin \ {a} : pc'[b] = pc[b]
        BY <2>1 DEF TypeOK
      <4>2. OneActiveOracle' /\ ReadStillTrue'
        BY <2>1, <3>2, <4>1 DEF OneActiveOracle, ReadStillTrue
      <4>3. Apart'
        BY <2>1, <3>2, <4>1 DEF Apart
      <4>4. CheckedFree'
        BY <2>1, <3>2, <4>1 DEF CheckedFree, Matching
      <4> QED
        BY <4>2, <4>3, <4>4
    <3> QED
      BY <3>1, <3>2
  <2>2. CASE Done(a) /\ UNCHANGED <<status, key, unguarded>>
    <3>1. TypeOK'
      BY <2>2, DoneTyped DEF TypeOK
    <3>2. ASSUME ~unguarded'
          PROVE  OneActiveOracle' /\ Apart' /\ CheckedFree' /\ ReadStillTrue'
      BY <2>2, <3>2, DoneTyped
      DEF OneActiveOracle, Apart, CheckedFree, ReadStillTrue, Matching
    <3> QED
      BY <3>1, <3>2
  <2> QED
    BY <1>4, <2>1, <2>2 DEF CheckUpdate
<1>5. ASSUME NEW a \in Admin, WriteUpdate(a) PROVE OracleInv'
  <2>1. /\ pc[a] = "writing" /\ row[a] \in Row /\ status[row[a]] # "unused"
        /\ key' = [key EXCEPT ![row[a]] = Written(a)]
        /\ Done(a) /\ UNCHANGED status
        /\ unguarded' = (unguarded \/ payload[a].currency = None)
    BY <1>5 DEF WriteUpdate, TypeOK
  <2>2. TypeOK'
    <3>1. Written(a) \in Key
      BY <2>1, WrittenKey
    <3>2. unguarded' \in BOOLEAN
      BY <2>1 DEF TypeOK
    <3> QED
      BY <2>1, <3>1, <3>2, DoneTyped DEF TypeOK
  <2>3. ASSUME ~unguarded'
        PROVE  OneActiveOracle' /\ Apart' /\ CheckedFree' /\ ReadStillTrue'
    <3>1. ~unguarded /\ payload[a].currency # None
      BY <2>1, <2>3
    <3>2. /\ pc'[a] = "idle"
          /\ \A b \in Admin \ {a} : /\ pc'[b] = pc[b] /\ payload'[b] = payload[b]
                                    /\ row'[b] = row[b] /\ seen'[b] = seen[b]
      BY <2>1, DoneTyped
    <3>3. key'[row[a]] = payload[a]
      BY <2>1, <3>1, WrittenKey DEF ReadStillTrue, TypeOK
    <3>4. Matching(payload[a]) = {}
      BY <2>1, <3>1 DEF CheckedFree
    <3>5. \A s \in Row \ {row[a]} : key'[s] = key[s]
      BY <2>1 DEF TypeOK
    <3>6. OneActiveOracle'
      BY <2>1, <3>1, <3>3, <3>4, <3>5 DEF OneActiveOracle, Matching
    <3>7. Apart'
      BY <3>1, <3>2 DEF Apart
    <3>8. CheckedFree'
      <4> SUFFICES ASSUME NEW b \in Admin, pc'[b] \in {"inserting", "writing"}
                   PROVE  Matching(payload[b])' = {}
        BY DEF CheckedFree
      <4>1. b # a /\ payload'[b] = payload[b] /\ payload[b] # payload[a]
            /\ Matching(payload[b]) = {}
        BY <2>1, <3>1, <3>2 DEF Apart, CheckedFree
      <4> QED
        BY <2>1, <3>3, <3>5, <4>1 DEF Matching
    <3>9. ReadStillTrue'
      <4> SUFFICES ASSUME NEW b \in Admin, pc'[b] \in {"matching", "writing"}
                   PROVE  seen'[b] = key'[row'[b]]
        BY DEF ReadStillTrue
      <4>1. b # a /\ row[b] \in Row /\ row[b] # row[a] /\ seen[b] = key[row[b]]
        BY <2>1, <3>1, <3>2 DEF Apart, ReadStillTrue, TypeOK
      <4> QED
        BY <3>2, <3>5, <4>1
    <3> QED
      BY <3>6, <3>7, <3>8, <3>9
  <2> QED
    BY <2>2, <2>3
<1>6. ASSUME NEW r \in Row, DeleteOracle(r) PROVE OracleInv'
  <2>1. /\ status' = [status EXCEPT ![r] = "inactive"]
        /\ status[r] # "unused"
        /\ UNCHANGED <<key, pc, row, payload, seen, unguarded>>
    BY <1>6 DEF DeleteOracle, reqVars
  <2>2. TypeOK'
    BY <2>1 DEF TypeOK
  <2>3. \A s \in Row : status'[s] = "active" => status[s] = "active"
    BY <2>1 DEF TypeOK
  <2>4. ASSUME ~unguarded'
        PROVE  OneActiveOracle' /\ Apart' /\ CheckedFree' /\ ReadStillTrue'
    BY <2>1, <2>3, <2>4 DEF OneActiveOracle, Apart, CheckedFree, ReadStillTrue, Matching
  <2> QED
    BY <2>2, <2>4
<1>7. CASE UNCHANGED vars
  BY <1>7 DEF vars, TypeOK, OneActiveOracle, Apart, CheckedFree, ReadStillTrue, Matching
<1> QED
  BY <1>1, <1>2, <1>3, <1>4, <1>5, <1>6, <1>7 DEF Next

\* The invariant holds for any number of admins, rows, types and currencies.
THEOREM OracleInvariant == Spec => []OracleInv
BY OracleInvInit, OracleInvNext, PTL DEF Spec

\* The table and the requests have their types: an update under way always
\* has a row that is there, with a key to compare the payload with.
THEOREM TypeCorrect == Spec => []TypeOK
<1>1. OracleInv => TypeOK
  BY DEF OracleInv
<1> QED
  BY <1>1, OracleInvariant, PTL

\* Admins whose overlapping requests differ in key and row, and who name the
\* currency, never get two active oracles with the same type and currency.
THEOREM OneActive == Spec => []OneActiveUnlessUnguarded
<1>1. OracleInv => OneActiveUnlessUnguarded
  BY DEF OracleInv, OneActiveUnlessUnguarded
<1> QED
  BY <1>1, OracleInvariant, PTL

\* A deleted oracle stays deleted, whatever admins do and however their
\* requests overlap.
THEOREM DeletedForGood == Spec => DeletedStaysDeleted
<1>1. ASSUME OracleInv, [Next]_vars
      PROVE  [\A r \in Row : status[r] = "inactive" => status'[r] = "inactive"]_vars
  <2>1. status \in [Row -> {"unused", "active", "inactive"}]
    BY <1>1 DEF OracleInv, TypeOK
  <2> SUFFICES ASSUME NEW r \in Row, status[r] = "inactive"
               PROVE  status'[r] = "inactive"
    OBVIOUS
  <2>2. CASE \E a \in Admin, s \in Row : InsertOracle(a, s)
    BY <2>1, <2>2 DEF InsertOracle
  <2>3. CASE \E s \in Row : DeleteOracle(s)
    BY <2>1, <2>3 DEF DeleteOracle
  <2>4. CASE UNCHANGED status
    BY <2>4
  <2> QED
    BY <1>1, <2>2, <2>3, <2>4
    DEF Next, CheckCreate, FindOracle, CheckUpdate, WriteUpdate, vars
<1> QED
  BY <1>1, OracleInvariant, PTL DEF Spec, DeletedStaysDeleted

-----------------------------------------------------------------------------
(***************************************************************************)
(* The requests implement the table that checks and writes in one step.    *)
(***************************************************************************)
TableStep == [Table!Next]_(Table!tvars)

\* What an insert or an update writes, it writes as the table would: a key,
\* and while the changes are guarded one that no active row has.
LEMMA InsertRegisters ==
  ASSUME OracleInv, NEW a \in Admin, NEW r \in Row, InsertOracle(a, r)
  PROVE  Table!Register(r, payload[a]) /\ payload[a] \in Key
<1>1. /\ pc[a] = "inserting" /\ payload[a] \in Key
      /\ unguarded \in BOOLEAN /\ UNCHANGED unguarded
  BY DEF InsertOracle, OracleInv, TypeOK
<1>2. ~unguarded => Matching(payload[a]) = {}
  BY <1>1 DEF OracleInv, CheckedFree
<1>3. Table!Guarded(payload[a])
  BY <1>1, <1>2 DEF Table!Guarded, Table!Serving, Matching
<1> QED
  BY <1>1, <1>3 DEF InsertOracle, Table!Register

LEMMA UpdateRekeys ==
  ASSUME OracleInv, NEW a \in Admin, WriteUpdate(a)
  PROVE  /\ Table!Rekey(row[a], Written(a))
         /\ row[a] \in Row /\ Written(a) \in Key
<1>1. /\ pc[a] = "writing" /\ row[a] \in Row /\ status[row[a]] # "unused"
      /\ unguarded \in BOOLEAN
      /\ unguarded' = (unguarded \/ payload[a].currency = None)
  BY DEF WriteUpdate, OracleInv, TypeOK
<1>2. Written(a) \in Key
  BY <1>1, WrittenKey DEF OracleInv
<1>3. ASSUME ~unguarded'
      PROVE  Matching(Written(a)) = {} /\ UNCHANGED unguarded
  <2>1. ~unguarded /\ payload[a].currency # None
    BY <1>1, <1>3
  <2>2. Matching(payload[a]) = {} /\ seen[a] = key[row[a]]
    BY <1>1, <2>1 DEF OracleInv, CheckedFree, ReadStillTrue
  <2>3. Written(a) = payload[a]
    BY <1>1, <2>1, <2>2, WrittenKey DEF OracleInv
  <2> QED
    BY <1>1, <2>1, <2>2, <2>3
<1>4. Table!Guarded(Written(a))
  BY <1>3 DEF Table!Guarded, Table!Serving, Matching
<1> QED
  BY <1>1, <1>2, <1>4 DEF WriteUpdate, Table!Rekey

\* Every database call of every request is a step of the table or none.
LEMMA TableSimulation ==
  ASSUME OracleInv, [Next]_vars
  PROVE  TableStep
<1>1. ASSUME UNCHANGED <<status, key>>, unguarded' \/ UNCHANGED unguarded
      PROVE  TableStep
  BY <1>1 DEF TableStep, Table!Next, Table!LoseGuard, Table!tvars
<1>2. ASSUME NEW a \in Admin, NEW p \in Key, CheckCreate(a, p) PROVE TableStep
  <2>1. unguarded \in BOOLEAN /\ UNCHANGED <<status, key>>
        /\ unguarded' = (unguarded \/ AskFor(a, p))
    BY <1>2 DEF CheckCreate, OracleInv, TypeOK
  <2> QED
    BY <1>1, <2>1 DEF AskFor
<1>3. ASSUME NEW a \in Admin, NEW r \in Row, NEW p \in Key, FindOracle(a, r, p)
      PROVE  TableStep
  <2>1. unguarded \in BOOLEAN /\ UNCHANGED <<status, key>>
        /\ unguarded' = (unguarded \/ AskFor(a, p) \/ Updates(a, r))
    BY <1>3 DEF FindOracle, OracleInv, TypeOK
  <2> QED
    BY <1>1, <2>1 DEF AskFor, Updates
<1>4. ASSUME NEW a \in Admin, NEW r \in Row, InsertOracle(a, r) PROVE TableStep
  BY <1>4, InsertRegisters DEF TableStep, Table!Next
<1>5. ASSUME NEW a \in Admin, CheckUpdate(a) PROVE TableStep
  BY <1>1, <1>5 DEF CheckUpdate
<1>6. ASSUME NEW a \in Admin, WriteUpdate(a) PROVE TableStep
  BY <1>6, UpdateRekeys DEF TableStep, Table!Next
<1>7. ASSUME NEW r \in Row, DeleteOracle(r) PROVE TableStep
  BY <1>7 DEF DeleteOracle, TableStep, Table!Next, Table!Retire
<1>8. CASE UNCHANGED vars
  BY <1>1, <1>8 DEF vars
<1> QED
  BY <1>2, <1>3, <1>4, <1>5, <1>6, <1>7, <1>8 DEF Next

\* Reading and writing in separate database calls is as good as doing both at
\* once, until changes of one row or for one key overlap or an update leaves the
\* currency out; deleted rows stay out of use even then.
THEOREM RequestsImplementTable == Spec => KeepsTable
<1>1. Init => Table!Init
  BY DEF Init, Table!Init
<1>2. OracleInv /\ [Next]_vars => [Table!Next]_(Table!tvars)
  BY TableSimulation DEF TableStep
<1> QED
  BY <1>1, <1>2, OracleInvariant, PTL DEF Spec, KeepsTable, Table!Spec
=============================================================================
