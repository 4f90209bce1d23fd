---------------------------- MODULE OracleTable ----------------------------
(***************************************************************************)
(* What the oracle admin API is meant to be: a table in which a change     *)
(* checks that no active row has the key it writes, and writes, in one     *)
(* step.  The requests and what they have read are left out.  Once a       *)
(* change went unguarded it may write a key that is taken, but it still    *)
(* changes one row at a time and brings no deleted row back.               *)
(***************************************************************************)
CONSTANTS Row, Key, None

VARIABLES
  status,    \* status[r]: unused, active or inactive
  key,       \* key[r]: the key of a row that was ever registered
  unguarded  \* has a change gone unguarded

tvars == <<status, key, unguarded>>

Init ==
  /\ status = [r \in Row |-> "unused"]
  /\ key = [r \in Row |-> None]
  /\ unguarded = FALSE

Serving(k) == {r \in Row : status[r] = "active" /\ key[r] = k}

\* The guarded change writes a key that is free.
Guarded(k) == unguarded' \/ (Serving(k) = {} /\ UNCHANGED unguarded)

\* A row gets its key: a new one is active from then on, any other stays
\* active or deleted.
Register(r, k) ==
  /\ status[r] = "unused"
  /\ status' = [status EXCEPT ![r] = "active"]
  /\ key' = [key EXCEPT ![r] = k]
  /\ Guarded(k)

Rekey(r, k) ==
  /\ status[r] # "unused"
  /\ key' = [key EXCEPT ![r] = k]
  /\ Guarded(k)
  /\ UNCHANGED status

Retire(r) ==
  /\ status[r] # "unused"
  /\ status' = [status EXCEPT ![r] = "inactive"]
  /\ UNCHANGED <<key, unguarded>>

LoseGuard == unguarded' /\ UNCHANGED <<status, key>>

Next ==
  \/ \E r \in Row, k \in Key : Register(r, k) \/ Rekey(r, k)
  \/ \E r \in Row : Retire(r)
  \/ LoseGuard

Spec == Init /\ [][Next]_tvars
=============================================================================
