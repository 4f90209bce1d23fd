---------------------------- MODULE ExpiryWorker ----------------------------
(***************************************************************************)
(* What the timeout handler is meant to be: one worker that takes the      *)
(* expired entries in hand, calls back about each and removes it.  The     *)
(* processes, their ticks, isRunning and the lock are left out.  After a   *)
(* disturbance callbacks may be repeated, but never about an entry that    *)
(* has not expired.                                                        *)
(***************************************************************************)
EXTENDS Naturals

CONSTANTS Entry

VARIABLES
  entry,     \* entry[e]: not yet expired, expired, or removed
  hand,      \* hand[e]: what the worker has done about e
  calls,     \* calls[e]: callbacks about e, 2 standing for more
  disturbed  \* has the worker been disturbed

wvars == <<entry, hand, calls, disturbed>>

Empty == [e \in Entry |-> "none"]

Init ==
  /\ entry = [e \in Entry |-> "live"]
  /\ hand = Empty
  /\ calls = [e \in Entry |-> 0]
  /\ disturbed = FALSE

\* The time of an entry passes; the last answer removes it.
Move(e, from, to) ==
  /\ entry[e] \in from
  /\ entry' = [entry EXCEPT ![e] = to]
  /\ UNCHANGED <<hand, calls, disturbed>>

\* The worker takes all expired entries in hand when it has none.
Find ==
  /\ hand = Empty
  /\ hand' = [e \in Entry |-> IF entry[e] = "expired" THEN "found" ELSE "none"]
  /\ UNCHANGED <<entry, calls, disturbed>>

\* One callback for an entry in hand, which may fail.
Notify(e) ==
  /\ hand[e] = "found" /\ calls[e] = 0
  /\ hand' = [hand EXCEPT ![e] = "called"]
  /\ calls' \in {calls, [calls EXCEPT ![e] = 1]}
  /\ UNCHANGED <<entry, disturbed>>

\* An entry is removed only after the callback about it.
Remove(e) ==
  /\ hand[e] = "called"
  /\ hand' = [hand EXCEPT ![e] = "none"]
  /\ entry' = [entry EXCEPT ![e] = "gone"]
  /\ UNCHANGED <<calls, disturbed>>

\* A worker that dies before any callback leaves the entries to the next one.
Abandon ==
  /\ \A e \in Entry : hand[e] # "called"
  /\ hand' = Empty
  /\ UNCHANGED <<entry, calls, disturbed>>

\* What is left of the promise once the worker was disturbed.
Overlap ==
  /\ disturbed'
  /\ \A e \in Entry :
       /\ entry'[e] # entry[e] => entry[e] # "live" /\ entry'[e] = "gone"
       /\ calls'[e] # calls[e] => entry[e] # "live" /\ calls'[e] \in {1, 2}

Next ==
  \/ \E e \in Entry :
       \/ Move(e, {"live"}, "expired") \/ Move(e, {"live", "expired"}, "gone")
       \/ Notify(e) \/ Remove(e)
  \/ Find \/ Abandon \/ Overlap

Spec == Init /\ [][Next]_wvars
=============================================================================
