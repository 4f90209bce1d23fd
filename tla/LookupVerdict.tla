---------------------------- MODULE LookupVerdict ----------------------------
(***************************************************************************)
(* What the requester of a lookup can rely on when the proxies are asked,  *)
(* without the proxy cache and the steps of the handlers: the lookup fails *)
(* or goes on, it may time out, and every proxy asked ends up with one     *)
(* outcome.                                                                *)
(***************************************************************************)
CONSTANTS Lookup, Proxy

VARIABLES
  phase,   \* phase[l]: what has become of lookup l
  timeout, \* timeout[l]: has its time run out, was the timeout dealt with
  outcome  \* outcome[l][p]: what proxy p contributed to it

(***************************************************************************)
(* "found" and "final" are the verdicts of a discovery, a success and the  *)
(* error of the last proxy; "lateFound" and "lateError" are forwarded      *)
(* although no discovery waits for them; "missed" proxies did not find the *)
(* party, and an answer that is "lost" goes back to its sender.            *)
(***************************************************************************)
Phase   == {"idle", "local", "asking", "failed"}
Timeout == {"none", "due", "given"}
Outcome == {"open", "found", "missed", "final", "lateFound", "lateError", "lost"}

vvars == <<phase, timeout, outcome>>

Init ==
  /\ phase = [l \in Lookup |-> "idle"]
  /\ timeout = [l \in Lookup |-> "none"]
  /\ outcome = [l \in Lookup |-> [p \in Proxy |-> "open"]]

\* The lookup begins, asks the proxies or fails.
Advance(l, from, to) ==
  /\ phase[l] \in from
  /\ phase' = [phase EXCEPT ![l] = to]
  /\ UNCHANGED <<timeout, outcome>>

Progress(l) ==
  \/ Advance(l, {"idle"}, "local")
  \/ Advance(l, {"local"}, "asking")
  \/ Advance(l, {"local", "asking"}, "failed")

\* The time runs out only for a lookup that has not failed, for which the
\* last error was not passed on, and to which some proxy owes an answer.
FallDue(l) ==
  /\ phase[l] = "asking" /\ timeout[l] = "none"
  /\ \A p \in Proxy : outcome[l][p] # "final"
  /\ \E p \in Proxy : outcome[l][p] \in {"open", "lost"}
  /\ timeout' = [timeout EXCEPT ![l] = "due"]
  /\ UNCHANGED <<phase, outcome>>

\* Once due, the timeout is dealt with whatever happens meanwhile.
TimeOut(l) ==
  /\ timeout[l] = "due"
  /\ timeout' = [timeout EXCEPT ![l] = "given"]
  /\ UNCHANGED <<phase, outcome>>

Settle(l, p, from, to) ==
  /\ outcome[l][p] \in from
  /\ outcome' = [outcome EXCEPT ![l][p] = to]
  /\ UNCHANGED <<phase, timeout>>

\* A verdict is given while the proxies are asked.
Find(l, p) == phase[l] = "asking" /\ Settle(l, p, {"open"}, "found")

\* The error of one proxy becomes that of the lookup only if no other proxy
\* may still find the party, and none has.
Finalize(l, p) ==
  /\ phase[l] = "asking"
  /\ \A q \in Proxy \ {p} : outcome[l][q] \notin {"open", "found", "final"}
  /\ Settle(l, p, {"open", "missed"}, "final")

\* A proxy that is still expected by a discovery cannot be late.
BeLate(l, p) ==
  /\ outcome[l][p] = "open" => phase[l] # "asking" \/ timeout[l] = "given"
  /\ Settle(l, p, {"open", "missed"}, "lateError")

Contribute(l, p) ==
  \/ Find(l, p)
  \/ Settle(l, p, {"open"}, "missed")
  \/ Finalize(l, p)
  \/ BeLate(l, p)
  \/ Settle(l, p, {"open", "missed"}, "lateFound")
  \/ Settle(l, p, Outcome \ {"lost"}, "lost")

Next == \E l \in Lookup :
  Progress(l) \/ FallDue(l) \/ TimeOut(l) \/ \E p \in Proxy : Contribute(l, p)

Spec == Init /\ [][Next]_vvars
=============================================================================
