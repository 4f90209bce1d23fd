--------------------------- MODULE MCOracleRouting ---------------------------
(***************************************************************************)
(* OracleRouting for two requests, two oracles and one currency.           *)
(***************************************************************************)
EXTENDS OracleRouting, TLC

Alike == Permutations(Oracle) \cup Permutations(Request)

(***************************************************************************)
(* The view: states that differ only in what no later step and no property *)
(* looks at are one.  Of a request that is over only a party it missed     *)
(* counts, of the list of one that has picked its oracle only where it     *)
(* leads; newest[k] is overwritten before it is read again when nothing is *)
(* known for k, and the past only counts where a list of it is known.      *)
(***************************************************************************)
Due(r) == {o \in due[r] : LeadsTo(list[r], o)}

RequestView(r) ==
  CASE pc[r] = "failed"           -> <<"over", FALSE>>
    [] pc[r] = "done"             -> <<"over", Due(r) # {} /\ ~found[r]>>
    [] pc[r] \in {"call", "learn"} -> <<pc[r], call[r], at[r], found[r], Due(r)>>
    [] OTHER                      -> <<pc[r], call[r], list[r], due[r]>>

StateView ==
  LET inUse == {k \in Key : KnownLists(k) # {}}
      ages  == {newest[k] : k \in inUse} \cup {writes}
  IN <<writes, [n \in ages |-> past[n]], cached, answers, holds,
       [r \in Request |-> RequestView(r)], [k \in inUse |-> newest[k]]>>
=============================================================================
