--------------------------- MODULE MCPartyRouting ---------------------------
(***************************************************************************)
(* PartyRouting for one request among participants that come and go.       *)
(***************************************************************************)
EXTENDS PartyRouting, TLC

Alike == Permutations(Local) \cup Permutations(Proxy)
=============================================================================
