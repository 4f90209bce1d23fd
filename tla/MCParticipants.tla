--------------------------- MODULE MCParticipants ---------------------------
(***************************************************************************)
(* Participants with two requests for a party with two records.            *)
(***************************************************************************)
EXTENDS Participants, TLC

Alike == Permutations(Dfsp) \cup Permutations(Request)
=============================================================================
