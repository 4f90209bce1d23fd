------------------------- MODULE MCParticipantsBatch -------------------------
(***************************************************************************)
(* ParticipantsBatch for one batch of up to four parties of two types.       *)
(***************************************************************************)
EXTENDS ParticipantsBatch, TLC

Alike == Permutations(Party) \cup Permutations(IdType)
=============================================================================
