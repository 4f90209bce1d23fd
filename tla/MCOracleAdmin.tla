---------------------------- MODULE MCOracleAdmin ----------------------------
(***************************************************************************)
(* OracleAdmin on a few rows; rows, types and currencies are alike.        *)
(***************************************************************************)
EXTENDS OracleAdmin, TLC

Alike == Permutations(Row) \cup Permutations(IdType)
=============================================================================
