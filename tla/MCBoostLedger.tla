---------------------------- MODULE MCBoostLedger ----------------------------
(***************************************************************************)
(* BoostLedger for TLC: calls, ledger rows and listings are interchangeable.*)
(***************************************************************************)
EXTENDS BoostLedger, TLC

Symmetry == Permutations(Requests) \cup Permutations(Ids)
=============================================================================
