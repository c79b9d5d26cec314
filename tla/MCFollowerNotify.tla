--------------------------- MODULE MCFollowerNotify ---------------------------
(***************************************************************************)
(* FollowerNotify for TLC: listings and followers are interchangeable.     *)
(***************************************************************************)
EXTENDS FollowerNotify, TLC

Symmetry == Permutations(Listings) \cup Permutations(Followers)
=============================================================================
