---------------------------- MODULE MCListings ----------------------------
(***************************************************************************)
(* A small instance of Listings: one seller, plans that allow no or one    *)
(* active listing, images on the better plans only.                        *)
(***************************************************************************)
EXTENDS Listings, TLC

\* The shipped shape with other quotas.
NoneOrOne ==
  [p \in UserPlan |->
     CASE p = "FREE"    -> Limits(0, 0, 0, 0, 0, 0, "none")
       [] p = "BASIC"   -> Limits(0, 0, 1, 0, 0, 0, "none")
       [] p = "STAR"    -> Limits(1, 1, 2, 0, 1, 1, "WEEKLY")
       [] p = "PREMIUM" -> Limits(1, 1, 3, 50, 2, 2, "DAILY")]

OffOnly == {PROMO_OFF}

OneSeller == [p \in Products |-> CHOOSE s \in Sellers : TRUE]

Symmetry == Permutations(Products) \cup Permutations(Requests)
===========================================================================
