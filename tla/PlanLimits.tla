----------------------------- MODULE PlanLimits -----------------------------
(***************************************************************************)
(* The plan gates every other component consults: what a paid plan allows, *)
(* which plan is in force at an instant, and how the platform-wide promo   *)
(* widens a plan.  Pure operators; src/src/common/plan-limits.ts.          *)
(*                                                                         *)
(* Percentages are whole numbers (50 stands for 0.5), a date is a natural  *)
(* number, NoDate is the database NULL, and the absent auto-bump cadence   *)
(* (null) is "none".                                                       *)
(***************************************************************************)
EXTENDS Integers

CONSTANTS
  PLAN_LIMITS,  \* the table of limits, one record per plan
  NoDate        \* a NULL date column

UserPlan == {"FREE", "BASIC", "STAR", "PREMIUM"}
Cadence == {"none", "WEEKLY", "DAILY"}
DateOrNull == Nat \cup {NoDate}

PlanLimitsRecord ==
  [maxActiveProducts : Nat, maxImagesPerProduct : Nat,
   includedBoostsPerMonth : Nat, extraBoostDiscountPct : 0..100,
   pinnedProducts : Nat, autoBumpSlots : Nat, autoBumpCadence : Cadence]

\* The promo as the enforcement code sees it; "active" already folds in the
\* enabled flag and the date window.
PromoState ==
  [active : BOOLEAN, grantedPlan : UserPlan, unlockLimits : BOOLEAN,
   unlockPinned : BOOLEAN, unlockAutoBump : BOOLEAN, unlockStats : BOOLEAN,
   freeBoosts : BOOLEAN]

ASSUME PlanLimitsAssumption == PLAN_LIMITS \in [UserPlan -> PlanLimitsRecord]
ASSUME NoDateAssumption == NoDate \notin Int

-----------------------------------------------------------------------------
Limits(active, images, boosts, discount, pinned, slots, cadence) ==
  [maxActiveProducts |-> active, maxImagesPerProduct |-> images,
   includedBoostsPerMonth |-> boosts, extraBoostDiscountPct |-> discount,
   pinnedProducts |-> pinned, autoBumpSlots |-> slots,
   autoBumpCadence |-> cadence]

\* The table the program ships; configurations that need small numbers give
\* PLAN_LIMITS another one of the same shape.
Catalogue ==
  [p \in UserPlan |->
     CASE p = "FREE"    -> Limits(5, 4, 0, 0, 0, 0, "none")
       [] p = "BASIC"   -> Limits(15, 4, 1, 0, 0, 0, "none")
       [] p = "STAR"    -> Limits(30, 6, 3, 0, 4, 3, "WEEKLY")
       [] p = "PREMIUM" -> Limits(100, 6, 8, 50, 10, 5, "DAILY")]

PLAN_RANK ==
  [p \in UserPlan |-> CASE p = "FREE" -> 0 [] p = "BASIC" -> 1
                        [] p = "STAR" -> 2 [] p = "PREMIUM" -> 3]

CADENCE_RANK ==
  [c \in Cadence |-> CASE c = "none" -> 0 [] c = "WEEKLY" -> 1
                       [] c = "DAILY" -> 2]

PROMO_OFF ==
  [active |-> FALSE, grantedPlan |-> "FREE", unlockLimits |-> FALSE,
   unlockPinned |-> FALSE, unlockAutoBump |-> FALSE, unlockStats |-> FALSE,
   freeBoosts |-> FALSE]

\* The plan in force at "now": a paid plan counts as FREE once its expiry has
\* passed, at the expiry instant itself it still counts.
activePlan(user, now) ==
  IF user.planExpiresAt # NoDate /\ user.planExpiresAt < now
  THEN "FREE" ELSE user.plan

Better(a, b) == IF a >= b THEN a ELSE b

bestCadence_Weakest(a, b) ==
  CASE a = "none" -> b
    [] b = "none" -> a
    [] OTHER -> IF CADENCE_RANK[a] >= CADENCE_RANK[b] THEN b ELSE a

bestCadence(a, b) ==
  CASE a = "none" -> b
    [] b = "none" -> a
    [] OTHER -> IF CADENCE_RANK[a] >= CADENCE_RANK[b] THEN a ELSE b

Widened(unlocked, own, gift) == IF unlocked THEN Better(own, gift) ELSE own

\* Mutant: the gift replaces what the seller paid for.
effectiveLimits_GiftReplaces(paidPlan, promo) ==
  LET own == PLAN_LIMITS[paidPlan]
      gift == PLAN_LIMITS[promo.grantedPlan]
  IN  IF promo.active /\ promo.unlockLimits
      THEN [gift EXCEPT !.pinnedProducts = own.pinnedProducts] ELSE own

effectiveLimits(paidPlan, promo) ==
  LET own == PLAN_LIMITS[paidPlan]
      gift == PLAN_LIMITS[promo.grantedPlan]
  IN  IF ~promo.active THEN own
      ELSE [maxActiveProducts |->
              Widened(promo.unlockLimits, own.maxActiveProducts,
                      gift.maxActiveProducts),
            maxImagesPerProduct |->
              Widened(promo.unlockLimits, own.maxImagesPerProduct,
                      gift.maxImagesPerProduct),
            includedBoostsPerMonth |->
              Widened(promo.freeBoosts, own.includedBoostsPerMonth,
                      gift.includedBoostsPerMonth),
            extraBoostDiscountPct |->
              Widened(promo.freeBoosts, own.extraBoostDiscountPct,
                      gift.extraBoostDiscountPct),
            pinnedProducts |->
              Widened(promo.unlockPinned, own.pinnedProducts,
                      gift.pinnedProducts),
            autoBumpSlots |->
              Widened(promo.unlockAutoBump, own.autoBumpSlots,
                      gift.autoBumpSlots),
            autoBumpCadence |->
              IF promo.unlockAutoBump
              THEN bestCadence(own.autoBumpCadence, gift.autoBumpCadence)
              ELSE own.autoBumpCadence]

UnlocksAnything(promo) ==
  \/ promo.unlockLimits \/ promo.unlockPinned
  \/ promo.unlockAutoBump \/ promo.unlockStats

\* Mutant: the window is forgotten, the unlock switches alone grant the plan.
entitlementPlan_NoWindow(paid, promo) ==
  IF UnlocksAnything(promo) /\ PLAN_RANK[promo.grantedPlan] > PLAN_RANK[paid]
  THEN promo.grantedPlan ELSE paid

\* What a seller with the given plan in force may do, as one plan.
entitlementPlan(paid, promo) ==
  IF /\ promo.active
     /\ UnlocksAnything(promo)
     /\ PLAN_RANK[promo.grantedPlan] > PLAN_RANK[paid]
  THEN promo.grantedPlan ELSE paid

hasStatsAccess(paidPlan, promo) ==
  LET unlocked == IF promo.active /\ promo.unlockStats
                  THEN PLAN_RANK[promo.grantedPlan] ELSE PLAN_RANK["FREE"]
  IN  Better(PLAN_RANK[paidPlan], unlocked) >= PLAN_RANK["STAR"]

-----------------------------------------------------------------------------
\* Record a allows everything record b allows.
AtLeast(a, b) ==
  /\ a.maxActiveProducts >= b.maxActiveProducts
  /\ a.maxImagesPerProduct >= b.maxImagesPerProduct
  /\ a.includedBoostsPerMonth >= b.includedBoostsPerMonth
  /\ a.extraBoostDiscountPct >= b.extraBoostDiscountPct
  /\ a.pinnedProducts >= b.pinnedProducts
  /\ a.autoBumpSlots >= b.autoBumpSlots
  /\ CADENCE_RANK[a.autoBumpCadence] >= CADENCE_RANK[b.autoBumpCadence]

\* A table in which every plan allows at least what a lower one does.
Monotone(table) ==
  \A p, q \in UserPlan :
    PLAN_RANK[p] >= PLAN_RANK[q] => AtLeast(table[p], table[q])
=============================================================================
