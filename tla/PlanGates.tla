------------------------------ MODULE PlanGates ------------------------------
(***************************************************************************)
(* The plan gates under every plan and every promo: a state is the plan in *)
(* force of one seller, a second plan to compare it with and the promo; a  *)
(* step is an admin changing the plans or the promo.                       *)
(***************************************************************************)
EXTENDS Pricing

VARIABLES paid, other, promo

vars == <<paid, other, promo>>

TypeOK == paid \in UserPlan /\ other \in UserPlan /\ promo \in PromoState

Init == paid = "FREE" /\ other = "FREE" /\ promo = PROMO_OFF

ChangePlans == paid' \in UserPlan /\ other' \in UserPlan /\ UNCHANGED promo

ChangePromo == promo' \in PromoState /\ UNCHANGED <<paid, other>>

Next == ChangePlans \/ ChangePromo

Spec == Init /\ [][Next]_vars

-----------------------------------------------------------------------------
\* The promo never leaves a seller with less than the plan they pay for, and
\* once it is over nothing but the plan counts (effectiveLimits).
PromoNeverTakesAway ==
  /\ AtLeast(effectiveLimits(paid, promo), PLAN_LIMITS[paid])
  /\ ~promo.active => effectiveLimits(paid, promo) = PLAN_LIMITS[paid]

\* Paying for a higher plan never buys less than a lower one, whatever promo
\* runs (effectiveLimits over a monotone table, as the shipped one is).
HigherPlanNeverWorse ==
  Monotone(PLAN_LIMITS) /\ PLAN_RANK[paid] >= PLAN_RANK[other] =>
    AtLeast(effectiveLimits(paid, promo), effectiveLimits(other, promo))

\* The one plan the clients gate their screens on (entitlementPlan) never
\* promises less than what the server enforces (effectiveLimits; boosts ride
\* on a switch entitlementPlan ignores), and promises exactly that once every
\* module is unlocked.
EntitlementMatchesLimits ==
  LET enforced == effectiveLimits(paid, [promo EXCEPT !.freeBoosts = FALSE])
      all == [promo EXCEPT !.unlockLimits = TRUE, !.unlockPinned = TRUE,
                           !.unlockAutoBump = TRUE, !.freeBoosts = TRUE]
  IN  Monotone(PLAN_LIMITS) =>
        /\ AtLeast(PLAN_LIMITS[entitlementPlan(paid, promo)], enforced)
        /\ AtLeast(effectiveLimits(paid, all),
                   PLAN_LIMITS[entitlementPlan(paid, all)])

\* hasStatsAccess and entitlementPlan, which fold the promo in differently,
\* agree on who sees statistics when statistics are what the promo unlocks.
StatsMatchEntitlement ==
  LET statsOnly == [promo EXCEPT !.unlockLimits = FALSE,
                                 !.unlockPinned = FALSE,
                                 !.unlockAutoBump = FALSE]
  IN  hasStatsAccess(paid, promo)
        <=> PLAN_RANK[entitlementPlan(paid, statsOnly)] >= PLAN_RANK["STAR"]

\* The three functions that fold the promo into a plan agree: what the client
\* unlocks is what the server enforces, statistics included.
GatesAgree == EntitlementMatchesLimits /\ StatsMatchEntitlement

\* Whatever plan the admin is about to sell, and for however long, the hint of
\* the price preview appears exactly if a longer term costs less
\* (planTotalPreview).
PreviewIsHonest == HintFindsEveryBargain(paid) /\ HintFindsEveryBargain(other)
=============================================================================
