-------------------------- MODULE PlanGates_proofs --------------------------
(***************************************************************************)
(* The plan gates hold for every table of limits, not only for the shipped *)
(* one: PLAN_LIMITS is any function that satisfies PlanLimitsAssumption.   *)
(***************************************************************************)
EXTENDS PlanGates, FiniteSetTheorems, TLAPS

\* Every step leaves two plans and a promo.
LEMMA Typing == Spec => []TypeOK
<1>1. Init => TypeOK
  BY DEF Init, TypeOK, UserPlan, PROMO_OFF, PromoState
<1>2. TypeOK /\ [Next]_vars => TypeOK'
  BY DEF TypeOK, Next, vars, ChangePlans, ChangePromo
<1>3. QED
  BY <1>1, <1>2, PTL DEF Spec

\* The better of two cadences ranks at least as high as each of them.
LEMMA BestCadence ==
  ASSUME NEW a \in Cadence, NEW b \in Cadence
  PROVE  /\ bestCadence(a, b) \in {a, b}
         /\ CADENCE_RANK[bestCadence(a, b)] >= CADENCE_RANK[a]
         /\ CADENCE_RANK[bestCadence(a, b)] >= CADENCE_RANK[b]
BY DEF bestCadence, Cadence, CADENCE_RANK

\* A merge is never below the seller's own value.
LEMMA WidenedAtLeast ==
  ASSUME NEW u \in BOOLEAN, NEW own \in Int, NEW gift \in Int
  PROVE  Widened(u, own, gift) \in Int /\ Widened(u, own, gift) >= own
BY DEF Widened, Better

\* effectiveLimits never takes away anything the paid plan allows.
LEMMA NeverTakesAway ==
  ASSUME NEW p \in UserPlan, NEW pr \in PromoState
  PROVE  AtLeast(effectiveLimits(p, pr), PLAN_LIMITS[p])
<1> DEFINE own == PLAN_LIMITS[p]
           gift == PLAN_LIMITS[pr.grantedPlan]
<1>1. own \in PlanLimitsRecord /\ gift \in PlanLimitsRecord
  BY PlanLimitsAssumption DEF PromoState
<1>2. CASE ~pr.active
  BY <1>1, <1>2 DEF effectiveLimits, AtLeast, PlanLimitsRecord, Cadence, CADENCE_RANK
<1>3. CASE pr.active
  <2>1. /\ pr.unlockLimits \in BOOLEAN /\ pr.unlockPinned \in BOOLEAN
        /\ pr.unlockAutoBump \in BOOLEAN /\ pr.freeBoosts \in BOOLEAN
    BY DEF PromoState
  <2>2. /\ own.autoBumpCadence \in Cadence /\ gift.autoBumpCadence \in Cadence
        /\ CADENCE_RANK[own.autoBumpCadence] \in Int
    BY <1>1 DEF PlanLimitsRecord, Cadence, CADENCE_RANK
  <2>3. CADENCE_RANK[effectiveLimits(p, pr).autoBumpCadence]
          >= CADENCE_RANK[own.autoBumpCadence]
    BY <1>3, <2>1, <2>2, BestCadence DEF effectiveLimits
  <2> DEFINE eff == effectiveLimits(p, pr)
  <2>4. /\ own.maxActiveProducts \in Int /\ gift.maxActiveProducts \in Int
        /\ own.maxImagesPerProduct \in Int /\ gift.maxImagesPerProduct \in Int
        /\ own.includedBoostsPerMonth \in Int
        /\ gift.includedBoostsPerMonth \in Int
        /\ own.extraBoostDiscountPct \in Int
        /\ gift.extraBoostDiscountPct \in Int
        /\ own.pinnedProducts \in Int /\ gift.pinnedProducts \in Int
        /\ own.autoBumpSlots \in Int /\ gift.autoBumpSlots \in Int
    BY <1>1 DEF PlanLimitsRecord
  <2>5. /\ eff.maxActiveProducts >= own.maxActiveProducts
        /\ eff.maxImagesPerProduct >= own.maxImagesPerProduct
        /\ eff.includedBoostsPerMonth >= own.includedBoostsPerMonth
    BY <1>3, <2>1, <2>4, WidenedAtLeast DEF effectiveLimits
  <2>6. /\ eff.extraBoostDiscountPct >= own.extraBoostDiscountPct
        /\ eff.pinnedProducts >= own.pinnedProducts
        /\ eff.autoBumpSlots >= own.autoBumpSlots
    BY <1>3, <2>1, <2>4, WidenedAtLeast DEF effectiveLimits
  <2>7. QED
    BY <2>3, <2>5, <2>6 DEF AtLeast
<1>4. QED
  BY <1>2, <1>3

\* In every reachable state the promo takes nothing from the seller.
THEOREM PromoNeverTakesAwayThm == Spec => []PromoNeverTakesAway
<1>1. TypeOK => PromoNeverTakesAway
  BY NeverTakesAway DEF TypeOK, PromoNeverTakesAway, effectiveLimits
<1>2. QED
  BY <1>1, Typing, PTL

\* Merging with the same gift keeps the order of what the sellers own.
LEMMA WidenedMonotone ==
  ASSUME NEW u \in BOOLEAN, NEW hi \in Int, NEW lo \in Int, NEW gift \in Int,
         hi >= lo
  PROVE  Widened(u, hi, gift) >= Widened(u, lo, gift)
BY DEF Widened, Better

\* So does the merge of cadences.
LEMMA BestCadenceMonotone ==
  ASSUME NEW a \in Cadence, NEW b \in Cadence, NEW gift \in Cadence,
         CADENCE_RANK[a] >= CADENCE_RANK[b]
  PROVE  CADENCE_RANK[bestCadence(a, gift)] >= CADENCE_RANK[bestCadence(b, gift)]
BY DEF bestCadence, Cadence, CADENCE_RANK

\* Over a monotone table a better plan stays better under every promo.
LEMMA EffectiveMonotone ==
  ASSUME NEW p \in UserPlan, NEW q \in UserPlan, NEW pr \in PromoState,
         AtLeast(PLAN_LIMITS[p], PLAN_LIMITS[q])
  PROVE  AtLeast(effectiveLimits(p, pr), effectiveLimits(q, pr))
<1> DEFINE hi == PLAN_LIMITS[p]
           lo == PLAN_LIMITS[q]
           gift == PLAN_LIMITS[pr.grantedPlan]
           ehi == effectiveLimits(p, pr)
           elo == effectiveLimits(q, pr)
<1>1. CASE ~pr.active
  BY <1>1 DEF effectiveLimits
<1>2. CASE pr.active
  <2>1. /\ hi \in PlanLimitsRecord /\ lo \in PlanLimitsRecord
        /\ gift \in PlanLimitsRecord
    BY PlanLimitsAssumption DEF PromoState
  <2>2. /\ pr.unlockLimits \in BOOLEAN /\ pr.unlockPinned \in BOOLEAN
        /\ pr.unlockAutoBump \in BOOLEAN /\ pr.freeBoosts \in BOOLEAN
    BY DEF PromoState
  <2>3. \A r \in {hi, lo, gift} :
          /\ r.maxActiveProducts \in Int /\ r.maxImagesPerProduct \in Int
          /\ r.includedBoostsPerMonth \in Int
          /\ r.extraBoostDiscountPct \in Int
          /\ r.pinnedProducts \in Int /\ r.autoBumpSlots \in Int
          /\ r.autoBumpCadence \in Cadence
    BY <2>1 DEF PlanLimitsRecord
  <2>4. /\ ehi.maxActiveProducts >= elo.maxActiveProducts
        /\ ehi.maxImagesPerProduct >= elo.maxImagesPerProduct
        /\ ehi.includedBoostsPerMonth >= elo.includedBoostsPerMonth
    BY <1>2, <2>2, <2>3, WidenedMonotone DEF effectiveLimits, AtLeast
  <2>5. /\ ehi.extraBoostDiscountPct >= elo.extraBoostDiscountPct
        /\ ehi.pinnedProducts >= elo.pinnedProducts
        /\ ehi.autoBumpSlots >= elo.autoBumpSlots
    BY <1>2, <2>2, <2>3, WidenedMonotone DEF effectiveLimits, AtLeast
  <2>6. CADENCE_RANK[ehi.autoBumpCadence] >= CADENCE_RANK[elo.autoBumpCadence]
    BY <1>2, <2>2, <2>3, BestCadenceMonotone DEF effectiveLimits, AtLeast
  <2>7. QED
    BY <2>4, <2>5, <2>6 DEF AtLeast
<1>3. QED
  BY <1>1, <1>2

\* In every reachable state the higher plan buys at least the lower one.
THEOREM HigherPlanNeverWorseThm == Spec => []HigherPlanNeverWorse
<1>1. TypeOK => HigherPlanNeverWorse
  BY EffectiveMonotone DEF TypeOK, HigherPlanNeverWorse, Monotone
<1>2. QED
  BY <1>1, Typing, PTL

\* Over a monotone table the merge with a gift is no more than the better of
\* the two records allows.
LEMMA BetterCoversMerge ==
  ASSUME NEW p \in UserPlan, NEW q \in UserPlan, NEW pr \in PromoState,
         pr.active, pr.freeBoosts = FALSE, pr.grantedPlan = q,
         NEW r \in {p, q},
         AtLeast(PLAN_LIMITS[r], PLAN_LIMITS[p]), AtLeast(PLAN_LIMITS[r], PLAN_LIMITS[q])
  PROVE  AtLeast(PLAN_LIMITS[r], effectiveLimits(p, pr))
<1> DEFINE own == PLAN_LIMITS[p]
           gift == PLAN_LIMITS[q]
           best == PLAN_LIMITS[r]
           eff == effectiveLimits(p, pr)
<1>1. /\ own \in PlanLimitsRecord /\ gift \in PlanLimitsRecord
      /\ best \in PlanLimitsRecord
  BY PlanLimitsAssumption
<1>2. /\ pr.unlockLimits \in BOOLEAN /\ pr.unlockPinned \in BOOLEAN
      /\ pr.unlockAutoBump \in BOOLEAN
  BY DEF PromoState
<1>3. \A u \in BOOLEAN, x, y, z \in Int : z >= x /\ z >= y => z >= Widened(u, x, y)
  BY DEF Widened, Better
<1>4. \A a \in {own, gift, best} :
        /\ a.maxActiveProducts \in Int /\ a.maxImagesPerProduct \in Int
        /\ a.includedBoostsPerMonth \in Int /\ a.extraBoostDiscountPct \in Int
        /\ a.pinnedProducts \in Int /\ a.autoBumpSlots \in Int
        /\ a.autoBumpCadence \in Cadence
  BY <1>1 DEF PlanLimitsRecord
<1>5. /\ best.maxActiveProducts >= eff.maxActiveProducts
      /\ best.maxImagesPerProduct >= eff.maxImagesPerProduct
      /\ best.pinnedProducts >= eff.pinnedProducts
      /\ best.autoBumpSlots >= eff.autoBumpSlots
  BY <1>2, <1>3, <1>4 DEF effectiveLimits, AtLeast
<1>6. /\ best.includedBoostsPerMonth >= eff.includedBoostsPerMonth
      /\ best.extraBoostDiscountPct >= eff.extraBoostDiscountPct
  BY <1>4 DEF effectiveLimits, AtLeast, Widened
<1>7. CADENCE_RANK[best.autoBumpCadence] >= CADENCE_RANK[eff.autoBumpCadence]
  <2>1. eff.autoBumpCadence \in {own.autoBumpCadence, gift.autoBumpCadence}
    BY <1>2, <1>4, BestCadence DEF effectiveLimits
  <2>2. QED
    BY <2>1 DEF AtLeast
<1>8. QED
  BY <1>5, <1>6, <1>7 DEF AtLeast

\* Every record allows what it allows itself.
LEMMA AtLeastItself ==
  ASSUME NEW p \in UserPlan
  PROVE  AtLeast(PLAN_LIMITS[p], PLAN_LIMITS[p])
<1>1. PLAN_LIMITS[p] \in PlanLimitsRecord
  BY PlanLimitsAssumption
<1>2. CADENCE_RANK[PLAN_LIMITS[p].autoBumpCadence] \in Int
  BY <1>1 DEF PlanLimitsRecord, Cadence, CADENCE_RANK
<1>3. QED
  BY <1>1, <1>2 DEF AtLeast, PlanLimitsRecord

\* With every module unlocked the seller has all that the gift allows.
LEMMA AllOfTheGift ==
  ASSUME NEW p \in UserPlan, NEW pr \in PromoState, pr.active,
         pr.unlockLimits, pr.unlockPinned, pr.unlockAutoBump, pr.freeBoosts
  PROVE  AtLeast(effectiveLimits(p, pr), PLAN_LIMITS[pr.grantedPlan])
<1> DEFINE own == PLAN_LIMITS[p]
           gift == PLAN_LIMITS[pr.grantedPlan]
           eff == effectiveLimits(p, pr)
<1>1. own \in PlanLimitsRecord /\ gift \in PlanLimitsRecord
  BY PlanLimitsAssumption DEF PromoState
<1>2. \A a \in {own, gift} :
        /\ a.maxActiveProducts \in Int /\ a.maxImagesPerProduct \in Int
        /\ a.includedBoostsPerMonth \in Int /\ a.extraBoostDiscountPct \in Int
        /\ a.pinnedProducts \in Int /\ a.autoBumpSlots \in Int
        /\ a.autoBumpCadence \in Cadence
  BY <1>1 DEF PlanLimitsRecord
<1>3. \A x, y \in Int : Widened(TRUE, x, y) >= y
  BY DEF Widened, Better
<1>4. /\ eff.maxActiveProducts >= gift.maxActiveProducts
      /\ eff.maxImagesPerProduct >= gift.maxImagesPerProduct
      /\ eff.includedBoostsPerMonth >= gift.includedBoostsPerMonth
  BY <1>2, <1>3 DEF effectiveLimits, Widened, Better
<1>5. /\ eff.extraBoostDiscountPct >= gift.extraBoostDiscountPct
      /\ eff.pinnedProducts >= gift.pinnedProducts
      /\ eff.autoBumpSlots >= gift.autoBumpSlots
  BY <1>2, <1>3 DEF effectiveLimits, Widened, Better
<1>6. CADENCE_RANK[eff.autoBumpCadence] >= CADENCE_RANK[gift.autoBumpCadence]
  BY <1>2, BestCadence DEF effectiveLimits
<1>7. QED
  BY <1>4, <1>5, <1>6 DEF AtLeast

\* A promo that unlocks nothing but statistics leaves the limits alone.
LEMMA NothingUnlocked ==
  ASSUME NEW p \in UserPlan, NEW pr \in PromoState, ~pr.unlockLimits,
         ~pr.unlockPinned, ~pr.unlockAutoBump, ~pr.freeBoosts
  PROVE  AtLeast(PLAN_LIMITS[p], effectiveLimits(p, pr))
<1>1. CASE ~pr.active
  BY <1>1, AtLeastItself DEF effectiveLimits
<1>2. CASE pr.active
  BY <1>2, AtLeastItself DEF effectiveLimits, Widened, AtLeast
<1>3. QED
  BY <1>1, <1>2

\* The plan a client is told of covers what the server enforces.
LEMMA EntitlementCovers ==
  ASSUME NEW p \in UserPlan, NEW pr \in PromoState, Monotone(PLAN_LIMITS)
  PROVE  AtLeast(PLAN_LIMITS[entitlementPlan(p, pr)],
                 effectiveLimits(p, [pr EXCEPT !.freeBoosts = FALSE]))
<1> DEFINE e == [pr EXCEPT !.freeBoosts = FALSE]
           q == pr.grantedPlan
<1>1. /\ e \in PromoState /\ q \in UserPlan /\ e.grantedPlan = q
      /\ e.freeBoosts = FALSE /\ e.active = pr.active
      /\ e.unlockLimits = pr.unlockLimits /\ e.unlockPinned = pr.unlockPinned
      /\ e.unlockAutoBump = pr.unlockAutoBump
  BY DEF PromoState
<1>2. PLAN_RANK[p] \in Int /\ PLAN_RANK[q] \in Int
  BY <1>1 DEF PLAN_RANK, UserPlan
<1>3. CASE ~pr.active
  BY <1>1, <1>3, AtLeastItself DEF entitlementPlan, effectiveLimits
<1>4. CASE pr.active /\ ~UnlocksAnything(pr)
  <2>1. entitlementPlan(p, pr) = p
    BY <1>4 DEF entitlementPlan
  <2>2. AtLeast(PLAN_LIMITS[p], effectiveLimits(p, e))
    BY <1>1, <1>4, NothingUnlocked DEF UnlocksAnything
  <2>3. QED
    BY <2>1, <2>2
<1>5. CASE pr.active /\ UnlocksAnything(pr) /\ PLAN_RANK[q] > PLAN_RANK[p]
  <2>1. entitlementPlan(p, pr) = q
    BY <1>5 DEF entitlementPlan
  <2>2. AtLeast(PLAN_LIMITS[q], PLAN_LIMITS[p]) /\ AtLeast(PLAN_LIMITS[q], PLAN_LIMITS[q])
    BY <1>1, <1>2, <1>5, AtLeastItself DEF Monotone
  <2>3. QED
    BY <1>1, <1>5, <2>1, <2>2, BetterCoversMerge
<1>6. CASE pr.active /\ UnlocksAnything(pr) /\ ~(PLAN_RANK[q] > PLAN_RANK[p])
  <2>1. entitlementPlan(p, pr) = p
    BY <1>6 DEF entitlementPlan
  <2>2. AtLeast(PLAN_LIMITS[p], PLAN_LIMITS[p]) /\ AtLeast(PLAN_LIMITS[p], PLAN_LIMITS[q])
    BY <1>1, <1>2, <1>6, AtLeastItself DEF Monotone
  <2>3. QED
    BY <1>1, <1>6, <2>1, <2>2, BetterCoversMerge
<1>7. QED
  BY <1>3, <1>4, <1>5, <1>6

\* With every module unlocked the server enforces all the client is told of.
LEMMA EntitlementKept ==
  ASSUME NEW p \in UserPlan, NEW all \in PromoState, all.unlockLimits,
         all.unlockPinned, all.unlockAutoBump, all.freeBoosts
  PROVE  AtLeast(effectiveLimits(p, all), PLAN_LIMITS[entitlementPlan(p, all)])
<1>1. CASE entitlementPlan(p, all) = p
  BY <1>1, NeverTakesAway
<1>2. CASE all.active /\ entitlementPlan(p, all) = all.grantedPlan
  BY <1>2, AllOfTheGift
<1>3. QED
  BY <1>1, <1>2 DEF entitlementPlan

\* Statistics are open to whom the client shows them.
LEMMA StatsAgree ==
  ASSUME NEW p \in UserPlan, NEW pr \in PromoState
  PROVE  LET statsOnly == [pr EXCEPT !.unlockLimits = FALSE, !.unlockPinned = FALSE,
                                     !.unlockAutoBump = FALSE]
         IN  hasStatsAccess(p, pr)
               <=> PLAN_RANK[entitlementPlan(p, statsOnly)] >= PLAN_RANK["STAR"]
BY DEF hasStatsAccess, entitlementPlan, UnlocksAnything, Better, PLAN_RANK,
       UserPlan, PromoState

\* In every reachable state the three ways the promo is folded in agree.
THEOREM GatesAgreeThm == Spec => []GatesAgree
<1>1. TypeOK => GatesAgree
  <2> SUFFICES ASSUME TypeOK PROVE EntitlementMatchesLimits /\ StatsMatchEntitlement
    BY DEF GatesAgree
  <2> DEFINE all == [promo EXCEPT !.unlockLimits = TRUE, !.unlockPinned = TRUE,
                                  !.unlockAutoBump = TRUE, !.freeBoosts = TRUE]
  <2>1. /\ all \in PromoState /\ all.unlockLimits /\ all.unlockPinned
        /\ all.unlockAutoBump /\ all.freeBoosts
    BY DEF TypeOK, PromoState
  <2>2. EntitlementMatchesLimits
    BY <2>1, EntitlementCovers, EntitlementKept DEF EntitlementMatchesLimits, TypeOK
  <2>3. StatsMatchEntitlement
    BY StatsAgree DEF StatsMatchEntitlement, TypeOK
  <2>4. QED
    BY <2>2, <2>3
<1>2. QED
  BY <1>1, Typing, PTL

\* The tiers leave no month out, and no month is in two of them.
LEMMA Tiers ==
  ASSUME NEW m \in MonthsOffered
  PROVE  /\ discountFor(m) = IF m <= 2 THEN 0 ELSE IF m <= 5 THEN 5
                             ELSE IF m <= 11 THEN 10 ELSE 25
         /\ Cardinality({t \in DISCOUNT_TIERS : t.minMonths <= m /\ m <= t.maxMonths}) = 1
<1> DEFINE tier == IF m <= 2 THEN Tier(1, 2, 0) ELSE IF m <= 5 THEN Tier(3, 5, 5)
                   ELSE IF m <= 11 THEN Tier(6, 11, 10) ELSE Tier(12, 12, 25)
<1>1. {t \in DISCOUNT_TIERS : t.minMonths <= m /\ m <= t.maxMonths} = {tier}
  BY DEF MonthsOffered, DISCOUNT_TIERS, Tier
<1>2. Cardinality({tier}) = 1
  BY FS_Singleton
<1>3. discountFor(m) = tier.pct
  <2>1. \A t : t \in DISCOUNT_TIERS /\ t.minMonths <= m /\ m <= t.maxMonths <=> t = tier
    BY <1>1
  <2>2. QED
    BY <2>1 DEF discountFor
<1>4. tier.pct = IF m <= 2 THEN 0 ELSE IF m <= 5 THEN 5 ELSE IF m <= 11 THEN 10 ELSE 25
  BY DEF Tier
<1>5. QED
  BY <1>1, <1>2, <1>3, <1>4

\* What a term costs, for any price of a month: up to eleven months more is
\* dearer or as dear, and twelve cost no less than ten.
LEMMA TotalsGrow ==
  ASSUME NEW p \in UserPlan
  PROVE  /\ \A m \in MonthsOffered : calculatePlanTotal(p, m).total \in Int
         /\ \A m \in 1..10 : calculatePlanTotal(p, m).total <= calculatePlanTotal(p, m + 1).total
         /\ calculatePlanTotal(p, 10).total <= calculatePlanTotal(p, 12).total
         /\ PLAN_PRICES[p] = 0 =>
              \A m \in MonthsOffered : calculatePlanTotal(p, m).total = 0
<1> DEFINE c == PLAN_PRICES[p]
           cost(m, pct) == c * m - (c * m * pct + 50) \div 100
           T(m) == calculatePlanTotal(p, m).total
<1>1. c \in Nat
  BY PricesAssumption
<1>2. \A m \in MonthsOffered : T(m) = cost(m, discountFor(m))
  BY DEF calculatePlanTotal
<1>3. \A m \in 1..2 : T(m) = cost(m, 0)
  BY <1>2, Tiers DEF MonthsOffered
<1>4. \A m \in 3..5 : T(m) = cost(m, 5)
  BY <1>2, Tiers DEF MonthsOffered
<1>5. \A m \in 6..11 : T(m) = cost(m, 10)
  BY <1>2, Tiers DEF MonthsOffered
<1>6. T(12) = cost(12, 25)
  BY <1>2, Tiers DEF MonthsOffered
<1>7. /\ cost(1, 0) <= cost(2, 0) /\ cost(2, 0) <= cost(3, 5)
      /\ cost(3, 5) <= cost(4, 5) /\ cost(4, 5) <= cost(5, 5)
      /\ cost(5, 5) <= cost(6, 10)
  BY <1>1
<1>8. /\ cost(6, 10) <= cost(7, 10) /\ cost(7, 10) <= cost(8, 10)
      /\ cost(8, 10) <= cost(9, 10) /\ cost(9, 10) <= cost(10, 10)
      /\ cost(10, 10) <= cost(11, 10)
  BY <1>1
<1>9. cost(10, 10) <= cost(12, 25)
  BY <1>1
<1>10. \A m \in MonthsOffered : T(m) \in Int
  <2> SUFFICES ASSUME NEW m \in MonthsOffered PROVE T(m) \in Int
    OBVIOUS
  <2>1. m \in Int /\ (m \in 1..2 \/ m \in 3..5 \/ m \in 6..11 \/ m = 12)
    BY DEF MonthsOffered
  <2>2. \A x \in Int : c * m \in Int /\ c * m * x \in Int
    BY <1>1, <2>1
  <2>3. cost(m, 0) \in Int /\ cost(m, 5) \in Int /\ cost(m, 10) \in Int /\ cost(m, 25) \in Int
    BY <2>2
  <2>4. T(m) \in {cost(m, 0), cost(m, 5), cost(m, 10), cost(m, 25)}
    BY <1>3, <1>4, <1>5, <1>6, <2>1
  <2> HIDE DEF T, cost
  <2>5. QED
    BY <2>3, <2>4
<1>11. \A m \in 1..10 : T(m) <= T(m + 1)
  <2> SUFFICES ASSUME NEW m \in 1..10 PROVE T(m) <= T(m + 1)
    OBVIOUS
  <2>1. \/ m = 1 \/ m = 2 \/ m = 3 \/ m = 4 \/ m = 5
        \/ m = 6 \/ m = 7 \/ m = 8 \/ m = 9 \/ m = 10
    OBVIOUS
  <2>2. /\ T(1) <= T(2) /\ T(2) <= T(3) /\ T(3) <= T(4) /\ T(4) <= T(5) /\ T(5) <= T(6)
    BY <1>3, <1>4, <1>5, <1>7
  <2>3. /\ T(6) <= T(7) /\ T(7) <= T(8) /\ T(8) <= T(9) /\ T(9) <= T(10) /\ T(10) <= T(11)
    BY <1>5, <1>8
  <2> HIDE DEF T
  <2>4. QED
    BY <2>1, <2>2, <2>3
<1>12. T(10) <= T(12)
  BY <1>5, <1>6, <1>9
<1>13. c = 0 => \A m \in MonthsOffered : T(m) = 0
  <2>1. c = 0 => \A m, x \in Int : cost(m, x) = 0
    OBVIOUS
  <2>2. QED
    BY <1>2, <2>1, Tiers DEF MonthsOffered
<1>14. QED
  BY <1>10, <1>11, <1>12, <1>13

\* For any price of a month the hint finds what is cheaper.
LEMMA HintIsRight ==
  ASSUME NEW p \in UserPlan
  PROVE  HintFindsEveryBargain(p)
<1> DEFINE T(m) == calculatePlanTotal(p, m).total
           hint(m) == warnIfCheaperAtTwelve(p, m)
<1>1. /\ \A m \in 1..12 : T(m) \in Int
      /\ \A m \in 1..10 : T(m) <= T(m + 1)
      /\ T(10) <= T(12)
  BY TotalsGrow DEF MonthsOffered
<1>2. PLAN_PRICES[p] = 0 => \A m \in 1..12 : T(m) = 0
  BY TotalsGrow DEF MonthsOffered
<1>3. \A m \in 1..12 :
        /\ hint(m).triggered <=> m # 12 /\ PLAN_PRICES[p] # 0 /\ T(12) < T(m)
        /\ hint(m).savings = IF hint(m).triggered THEN T(m) - T(12) ELSE 0
  BY DEF warnIfCheaperAtTwelve
<1> HIDE DEF T, hint
<1>4. /\ T(1) <= T(2) /\ T(2) <= T(3) /\ T(3) <= T(4) /\ T(4) <= T(5)
      /\ T(5) <= T(6) /\ T(6) <= T(7) /\ T(7) <= T(8) /\ T(8) <= T(9)
      /\ T(9) <= T(10) /\ T(10) <= T(11)
  BY <1>1
<1>5. \A m, n \in 1..11 : m <= n => T(m) <= T(n)
  <2> SUFFICES ASSUME NEW m \in 1..11, NEW n \in 1..11, m <= n PROVE T(m) <= T(n)
    OBVIOUS
  <2>1. /\ m \in {1, 2, 3, 4, 5, 6, 7, 8, 9, 10, 11}
        /\ n \in {1, 2, 3, 4, 5, 6, 7, 8, 9, 10, 11}
    OBVIOUS
  <2>2. QED
    BY <1>1, <1>4, <2>1
<1>6. \A m, n \in 1..12 : m < n /\ T(n) < T(m) => m = 11 /\ n = 12 /\ PLAN_PRICES[p] # 0
  <2> SUFFICES ASSUME NEW m \in 1..12, NEW n \in 1..12, m < n, T(n) < T(m)
               PROVE  m = 11 /\ n = 12 /\ PLAN_PRICES[p] # 0
    OBVIOUS
  <2>1. n = 12
    BY <1>1, <1>5
  <2>2. m = 11
    <3>1. CASE m <= 10
      <4>1. T(m) <= T(10)
        BY <1>5, <3>1
      <4>2. T(m) <= T(12)
        BY <1>1, <4>1, <3>1
      <4>3. QED
        BY <1>1, <2>1, <4>2
    <3>2. QED
      BY <2>1, <3>1
  <2>3. QED
    BY <1>2, <2>1, <2>2
<1>7. SUFFICES ASSUME NEW m \in 1..12
               PROVE  /\ hint(m).triggered <=> \E n \in 1..12 : n > m /\ T(n) < T(m)
                      /\ \A n \in 1..12 : n > m => T(m) - T(n) <= hint(m).savings
  BY Tiers DEF HintFindsEveryBargain, MonthsOffered, T, hint
<1>8. hint(m).triggered <=> \E n \in 1..12 : n > m /\ T(n) < T(m)
  <2>1. ASSUME hint(m).triggered PROVE \E n \in 1..12 : n > m /\ T(n) < T(m)
    <3>1. 12 \in 1..12 /\ 12 > m /\ T(12) < T(m)
      BY <1>3, <2>1
    <3>2. QED
      BY <3>1
  <2>2. ASSUME NEW n \in 1..12, n > m, T(n) < T(m) PROVE hint(m).triggered
    BY <1>3, <1>6, <2>2
  <2>3. QED
    BY <2>1, <2>2
<1>9. ASSUME NEW n \in 1..12, n > m PROVE T(m) - T(n) <= hint(m).savings
  <2>1. CASE T(n) < T(m)
    <3>1. n = 12 /\ hint(m).triggered
      BY <1>6, <1>8, <1>9, <2>1
    <3>2. QED
      BY <1>1, <1>3, <3>1
  <2>2. CASE ~(T(n) < T(m))
    <3>1. T(m) - T(n) <= 0
      BY <1>1, <2>2
    <3>2. hint(m).savings >= 0 /\ hint(m).savings \in Int
      BY <1>1, <1>3
    <3>3. QED
      BY <1>1, <3>1, <3>2
  <2>3. QED
    BY <2>1, <2>2
<1>10. QED
  BY <1>8, <1>9

\* In every reachable state the hint of the preview can be relied on, for any
\* prices.
THEOREM PreviewIsHonestThm == Spec => []PreviewIsHonest
<1>1. TypeOK => PreviewIsHonest
  BY HintIsRight DEF TypeOK, PreviewIsHonest
<1>2. QED
  BY <1>1, Typing, PTL
=============================================================================
