------------------------------- MODULE Pricing -------------------------------
(***************************************************************************)
(* What an admin charges for some months of a plan, and the hint that      *)
(* twelve months would be cheaper.  Pure operators; common/pricing.ts.     *)
(*                                                                         *)
(* Prices are whole XAF and discounts whole percentages, so the rounding   *)
(* below is that of Math.round on exact products.                          *)
(***************************************************************************)
EXTENDS PlanLimits, FiniteSets

CONSTANT PLAN_PRICES  \* the price of a month of each plan

ASSUME PricesAssumption == PLAN_PRICES \in [UserPlan -> Nat]

MonthsOffered == 1..12

Prices ==
  [p \in UserPlan |-> CASE p = "FREE" -> 0 [] p = "BASIC" -> 3000
                        [] p = "STAR" -> 12000 [] p = "PREMIUM" -> 35000]

Tier(min, max, percent) == [minMonths |-> min, maxMonths |-> max, pct |-> percent]

DISCOUNT_TIERS == {Tier(1, 2, 0), Tier(3, 5, 5), Tier(6, 11, 10), Tier(12, 12, 25)}

discountFor(months) ==
  (CHOOSE t \in DISCOUNT_TIERS : t.minMonths <= months /\ months <= t.maxMonths).pct

calculatePlanTotal(plan, months) ==
  LET gross == PLAN_PRICES[plan] * months
      discount == (gross * discountFor(months) + 50) \div 100
  IN  [unitPrice |-> PLAN_PRICES[plan], gross |-> gross,
       discountAmount |-> discount, total |-> gross - discount]

\* Mutant: the hint is for the eleven months it was first written for.
warnIfCheaperAtTwelve_TierOnly(plan, months) ==
  LET total == calculatePlanTotal(plan, months).total
      yearly == calculatePlanTotal(plan, 12).total
      triggered == months \in 6..11 /\ PLAN_PRICES[plan] > 0
  IN  [triggered |-> triggered, savings |-> IF triggered THEN total - yearly ELSE 0]

warnIfCheaperAtTwelve(plan, months) ==
  LET total == calculatePlanTotal(plan, months).total
      yearly == calculatePlanTotal(plan, 12).total
      triggered == months # 12 /\ PLAN_PRICES[plan] # 0 /\ yearly < total
  IN  [triggered |-> triggered, savings |-> IF triggered THEN total - yearly ELSE 0]

-----------------------------------------------------------------------------
\* Every term has a tier of its own; the hint appears exactly if some longer
\* term costs less than the one chosen, and no other term saves more than it
\* says; so without it, more months never cost less (warnIfCheaperAtTwelve
\* looks at twelve months only, calculatePlanTotal).
HintFindsEveryBargain(plan) ==
  \A m \in MonthsOffered :
    LET total(n) == calculatePlanTotal(plan, n).total
        hint == warnIfCheaperAtTwelve(plan, m)
    IN  /\ Cardinality({t \in DISCOUNT_TIERS : t.minMonths <= m /\ m <= t.maxMonths}) = 1
        /\ hint.triggered <=> \E n \in MonthsOffered : n > m /\ total(n) < total(m)
        /\ \A n \in MonthsOffered : n > m => total(m) - total(n) <= hint.savings

=============================================================================
