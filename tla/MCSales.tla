------------------------------ MODULE MCSales ------------------------------
(***************************************************************************)
(* What sellers pay for: the life cycle of plans, boosts, and the calendar *)
(* they are counted by. The parts share no state that the models keep: a   *)
(* behaviour is about one of them, which "part" names.                     *)
(***************************************************************************)
EXTENDS PlanLimits, TLC

CONSTANTS
  Pair, Couple,  \* actors and rows, interchangeable within each
  MonthDays, WarnDays, RemindDays, Plans, Months,  \* of PlanLifecycle
  SaleHorizon, MaxSales,  \* its bounds
  Products, Quotas, Durations, Cycle,  \* of BoostLedger
  BoostHorizon, MaxSold,  \* its bounds
  None  \* no value

VARIABLES
  part,  \* the part a behaviour is about
  s1, s2, s3, s4, s5, s6, s7, s8, s9, s10, s11, s12  \* its variables; None beyond them

vars == <<part, s1, s2, s3, s4, s5, s6, s7, s8, s9, s10, s11, s12>>

-----------------------------------------------------------------------------
Plan == INSTANCE PlanLifecycle WITH
  Admins <- Pair, Horizon <- SaleHorizon, now <- s1, ran <- s2,
  missed <- s3, user <- s4, last <- s5, granted <- s6, owed <- s7,
  sales <- s8, reminded <- s9, expiring <- s10, expired <- s11, req <- s12

Boost == INSTANCE BoostLedger WITH
  Requests <- Pair, Ids <- Couple, Horizon <- BoostHorizon, now <- s1,
  quota <- s2, anchor <- s3, promo <- s4, listed <- s5, boostedUntil <- s6,
  payments <- s7, req <- s8, due <- s9, sold <- s10, raced <- s11

\* Plans started on 31 January, 29 February and 30 November 2024; the days from
\* 1 December 2023 to 8 February 2026.
Dates == INSTANCE Calendar WITH
  Anchors <- {1491, 1520, 1795}, NoAnchor <- -1, FirstDay <- 1430,
  LastDay <- 2230, anchor <- s1, today <- s2

ASSUME SalesAssumption == Plan!LifecycleAssumption /\ Boost!BoostAssumption

-----------------------------------------------------------------------------
Init ==
  \/ /\ part = "plans" /\ Plan!Init
  \/ /\ part = "boosts" /\ Boost!Init /\ s12 = None
  \/ /\ part = "calendar" /\ Dates!Init /\ s3 = None /\ s4 = None
     /\ s5 = None /\ s6 = None /\ s7 = None /\ s8 = None /\ s9 = None
     /\ s10 = None /\ s11 = None /\ s12 = None

PlanStep == part = "plans" /\ Plan!Next /\ UNCHANGED part
BoostStep == part = "boosts" /\ Boost!Next /\ UNCHANGED <<part, s12>>
DatesStep == part = "calendar" /\ Dates!Next
             /\ UNCHANGED <<part, s3, s4, s5, s6, s7, s8, s9, s10, s11, s12>>

Next == PlanStep \/ BoostStep \/ DatesStep

Spec == Init /\ [][Next]_vars

Symmetry == Permutations(Pair) \cup Permutations(Couple)

-----------------------------------------------------------------------------
TypeOK ==
  /\ part = "plans" => Plan!TypeOK
  /\ part = "boosts" => Boost!TypeOK
  /\ part = "calendar" => Dates!TypeOK

\* The nightly downgrade never changes what is in force, which is what the
\* last plan_changes row says; and while no job is missed, the label of a
\* plan outlives the plan by a day at most (handlePlanExpiry against
\* activePlan).
LabelFollowsPlan ==
  part = "plans" =>
    /\ Plan!InForceMatchesLastChange
    /\ Plan!LabelLagsAtMostADay

\* No expiry is announced twice, and none of a plan that was sold and ran
\* out is left unannounced, unless a job was missed
\* (handlePlanExpiryReminder, planExpiring).
RemindedExactlyOnce == part = "plans" => Plan!RemindedExactlyOnce

\* The free boosts of a cycle stay below the quota plus the calls in flight,
\* across plan changes, cycles and the promo (calculateBoostBilling).
FreeBoostsBounded == part = "boosts" => Boost!FreeBoostsBounded

\* Neither plans nor boosts run for less time than was sold, nor for more
\* than was ever sold (activatePlan, activateBoost).
TimeIsAsSold ==
  /\ part = "plans" => Plan!SaleRunsItsTerm /\ Plan!NoFreeTime
  /\ part = "boosts" => Boost!BoostRunsItsTerm /\ Boost!NoUnsoldTime

\* Every day is in one cycle of the quota, in one week of the weekly mails
\* and in one bar of the chart of activations: none overlaps its neighbour
\* or leaves a gap, at short months and the turn of the year too
\* (currentBoostCycle, isoWeekKey, planStats).
PeriodsTile ==
  part = "calendar" =>
    /\ Dates!CyclesTile
    /\ Dates!WeekKeysFollow
    /\ Dates!ChartHasNoGaps
=============================================================================
