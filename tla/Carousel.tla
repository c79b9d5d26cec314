------------------------------ MODULE Carousel ------------------------------
(***************************************************************************)
(* The daily pick of a Premium seller's listings for the home carousel:    *)
(* those shown least in the last days, newest first.  Look-up, selection   *)
(* and insert are separate calls; the job and a manual run can overlap,    *)
(* and a day can be missed.  Source: premium-carousel.cron.ts.             *)
(*                                                                         *)
(* Days are counted back from the day the job picks for, 0.  Rows further  *)
(* back than the window are read by nobody and pruned after a month.       *)
(***************************************************************************)
EXTENDS Integers, FiniteSets

CONSTANTS
  Runs,                  \* how many passes run at once at most
  Products,              \* numbered by creation time
  CAROUSEL_SIZE,
  FAIRNESS_WINDOW_DAYS,
  SETTLE                 \* NoneLeftOut looks at a stock unchanged for so long

WindowAssumption ==
  /\ FAIRNESS_WINDOW_DAYS \in Nat \ {0} /\ CAROUSEL_SIZE \in Nat
  /\ SETTLE \in Nat /\ SETTLE >= FAIRNESS_WINDOW_DAYS
  /\ IsFiniteSet(Products) /\ Products \subseteq Int

VARIABLES
  premium,   \* the plan is PREMIUM and in force, the seller not suspended
  active,    \* the seller's active listings
  settled,   \* history: days since the last change of the above, or missed job
  rows,      \* premium_carousel_days: the listings of each day, {} for no row
  runs

vars == <<premium, active, settled, rows, runs>>

-----------------------------------------------------------------------------
Days == 0..FAIRNESS_WINDOW_DAYS
Idle == [step |-> "idle"]

TypeOK ==
  /\ premium \in BOOLEAN
  /\ active \subseteq Products
  /\ settled \in 0..SETTLE
  /\ rows \in [Days -> SUBSET Products]
  /\ runs \in [Runs -> {Idle} \cup [step : {"select"}]
                       \cup [step : {"create"}, picked : SUBSET Products]]

Init ==
  /\ premium = TRUE
  /\ active \in SUBSET Products
  /\ settled = 0
  /\ rows = [d \in Days |-> {}]
  /\ runs = [r \in Runs |-> Idle]

End(r) == runs' = [runs EXCEPT ![r] = Idle]
Appearances(p, days) == Cardinality({d \in days : p \in rows[d]})

-----------------------------------------------------------------------------
\* The seller is skipped without Premium, or when the day has its row.
FindExisting(r) ==
  /\ runs[r] = Idle
  /\ premium /\ rows[0] = {}
  /\ runs' = [runs EXCEPT ![r] = [step |-> "select"]]
  /\ UNCHANGED <<premium, active, settled, rows>>

\* Mutant: the newest first, whatever was shown lately.
Before_Newest(p, q) == p > q

Before(p, q) ==
  LET cp == Appearances(p, Days \ {0})
      cq == Appearances(q, Days \ {0})
  IN  cp < cq \/ (cp = cq /\ p > q)

Select(r) ==
  /\ runs[r].step = "select"
  /\ IF active = {} THEN End(r)
     ELSE runs' = [runs EXCEPT ![r] =
            [step |-> "create",
             picked |-> {p \in active :
               Cardinality({q \in active : Before(q, p)}) < CAROUSEL_SIZE}]]
  /\ UNCHANGED <<premium, active, settled, rows>>

\* A second row for the day violates the unique key, which ends the pass.
Create(r) ==
  /\ runs[r].step = "create"
  /\ rows' = IF rows[0] = {} THEN [rows EXCEPT ![0] = runs[r].picked] ELSE rows
  /\ End(r)
  /\ UNCHANGED <<premium, active, settled>>

Fail(r) ==
  /\ runs[r] # Idle
  /\ End(r)
  /\ UNCHANGED <<premium, active, settled, rows>>

-----------------------------------------------------------------------------
PublishOrHide(p) ==
  /\ active' = IF p \in active THEN active \ {p} ELSE active \cup {p}
  /\ settled' = 0
  /\ UNCHANGED <<premium, rows, runs>>

ChangePlan ==
  /\ premium' = ~premium
  /\ settled' = 0
  /\ UNCHANGED <<active, rows, runs>>

\* The next day; the job may have failed, or never run.
NextDay ==
  /\ \A r \in Runs : runs[r] = Idle
  /\ rows' = [d \in Days |-> IF d = 0 THEN {} ELSE rows[d - 1]]
  /\ settled' = IF rows[0] = {} THEN 0
                ELSE IF settled < SETTLE THEN settled + 1 ELSE SETTLE
  /\ UNCHANGED <<premium, active, runs>>

Next ==
  \/ \E r \in Runs : FindExisting(r) \/ Select(r) \/ Create(r) \/ Fail(r)
  \/ \E p \in Products : PublishOrHide(p)
  \/ ChangePlan
  \/ NextDay

Spec == Init /\ [][Next]_vars

-----------------------------------------------------------------------------
\* No listing of a stock that stays the same, and that the days of the window
\* have room for, is left out for longer than the window (pickForDay).
NoneLeftOut ==
  settled = SETTLE /\ rows[0] # {} /\ Cardinality(active) <= CAROUSEL_SIZE * FAIRNESS_WINDOW_DAYS =>
    \A p \in active : Appearances(p, Days) >= 1

\* The carousel of a day is not exchanged while people look at it, however
\* often the job runs (pickForDay).
PickStep ==
  rows[0] # {} => rows[0] \in {rows'[0], rows'[1]}

=============================================================================
