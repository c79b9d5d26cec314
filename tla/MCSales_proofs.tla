--------------------------- MODULE MCSales_proofs ---------------------------
(***************************************************************************)
(* The properties of what sellers pay for, for any number of calls, any    *)
(* length of month, cycle and window, any quotas and any horizon.  The     *)
(* inductive invariant of the plans is here; the one of the boosts is      *)
(* proved in BoostLedger_proofs.                                           *)
(***************************************************************************)
EXTENDS MCSales, FiniteSetTheorems, TLAPS

BoostP == INSTANCE BoostLedger_proofs WITH
  Requests <- Pair, Ids <- Couple, Horizon <- BoostHorizon, now <- s1,
  quota <- s2, anchor <- s3, promo <- s4, listed <- s5, boostedUntil <- s6,
  payments <- s7, req <- s8, due <- s9, sold <- s10, raced <- s11

-----------------------------------------------------------------------------
(***************************************************************************)
(* The boosts here and the boosts proved about are the same: their         *)
(* definitions agree.                                                      *)
(***************************************************************************)
LEMMA SameBoosts ==
  /\ Boost!BoostAssumption <=> BoostP!BoostAssumption
  /\ Boost!Init <=> BoostP!Init
  /\ Boost!Next <=> BoostP!Next
  /\ Boost!TypeOK <=> BoostP!TypeOK
  /\ Boost!FreeBoostsBounded <=> BoostP!FreeBoostsBounded
  /\ Boost!NoUnsoldTime <=> BoostP!NoUnsoldTime
  /\ Boost!BoostRunsItsTerm <=> BoostP!BoostRunsItsTerm
  BY DEF Boost!BoostAssumption, BoostP!BoostAssumption, Boost!plan,
     BoostP!plan, Boost!time, BoostP!time, Boost!vars, BoostP!vars,
     Boost!Later, BoostP!Later, Boost!Top, BoostP!Top, Boost!Idle,
     BoostP!Idle, Boost!Init, BoostP!Init, Boost!CycleStart,
     BoostP!CycleStart, Boost!InCycle, BoostP!InCycle, Boost!Used,
     BoostP!Used, Boost!Start, BoostP!Start, Boost!ReadUser, BoostP!ReadUser,
     Boost!Bill, BoostP!Bill, Boost!Until, BoostP!Until, Boost!Find,
     BoostP!Find, Boost!Write, BoostP!Write, Boost!Pay, BoostP!Pay,
     Boost!Fail, BoostP!Fail, Boost!BoostStep, BoostP!BoostStep,
     Boost!Unboost, BoostP!Unboost, Boost!RemovePayment,
     BoostP!RemovePayment, Boost!ChangePlan, BoostP!ChangePlan,
     Boost!ChangePromo, BoostP!ChangePromo, Boost!ChangeListing,
     BoostP!ChangeListing, Boost!Tick, BoostP!Tick, Boost!Next, BoostP!Next,
     Boost!Kinds, BoostP!Kinds, Boost!Order, BoostP!Order, Boost!Counting,
     BoostP!Counting, Boost!Billed, BoostP!Billed, Boost!Writing,
     BoostP!Writing, Boost!Paying, BoostP!Paying, Boost!TypeOK,
     BoostP!TypeOK, Boost!Included, BoostP!Included, Boost!Promised,
     BoostP!Promised, Boost!FreeBoostsBounded, BoostP!FreeBoostsBounded,
     Boost!NoUnsoldTime, BoostP!NoUnsoldTime, Boost!BoostRunsItsTerm,
     BoostP!BoostRunsItsTerm, Boost!IsFiniteSet, BoostP!IsFiniteSet,
     Boost!Cardinality, BoostP!Cardinality

-----------------------------------------------------------------------------
(***************************************************************************)
(* The plans of a seller: what each variable of the part is called there.  *)
(***************************************************************************)
now == s1
ran == s2
missed == s3
user == s4
last == s5
granted == s6
owed == s7
sales == s8
reminded == s9
expiring == s10
expired == s11
req == s12

USE DEF now, ran, missed, user, last, granted, owed, sales, reminded, expiring,
        expired, req

(***************************************************************************)
(* Types.                                                                  *)
(***************************************************************************)
Account == [plan : Plan!UserPlan, planExpiresAt : Plan!DateOrNull]
Activation == [step : {"activate"}, plan : Plan!UserPlan, months : 1..12,
               seen : Account, at : Nat]
Changing == [step : {"change"}, plan : Plan!UserPlan, planExpiresAt : Plan!DateOrNull]
Paying == [step : {"pay"}]

\* What an account has of the time its plan was sold for.
Covered(row) ==
  row.plan # "FREE" /\ row.planExpiresAt # NoDate =>
    row.planExpiresAt - now <= granted[row.plan]

\* What a mutation read or was given holds until it ends, because time waits
\* for it.
CallInv ==
  \A a \in Pair :
    /\ req[a].step = "activate" => req[a].at = now /\ Covered(req[a].seen)
    /\ req[a].step = "change" => req[a].planExpiresAt \in {NoDate, now + Plan!Month}

LEMMA SameCounts ==
  ASSUME NEW S
  PROVE  /\ Plan!IsFiniteSet(S) <=> IsFiniteSet(S)
         /\ Plan!Cardinality(S) = Cardinality(S)
<1>1. Plan!IsFiniteSet(S) <=> IsFiniteSet(S)
  BY Zenon DEF Plan!IsFiniteSet, IsFiniteSet
<1>2. Plan!Cardinality(S) = Cardinality(S)
  BY Zenon DEF Plan!Cardinality, Cardinality
<1>3. QED
  BY <1>1, <1>2

LEMMA MonthType ==
  ASSUME Plan!LifecycleAssumption
  PROVE  /\ Plan!Month \in Nat /\ Plan!Month >= 4 * RemindDays + 8
         /\ \A n \in 1..12 : n * Plan!Month \in Nat /\ n * Plan!Month >= Plan!Month
<1>1. Plan!Month \in Nat /\ Plan!Month >= 4 * RemindDays + 8
  BY DEF Plan!LifecycleAssumption, Plan!Month, Plan!Day
<1>2. ASSUME NEW n \in 1..12
      PROVE  n * Plan!Month \in Nat /\ n * Plan!Month >= Plan!Month
  BY <1>1
<1>3. QED
  BY <1>1, <1>2

LEMMA BusyAdmin ==
  ASSUME Plan!TypeOK, NEW a \in Pair
  PROVE  /\ req[a].step = "activate" => req[a] \in Activation
         /\ req[a].step = "change" => req[a] \in Changing
         /\ req[a] \in {Plan!Idle} \cup Activation \cup Changing \cup Paying
  BY DEF Plan!TypeOK, Plan!Idle, Activation, Changing, Paying, Account

\* The date a sale runs to.
LEMMA SaleEnds ==
  ASSUME Plan!LifecycleAssumption, NEW r \in Activation
  PROVE  /\ Plan!StartsAt(r.seen, r.plan, r.at) \in Nat
         /\ Plan!StartsAt(r.seen, r.plan, r.at) >= r.at
         /\ Plan!StartsAt(r.seen, r.plan, r.at) + r.months * Plan!Month \in Nat
         /\ Plan!StartsAt(r.seen, r.plan, r.at) + r.months * Plan!Month
              >= r.at + r.months * Plan!Month
<1>1. r.at \in Nat /\ r.seen.planExpiresAt \in Plan!DateOrNull /\ r.months * Plan!Month \in Nat
  BY MonthType DEF Activation, Account
<1>2. QED
  BY <1>1 DEF Plan!StartsAt, Plan!StillActive, Plan!DateOrNull

\* The jobs' latest instant: a job that ran leaves it to the present, one that
\* is due leaves it a day behind.
LastHour(h) ==
  LET today == now - (now % Plan!Day) + h
  IN  IF now % Plan!Day > h \/ (now % Plan!Day = h /\ ran) THEN today ELSE today - Plan!Day

\* The user's row is the last plan_changes row, up to the nightly downgrade.
LedgerInv ==
  /\ user.planExpiresAt = last.planExpiresAt
  /\ \/ user.plan = last.plan
     \/ user.plan = "FREE" /\ user.planExpiresAt # NoDate /\ user.planExpiresAt < now
  /\ last.by = "activate" =>
       /\ last.planExpiresAt \in Nat
       /\ last.planExpiresAt >= last.at + last.months * Plan!Month
  /\ Covered(user)

\* A paid label is at least as young as the last downgrade.
LabelInv ==
  user.plan # "FREE" /\ user.planExpiresAt # NoDate /\ ~missed =>
    user.planExpiresAt >= LastHour(0)

\* The reminder has been through every day up to the end of its last window,
\* and no further; the mails have been through every day up to theirs.
ReminderEnd == LastHour(3) + RemindDays * Plan!Day + 3
MailEnd == LastHour(1) + 3

NoticeInv ==
  /\ DOMAIN reminded \subseteq Nat
  /\ \A d \in DOMAIN reminded : reminded[d] \in 0..1 /\ d <= ReminderEnd
  /\ last.by = "activate" /\ last.plan # "FREE" /\ ~missed =>
       /\ last.planExpiresAt <= ReminderEnd => last.planExpiresAt \in DOMAIN reminded
       /\ last.planExpiresAt <= MailEnd => last.planExpiresAt \in expiring

\* The admins who owe a payment, and those who will store a plan.
Payers == {a \in Pair : req[a].step = "pay"}
Sellers == {a \in Pair : req[a].step \in {"activate", "change"}}

\* No payment is recorded that is not owed, no plan stored beyond the bound.
CountInv ==
  /\ owed >= Cardinality(Payers)
  /\ sales + Cardinality(Sellers) <= MaxSales

PlansInv == Plan!TypeOK /\ CountInv /\ CallInv /\ LedgerInv /\ LabelInv /\ NoticeInv

-----------------------------------------------------------------------------
(***************************************************************************)
(* The clock of the jobs.                                                  *)
(***************************************************************************)
LEMMA HourOfDay ==
  ASSUME NEW n \in Nat
  PROVE  /\ n % Plan!Day \in 0..3
         /\ (n + 1) % Plan!Day = IF n % Plan!Day = 3 THEN 0 ELSE (n % Plan!Day) + 1
  BY DEF Plan!Day

LEMMA Hours ==
  ASSUME Plan!TypeOK, NEW h \in 0..3
  PROVE  /\ LastHour(h) \in Int /\ LastHour(h) <= now /\ LastHour(h) >= now - Plan!Day
         /\ now % Plan!Day = h /\ ~ran => LastHour(h) = now - Plan!Day
         /\ now % Plan!Day = h /\ ran => LastHour(h) = now
<1>1. now \in Nat /\ now % Plan!Day \in 0..3 /\ Plan!Day = 4
  BY HourOfDay DEF Plan!TypeOK, Plan!Day
<1>2. QED
  BY <1>1 DEF LastHour

LEMMA HoursStay ==
  ASSUME UNCHANGED <<now, ran>>, NEW h \in 0..3
  PROVE  LastHour(h)' = LastHour(h)
  BY DEF LastHour

\* A job moves its own hour and no other.
LEMMA JobHour ==
  ASSUME Plan!TypeOK, NEW slot \in 0..3, Plan!AtHour(slot), NEW h \in 0..3
  PROVE  IF h = slot THEN LastHour(h) = now - Plan!Day /\ LastHour(h)' = now
         ELSE LastHour(h)' = LastHour(h)
<1>1. now \in Nat /\ now % Plan!Day = slot /\ Plan!Day = 4
  BY DEF Plan!TypeOK, Plan!Day, Plan!AtHour
<1>2. now' = now /\ ~ran /\ ran'
  BY DEF Plan!AtHour
<1>3. now' % Plan!Day = slot
  BY <1>1, <1>2
<1>4. QED
  BY <1>1, <1>2, <1>3 DEF LastHour

\* Time moves no hour whose job has run, and none back.
LEMMA TickHour ==
  ASSUME Plan!TypeOK, Plan!Tick, NEW h \in 0..3
  PROVE  /\ LastHour(h)' \in Int /\ LastHour(h)' >= LastHour(h)
         /\ ran => LastHour(h)' = LastHour(h)
<1>1. now \in Nat /\ now' = now + 1 /\ ran' = FALSE /\ Plan!Day = 4
  BY DEF Plan!TypeOK, Plan!Tick, Plan!Day
<1>2. /\ now % Plan!Day \in 0..3
      /\ now' % Plan!Day = IF now % Plan!Day = 3 THEN 0 ELSE (now % Plan!Day) + 1
  BY <1>1, HourOfDay
<1>3. QED
  BY <1>1, <1>2 DEF LastHour

-----------------------------------------------------------------------------
(***************************************************************************)
(* The kinds of steps: a sale, the admins' other steps, a job, the clock.  *)
(***************************************************************************)
Sale(a) == Plan!Activate(a) \/ Plan!Change(a)

\* A sale writes one account, which runs for a month at least or for ever, into
\* both rows, and no more time than what it covers.
LEMMA SaleStep ==
  ASSUME Plan!LifecycleAssumption, Plan!TypeOK, CallInv, NEW a \in Pair, Sale(a)
  PROVE  /\ user' \in Account
         /\ last'.plan = user'.plan /\ last'.planExpiresAt = user'.planExpiresAt
         /\ user'.planExpiresAt # NoDate => user'.planExpiresAt >= now + Plan!Month
         /\ last'.by = "activate" =>
              /\ last'.planExpiresAt \in Nat
              /\ last'.planExpiresAt >= last'.at + last'.months * Plan!Month
         /\ Covered(user)'
         /\ \A p \in Plan!UserPlan : granted'[p] >= granted[p]
         /\ granted' \in [Plan!UserPlan -> Nat]
         /\ missed' = FALSE /\ UNCHANGED <<now, ran, Plan!notices>>
<1>0. /\ now \in Nat /\ Plan!Month \in Nat /\ granted \in [Plan!UserPlan -> Nat]
      /\ NoDate \notin Int
  BY MonthType, NoDateAssumption DEF Plan!TypeOK
<1>1. CASE Plan!Activate(a)
  <2> DEFINE r == req[a]
             start == Plan!StartsAt(r.seen, r.plan, r.at)
  <2>1. r \in Activation /\ r.at = now /\ Covered(r.seen)
    BY <1>1, BusyAdmin DEF Plan!Activate, CallInv
  <2>2. /\ r.months * Plan!Month \in Nat /\ r.months * Plan!Month >= Plan!Month
        /\ start \in Nat /\ start >= now
        /\ r.plan \in Plan!UserPlan /\ r.seen \in Account /\ r.months \in 1..12
    BY <2>1, MonthType, SaleEnds DEF Activation
  <2>3. /\ user' = [plan |-> r.plan, planExpiresAt |-> start + r.months * Plan!Month]
        /\ last' = [plan |-> r.plan, planExpiresAt |-> start + r.months * Plan!Month,
                    by |-> "activate", at |-> r.at, months |-> r.months]
        /\ granted' = [granted EXCEPT ![r.plan] = @ + r.months * Plan!Month]
        /\ missed' = FALSE /\ UNCHANGED <<now, ran, Plan!notices>>
    BY <1>1 DEF Plan!Activate, Plan!Store
  <2>4. r.plan # "FREE" => start - now <= granted[r.plan]
    BY <1>0, <2>1, <2>2 DEF Plan!StartsAt, Plan!StillActive, Covered, Account, Plan!DateOrNull
  <2> HIDE DEF r, start
  <2>5. PICK n \in Nat : n = r.months * Plan!Month
    BY <2>2
  <2>6. user' \in Account
    BY <2>2, <2>3, <2>5 DEF Account, Plan!DateOrNull
  <2>7. granted'[r.plan] = granted[r.plan] + n /\ granted[r.plan] \in Nat
    BY <1>0, <2>2, <2>3, <2>5
  <2>8. Covered(user)'
    BY <1>0, <2>2, <2>3, <2>4, <2>5, <2>7 DEF Covered
  <2>9. (\A p \in Plan!UserPlan : granted'[p] >= granted[p]) /\ granted' \in [Plan!UserPlan -> Nat]
    BY <1>0, <2>2, <2>3, <2>5
  <2>10. start + n \in Nat /\ start + n >= r.at + r.months * Plan!Month /\ start + n >= now + Plan!Month
    BY <1>0, <2>1, <2>2, <2>5
  <2>11. QED
    BY <2>3, <2>5, <2>6, <2>8, <2>9, <2>10
<1>2. CASE Plan!Change(a)
  <2> DEFINE r == req[a]
  <2>1. r \in Changing /\ r.planExpiresAt \in {NoDate, now + Plan!Month}
    BY <1>2, BusyAdmin DEF Plan!Change, CallInv
  <2>2. r.plan \in Plan!UserPlan /\ r.planExpiresAt \in Plan!DateOrNull
    BY <2>1 DEF Changing
  <2>3. /\ user' = [plan |-> r.plan, planExpiresAt |-> r.planExpiresAt]
        /\ last' = [plan |-> r.plan, planExpiresAt |-> r.planExpiresAt,
                    by |-> "change", at |-> now, months |-> 0]
        /\ granted' = [granted EXCEPT ![r.plan] = @ + Plan!Month]
        /\ missed' = FALSE /\ UNCHANGED <<now, ran, Plan!notices>>
    BY <1>2 DEF Plan!Change, Plan!Store
  <2> HIDE DEF r
  <2>4. granted'[r.plan] = granted[r.plan] + Plan!Month /\ granted[r.plan] \in Nat
    BY <1>0, <2>2, <2>3
  <2>5. Covered(user)'
    BY <1>0, <2>1, <2>3, <2>4 DEF Covered
  <2>6. (\A p \in Plan!UserPlan : granted'[p] >= granted[p]) /\ granted' \in [Plan!UserPlan -> Nat]
    BY <1>0, <2>2, <2>3
  <2>7. user' \in Account
    BY <2>2, <2>3 DEF Account
  <2>8. QED
    BY <1>0, <2>1, <2>3, <2>5, <2>6, <2>7
<1>3. QED
  BY <1>1, <1>2 DEF Sale

\* The steps that only start or end a mutation, and stuttering.
AdminStep(a) == Plan!ReadForActivate(a) \/ Plan!ReadForChange(a) \/ Plan!Pay(a) \/ Plan!Abort(a)

LEMMA StepKinds ==
  ASSUME [Plan!Next]_(Plan!vars)
  PROVE  \/ \E a \in Pair : Sale(a)
         \/ (\E a \in Pair : AdminStep(a)) /\ UNCHANGED <<Plan!clock, Plan!ledger, Plan!notices>>
         \/ UNCHANGED Plan!vars
         \/ Plan!Jobs
         \/ Plan!Tick
  BY DEF Plan!Next, Sale, AdminStep, Plan!ReadForActivate, Plan!ReadForChange, Plan!Pay, Plan!Abort, Plan!vars

\* A job leaves what was sold alone; the downgrade only takes away the label of
\* a plan that ran out.
LEMMA JobStep ==
  ASSUME Plan!TypeOK, Plan!Jobs
  PROVE  /\ UNCHANGED <<now, missed, last, granted, sales, owed, req>>
         /\ \/ UNCHANGED user
            \/ /\ user' = [user EXCEPT !.plan = "FREE"]
               /\ user.planExpiresAt # NoDate /\ user.planExpiresAt < now
  BY DEF Plan!Jobs, Plan!handlePlanExpiry, Plan!planExpiring, Plan!planExpired,
         Plan!handlePlanExpiryReminder, Plan!AtHour, Plan!ledger

-----------------------------------------------------------------------------
(***************************************************************************)
(* Type correctness.                                                       *)
(***************************************************************************)
Mutation == {Plan!Idle} \cup Activation \cup Changing \cup Paying

LEMMA MutationType ==
  Plan!TypeOK <=> /\ now \in 0..SaleHorizon /\ ran \in BOOLEAN /\ missed \in BOOLEAN
             /\ user \in Account
             /\ last \in [plan : Plan!UserPlan, planExpiresAt : Plan!DateOrNull,
                          by : {"none", "activate", "change"}, at : Nat,
                          months : 0..12]
             /\ granted \in [Plan!UserPlan -> Nat]
             /\ owed \in Nat /\ sales \in 0..MaxSales
             /\ expiring \subseteq Nat /\ expired \subseteq Nat
             /\ req \in [Pair -> Mutation]
  BY DEF Plan!TypeOK, Account, Mutation, Activation, Changing, Paying

LEMMA TypeHolds ==
  ASSUME now' \in 0..SaleHorizon, ran' \in BOOLEAN, missed' \in BOOLEAN,
         user' \in Account,
         last' \in [plan : Plan!UserPlan, planExpiresAt : Plan!DateOrNull,
                   by : {"none", "activate", "change"}, at : Nat, months : 0..12],
         granted' \in [Plan!UserPlan -> Nat],
         owed' \in Nat, sales' \in 0..MaxSales,
         expiring' \subseteq Nat, expired' \subseteq Nat,
         req' \in [Pair -> Mutation]
  PROVE  Plan!TypeOK'
  BY DEF Plan!TypeOK, Account, Mutation, Activation, Changing, Paying

LEMMA InitType == ASSUME Plan!LifecycleAssumption, Plan!Init PROVE Plan!TypeOK /\ CountInv
<1>1. /\ 0 \in 0..SaleHorizon /\ 0 \in 0..MaxSales /\ "FREE" \in Plan!UserPlan
      /\ NoDate \in Plan!DateOrNull /\ Plan!Idle \in Mutation
  BY DEF Plan!LifecycleAssumption, Plan!DateOrNull, Plan!UserPlan, Mutation
<1>2. /\ user \in Account /\ granted \in [Plan!UserPlan -> Nat]
      /\ req \in [Pair -> Mutation]
  BY <1>1 DEF Plan!Init, Account
<1>3. last \in [plan : Plan!UserPlan, planExpiresAt : Plan!DateOrNull,
                by : {"none", "activate", "change"}, at : Nat, months : 0..12]
  BY <1>1 DEF Plan!Init
<1>4. Plan!TypeOK
  BY <1>1, <1>2, <1>3, MutationType DEF Plan!Init
<1>5. Payers = {} /\ Sellers = {}
  BY DEF Plan!Init, Plan!Idle, Payers, Sellers
<1>6. QED
  BY <1>1, <1>4, <1>5, FS_EmptySet DEF CountInv, Plan!Init

\* How a step of one admin changes the two sets.
LEMMA Counts ==
  ASSUME Plan!LifecycleAssumption, Plan!TypeOK
  PROVE  /\ IsFiniteSet(Payers) /\ IsFiniteSet(Sellers)
         /\ Cardinality(Payers) \in Nat /\ Cardinality(Sellers) \in Nat
<1>1. Payers \subseteq Pair /\ Sellers \subseteq Pair
  BY DEF Payers, Sellers
<1>2. QED
  BY <1>1, SameCounts, FS_Subset, FS_CardinalityType DEF Plan!LifecycleAssumption

LEMMA OneMutation ==
  ASSUME Plan!TypeOK, NEW a \in Pair, NEW m \in Mutation, req' = [req EXCEPT ![a] = m]
  PROVE  /\ Payers' = IF m.step = "pay" THEN Payers \cup {a} ELSE Payers \ {a}
         /\ Sellers' = IF m.step \in {"activate", "change"}
                       THEN Sellers \cup {a} ELSE Sellers \ {a}
         /\ req' \in [Pair -> Mutation]
<1>1. req \in [Pair -> Mutation]
  BY MutationType
<1>2. \A b \in Pair : req'[b] = IF b = a THEN m ELSE req[b]
  BY <1>1
<1>3. QED
  BY <1>1, <1>2 DEF Payers, Sellers

LEMMA WithOne ==
  ASSUME NEW S, NEW x, IsFiniteSet(S)
  PROVE  /\ Cardinality(S \cup {x}) = IF x \in S THEN Cardinality(S) ELSE Cardinality(S) + 1
         /\ Cardinality(S \ {x}) = IF x \in S THEN Cardinality(S) - 1 ELSE Cardinality(S)
         /\ Cardinality(S \cup {x}) \in Nat /\ Cardinality(S \ {x}) \in Nat
  BY FS_AddElement, FS_RemoveElement, FS_CardinalityType

\* A mutation begins: it is one of those the bound still allows.
LEMMA ReadType ==
  ASSUME Plan!LifecycleAssumption, Plan!TypeOK, CountInv, NEW a \in Pair,
         Plan!ReadForActivate(a) \/ Plan!ReadForChange(a)
  PROVE  (Plan!TypeOK /\ CountInv)'
<1>1. /\ req[a] = Plan!Idle /\ sales + Cardinality({b \in Pair : req[b] # Plan!Idle}) < MaxSales
      /\ UNCHANGED <<Plan!clock, Plan!ledger, owed, Plan!notices>>
  BY SameCounts DEF Plan!ReadForActivate, Plan!ReadForChange
<1>2. PICK m \in Mutation : /\ m.step \in {"activate", "change"}
                            /\ req' = [req EXCEPT ![a] = m]
  <2>1. CASE Plan!ReadForActivate(a)
    <3>1. PICK p \in Plans, n \in Months :
            req' = [req EXCEPT ![a] = [step |-> "activate", plan |-> p, months |-> n,
                                       seen |-> user, at |-> now]]
      BY <2>1 DEF Plan!ReadForActivate
    <3>2. [step |-> "activate", plan |-> p, months |-> n, seen |-> user, at |-> now]
            \in Activation
      BY MutationType DEF Activation, Plan!LifecycleAssumption
    <3>3. QED
      BY <3>1, <3>2 DEF Mutation
  <2>2. CASE Plan!ReadForChange(a)
    <3>1. PICK p \in Plans, d \in {NoDate, now + Plan!Month} :
            req' = [req EXCEPT ![a] = [step |-> "change", plan |-> p, planExpiresAt |-> d]]
      BY <2>2 DEF Plan!ReadForChange
    <3>2. d \in Plan!DateOrNull /\ p \in Plan!UserPlan
      BY MonthType DEF Plan!TypeOK, Plan!DateOrNull, Plan!LifecycleAssumption
    <3>3. [step |-> "change", plan |-> p, planExpiresAt |-> d] \in Changing
      BY <3>2 DEF Changing
    <3>4. QED
      BY <3>1, <3>3 DEF Mutation
  <2>3. QED
    BY <2>1, <2>2
<1>3. Plan!TypeOK'
  BY <1>1, <1>2, OneMutation, MutationType, TypeHolds DEF Plan!clock, Plan!ledger, Plan!notices
<1>4. /\ {b \in Pair : req[b] # Plan!Idle} \subseteq Pair
      /\ Sellers \subseteq {b \in Pair : req[b] # Plan!Idle}
  BY DEF Plan!Idle, Sellers
<1>5. /\ IsFiniteSet({b \in Pair : req[b] # Plan!Idle})
      /\ Cardinality({b \in Pair : req[b] # Plan!Idle}) \in Nat
      /\ Cardinality(Sellers) <= Cardinality({b \in Pair : req[b] # Plan!Idle})
  BY <1>4, SameCounts, FS_Subset, FS_CardinalityType DEF Plan!LifecycleAssumption
<1>6. a \notin Payers /\ a \notin Sellers
  BY <1>1 DEF Plan!Idle, Payers, Sellers
<1>7. Payers' = Payers \ {a} /\ Sellers' = Sellers \cup {a}
  BY <1>2, OneMutation
<1>8. /\ Cardinality(Payers') = Cardinality(Payers)
      /\ Cardinality(Sellers') = Cardinality(Sellers) + 1
  BY <1>6, <1>7, Counts, WithOne
<1>9. sales \in Nat /\ MaxSales \in Nat /\ sales' = sales /\ owed' = owed
  BY <1>1 DEF Plan!TypeOK, Plan!LifecycleAssumption, Plan!ledger
<1>10. QED
  BY <1>1, <1>3, <1>5, <1>8, <1>9, Counts DEF CountInv

\* A mutation stores its plan, and goes on to the payment or ends.
LEMMA SaleType ==
  ASSUME Plan!LifecycleAssumption, Plan!TypeOK, CountInv, CallInv, NEW a \in Pair, Sale(a)
  PROVE  (Plan!TypeOK /\ CountInv)'
<1>1. /\ req[a].step \in {"activate", "change"} /\ sales' = sales + 1
      /\ UNCHANGED <<now, ran, Plan!notices>>
  BY DEF Sale, Plan!Activate, Plan!Change, Plan!Store
<1>2. PICK m \in Mutation :
        /\ req' = [req EXCEPT ![a] = m]
        /\ \/ m.step = "idle" /\ owed' = owed
           \/ m.step = "pay" /\ owed' = owed + 1
  <2>1. Plan!Idle \in Mutation /\ [step |-> "pay"] \in Mutation
    BY DEF Mutation, Paying
  <2>2. QED
    BY <2>1 DEF Sale, Plan!Activate, Plan!Change, Plan!Idle
<1>3. a \in Sellers /\ a \notin Payers
  BY <1>1 DEF Sellers, Payers
<1>4. /\ Payers' = IF m.step = "pay" THEN Payers \cup {a} ELSE Payers \ {a}
      /\ Sellers' = Sellers \ {a}
      /\ req' \in [Pair -> Mutation]
  BY <1>2, OneMutation
<1>5. Cardinality(Sellers') = Cardinality(Sellers) - 1
  BY <1>3, <1>4, Counts, WithOne
<1>6. Cardinality(Payers') = IF m.step = "pay" THEN Cardinality(Payers) + 1
                             ELSE Cardinality(Payers)
  BY <1>3, <1>4, Counts, WithOne
<1>7. sales \in Nat /\ owed \in Nat /\ MaxSales \in Nat
  BY DEF Plan!TypeOK, Plan!LifecycleAssumption
<1>8. CountInv'
  BY <1>1, <1>2, <1>5, <1>6, <1>7, Counts DEF CountInv
<1>9. Cardinality(Sellers') \in Nat /\ Cardinality(Payers') \in Nat
  BY <1>3, <1>4, <1>5, <1>6, Counts, WithOne
<1>10. sales' \in 0..MaxSales /\ owed' \in Nat
  BY <1>1, <1>2, <1>7, <1>8, <1>9 DEF CountInv
<1>11. last' \in [plan : Plan!UserPlan, planExpiresAt : Plan!DateOrNull,
                 by : {"none", "activate", "change"}, at : Nat, months : 0..12]
  <2>1. /\ user' = [plan |-> last'.plan, planExpiresAt |-> last'.planExpiresAt]
        /\ last' = [plan |-> last'.plan, planExpiresAt |-> last'.planExpiresAt,
                    by |-> last'.by, at |-> last'.at, months |-> last'.months]
    BY DEF Sale, Plan!Activate, Plan!Change, Plan!Store
  <2>2. last'.plan \in Plan!UserPlan /\ last'.planExpiresAt \in Plan!DateOrNull
    BY <2>1, SaleStep DEF Account
  <2>3. last'.by \in {"activate", "change"} /\ last'.at \in Nat /\ last'.months \in 0..12
    BY BusyAdmin DEF Sale, Plan!Activate, Plan!Change, Plan!Store, Activation, Plan!TypeOK
  <2>4. QED
    BY <2>1, <2>2, <2>3
<1>12. Plan!TypeOK'
  BY <1>1, <1>4, <1>10, <1>11, SaleStep, MutationType, TypeHolds DEF Plan!notices
<1>13. QED
  BY <1>8, <1>12

\* A mutation ends, with the payment it owed or without.
LEMMA EndType ==
  ASSUME Plan!LifecycleAssumption, Plan!TypeOK, CountInv, NEW a \in Pair, Plan!Pay(a) \/ Plan!Abort(a)
  PROVE  (Plan!TypeOK /\ CountInv)'
<1>1. /\ req' = [req EXCEPT ![a] = Plan!Idle] /\ UNCHANGED <<Plan!clock, Plan!ledger, Plan!notices>>
      /\ \/ a \in Payers /\ owed' = owed - 1
         \/ owed' = owed
  BY DEF Plan!Pay, Plan!Abort, Payers
<1>2. /\ Payers' = Payers \ {a} /\ Sellers' = Sellers \ {a}
      /\ req' \in [Pair -> Mutation]
  <2>1. Plan!Idle \in Mutation /\ Plan!Idle.step = "idle"
    BY DEF Plan!Idle, Mutation
  <2>2. QED
    BY <1>1, <2>1, OneMutation
<1>3. /\ Cardinality(Sellers') <= Cardinality(Sellers) /\ Cardinality(Sellers') \in Nat
      /\ Cardinality(Payers') \in Nat
      /\ Cardinality(Payers') = IF a \in Payers THEN Cardinality(Payers) - 1
                                ELSE Cardinality(Payers)
  <2>1. Cardinality(Payers \ {a}) \in Nat /\ Cardinality(Sellers \ {a}) \in Nat
    BY Counts, WithOne
  <2>2. Cardinality(Sellers \ {a}) <= Cardinality(Sellers)
    BY Counts, FS_Subset
  <2>3. Cardinality(Payers \ {a}) = IF a \in Payers THEN Cardinality(Payers) - 1
                                    ELSE Cardinality(Payers)
    BY Counts, WithOne
  <2>4. QED
    BY <1>2, <2>1, <2>2, <2>3
<1>4. sales \in Nat /\ owed \in Nat /\ MaxSales \in Nat
  BY DEF Plan!TypeOK, Plan!LifecycleAssumption
<1>5. CountInv' /\ owed' \in Nat
  BY <1>1, <1>3, <1>4, Counts DEF CountInv, Plan!ledger
<1>6. Plan!TypeOK'
  BY <1>1, <1>2, <1>5, MutationType, TypeHolds DEF Plan!clock, Plan!ledger, Plan!notices
<1>7. QED
  BY <1>5, <1>6

LEMMA NextType ==
  ASSUME Plan!LifecycleAssumption, Plan!TypeOK, CountInv, CallInv, [Plan!Next]_(Plan!vars)
  PROVE  (Plan!TypeOK /\ CountInv)'
<1>1. CASE \E a \in Pair : Sale(a)
  BY <1>1, SaleType
<1>2. CASE \E a \in Pair : AdminStep(a)
  BY <1>2, ReadType, EndType DEF AdminStep
<1>3. CASE UNCHANGED Plan!vars
  BY <1>3 DEF Plan!vars, Plan!clock, Plan!ledger, Plan!notices, Plan!TypeOK, CountInv, Payers, Sellers
<1>4. CASE Plan!Jobs
  <2>1. UNCHANGED <<now, missed, last, granted, sales, owed, req>> /\ ran' = TRUE
    BY <1>4, JobStep DEF Plan!Jobs, Plan!handlePlanExpiry, Plan!planExpiring, Plan!planExpired,
       Plan!handlePlanExpiryReminder, Plan!AtHour
  <2>2. user' \in Account
    BY <1>4, JobStep, MutationType DEF Account, Plan!UserPlan
  <2>3. expiring' \subseteq Nat /\ expired' \subseteq Nat
    BY <1>4, NoDateAssumption DEF Plan!Jobs, Plan!handlePlanExpiry, Plan!planExpiring, Plan!planExpired,
       Plan!handlePlanExpiryReminder, Plan!PaidUntil, Plan!notices, Plan!TypeOK, Plan!DateOrNull
  <2>4. Plan!TypeOK'
    BY <2>1, <2>2, <2>3, MutationType, TypeHolds
  <2>5. QED
    BY <2>1, <2>4 DEF CountInv, Payers, Sellers
<1>5. CASE Plan!Tick
  <2>0. missed' = (missed \/ ~ran) /\ ran' = FALSE
    BY <1>5 DEF Plan!Tick
  <2>1. now' \in 0..SaleHorizon
    BY <1>5 DEF Plan!Tick, Plan!TypeOK, Plan!LifecycleAssumption
  <2>2. UNCHANGED <<user, last, granted, sales, owed, expiring, expired, req>>
    BY <1>5 DEF Plan!Tick, Plan!ledger, Plan!notices
  <2>3. ran' \in BOOLEAN /\ missed' \in BOOLEAN
    BY <2>0
  <2>4. QED
    BY <2>1, <2>2, <2>3 DEF Plan!TypeOK, CountInv, Payers, Sellers
<1>6. QED
  BY <1>1, <1>2, <1>3, <1>4, <1>5, StepKinds

-----------------------------------------------------------------------------
(***************************************************************************)
(* What the mutations know.                                                *)
(***************************************************************************)
\* More time sold covers what was covered.
LEMMA StillCovered ==
  ASSUME Plan!TypeOK, NEW row \in Account, Covered(row), now' \in Nat, now' >= now,
         \A p \in Plan!UserPlan : granted'[p] \in Nat /\ granted'[p] >= granted[p]
  PROVE  row.plan # "FREE" /\ row.planExpiresAt # NoDate =>
           row.planExpiresAt - now' <= granted'[row.plan]
<1>1. /\ now \in Nat /\ row.plan \in Plan!UserPlan /\ row.planExpiresAt \in Plan!DateOrNull
      /\ granted[row.plan] \in Nat
  BY DEF Plan!TypeOK, Account
<1>2. QED
  BY <1>1 DEF Covered, Plan!DateOrNull

LEMMA NextCalls ==
  ASSUME Plan!LifecycleAssumption, Plan!TypeOK, CallInv, LedgerInv, [Plan!Next]_(Plan!vars)
  PROVE  CallInv'
<1>1. ASSUME NEW a \in Pair, Sale(a)
      PROVE  CallInv'
  <2>1. /\ req' = [req EXCEPT ![a] = req'[a]]
        /\ req'[a].step \in {"idle", "pay"}
    BY <1>1 DEF Plan!TypeOK, Sale, Plan!Activate, Plan!Change, Plan!Idle
  <2>2. /\ now' = now /\ now \in Nat
        /\ \A p \in Plan!UserPlan : granted'[p] \in Nat /\ granted'[p] >= granted[p]
    <3>1. /\ now' = now /\ granted' \in [Plan!UserPlan -> Nat]
          /\ \A p \in Plan!UserPlan : granted'[p] >= granted[p]
      BY <1>1, SaleStep
    <3>2. now \in Nat
      BY DEF Plan!TypeOK
    <3>3. QED
      BY <3>1, <3>2
  <2>3. ASSUME NEW b \in Pair, b # a
        PROVE  /\ req'[b] = req[b]
               /\ req[b].step = "activate" => Covered(req[b].seen)'
    <3>1. req'[b] = req[b]
      BY <2>1, <2>3 DEF Plan!TypeOK
    <3>2. req[b].step = "activate" => req[b].seen \in Account /\ Covered(req[b].seen)
      BY BusyAdmin DEF CallInv, Activation
    <3>3. req[b].step = "activate" => Covered(req[b].seen)'
      BY <2>2, <3>1, <3>2, StillCovered DEF Covered
    <3>4. QED
      BY <3>1, <3>3
  <2>4. req'[a].step # "activate" /\ req'[a].step # "change"
    BY <2>1
  <2>5. ASSUME NEW b \in Pair
        PROVE  /\ req'[b].step = "activate" => req'[b].at = now' /\ Covered(req[b].seen)'
               /\ req'[b].step = "change" =>
                    req'[b].planExpiresAt \in {NoDate, now' + Plan!Month}
    BY <2>2, <2>3, <2>4 DEF CallInv
  <2>6. QED
    BY <2>5 DEF CallInv
<1>2. ASSUME NEW a \in Pair, AdminStep(a)
      PROVE  CallInv'
  <2>1. /\ UNCHANGED <<now, granted>>
        /\ req' = [req EXCEPT ![a] = req'[a]]
    BY <1>2 DEF Plan!TypeOK, AdminStep, Plan!ReadForActivate, Plan!ReadForChange, Plan!Pay, Plan!Abort, Plan!clock, Plan!ledger
  <2>2. \A b \in Pair : b # a => req'[b] = req[b]
    BY <2>1 DEF Plan!TypeOK
  <2>3. /\ req'[a].step = "activate" => req'[a].at = now /\ Covered(req'[a].seen)
        /\ req'[a].step = "change" => req'[a].planExpiresAt \in {NoDate, now + Plan!Month}
    BY <1>2 DEF Plan!TypeOK, LedgerInv, AdminStep, Plan!ReadForActivate, Plan!ReadForChange, Plan!Pay,
       Plan!Abort, Plan!Idle
  <2>4. QED
    BY <2>1, <2>2, <2>3 DEF CallInv, Covered
<1>3. CASE UNCHANGED Plan!vars
  BY <1>3 DEF Plan!vars, Plan!clock, Plan!ledger, CallInv, Covered
<1>4. CASE Plan!Jobs
  BY <1>4, JobStep DEF CallInv, Covered
<1>5. CASE Plan!Tick
  BY <1>5 DEF Plan!Tick, CallInv, Plan!Idle
<1>6. QED
  BY <1>1, <1>2, <1>3, <1>4, <1>5, StepKinds

-----------------------------------------------------------------------------
(***************************************************************************)
(* The user's row and the last plan_changes row.                           *)
(***************************************************************************)
LEMMA NextLedger ==
  ASSUME Plan!LifecycleAssumption, Plan!TypeOK, CallInv, LedgerInv, [Plan!Next]_(Plan!vars)
  PROVE  LedgerInv'
<1>1. CASE \E a \in Pair : Sale(a)
  BY <1>1, SaleStep DEF LedgerInv
<1>2. CASE UNCHANGED <<Plan!clock, Plan!ledger, Plan!notices>>
  BY <1>2 DEF Plan!clock, Plan!ledger, LedgerInv, Covered
<1>3. CASE UNCHANGED Plan!vars
  BY <1>3 DEF Plan!vars, Plan!clock, Plan!ledger, LedgerInv, Covered
<1>4. CASE Plan!Jobs
  <2>1. CASE UNCHANGED user
    BY <1>4, <2>1, JobStep DEF LedgerInv, Covered
  <2>2. CASE user' = [user EXCEPT !.plan = "FREE"]
    <3>1. user'.plan = "FREE" /\ user'.planExpiresAt = user.planExpiresAt
      BY <2>2 DEF Plan!TypeOK
    <3>2. \/ user' = user
          \/ user.planExpiresAt # NoDate /\ user.planExpiresAt < now
      BY <1>4, JobStep
    <3>3. QED
      BY <1>4, <3>1, <3>2, JobStep DEF LedgerInv, Covered
  <2>3. QED
    BY <1>4, <2>1, <2>2, JobStep
<1>5. CASE Plan!Tick
  <2>1. /\ now \in Nat /\ now' = now + 1 /\ UNCHANGED <<user, last, granted>>
        /\ user \in Account
        /\ \A p \in Plan!UserPlan : granted[p] \in Nat
    BY <1>5, MutationType DEF Plan!Tick, Plan!ledger, Plan!TypeOK
  <2>2. Covered(user)'
    BY <2>1, StillCovered DEF LedgerInv, Covered
  <2>3. user.planExpiresAt # NoDate /\ user.planExpiresAt < now =>
          user.planExpiresAt < now'
    BY <2>1 DEF Account, Plan!DateOrNull
  <2>4. QED
    BY <2>1, <2>2, <2>3 DEF LedgerInv
<1>6. QED
  BY <1>1, <1>2, <1>3, <1>4, <1>5, StepKinds

-----------------------------------------------------------------------------
(***************************************************************************)
(* The label.                                                              *)
(***************************************************************************)
LEMMA NextLabel ==
  ASSUME Plan!LifecycleAssumption, Plan!TypeOK, CallInv, LabelInv, [Plan!Next]_(Plan!vars)
  PROVE  LabelInv'
<1>0. 0 \in 0..3 /\ now \in Nat /\ user \in Account /\ LastHour(0) \in Int
  BY Hours, MutationType DEF Plan!TypeOK
<1>1. CASE \E a \in Pair : Sale(a)
  <2>1. /\ UNCHANGED <<now, ran>>
        /\ user'.planExpiresAt # NoDate => user'.planExpiresAt >= now + Plan!Month
        /\ user' \in Account
    BY <1>1, SaleStep
  <2>2. LastHour(0)' = LastHour(0) /\ LastHour(0) <= now /\ Plan!Month \in Nat
    BY <1>0, <2>1, HoursStay, Hours, MonthType
  <2>3. user'.planExpiresAt # NoDate => user'.planExpiresAt \in Nat
    BY <2>1 DEF Account, Plan!DateOrNull
  <2>4. QED
    BY <1>0, <2>1, <2>2, <2>3 DEF LabelInv
<1>2. CASE UNCHANGED <<now, ran, missed, user>>
  BY <1>0, <1>2, HoursStay DEF LabelInv
<1>4. CASE Plan!Jobs
  <2>1. CASE Plan!handlePlanExpiry
    <3>1. LastHour(0)' = now /\ missed' = missed
      BY <1>0, <2>1, JobHour DEF Plan!handlePlanExpiry, Plan!AtHour
    <3>2. user'.plan # "FREE" /\ user'.planExpiresAt # NoDate =>
            user'.planExpiresAt >= now
      BY <1>0, <2>1 DEF Plan!handlePlanExpiry, Account, Plan!DateOrNull
    <3>3. QED
      BY <3>1, <3>2 DEF LabelInv
  <2>2. ASSUME NEW slot \in 1..3, Plan!AtHour(slot), UNCHANGED user
        PROVE  LabelInv'
    <3>1. LastHour(0)' = LastHour(0)
      BY <1>0, <2>2, JobHour
    <3>2. QED
      BY <2>2, <3>1 DEF LabelInv, Plan!AtHour
  <2>3. QED
    BY <1>4, <2>1, <2>2 DEF Plan!Jobs, Plan!planExpiring, Plan!planExpired,
       Plan!handlePlanExpiryReminder, Plan!ledger
<1>5. CASE Plan!Tick
  <2>1. user' = user /\ missed' = (missed \/ ~ran)
    BY <1>5 DEF Plan!Tick, Plan!ledger
  <2>2. ran => LastHour(0)' = LastHour(0)
    BY <1>0, <1>5, TickHour
  <2>3. QED
    BY <2>1, <2>2 DEF LabelInv
<1>6. QED
  BY <1>1, <1>2, <1>4, <1>5, StepKinds DEF Plan!vars, Plan!clock, Plan!ledger

-----------------------------------------------------------------------------
(***************************************************************************)
(* The notices.                                                            *)
(***************************************************************************)
\* A plan that is sold is beyond every window.
LEMMA NoticeSale ==
  ASSUME Plan!LifecycleAssumption, Plan!TypeOK, CallInv, NoticeInv, NEW a \in Pair, Sale(a)
  PROVE  NoticeInv'
<1>1. /\ UNCHANGED <<now, ran, reminded, expiring>>
      /\ last'.planExpiresAt # NoDate => last'.planExpiresAt >= now + Plan!Month
      /\ last'.by = "activate" => last'.planExpiresAt \in Nat
  BY SaleStep DEF Plan!notices
<1>2. /\ ReminderEnd' = ReminderEnd /\ MailEnd' = MailEnd
      /\ ReminderEnd \in Int /\ MailEnd \in Int
      /\ ReminderEnd < now + Plan!Month /\ MailEnd < now + Plan!Month
  <2>1. 1 \in 0..3 /\ 3 \in 0..3 /\ RemindDays * Plan!Day \in Nat /\ now \in Nat
        /\ RemindDays * Plan!Day = 4 * RemindDays
    BY DEF Plan!LifecycleAssumption, Plan!Day, Plan!TypeOK
  <2>2. LastHour(1)' = LastHour(1) /\ LastHour(3)' = LastHour(3)
    BY <1>1, <2>1, HoursStay
  <2>3. /\ LastHour(1) \in Int /\ LastHour(1) <= now
        /\ LastHour(3) \in Int /\ LastHour(3) <= now
    BY <2>1, Hours
  <2>4. Plan!Month \in Nat /\ Plan!Month >= 4 * RemindDays + 8 /\ RemindDays \in Nat
    BY MonthType DEF Plan!LifecycleAssumption
  <2>5. QED
    BY <2>1, <2>2, <2>3, <2>4 DEF ReminderEnd, MailEnd
<1>3. now \in Nat /\ Plan!Month \in Nat /\ NoDate \notin Nat
  BY MonthType, NoDateAssumption DEF Plan!TypeOK
<1>4. QED
  BY <1>1, <1>2, <1>3 DEF NoticeInv

\* The mails: the window starts now, and what was due before is in.
LEMMA NoticeMail ==
  ASSUME Plan!LifecycleAssumption, Plan!TypeOK, LedgerInv, NoticeInv, Plan!planExpiring
  PROVE  NoticeInv'
<1>0. /\ 1 \in 0..3 /\ 3 \in 0..3 /\ Plan!AtHour(1) /\ now \in Nat
      /\ UNCHANGED <<now, missed, user, last, reminded>>
      /\ WarnDays * Plan!Day \in Nat /\ WarnDays * Plan!Day >= 4
  BY DEF Plan!planExpiring, Plan!AtHour, Plan!ledger, Plan!TypeOK, Plan!LifecycleAssumption, Plan!Day
<1>1. MailEnd = now - 1 /\ MailEnd' = now + 3
  BY <1>0, JobHour DEF MailEnd, Plan!Day
<1>2. ReminderEnd' = ReminderEnd
  BY <1>0, JobHour DEF ReminderEnd
<1>3. ASSUME last.by = "activate", last.plan # "FREE", ~missed,
             last.planExpiresAt <= now + 3
      PROVE  last.planExpiresAt \in expiring'
  <2>1. last.planExpiresAt \in Nat /\ NoDate \notin Nat
    BY <1>3, NoDateAssumption DEF LedgerInv
  <2>2. CASE last.planExpiresAt < now
    BY <1>0, <1>1, <1>3, <2>1, <2>2 DEF NoticeInv, Plan!planExpiring
  <2>3. CASE last.planExpiresAt >= now
    <3>1. user.plan # "FREE" /\ user.planExpiresAt = last.planExpiresAt
      BY <1>0, <1>3, <2>1, <2>3 DEF LedgerInv
    <3>2. Plan!PaidUntil(now, now + WarnDays * Plan!Day)
      BY <1>0, <1>3, <2>1, <2>3, <3>1 DEF Plan!PaidUntil
    <3>3. QED
      BY <3>1, <3>2 DEF Plan!planExpiring
  <2>4. QED
    BY <1>0, <2>1, <2>2, <2>3
<1>4. QED
  BY <1>0, <1>1, <1>2, <1>3 DEF NoticeInv

\* The reminder: its window is the day after all those before.
LEMMA NoticeReminder ==
  ASSUME Plan!LifecycleAssumption, Plan!TypeOK, LedgerInv, NoticeInv, Plan!handlePlanExpiryReminder
  PROVE  NoticeInv'
<1> DEFINE from == now + RemindDays * Plan!Day
           to == now + (RemindDays + 1) * Plan!Day - 1
<1>0. /\ 1 \in 0..3 /\ 3 \in 0..3 /\ Plan!AtHour(3) /\ now \in Nat
      /\ UNCHANGED <<now, missed, user, last, expiring>>
      /\ Plan!Remind(from, to)
  BY DEF Plan!handlePlanExpiryReminder, Plan!AtHour, Plan!ledger, Plan!TypeOK
<1>1. from \in Nat /\ from >= now /\ to = from + 3
  BY <1>0 DEF Plan!LifecycleAssumption, Plan!Day
<1>2. ReminderEnd = from - 1 /\ ReminderEnd' = to
  <2>1. LastHour(3) = now - 4 /\ LastHour(3)' = now
    BY <1>0, JobHour DEF Plan!Day
  <2>2. RemindDays * Plan!Day \in Nat
    BY DEF Plan!LifecycleAssumption, Plan!Day
  <2>3. QED
    BY <1>0, <1>1, <2>1, <2>2 DEF ReminderEnd
<1>3. MailEnd' = MailEnd
  BY <1>0, JobHour DEF MailEnd
<1> HIDE DEF from, to
<1>4. CASE Plan!PaidUntil(from, to)
  <2>1. PICK d \in Nat : d = user.planExpiresAt /\ d >= from /\ d <= to
    BY <1>4 DEF Plan!PaidUntil, Plan!TypeOK, Plan!DateOrNull
  <2>2. d \notin DOMAIN reminded
    BY <1>1, <1>2, <2>1 DEF NoticeInv
  <2>3. reminded' = [e \in DOMAIN reminded \cup {d} |->
                      IF e = d THEN 0 + 1 ELSE reminded[e]]
    BY <1>0, <1>4, <2>1, <2>2 DEF Plan!Remind
  <2>4. DOMAIN reminded' = DOMAIN reminded \cup {d}
    BY <2>3
  <2>5. \A e \in DOMAIN reminded' : reminded'[e] \in 0..1 /\ e <= to
    BY <1>1, <1>2, <2>1, <2>3 DEF NoticeInv
  <2>6. ASSUME last.by = "activate", last.plan # "FREE", ~missed,
               last.planExpiresAt <= to
        PROVE  last.planExpiresAt \in DOMAIN reminded'
    BY <2>1, <2>4 DEF LedgerInv
  <2>7. QED
    BY <1>0, <1>2, <1>3, <2>1, <2>4, <2>5, <2>6 DEF NoticeInv
<1>5. CASE ~Plan!PaidUntil(from, to)
  <2>1. reminded' = reminded
    BY <1>0, <1>5 DEF Plan!Remind
  <2>2. ASSUME last.by = "activate", last.plan # "FREE", ~missed,
               last.planExpiresAt <= to
        PROVE  last.planExpiresAt \in DOMAIN reminded
    <3>1. last.planExpiresAt \in Nat /\ NoDate \notin Nat
      BY <2>2, NoDateAssumption DEF LedgerInv
    <3>2. last.planExpiresAt < from
      BY <1>0, <1>1, <1>5, <2>2, <3>1 DEF LedgerInv, Plan!PaidUntil
    <3>3. QED
      BY <1>1, <1>2, <2>2, <3>1, <3>2 DEF NoticeInv
  <2>3. \A d \in DOMAIN reminded : d <= to
    BY <1>1, <1>2 DEF NoticeInv
  <2>4. QED
    BY <1>0, <1>2, <1>3, <2>1, <2>2, <2>3 DEF NoticeInv
<1>6. QED
  BY <1>4, <1>5

LEMMA NextNotices ==
  ASSUME Plan!LifecycleAssumption, Plan!TypeOK, CallInv, LedgerInv, NoticeInv, [Plan!Next]_(Plan!vars)
  PROVE  NoticeInv'
<1>0. 1 \in 0..3 /\ 3 \in 0..3 /\ RemindDays * Plan!Day \in Nat
  BY DEF Plan!LifecycleAssumption, Plan!Day
<1>1. CASE \E a \in Pair : Sale(a)
  BY <1>1, NoticeSale
<1>2. CASE UNCHANGED <<now, ran, missed, last, reminded, expiring>>
  <2>1. LastHour(1)' = LastHour(1) /\ LastHour(3)' = LastHour(3)
    BY <1>0, <1>2, HoursStay
  <2>2. QED
    BY <1>2, <2>1 DEF NoticeInv, ReminderEnd, MailEnd
<1>3. ASSUME NEW slot \in {0, 2}, Plan!AtHour(slot), UNCHANGED <<last, reminded, expiring>>
      PROVE  NoticeInv'
  <2>1. LastHour(1)' = LastHour(1) /\ LastHour(3)' = LastHour(3)
    BY <1>0, <1>3, JobHour
  <2>2. QED
    BY <1>3, <2>1 DEF NoticeInv, ReminderEnd, MailEnd, Plan!AtHour
<1>4. CASE Plan!Jobs
  BY <1>3, <1>4, NoticeMail, NoticeReminder DEF Plan!Jobs, Plan!handlePlanExpiry, Plan!planExpired,
     Plan!ledger, Plan!notices
<1>5. CASE Plan!Tick
  <2>1. /\ UNCHANGED <<last, reminded, expiring>>
        /\ missed' = (missed \/ ~ran)
    BY <1>5 DEF Plan!Tick, Plan!ledger, Plan!notices
  <2>2. /\ LastHour(3) \in Int /\ LastHour(3)' \in Int /\ LastHour(3)' >= LastHour(3)
        /\ ran => LastHour(3)' = LastHour(3) /\ LastHour(1)' = LastHour(1)
    BY <1>0, <1>5, TickHour, Hours
  <2>3. /\ ReminderEnd \in Int /\ ReminderEnd' \in Int /\ ReminderEnd' >= ReminderEnd
        /\ ran => ReminderEnd' = ReminderEnd /\ MailEnd' = MailEnd
    BY <1>0, <2>2 DEF ReminderEnd, MailEnd
  <2>4. \A d \in DOMAIN reminded : d <= ReminderEnd'
    BY <2>3 DEF NoticeInv
  <2>5. CASE ran
    BY <2>1, <2>3, <2>4, <2>5 DEF NoticeInv
  <2>6. CASE ~ran
    BY <2>1, <2>4, <2>6 DEF NoticeInv
  <2>7. QED
    BY <2>5, <2>6
<1>6. QED
  BY <1>1, <1>2, <1>4, <1>5, StepKinds DEF Plan!vars, Plan!clock, Plan!ledger, Plan!notices

-----------------------------------------------------------------------------
(***************************************************************************)
(* Together.                                                               *)
(***************************************************************************)
LEMMA PlansInit ==
  ASSUME Plan!LifecycleAssumption, Plan!Init
  PROVE  PlansInv
<1>1. CallInv
  BY DEF Plan!Init, Plan!Idle, CallInv
<1>2. LedgerInv /\ LabelInv
  BY DEF Plan!Init, LedgerInv, LabelInv, Covered
<1>3. NoticeInv
  BY DEF Plan!Init, NoticeInv
<1>4. QED
  BY <1>1, <1>2, <1>3, InitType DEF PlansInv

LEMMA PlansNext ==
  ASSUME Plan!LifecycleAssumption, PlansInv, [Plan!Next]_(Plan!vars)
  PROVE  PlansInv'
  BY NextType, NextCalls, NextLedger, NextLabel, NextNotices DEF PlansInv

LEMMA PlansMean ==
  ASSUME Plan!LifecycleAssumption, PlansInv
  PROVE  /\ Plan!TypeOK /\ Plan!InForceMatchesLastChange /\ Plan!LabelLagsAtMostADay
         /\ Plan!SaleRunsItsTerm /\ Plan!NoFreeTime /\ Plan!RemindedExactlyOnce
<1>0. /\ 0 \in 0..3 /\ 1 \in 0..3 /\ 3 \in 0..3 /\ now \in Nat /\ Plan!Day = 4
      /\ RemindDays * Plan!Day \in Nat /\ user \in Account
  BY MutationType DEF PlansInv, Plan!TypeOK, Plan!LifecycleAssumption, Plan!Day
<1>1. Plan!InForceMatchesLastChange
  BY DEF PlansInv, LedgerInv, Plan!InForceMatchesLastChange, Plan!activePlan
<1>2. Plan!LabelLagsAtMostADay
  <2>1. LastHour(0) \in Int /\ LastHour(0) >= now - 4
    BY <1>0, Hours DEF PlansInv
  <2>2. user.planExpiresAt # NoDate => user.planExpiresAt \in Nat
    BY <1>0 DEF Account, Plan!DateOrNull
  <2>3. QED
    BY <1>0, <2>1, <2>2 DEF PlansInv, LabelInv, Plan!LabelLagsAtMostADay
<1>3. Plan!SaleRunsItsTerm
  BY DEF PlansInv, LedgerInv, Plan!SaleRunsItsTerm
<1>4. Plan!NoFreeTime
  BY DEF PlansInv, LedgerInv, Covered, Plan!NoFreeTime, Plan!activePlan
<1>5. Plan!RemindedExactlyOnce
  <2>1. \A d \in DOMAIN reminded : reminded[d] <= 1
    BY DEF PlansInv, NoticeInv
  <2>2. ASSUME last.by = "activate", last.plan # "FREE", ~missed,
               last.planExpiresAt < now
        PROVE  last.planExpiresAt \in DOMAIN reminded \cap expiring
    <3>1. /\ LastHour(1) \in Int /\ LastHour(1) >= now - 4
          /\ LastHour(3) \in Int /\ LastHour(3) >= now - 4
      BY <1>0, Hours DEF PlansInv
    <3>2. last.planExpiresAt \in Nat
      BY <2>2 DEF PlansInv, LedgerInv
    <3>3. last.planExpiresAt <= ReminderEnd /\ last.planExpiresAt <= MailEnd
      BY <1>0, <2>2, <3>1, <3>2 DEF ReminderEnd, MailEnd
    <3>4. QED
      BY <2>2, <3>3 DEF PlansInv, NoticeInv
  <2>3. QED
    BY <2>1, <2>2 DEF Plan!RemindedExactlyOnce
<1>6. QED
  BY <1>1, <1>2, <1>3, <1>4, <1>5 DEF PlansInv

HIDE DEF now, ran, missed, user, last, granted, owed, sales, reminded, expiring,
         expired, req

-----------------------------------------------------------------------------
(***************************************************************************)
(* The invariant of the whole.                                             *)
(***************************************************************************)
IInv ==
  /\ part = "plans" => PlansInv
  /\ part = "boosts" => BoostP!IInv
  /\ part = "calendar" => Dates!TypeOK

LEMMA Assumed ==
  /\ Plan!LifecycleAssumption /\ BoostP!BoostAssumption
  /\ PLAN_LIMITS \in [Plan!UserPlan -> Plan!PlanLimitsRecord] /\ NoDate \notin Int
<1>1. PLAN_LIMITS \in [Plan!UserPlan -> Plan!PlanLimitsRecord] /\ NoDate \notin Int
  BY PlanLimitsAssumption, NoDateAssumption
     DEF UserPlan, PlanLimitsRecord, Cadence,
         Plan!UserPlan, Plan!PlanLimitsRecord, Plan!Cadence
<1>2. QED
  BY <1>1, SalesAssumption, SameBoosts

LEMMA InitIInv == ASSUME Init PROVE IInv
<1>1. CASE part = "plans" /\ Plan!Init
  BY <1>1, Assumed, PlansInit DEF IInv
<1>2. CASE part = "boosts" /\ Boost!Init
  BY <1>2, Assumed, SameBoosts, BoostP!InitIInv DEF IInv
<1>3. CASE part = "calendar" /\ Dates!Init
  BY <1>3 DEF IInv, Dates!Init, Dates!TypeOK
<1>4. QED
  BY <1>1, <1>2, <1>3 DEF Init

\* Nothing changes in a step that stutters.
LEMMA StutterIInv == ASSUME IInv, UNCHANGED vars PROVE IInv'
<1>1. PlansInv /\ part = "plans" => PlansInv'
  BY Assumed, PlansNext DEF vars, Plan!vars, Plan!clock, Plan!ledger, Plan!notices
<1>2. BoostP!IInv /\ part = "boosts" => BoostP!IInv'
  BY Assumed, BoostP!NextIInv DEF vars, BoostP!vars, BoostP!plan, BoostP!time
<1>3. QED
  BY <1>1, <1>2 DEF IInv, vars, Dates!TypeOK

LEMMA NextIInv == ASSUME IInv, [Next]_vars PROVE IInv'
<1>1. CASE PlanStep
  <2>1. part = "plans" /\ part' = part /\ Plan!Next
    BY <1>1 DEF PlanStep
  <2>2. PlansInv'
    BY <2>1, Assumed, PlansNext DEF IInv
  <2>3. QED
    BY <2>1, <2>2 DEF IInv
<1>2. CASE BoostStep
  <2>1. part = "boosts" /\ part' = part /\ BoostP!Next
    BY <1>2, SameBoosts DEF BoostStep
  <2>2. BoostP!IInv'
    BY <2>1, Assumed, BoostP!NextIInv DEF IInv
  <2>3. QED
    BY <2>1, <2>2 DEF IInv
<1>3. CASE DatesStep
  BY <1>3 DEF IInv, DatesStep, Dates!Next, Dates!Tomorrow, Dates!TypeOK
<1>4. CASE UNCHANGED vars
  BY <1>4, StutterIInv
<1>5. QED
  BY <1>1, <1>2, <1>3, <1>4 DEF Next

THEOREM Invariance == Spec => []IInv
<1>1. Init => IInv
  BY InitIInv
<1>2. IInv /\ [Next]_vars => IInv'
  BY NextIInv
<1>3. QED
  BY <1>1, <1>2, PTL DEF Spec

-----------------------------------------------------------------------------
(***************************************************************************)
(* What it implies.                                                        *)
(***************************************************************************)
LEMMA PlansSound ==
  ASSUME IInv, part = "plans"
  PROVE  /\ Plan!TypeOK
         /\ Plan!InForceMatchesLastChange /\ Plan!LabelLagsAtMostADay
         /\ Plan!SaleRunsItsTerm /\ Plan!NoFreeTime /\ Plan!RemindedExactlyOnce
  BY Assumed, PlansMean DEF IInv

LEMMA BoostsSound ==
  ASSUME IInv, part = "boosts"
  PROVE  /\ Boost!TypeOK
         /\ Boost!FreeBoostsBounded /\ Boost!NoUnsoldTime /\ Boost!BoostRunsItsTerm
  BY Assumed, SameBoosts, BoostP!IInvMeans DEF IInv

\* Type correctness of the sales: among others no payment is recorded that no
\* plan change owes (changePlan).
THEOREM Typing == Spec => []TypeOK
<1>1. IInv => TypeOK
  BY PlansSound, BoostsSound DEF IInv, TypeOK
<1>2. QED
  BY <1>1, Invariance, PTL

\* The nightly downgrade never changes what is in force, and while no job is
\* missed the label outlives the plan by a day at most (handlePlanExpiry
\* against activePlan).
THEOREM LabelThm == Spec => []LabelFollowsPlan
<1>1. IInv => LabelFollowsPlan
  BY PlansSound DEF LabelFollowsPlan
<1>2. QED
  BY <1>1, Invariance, PTL

\* No expiry is announced twice, and no plan that was sold runs out
\* unannounced unless a job was missed (handlePlanExpiryReminder,
\* planExpiring).
THEOREM RemindedThm == Spec => []RemindedExactlyOnce
<1>1. IInv => RemindedExactlyOnce
  BY PlansSound DEF RemindedExactlyOnce
<1>2. QED
  BY <1>1, Invariance, PTL

\* The free boosts of a cycle stay below the best quota plus the calls in
\* flight (calculateBoostBilling, activateBoost).
THEOREM FreeBoostsThm == Spec => []FreeBoostsBounded
<1>1. IInv => FreeBoostsBounded
  BY BoostsSound DEF FreeBoostsBounded
<1>2. QED
  BY <1>1, Invariance, PTL

\* Neither plans nor boosts run for less time than was sold, nor for more
\* than was ever sold (activatePlan, activateBoost).
THEOREM TimeThm == Spec => []TimeIsAsSold
<1>1. IInv => TimeIsAsSold
  BY PlansSound, BoostsSound DEF TimeIsAsSold
<1>2. QED
  BY <1>1, Invariance, PTL
=============================================================================
