---------------------------- MODULE PlanLifecycle ----------------------------
(***************************************************************************)
(* The plan of one seller (plans of different sellers do not interact):    *)
(* admins activate and change it while the nightly jobs remind, downgrade  *)
(* and send mails.  Source: users.service.ts, products.cron.ts,            *)
(* email.cron.ts.                                                          *)
(*                                                                         *)
(* A day has four instants, those at which the jobs run: 3 AM (downgrade), *)
(* 8 AM (plan_expiring mail), 9 AM (plan_expired mail) and 10 AM (reminder *)
(* notification).  A date is a number of instants.  Mutations take far     *)
(* less time than the time between two instants, so time waits for them.   *)
(***************************************************************************)
EXTENDS PlanLimits, FiniteSets

CONSTANTS
  Admins,        \* mutations that can be in flight at once
  MonthDays,     \* days in the 30-day "month" a plan is sold by
  WarnDays,      \* PLAN_EXPIRING_WARN_DAYS
  RemindDays,    \* the reminder's window starts this many days ahead
  Plans,         \* the plans the admins choose
  Months,        \* durations the admins choose
  Horizon,       \* bound on the clock
  MaxSales       \* bound on plan changes

Day == 4
Month == MonthDays * Day

LifecycleAssumption ==
  /\ IsFiniteSet(Admins)
  /\ MonthDays \in Nat /\ WarnDays \in Nat \ {0} /\ RemindDays \in Nat
  /\ RemindDays + 1 < MonthDays
  /\ Plans \subseteq UserPlan /\ Months \subseteq 1..12
  /\ Horizon \in Nat /\ MaxSales \in Nat

VARIABLES
  now,
  ran,        \* has this instant's job run?
  missed,     \* history: a job was missed since the last plan change
  user,       \* users.plan, plan_expires_at
  last,       \* the last plan_changes row, how it came about and when
  granted,    \* history: time sold or granted of each plan, in all
  owed,       \* history: paid plan changes less the payments rows they got
  sales,      \* plan changes so far
  reminded,   \* reminder notifications sent, per expiry date
  expiring,   \* expiry dates of the plan_expiring mails (the dedupe key)
  expired,    \* expiry dates of the plan_expired mails
  req         \* the admins' mutations

clock == <<now, ran, missed>>
ledger == <<user, last, granted, sales>>
notices == <<reminded, expiring, expired>>
vars == <<clock, ledger, owed, notices, req>>

Idle == [step |-> "idle"]

Init ==
  /\ now = 0 /\ ran = FALSE /\ missed = FALSE
  /\ user = [plan |-> "FREE", planExpiresAt |-> NoDate]
  /\ last = [plan |-> "FREE", planExpiresAt |-> NoDate, by |-> "none",
             at |-> 0, months |-> 0]
  /\ granted = [p \in UserPlan |-> 0]
  /\ owed = 0 /\ sales = 0
  /\ reminded = [d \in {} |-> 0]
  /\ expiring = {} /\ expired = {}
  /\ req = [a \in Admins |-> Idle]

-----------------------------------------------------------------------------
(***************************************************************************)
(* The admins.                                                             *)
(***************************************************************************)
\* Both mutations read the user first.
ReadForActivate(a) ==
  /\ req[a] = Idle /\ sales + Cardinality({b \in Admins : req[b] # Idle}) < MaxSales
  /\ \E p \in Plans, n \in Months :
       req' = [req EXCEPT ![a] =
                 [step |-> "activate", plan |-> p, months |-> n,
                  seen |-> user, at |-> now]]
  /\ UNCHANGED <<clock, ledger, owed, notices>>

ReadForChange(a) ==
  /\ req[a] = Idle /\ sales + Cardinality({b \in Admins : req[b] # Idle}) < MaxSales
  /\ \E p \in Plans, d \in {NoDate, now + Month} :
       req' = [req EXCEPT ![a] =
                 [step |-> "change", plan |-> p, planExpiresAt |-> d]]
  /\ UNCHANGED <<clock, ledger, owed, notices>>

\* The row and its plan_changes entry, one transaction.
Store(p, expiresAt, by, at, months) ==
  /\ user' = [plan |-> p, planExpiresAt |-> expiresAt]
  /\ last' = [plan |-> p, planExpiresAt |-> expiresAt, by |-> by, at |-> at,
              months |-> months]
  /\ sales' = sales + 1
  /\ missed' = FALSE

StillActive(seen, at) == seen.planExpiresAt # NoDate /\ seen.planExpiresAt > at

\* Mutant: the time left of another plan is kept.
StartsAt_AnyPlan(seen, p, at) ==
  IF StillActive(seen, at) THEN seen.planExpiresAt ELSE at

\* The same plan, still active, accumulates; anything else starts now.
StartsAt(seen, p, at) ==
  IF p = seen.plan /\ StillActive(seen, at) THEN seen.planExpiresAt ELSE at

\* The sale, the change and the payment are one transaction.
Activate(a) ==
  LET r == req[a]
      endsAt == StartsAt(r.seen, r.plan, r.at) + r.months * Month
  IN  /\ r.step = "activate"
      /\ Store(r.plan, endsAt, "activate", r.at, r.months)
      /\ granted' = [granted EXCEPT ![r.plan] = @ + r.months * Month]
      /\ req' = [req EXCEPT ![a] = Idle]
      /\ UNCHANGED <<now, ran, owed, notices>>

\* The payment of a paid plan is a call of its own, after the transaction.
Change(a) ==
  LET r == req[a]
      paid == r.plan # "FREE"
  IN  /\ r.step = "change"
      /\ Store(r.plan, r.planExpiresAt, "change", now, 0)
      /\ granted' = [granted EXCEPT ![r.plan] = @ + Month]
      /\ owed' = IF paid THEN owed + 1 ELSE owed
      /\ req' = [req EXCEPT ![a] = IF paid THEN [step |-> "pay"] ELSE Idle]
      /\ UNCHANGED <<now, ran, notices>>

\* Mutant: the payment is recorded again and again.
Pay_Again(a) ==
  /\ req[a].step = "pay"
  /\ owed' = owed - 1
  /\ UNCHANGED <<clock, ledger, notices, req>>

Pay(a) ==
  /\ req[a].step = "pay"
  /\ owed' = owed - 1
  /\ req' = [req EXCEPT ![a] = Idle]
  /\ UNCHANGED <<clock, ledger, notices>>

\* A query fails or the process dies.
Abort(a) ==
  /\ req[a] # Idle
  /\ req' = [req EXCEPT ![a] = Idle]
  /\ UNCHANGED <<clock, ledger, owed, notices>>

-----------------------------------------------------------------------------
(***************************************************************************)
(* The jobs.  One process runs them.                                       *)
(***************************************************************************)
AtHour(slot) == now % Day = slot /\ ~ran /\ ran' = TRUE /\ UNCHANGED <<now, missed>>
PaidUntil(from, to) ==
  /\ user.plan # "FREE"
  /\ user.planExpiresAt # NoDate
  /\ user.planExpiresAt >= from /\ user.planExpiresAt <= to

\* Mutant: a plan is downgraded at its very last instant.
handlePlanExpiry_AtExpiry ==
  /\ AtHour(0)
  /\ user' = IF user.plan # "FREE" /\ user.planExpiresAt # NoDate
                /\ user.planExpiresAt <= now
             THEN [user EXCEPT !.plan = "FREE"] ELSE user
  /\ UNCHANGED <<last, granted, sales, owed, notices, req>>

handlePlanExpiry ==
  /\ AtHour(0)
  /\ user' = IF user.plan # "FREE" /\ user.planExpiresAt # NoDate
                /\ user.planExpiresAt < now
             THEN [user EXCEPT !.plan = "FREE"] ELSE user
  /\ UNCHANGED <<last, granted, sales, owed, notices, req>>

planExpiring ==
  /\ AtHour(1)
  /\ expiring' = IF PaidUntil(now, now + WarnDays * Day)
                 THEN expiring \cup {user.planExpiresAt} ELSE expiring
  /\ UNCHANGED <<ledger, owed, reminded, expired, req>>

planExpired ==
  /\ AtHour(2)
  /\ expired' = IF PaidUntil(now - Day, now)
                THEN expired \cup {user.planExpiresAt} ELSE expired
  /\ UNCHANGED <<ledger, owed, reminded, expiring, req>>

Remind(from, to) ==
  reminded' =
    IF PaidUntil(from, to)
    THEN LET d == user.planExpiresAt
             seen == IF d \in DOMAIN reminded THEN reminded[d] ELSE 0
         IN  [e \in DOMAIN reminded \cup {d} |->
                IF e = d THEN seen + 1 ELSE reminded[e]]
    ELSE reminded

\* Mutant: a window closed at both ends.
handlePlanExpiryReminder_Closed ==
  /\ AtHour(3)
  /\ Remind(now + RemindDays * Day, now + (RemindDays + 1) * Day)
  /\ UNCHANGED <<ledger, owed, expiring, expired, req>>

\* The window [from, to) is one day long.
handlePlanExpiryReminder ==
  /\ AtHour(3)
  /\ Remind(now + RemindDays * Day, now + (RemindDays + 1) * Day - 1)
  /\ UNCHANGED <<ledger, owed, expiring, expired, req>>

\* Time passes; a job that has not run by then (the process was down) is
\* missed, there is no catching up.
Tick ==
  /\ now < Horizon
  /\ \A a \in Admins : req[a] = Idle
  /\ now' = now + 1
  /\ ran' = FALSE
  /\ missed' = (missed \/ ~ran)
  /\ UNCHANGED <<ledger, owed, notices, req>>

Jobs == \/ handlePlanExpiry \/ planExpiring \/ planExpired
        \/ handlePlanExpiryReminder

Next ==
  \/ \E a \in Admins : \/ ReadForActivate(a) \/ ReadForChange(a)
                       \/ Activate(a) \/ Change(a) \/ Pay(a) \/ Abort(a)
  \/ Jobs
  \/ Tick

Spec == Init /\ [][Next]_vars

-----------------------------------------------------------------------------
TypeOK ==
  /\ now \in 0..Horizon
  /\ ran \in BOOLEAN /\ missed \in BOOLEAN
  /\ user \in [plan : UserPlan, planExpiresAt : DateOrNull]
  /\ last \in [plan : UserPlan, planExpiresAt : DateOrNull,
               by : {"none", "activate", "change"}, at : Nat, months : 0..12]
  /\ granted \in [UserPlan -> Nat]
  /\ owed \in Nat /\ sales \in 0..MaxSales
  /\ expiring \subseteq Nat /\ expired \subseteq Nat
  /\ req \in [Admins ->
       {Idle} \cup [step : {"pay"}]
       \cup [step : {"activate"}, plan : UserPlan, months : 1..12,
             seen : [plan : UserPlan, planExpiresAt : DateOrNull], at : Nat]
       \cup [step : {"change"}, plan : UserPlan, planExpiresAt : DateOrNull]]

\* The nightly downgrade rewrites the label but never what is in force: the
\* plan in force is the one the last plan_changes row says, whatever admins
\* and the job interleave (handlePlanExpiry against activePlan).
InForceMatchesLastChange == activePlan(user, now) = activePlan(last, now)

\* A sale runs for at least the months it was sold for, renewals of plans
\* that had lapsed long ago included (activatePlan).
SaleRunsItsTerm ==
  last.by = "activate" => last.planExpiresAt >= last.at + last.months * Month

\* Nobody gets a plan for longer than it was ever sold or granted: the time
\* left of another plan is not carried over, and concurrent activations do
\* not add up to more than their sum (activatePlan).
NoFreeTime ==
  activePlan(user, now) # "FREE" /\ user.planExpiresAt # NoDate =>
    user.planExpiresAt - now <= granted[user.plan]

\* While no job is missed, the label outlives the plan by a day at most
\* (handlePlanExpiry; lists that read the column see it).
LabelLagsAtMostADay ==
  user.plan # "FREE" /\ user.planExpiresAt # NoDate /\ ~missed =>
    user.planExpiresAt + Day >= now

\* No expiry is announced twice, and a plan that ran out was announced if no
\* job was missed (handlePlanExpiryReminder: "each user is notified exactly
\* once"; planExpiring).
RemindedExactlyOnce ==
  /\ \A d \in DOMAIN reminded : reminded[d] <= 1
  /\ /\ last.by = "activate" /\ last.plan # "FREE" /\ ~missed
     /\ last.planExpiresAt < now
     => /\ last.planExpiresAt \in DOMAIN reminded
        /\ last.planExpiresAt \in expiring

-----------------------------------------------------------------------------
\* The policy in the comment on activatePlan(): the same plan, still active,
\* accumulates on top of the expiry the row has.
RenewalsAccumulate ==
  [][\A a \in Admins :
       /\ Activate(a)
       /\ req[a].plan # "FREE"
       /\ \A row \in {user, req[a].seen} :
            row.plan = req[a].plan /\ StillActive(row, now)
       => user'.planExpiresAt = user.planExpiresAt + req[a].months * Month]_vars

\* The comment on planExpired(): the job mails those whose plan expired in
\* the day before it ran.
ExpiryIsMailed ==
  /\ last.by = "activate" /\ last.plan # "FREE" /\ ~missed
  /\ last.planExpiresAt + Day < now
  => last.planExpiresAt \in expired
=============================================================================
