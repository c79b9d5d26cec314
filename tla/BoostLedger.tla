----------------------------- MODULE BoostLedger -----------------------------
(***************************************************************************)
(* Boosts of one seller's listings: the monthly quota is counted in the    *)
(* payments ledger, the boost itself is a date on the listing, and the     *)
(* ledger entry is written last, each by a call of its own.  Boosts by the *)
(* seller and by admins, cancellations, plan changes, the promo and the    *)
(* clock interleave.  Source: products.service.ts.                         *)
(*                                                                         *)
(* A cycle is a fixed number of ticks here; currentBoostCycle's calendar   *)
(* arithmetic decides only how long a month is.                            *)
(***************************************************************************)
EXTENDS Integers, FiniteSets

CONSTANTS
  Requests,   \* boost calls that can be in flight at once
  Products,   \* the seller's listings
  Ids,        \* payment rows: bounds the ledger
  Quotas,     \* includedBoostsPerMonth of the plans the seller may have
  Durations,  \* days a boost can be bought for
  Cycle,      \* length of a cycle
  Horizon,    \* bound on the clock
  MaxSold,    \* bound on the boosts: none starts on a listing that has had this much
  None

BoostAssumption ==
  /\ Quotas \subseteq Nat /\ \E q \in Quotas : \A s \in Quotas : s <= q
  /\ Durations \subseteq Nat \ {0}
  /\ Cycle \in Nat \ {0} /\ Horizon \in Nat /\ MaxSold \in Nat
  /\ IsFiniteSet(Requests) /\ Requests # {} /\ IsFiniteSet(Ids)

VARIABLES
  now,
  quota,         \* of the plan in force
  anchor,        \* planStartedAt, or the first of the month
  promo,         \* is there a promo with free boosts?
  listed,        \* is the listing active?
  boostedUntil,  \* of each listing, 0 for null
  payments,      \* the ledger rows with concept "boost"
  req,           \* the calls in flight
  due,           \* history: when the time bought and not cancelled ends
  sold,          \* history: when all the time ever bought ends
  raced          \* history: was a date replaced by a call that had not read it?

plan == <<quota, anchor, promo>>
time == <<due, sold>>
vars == <<now, plan, listed, boostedUntil, payments, req, time, raced>>

Later(a, b) == IF a > b THEN a ELSE b
Top(S) == CHOOSE q \in S : \A s \in S : s <= q

Idle == [step |-> "idle"]
Init ==
  /\ now = 0 /\ quota \in Quotas /\ anchor = 0 /\ promo = FALSE
  /\ listed = [p \in Products |-> TRUE]
  /\ boostedUntil = [p \in Products |-> 0]
  /\ payments = [i \in Ids |-> None]
  /\ req = [r \in Requests |-> Idle]
  /\ due = [p \in Products |-> 0]
  /\ sold = [p \in Products |-> 0]
  /\ raced = [p \in Products |-> FALSE]

-----------------------------------------------------------------------------
\* currentBoostCycle: the last whole cycle boundary not after t.
CycleStart(from, t) == from + ((t - from) \div Cycle) * Cycle
InCycle(at, start) == start <= at /\ at < start + Cycle

\* usedThisMonth: ledger rows of the cycle, whatever they were billed as.
Used(start) == Cardinality({i \in Ids : payments[i] # None /\ InCycle(payments[i].at, start)})

\* boostMyProduct and boostProduct find the listing, the former checks that it
\* is the caller's; both normalise the duration.
Start(r) ==
  /\ req[r] = Idle
  /\ \E p \in Products, d \in Durations, by \in {"seller", "admin"} :
       /\ sold[p] < MaxSold
       /\ req' = [req EXCEPT ![r] =
                 [step |-> "user", product |-> p, days |-> d, by |-> by]]
  /\ UNCHANGED <<now, plan, listed, boostedUntil, payments, time, raced>>

\* boostQuotaFor: the plan in force and the cycle it is in ...
ReadUser(r) ==
  /\ req[r].step = "user"
  /\ req' = [req EXCEPT ![r] =
       [step |-> "count", product |-> @.product, days |-> @.days, by |-> @.by,
        quota |-> quota, start |-> CycleStart(anchor, now)]]
  /\ UNCHANGED <<now, plan, listed, boostedUntil, payments, time, raced>>

\* Mutant: only what was paid for counts.
Bill_CountsExtras(r) ==
  LET q == req[r]
      used == Cardinality({i \in Ids : /\ payments[i] # None
                                       /\ payments[i].kind = "extra"
                                       /\ InCycle(payments[i].at, q.start)})
      kind == IF promo THEN "promo"
              ELSE IF used < q.quota THEN "included" ELSE "extra"
  IN  /\ q.step = "count"
      /\ req' = [req EXCEPT ![r] =
           IF q.by = "seller" /\ kind = "extra" THEN Idle
           ELSE [step |-> "find", product |-> q.product, days |-> q.days, kind |-> kind]]
      /\ UNCHANGED <<now, plan, listed, boostedUntil, payments, time, raced>>

\* ... and the boosts of the cycle.  A promo makes the boost free, so does
\* what is left of the quota; a seller cannot order an extra boost.  The promo
\* is read between the two queries, mostly from memory.
Bill(r) ==
  LET q == req[r]
      kind == IF promo THEN "promo"
              ELSE IF Used(q.start) < q.quota THEN "included" ELSE "extra"
  IN  /\ q.step = "count"
      /\ req' = [req EXCEPT ![r] =
           IF q.by = "seller" /\ kind = "extra" THEN Idle
           ELSE [step |-> "find", product |-> q.product, days |-> q.days, kind |-> kind]]
      /\ UNCHANGED <<now, plan, listed, boostedUntil, payments, time, raced>>

\* A boost that runs is extended, any other starts now.
Until(until, days) == Later(until, now) + days

\* activateBoost reads the listing, which must be active, and computes the
\* date the boost ends ...
Find(r) ==
  LET q == req[r]
  IN  /\ q.step = "find"
      /\ req' = [req EXCEPT ![r] =
           IF listed[q.product]
           THEN [step |-> "write", product |-> q.product, days |-> q.days, kind |-> q.kind,
                 at |-> now, seen |-> boostedUntil[q.product],
                 until |-> Until(boostedUntil[q.product], q.days)]
           ELSE Idle]
      /\ UNCHANGED <<now, plan, listed, boostedUntil, payments, time, raced>>

\* ... writes it ...
Write(r) ==
  LET q == req[r]
  IN  /\ q.step = "write"
      /\ boostedUntil' = [boostedUntil EXCEPT ![q.product] = q.until]
      /\ due' = [due EXCEPT ![q.product] = Later(@, q.at) + q.days]
      /\ sold' = [sold EXCEPT ![q.product] = Later(@, q.at) + q.days]
      /\ raced' = [raced EXCEPT ![q.product] = @ \/ boostedUntil[q.product] # q.seen]
      /\ req' = [req EXCEPT ![r] = [step |-> "pay", product |-> q.product, kind |-> q.kind]]
      /\ UNCHANGED <<now, plan, listed, payments>>

\* ... and enters the boost in the ledger.
Pay(r) ==
  LET q == req[r]
  IN  /\ q.step = "pay"
      /\ \E i \in Ids :
           /\ payments[i] = None
           /\ payments' = [payments EXCEPT ![i] = [at |-> now, kind |-> q.kind]]
      /\ req' = [req EXCEPT ![r] = Idle]
      /\ UNCHANGED <<now, plan, listed, boostedUntil, time, raced>>

\* A query fails or the process dies.
Fail(r) ==
  /\ req[r] # Idle
  /\ req' = [req EXCEPT ![r] = Idle]
  /\ UNCHANGED <<now, plan, listed, boostedUntil, payments, time, raced>>

BoostStep(r) == \/ Start(r) \/ ReadUser(r) \/ Bill(r) \/ Find(r)
                \/ Write(r) \/ Pay(r) \/ Fail(r)

-----------------------------------------------------------------------------
\* An admin cancels a boost; the ledger keeps its row.
Unboost(p) ==
  /\ boostedUntil' = [boostedUntil EXCEPT ![p] = 0]
  /\ due' = [due EXCEPT ![p] = 0]
  /\ UNCHANGED <<now, plan, listed, payments, req, sold, raced>>

\* An admin deletes a ledger row.
RemovePayment(i) ==
  /\ payments[i] # None
  /\ payments' = [payments EXCEPT ![i] = None]
  /\ UNCHANGED <<now, plan, listed, boostedUntil, req, time, raced>>

\* A plan is sold, which moves the anchor, or changed or run out, which does not.
ChangePlan ==
  /\ quota' \in Quotas /\ anchor' \in {anchor, now}
  /\ UNCHANGED <<now, promo, listed, boostedUntil, payments, req, time, raced>>

ChangePromo ==
  /\ promo' = ~promo
  /\ UNCHANGED <<now, quota, anchor, listed, boostedUntil, payments, req, time, raced>>

\* The listing is hidden or shown again.
ChangeListing(p) ==
  /\ listed' = [listed EXCEPT ![p] = ~@]
  /\ UNCHANGED <<now, plan, boostedUntil, payments, req, time, raced>>

Tick ==
  /\ now < Horizon
  /\ now' = now + 1
  /\ UNCHANGED <<plan, listed, boostedUntil, payments, req, time, raced>>

Next ==
  \/ \E r \in Requests : BoostStep(r)
  \/ \E p \in Products : Unboost(p) \/ ChangeListing(p)
  \/ \E i \in Ids : RemovePayment(i)
  \/ ChangePlan \/ ChangePromo \/ Tick

Spec == Init /\ [][Next]_vars

-----------------------------------------------------------------------------
Kinds == {"promo", "included", "extra"}
Order == [step : {"user"}, product : Products, days : Durations, by : {"seller", "admin"}]
Counting == [step : {"count"}, product : Products, days : Durations,
             by : {"seller", "admin"}, quota : Quotas, start : 0..now]
Billed == [step : {"find"}, product : Products, days : Durations, kind : Kinds]
Writing == [step : {"write"}, product : Products, days : Durations, kind : Kinds,
            at : 0..now, seen : Nat, until : Nat]
Paying == [step : {"pay"}, product : Products, kind : Kinds]

TypeOK ==
  /\ now \in 0..Horizon /\ quota \in Quotas /\ anchor \in 0..now /\ promo \in BOOLEAN
  /\ listed \in [Products -> BOOLEAN]
  /\ boostedUntil \in [Products -> Nat]
  /\ payments \in [Ids -> {None} \cup [at : 0..now, kind : Kinds]]
  /\ req \in [Requests -> {Idle} \cup Order \cup Counting \cup Billed \cup Writing \cup Paying]
  /\ due \in [Products -> Nat] /\ sold \in [Products -> Nat]
  /\ raced \in [Products -> BOOLEAN]

\* The boosts of the current cycle that were free because the plan includes
\* them, and the calls that were promised one.
Included == {i \in Ids : /\ payments[i] # None /\ payments[i].kind = "included"
                         /\ InCycle(payments[i].at, CycleStart(anchor, now))}
Promised == {r \in Requests : /\ req[r].step \in {"find", "write", "pay"}
                              /\ req[r].kind = "included"}

\* The quota is counted in the ledger, which is written three calls later, so
\* concurrent boosts overshoot it: the seller's monthly free boosts stay below
\* the best quota they can have plus the calls in flight, across plan changes,
\* cycle boundaries and the promo (calculateBoostBilling, activateBoost).
FreeBoostsBounded ==
  Cardinality(Included) + Cardinality(Promised) < Top(Quotas) + Cardinality(Requests)

\* However boosts, extensions and cancellations interleave, a listing is never
\* boosted for longer than all the boosts ever bought for it add up to.
NoUnsoldTime == \A p \in Products : boostedUntil[p] <= sold[p]

\* A boost runs for the time it was bought for, on top of what is left of the
\* one before, unless an admin cancelled it: time is lost only when a call
\* replaced a date it had not read (activateBoost; "a paid boost is a hard
\* commitment we honour", says the comment on autoBump).
BoostRunsItsTerm ==
  \A p \in Products : ~raced[p] /\ due[p] > now => boostedUntil[p] >= due[p]

-----------------------------------------------------------------------------
\* The comment in calculateBoostBilling(): promo boosts never consume the
\* monthly quota, so what is left of it is what the other boosts left.
PromoBoostsConsumeNothing ==
  LET start == CycleStart(anchor, now)
  IN  Used(start) = Cardinality({i \in Ids : /\ payments[i] # None
                                             /\ payments[i].kind # "promo"
                                             /\ InCycle(payments[i].at, start)})
=============================================================================
