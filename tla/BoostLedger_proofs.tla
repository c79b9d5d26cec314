------------------------ MODULE BoostLedger_proofs ------------------------
(***************************************************************************)
(* Proofs about BoostLedger, for any number of calls, listings and ledger  *)
(* rows: the free boosts of a cycle and the time a boost runs for.         *)
(***************************************************************************)
EXTENDS BoostLedger, FiniteSetTheorems, TLAPS

-----------------------------------------------------------------------------
(***************************************************************************)
(* Cycles.                                                                 *)
(***************************************************************************)
LEMMA CycleStartType ==
  ASSUME BoostAssumption, NEW from \in Nat, NEW t \in Nat, from <= t
  PROVE  /\ CycleStart(from, t) \in from..t
         /\ t < CycleStart(from, t) + Cycle
<1> DEFINE k == (t - from) \div Cycle
<1>1. Cycle \in Nat \ {0}
  BY DEF BoostAssumption
<1>2. k \in Nat /\ k * Cycle <= t - from /\ t - from < k * Cycle + Cycle
  BY <1>1
<1>3. QED
  BY <1>1, <1>2 DEF CycleStart

\* The next day is in the same cycle or the first of another.
LEMMA NextDay ==
  ASSUME BoostAssumption, NEW from \in Nat, NEW t \in Nat, from <= t
  PROVE  CycleStart(from, t + 1) \in {CycleStart(from, t), t + 1}
<1> DEFINE k == (t - from) \div Cycle
           l == (t + 1 - from) \div Cycle
<1>1. Cycle \in Nat \ {0}
  BY DEF BoostAssumption
<1>2. k \in Nat /\ k * Cycle <= t - from /\ t - from < k * Cycle + Cycle
  BY <1>1
<1>3. l \in Nat /\ l * Cycle <= t + 1 - from /\ t + 1 - from < l * Cycle + Cycle
  BY <1>1
<1>4. l = k \/ l = k + 1
  BY <1>1, <1>2, <1>3
<1>5. CASE l = k
  BY <1>5 DEF CycleStart
<1>6. CASE l = k + 1
  <2>1. l * Cycle = k * Cycle + Cycle
    BY <1>1, <1>2, <1>6
  <2>2. l * Cycle = t + 1 - from
    BY <1>1, <1>2, <1>3, <2>1
  <2>3. QED
    BY <2>2 DEF CycleStart
<1>7. QED
  BY <1>4, <1>5, <1>6

LEMMA FirstDay ==
  ASSUME BoostAssumption, NEW t \in Nat
  PROVE  CycleStart(t, t) = t
<1>1. (t - t) \div Cycle = 0
  BY DEF BoostAssumption
<1>2. QED
  BY <1>1 DEF CycleStart, BoostAssumption

\* The best quota, and a number of requests that is not zero.
LEMMA Bounds ==
  ASSUME BoostAssumption
  PROVE  /\ Top(Quotas) \in Nat /\ \A q \in Quotas : q \in Nat /\ q <= Top(Quotas)
         /\ Cardinality(Requests) \in Nat \ {0}
<1>1. /\ Top(Quotas) \in Quotas
      /\ \A q \in Quotas : q <= Top(Quotas)
  BY DEF BoostAssumption, Top
<1>2. Cardinality(Requests) \in Nat \ {0}
  BY FS_CardinalityType, FS_EmptySet DEF BoostAssumption
<1>3. QED
  BY <1>1, <1>2 DEF BoostAssumption

-----------------------------------------------------------------------------
(***************************************************************************)
(* Types.                                                                  *)
(***************************************************************************)
LEMMA BusyRequest ==
  ASSUME TypeOK, NEW r \in Requests
  PROVE  /\ req[r].step = "user" => req[r] \in Order
         /\ req[r].step = "count" => req[r] \in Counting
         /\ req[r].step = "find" => req[r] \in Billed
         /\ req[r].step = "write" => req[r] \in Writing
         /\ req[r].step = "pay" => req[r] \in Paying
         /\ req[r] # Idle => req[r] \in Order \cup Counting \cup Billed \cup Writing \cup Paying
  BY DEF TypeOK, Idle, Order, Counting, Billed, Writing, Paying

LEMMA InitType ==
  ASSUME BoostAssumption, Init
  PROVE  TypeOK
<1>1. now \in 0..Horizon /\ anchor \in 0..now
  BY DEF BoostAssumption, Init
<1>2. payments \in [Ids -> {None} \cup [at : 0..now, kind : Kinds]]
  BY DEF Init
<1>3. req \in [Requests -> {Idle} \cup Order \cup Counting \cup Billed \cup Writing \cup Paying]
  BY DEF Init
<1>4. QED
  BY <1>1, <1>2, <1>3 DEF Init, TypeOK

LEMMA BoostStepType ==
  ASSUME BoostAssumption, TypeOK, NEW r \in Requests, BoostStep(r)
  PROVE  TypeOK'
<1> USE DEF TypeOK
<1>1. CASE Start(r)
  BY <1>1 DEF Start, plan, time, Order, Counting, Writing
<1>2. CASE ReadUser(r)
  <2>1. req[r] \in Order
    BY <1>2, BusyRequest DEF ReadUser
  <2>2. CycleStart(anchor, now) \in 0..now
    <3>1. anchor \in Nat /\ now \in Nat /\ anchor <= now
      BY DEF BoostAssumption
    <3>2. CycleStart(anchor, now) \in anchor..now
      BY <3>1, CycleStartType
    <3>3. QED
      BY <3>1, <3>2
  <2>3. req'[r] \in Counting /\ UNCHANGED <<now, plan, listed, boostedUntil, payments, time, raced>>
    BY <1>2, <2>1, <2>2 DEF ReadUser, Order, Counting, plan
  <2>4. QED
    BY <1>2, <2>3 DEF ReadUser, plan, time, Counting, Writing
<1>3. CASE Bill(r)
  <2>1. req[r] \in Counting
    BY <1>3, BusyRequest DEF Bill
  <2>2. req'[r] \in {Idle} \cup Billed
    BY <1>3, <2>1 DEF Bill, Counting, Billed, Kinds
  <2>3. QED
    BY <1>3, <2>2 DEF Bill, plan, time, Counting, Writing
<1>4. CASE Find(r)
  <2>1. req[r] \in Billed
    BY <1>4, BusyRequest DEF Find
  <2>2. Until(boostedUntil[req[r].product], req[r].days) \in Nat /\ now \in 0..now
    BY <2>1 DEF Until, Later, Billed, BoostAssumption
  <2>3. req'[r] \in {Idle} \cup Writing
    BY <1>4, <2>1, <2>2 DEF Find, Billed, Writing
  <2>4. QED
    BY <1>4, <2>3 DEF Find, plan, time, Counting, Writing
<1>5. CASE Write(r)
  <2>1. req[r] \in Writing
    BY <1>5, BusyRequest DEF Write
  <2>2. req'[r] \in Paying
    BY <1>5, <2>1 DEF Write, Writing, Paying
  <2>3. /\ boostedUntil' \in [Products -> Nat] /\ due' \in [Products -> Nat]
        /\ sold' \in [Products -> Nat] /\ raced' \in [Products -> BOOLEAN]
    BY <1>5, <2>1 DEF Write, Writing, Later, BoostAssumption
  <2>4. QED
    BY <1>5, <2>2, <2>3 DEF Write, plan, Counting, Writing
<1>6. CASE Pay(r)
  <2>1. req[r] \in Paying
    BY <1>6, BusyRequest DEF Pay
  <2>2. [at |-> now, kind |-> req[r].kind] \in [at : 0..now, kind : Kinds]
    BY <2>1 DEF Paying
  <2>3. payments' \in [Ids -> {None} \cup [at : 0..now, kind : Kinds]]
    BY <1>6, <2>2 DEF Pay
  <2>4. QED
    BY <1>6, <2>3 DEF Pay, plan, time, Counting, Writing
<1>7. CASE Fail(r)
  BY <1>7 DEF Fail, plan, time, Counting, Writing
<1>8. QED
  BY <1>1, <1>2, <1>3, <1>4, <1>5, <1>6, <1>7 DEF BoostStep

LEMMA OtherStepType ==
  ASSUME BoostAssumption, TypeOK,
         \/ \E p \in Products : Unboost(p) \/ ChangeListing(p)
         \/ \E i \in Ids : RemovePayment(i)
         \/ ChangePlan \/ ChangePromo
         \/ UNCHANGED vars
  PROVE  TypeOK'
<1> USE DEF TypeOK, Counting, Writing
<1>1. CASE \E p \in Products : Unboost(p)
  BY <1>1 DEF Unboost, plan
<1>2. CASE \E p \in Products : ChangeListing(p)
  BY <1>2 DEF ChangeListing, plan, time
<1>3. CASE \E i \in Ids : RemovePayment(i)
  BY <1>3 DEF RemovePayment, plan, time
<1>4. CASE ChangePlan
  BY <1>4 DEF ChangePlan, time
<1>5. CASE ChangePromo
  BY <1>5 DEF ChangePromo, time
<1>6. CASE UNCHANGED vars
  BY <1>6 DEF vars, plan, time
<1>7. QED
  BY <1>1, <1>2, <1>3, <1>4, <1>5, <1>6

LEMMA TickType ==
  ASSUME BoostAssumption, TypeOK, Tick
  PROVE  TypeOK'
<1>1. /\ now' \in 0..Horizon /\ 0..now \subseteq 0..now'
      /\ UNCHANGED <<quota, anchor, promo, listed, boostedUntil, payments, req, due, sold, raced>>
  BY DEF TypeOK, Tick, plan, time, BoostAssumption
<1>2. anchor' \in 0..now' /\ payments' \in [Ids -> {None} \cup [at : 0..now', kind : Kinds]]
  BY <1>1 DEF TypeOK
<1>3. Counting \subseteq Counting' /\ Writing \subseteq Writing'
  BY <1>1 DEF Counting, Writing
<1>4. req' \in [Requests -> {Idle} \cup Order \cup Counting' \cup Billed \cup Writing' \cup Paying]
  BY <1>1, <1>3 DEF TypeOK
<1>5. QED
  BY <1>1, <1>2, <1>4 DEF TypeOK

LEMMA NextType ==
  ASSUME BoostAssumption, TypeOK, [Next]_vars
  PROVE  TypeOK'
  BY BoostStepType, OtherStepType, TickType DEF Next

-----------------------------------------------------------------------------
(***************************************************************************)
(* The time a boost runs for.                                              *)
(***************************************************************************)
\* A call that is about to write a date has seen one that was paid for.
TimeInv ==
  /\ \A p \in Products : ~raced[p] => boostedUntil[p] >= due[p]
  /\ NoUnsoldTime
  /\ \A r \in Requests : req[r].step = "write" =>
       /\ req[r].seen <= sold[req[r].product]
       /\ req[r].until = Later(req[r].seen, req[r].at) + req[r].days

LEMMA InitTime ==
  ASSUME Init
  PROVE  TimeInv
  BY DEF Init, Idle, TimeInv, NoUnsoldTime

\* A step that leaves the dates alone, and puts no other call before a write.
LEMMA TimeKept ==
  ASSUME TypeOK, TimeInv, UNCHANGED <<boostedUntil, time, raced>>,
         \A r \in Requests : req'[r].step = "write" => req'[r] = req[r]
  PROVE  TimeInv'
  BY DEF TimeInv, NoUnsoldTime, time

LEMMA FindTime ==
  ASSUME BoostAssumption, TypeOK, TimeInv, NEW r \in Requests, Find(r)
  PROVE  TimeInv'
<1>1. req[r] \in Billed
  BY BusyRequest DEF Find
<1>2. req[r].product \in Products
  BY <1>1 DEF Billed
<1>3. UNCHANGED <<boostedUntil, due, sold, raced>> /\ \A s \in Requests \ {r} : req'[s] = req[s]
  BY DEF Find, time, TypeOK
<1>4. req'[r].step = "write" =>
        /\ req'[r].seen = boostedUntil[req'[r].product] /\ req'[r].product = req[r].product
        /\ req'[r].until = Later(req'[r].seen, req'[r].at) + req'[r].days
  BY DEF Find, TypeOK, Idle, Until
<1>5. QED
  BY <1>2, <1>3, <1>4 DEF TimeInv, NoUnsoldTime

LEMMA WriteTime ==
  ASSUME BoostAssumption, TypeOK, TimeInv, NEW r \in Requests, Write(r)
  PROVE  TimeInv'
<1>1. req[r] \in Writing /\ req[r].step = "write"
  BY BusyRequest DEF Write
<1>2. PICK q \in Writing : q = req[r]
  BY <1>1
<1>3. q.product \in Products /\ q.days \in Nat /\ q.at \in Nat /\ q.seen \in Nat /\ q.until \in Nat
  <2>1. now \in Nat /\ Durations \subseteq Nat
    BY DEF TypeOK, BoostAssumption
  <2>2. q.at \in 0..now /\ q.days \in Durations /\ q.product \in Products
    BY DEF Writing
  <2>3. q.seen \in Nat /\ q.until \in Nat
    BY DEF Writing
  <2>4. q.at \in Nat
    BY <2>1, <2>2
  <2>5. q.days \in Nat
    BY <2>1, <2>2
  <2>6. QED
    BY <2>2, <2>3, <2>4, <2>5
<1>4. q.seen <= sold[q.product] /\ q.until = Later(q.seen, q.at) + q.days
  BY <1>1, <1>2 DEF TimeInv
<1>5. /\ boostedUntil' = [boostedUntil EXCEPT ![q.product] = q.until]
      /\ due' = [due EXCEPT ![q.product] = Later(@, q.at) + q.days]
      /\ sold' = [sold EXCEPT ![q.product] = Later(@, q.at) + q.days]
      /\ raced' = [raced EXCEPT ![q.product] = @ \/ boostedUntil[q.product] # q.seen]
      /\ \A s \in Requests : req'[s].step = "write" => s # r /\ req'[s] = req[s]
  BY <1>2 DEF Write, TypeOK
<1>6. \A p \in Products : sold'[p] \in Nat /\ sold'[p] >= sold[p]
  BY <1>3, <1>5 DEF TypeOK, Later
<1>7. NoUnsoldTime'
  BY <1>3, <1>4, <1>5 DEF TypeOK, Later, TimeInv, NoUnsoldTime
<1>8. \A p \in Products : ~raced'[p] => boostedUntil'[p] >= due'[p]
  <2>1. raced'[q.product] = (raced[q.product] \/ boostedUntil[q.product] # q.seen)
    BY <1>3, <1>5 DEF TypeOK
  <2>2. CASE ~raced'[q.product]
    <3>1. q.seen >= due[q.product]
      BY <1>3, <2>1, <2>2 DEF TimeInv
    <3>2. boostedUntil'[q.product] >= due'[q.product]
      BY <1>3, <1>4, <1>5, <3>1 DEF TypeOK, Later
    <3>3. QED
      BY <1>5, <3>2 DEF TypeOK, TimeInv
  <2>3. CASE raced'[q.product]
    BY <1>5, <2>3 DEF TypeOK, TimeInv
  <2>4. QED
    BY <2>1, <2>2, <2>3 DEF TypeOK
<1>9. \A s \in Requests : req'[s].step = "write" =>
        /\ req'[s].seen <= sold'[req'[s].product]
        /\ req'[s].until = Later(req'[s].seen, req'[s].at) + req'[s].days
  <2> SUFFICES ASSUME NEW s \in Requests, req'[s].step = "write"
               PROVE  /\ req'[s].seen <= sold'[req'[s].product]
                      /\ req'[s].until = Later(req'[s].seen, req'[s].at) + req'[s].days
    OBVIOUS
  <2>1. req'[s] = req[s] /\ req[s] \in Writing
    BY <1>5, BusyRequest
  <2>2. req[s].product \in Products /\ req[s].seen \in Nat
    BY <2>1 DEF Writing
  <2>3. QED
    BY <1>6, <2>1, <2>2 DEF TimeInv, TypeOK
<1>10. QED
  BY <1>7, <1>8, <1>9 DEF TimeInv

LEMMA NextTime ==
  ASSUME BoostAssumption, TypeOK, TimeInv, [Next]_vars
  PROVE  TimeInv'
<1>1. ASSUME NEW r \in Requests, Start(r) \/ ReadUser(r) \/ Bill(r) \/ Pay(r) \/ Fail(r)
      PROVE  TimeInv'
  <2>1. UNCHANGED <<boostedUntil, time, raced>>
    BY <1>1 DEF Start, ReadUser, Bill, Pay, Fail
  <2>2. \A s \in Requests : req'[s].step = "write" => req'[s] = req[s]
    BY <1>1 DEF Start, ReadUser, Bill, Pay, Fail, TypeOK, Idle
  <2>3. QED
    BY <2>1, <2>2, TimeKept
<1>2. ASSUME NEW p \in Products, Unboost(p)
      PROVE  TimeInv'
  BY <1>2 DEF Unboost, TimeInv, NoUnsoldTime, TypeOK
<1>3. CASE \/ \E p \in Products : ChangeListing(p)
           \/ \E i \in Ids : RemovePayment(i)
           \/ ChangePlan \/ ChangePromo \/ Tick \/ UNCHANGED vars
  <2>1. UNCHANGED <<boostedUntil, time, raced, req>>
    BY <1>3 DEF ChangeListing, RemovePayment, ChangePlan, ChangePromo, Tick, vars
  <2>2. QED
    BY <2>1, TimeKept
<1>4. QED
  BY <1>1, <1>2, <1>3, FindTime, WriteTime DEF Next, BoostStep

LEMMA TimeMeans ==
  ASSUME TypeOK, TimeInv
  PROVE  NoUnsoldTime /\ BoostRunsItsTerm
  BY DEF TimeInv, BoostRunsItsTerm

-----------------------------------------------------------------------------
(***************************************************************************)
(* The free boosts of a cycle.  A call that counted in a cycle that is     *)
(* over by day e is blind to the rows from e on: those rows, the calls     *)
(* that may still be blind to them and the calls that were promised a free *)
(* boost are no more than all the calls and what the rows before e leave   *)
(* of the best quota.  It holds of every day e, which is what a call needs *)
(* that is billed by a cycle long over, or by one a new plan cut short.    *)
(***************************************************************************)
Early(e) == {i \in Included : payments[i].at < e}
Late(e) == {i \in Included : payments[i].at >= e}
Blind(e) == {r \in Requests : req[r].step = "count" /\ req[r].start + Cycle <= e}
InFlight(e) == Promised \cup Blind(e)
Left(e) == IF Cardinality(Early(e)) < Top(Quotas)
           THEN Top(Quotas) - 1 - Cardinality(Early(e)) ELSE 0

Within(e) ==
  Cardinality(Late(e)) + Cardinality(InFlight(e)) <= Cardinality(Requests) + Left(e)

QuotaInv ==
  /\ \A e \in Nat : Within(e)
  /\ \A r \in Requests : req[r].step = "count" => req[r].start <= CycleStart(anchor, now)
  /\ Top(Quotas) = 0 => Included = {} /\ Promised = {}

LEMMA Counts ==
  ASSUME BoostAssumption, NEW e \in Nat
  PROVE  /\ IsFiniteSet(Included) /\ IsFiniteSet(Early(e)) /\ IsFiniteSet(Late(e))
         /\ IsFiniteSet(InFlight(e)) /\ IsFiniteSet(Promised)
         /\ Cardinality(Included) \in Nat /\ Cardinality(Early(e)) \in Nat
         /\ Cardinality(Late(e)) \in Nat /\ Cardinality(InFlight(e)) \in Nat
         /\ Cardinality(Promised) \in Nat
         /\ Cardinality(InFlight(e)) <= Cardinality(Requests)
         /\ Left(e) \in Nat
<1>1. /\ Included \in SUBSET Ids /\ Early(e) \in SUBSET Ids /\ Late(e) \in SUBSET Ids
      /\ InFlight(e) \in SUBSET Requests /\ Promised \in SUBSET Requests
  BY DEF Included, Early, Late, InFlight, Promised, Blind
<1>2. /\ IsFiniteSet(Included) /\ IsFiniteSet(Early(e)) /\ IsFiniteSet(Late(e))
      /\ IsFiniteSet(InFlight(e)) /\ IsFiniteSet(Promised)
      /\ Cardinality(InFlight(e)) <= Cardinality(Requests)
  BY <1>1, FS_Subset DEF BoostAssumption
<1>3. /\ Cardinality(Included) \in Nat /\ Cardinality(Early(e)) \in Nat
      /\ Cardinality(Late(e)) \in Nat /\ Cardinality(InFlight(e)) \in Nat
      /\ Cardinality(Promised) \in Nat
  BY <1>2, FS_CardinalityType
<1>4. Left(e) \in Nat
  BY <1>3, Bounds DEF Left
<1>5. QED
  BY <1>2, <1>3, <1>4

\* The rows of the cycle are those before e and those from e on.
LEMMA EarlyAndLate ==
  ASSUME BoostAssumption, TypeOK, NEW e \in Nat
  PROVE  Cardinality(Included) = Cardinality(Early(e)) + Cardinality(Late(e))
<1>1. Included = Early(e) \cup Late(e) /\ Early(e) \cap Late(e) = {}
  <2>1. \A i \in Included : payments[i].at \in Nat
    BY DEF Included, TypeOK, BoostAssumption
  <2>2. QED
    BY <2>1 DEF Early, Late
<1>2. Cardinality(Early(e) \cup Late(e)) =
        Cardinality(Early(e)) + Cardinality(Late(e)) - Cardinality(Early(e) \cap Late(e))
  BY Counts, FS_Union
<1>3. Cardinality(Early(e) \cap Late(e)) = 0
  BY <1>1, FS_EmptySet
<1>4. QED
  BY <1>1, <1>2, <1>3, Counts

\* The calls in flight are at most all of them, so a day e without late rows
\* is within bounds.
LEMMA NothingLate ==
  ASSUME BoostAssumption, NEW e \in Nat, Late(e)' = {}
  PROVE  Within(e)'
<1>1. InFlight(e)' \in SUBSET Requests
  BY DEF InFlight, Promised, Blind
<1>2. IsFiniteSet(InFlight(e)') /\ Cardinality(InFlight(e)') <= Cardinality(Requests)
  BY <1>1, FS_Subset DEF BoostAssumption
<1>3. Cardinality(InFlight(e)') \in Nat
  BY <1>2, FS_CardinalityType
<1>4. Cardinality(Late(e)') = 0
  BY FS_EmptySet
<1>5. Left(e)' \in Nat
  <2>1. Early(e)' \in SUBSET Ids
    BY DEF Early, Included
  <2>2. Cardinality(Early(e)') \in Nat
    BY <2>1, FS_Subset, FS_CardinalityType DEF BoostAssumption
  <2>3. QED
    BY <2>2, Bounds DEF Left
<1>6. QED
  BY <1>2, <1>3, <1>4, <1>5, Bounds DEF Within

\* What a step may do to a day without being felt: fewer calls in flight,
\* fewer rows late, fewer rows early.
LEMMA Eases ==
  ASSUME BoostAssumption, NEW e \in Nat, Within(e),
         Late(e)' \subseteq Late(e), Early(e)' \subseteq Early(e),
         InFlight(e)' \subseteq InFlight(e)
  PROVE  Within(e)'
<1>1. /\ Cardinality(Late(e)') \in Nat /\ Cardinality(Late(e)') <= Cardinality(Late(e))
      /\ Cardinality(Early(e)') \in Nat /\ Cardinality(Early(e)') <= Cardinality(Early(e))
      /\ Cardinality(InFlight(e)') \in Nat
      /\ Cardinality(InFlight(e)') <= Cardinality(InFlight(e))
  BY Counts, FS_Subset, FS_CardinalityType
<1>2. Left(e)' \in Nat /\ Left(e)' >= Left(e)
  BY <1>1, Counts, Bounds DEF Left
<1>3. QED
  BY <1>1, <1>2, Counts, Bounds DEF Within

\* The ledger and the cycle stay, and no call is promised a boost or starts
\* to count.
LEMMA QuietQuota ==
  ASSUME BoostAssumption, QuotaInv, UNCHANGED <<payments, anchor, now>>,
         \A r \in Requests : /\ r \in Promised' => r \in Promised
                             /\ req'[r].step = "count" => req'[r] = req[r]
  PROVE  QuotaInv'
<1>1. Included' = Included
  BY DEF Included, CycleStart, InCycle
<1>2. ASSUME NEW e \in Nat
      PROVE  Within(e)'
  <2>1. Late(e)' = Late(e) /\ Early(e)' = Early(e)
    BY <1>1 DEF Late, Early
  <2>2. Promised' \subseteq Promised
    BY DEF Promised
  <2>3. InFlight(e)' \subseteq InFlight(e)
    BY <2>2 DEF InFlight, Blind
  <2>4. QED
    BY <1>2, <2>1, <2>3, Eases DEF QuotaInv
<1>3. CycleStart(anchor, now)' = CycleStart(anchor, now)
  BY DEF CycleStart
<1>4. Promised' \subseteq Promised
  BY DEF Promised
<1>5. \A r \in Requests : req'[r].step = "count" => req'[r].start <= CycleStart(anchor, now)'
  BY <1>3 DEF QuotaInv
<1>6. QED
  BY <1>1, <1>2, <1>4, <1>5 DEF QuotaInv

\* A call that reads the plan counts in the cycle of today: it is blind to
\* nothing that is in the ledger yet.
LEMMA ReadUserQuota ==
  ASSUME BoostAssumption, TypeOK, QuotaInv, NEW r \in Requests, ReadUser(r)
  PROVE  QuotaInv'
<1>1. /\ UNCHANGED <<payments, anchor, now>>
      /\ req'[r].step = "count" /\ req'[r].start = CycleStart(anchor, now)
      /\ \A s \in Requests \ {r} : req'[s] = req[s]
  BY DEF ReadUser, TypeOK, plan
<1>2. /\ now \in Nat /\ CycleStart(anchor, now) \in Nat /\ CycleStart(anchor, now) <= now
      /\ now < CycleStart(anchor, now) + Cycle
  <2>1. anchor \in Nat /\ now \in Nat /\ anchor <= now
    BY DEF TypeOK, BoostAssumption
  <2>2. /\ CycleStart(anchor, now) \in anchor..now
        /\ now < CycleStart(anchor, now) + Cycle
    BY <2>1, CycleStartType
  <2>3. QED
    BY <2>1, <2>2
<1>3. Included' = Included /\ Promised' \subseteq Promised
  BY <1>1 DEF Included, CycleStart, InCycle, Promised
<1>4. ASSUME NEW e \in Nat
      PROVE  Within(e)'
  <2>1. CASE e <= now
    <3>1. Late(e)' = Late(e) /\ Early(e)' = Early(e)
      BY <1>1, <1>3 DEF Late, Early
    <3>2. r \notin Blind(e)'
      BY <1>1, <1>2, <2>1 DEF Blind, BoostAssumption
    <3>3. InFlight(e)' \subseteq InFlight(e)
      BY <1>1, <1>3, <3>2 DEF InFlight, Blind
    <3>4. QED
      BY <3>1, <3>3, Eases DEF QuotaInv
  <2>2. CASE e > now
    <3>1. \A i \in Included' : payments'[i].at \in Nat /\ payments'[i].at <= now
      BY <1>1, <1>2, <1>3 DEF Included, TypeOK
    <3>2. Late(e)' = {}
      BY <1>2, <2>2, <3>1 DEF Late
    <3>3. QED
      BY <3>2, NothingLate
  <2>3. QED
    BY <1>2, <2>1, <2>2
<1>5. CycleStart(anchor, now)' = CycleStart(anchor, now)
  BY <1>1 DEF CycleStart
<1>6. \A s \in Requests : req'[s].step = "count" => req'[s].start <= CycleStart(anchor, now)'
  BY <1>1, <1>2, <1>5 DEF QuotaInv
<1>7. QED
  BY <1>3, <1>4, <1>6 DEF QuotaInv

\* A call that is promised a free boost has found room in the cycle it counted in.
LEMMA BillQuota ==
  ASSUME BoostAssumption, TypeOK, QuotaInv, NEW r \in Requests, Bill(r)
  PROVE  QuotaInv'
<1>1. req[r] \in Counting /\ req[r].step = "count"
  BY BusyRequest DEF Bill
<1>2. PICK q \in Counting : q = req[r]
  BY <1>1
<1>3. /\ q.start \in Nat /\ q.start <= CycleStart(anchor, now)
      /\ q.quota \in Nat /\ q.quota <= Top(Quotas) /\ Top(Quotas) \in Nat
  <2>1. q.start \in 0..now /\ q.quota \in Quotas /\ now \in Nat
    BY DEF Counting, TypeOK
  <2>2. q.start <= CycleStart(anchor, now)
    BY <1>1, <1>2 DEF QuotaInv
  <2>3. QED
    BY <2>1, <2>2, Bounds
<1>4. /\ UNCHANGED <<payments, anchor, now>> /\ req'[r].step # "count"
      /\ \A s \in Requests \ {r} : req'[s] = req[s]
  BY DEF Bill, TypeOK, plan, Idle
<1>5. CASE r \notin Promised'
  <2>1. \A s \in Requests : /\ s \in Promised' => s \in Promised
                            /\ req'[s].step = "count" => req'[s] = req[s]
    BY <1>4, <1>5 DEF Promised
  <2>2. QED
    BY <1>4, <2>1, QuietQuota
<1>6. CASE r \in Promised'
  <2> DEFINE end == q.start + Cycle
             Seen == {i \in Ids : payments[i] # None /\ InCycle(payments[i].at, q.start)}
  <2>1. Used(q.start) < q.quota /\ Used(q.start) = Cardinality(Seen)
    BY <1>2, <1>6 DEF Bill, Promised, TypeOK, Idle, Used
  <2>2. end \in Nat /\ Cycle \in Nat \ {0}
    BY <1>3 DEF BoostAssumption
  <2>3. Early(end) \in SUBSET Seen
    <3>1. \A i \in Included : payments[i].at \in Nat /\ CycleStart(anchor, now) <= payments[i].at
      BY DEF Included, InCycle, TypeOK, BoostAssumption
    <3>2. CycleStart(anchor, now) \in Nat
      BY CycleStartType DEF TypeOK, BoostAssumption
    <3>3. QED
      BY <1>3, <2>2, <3>1, <3>2 DEF Early, Included, InCycle
  <2>4. Cardinality(Early(end)) < Top(Quotas)
    <3>1. Seen \in SUBSET Ids
      OBVIOUS
    <3>2. IsFiniteSet(Seen) /\ Cardinality(Seen) \in Nat
      BY <3>1, FS_Subset, FS_CardinalityType DEF BoostAssumption
    <3>3. Cardinality(Early(end)) <= Cardinality(Seen)
      BY <2>3, <3>2, FS_Subset
    <3>4. QED
      BY <1>3, <2>1, <2>2, <3>2, <3>3, Counts
  <2>5. Cardinality(Included) + Cardinality(InFlight(end))
          <= Cardinality(Requests) + Top(Quotas) - 1
    BY <2>2, <2>4, Counts, Bounds, EarlyAndLate DEF QuotaInv, Within, Left
  <2>6. Included' = Included
    BY <1>4 DEF Included, CycleStart, InCycle
  <2>7. Promised' \subseteq Promised \cup {r}
    BY <1>4 DEF Promised
  <2>8. ASSUME NEW e \in Nat
        PROVE  Within(e)'
    <3>1. Late(e)' = Late(e) /\ Early(e)' = Early(e)
      BY <1>4, <2>6 DEF Late, Early
    <3>2. CASE end <= e
      <4>1. r \in Blind(e)
        BY <1>1, <1>2, <3>2 DEF Blind
      <4>2. InFlight(e)' \subseteq InFlight(e)
        BY <1>4, <2>7, <4>1 DEF InFlight, Blind
      <4>3. QED
        BY <3>1, <4>2, Eases DEF QuotaInv
    <3>3. CASE e < end
      <4>1. r \in Blind(end)
        BY <1>1, <1>2, <1>3, <2>2 DEF Blind
      <4>2. \A s \in Requests : req[s].step = "count" => req[s].start \in Nat
        BY BusyRequest DEF Counting, TypeOK
      <4>3. InFlight(e)' \in SUBSET InFlight(end)
        BY <1>4, <2>2, <2>7, <3>3, <4>1, <4>2 DEF InFlight, Blind, BoostAssumption
      <4>4. Early(e) \in SUBSET Early(end)
        BY <2>2, <3>3 DEF Early, Included, TypeOK
      <4>5. /\ Cardinality(InFlight(e)') \in Nat
            /\ Cardinality(InFlight(e)') <= Cardinality(InFlight(end))
            /\ Cardinality(Early(e)) <= Cardinality(Early(end))
        BY <2>2, <4>3, <4>4, Counts, FS_Subset, FS_CardinalityType
      <4>6. Cardinality(Early(e)) < Top(Quotas)
        BY <1>3, <2>2, <2>4, <4>5, Counts
      <4>7. Left(e)' = Top(Quotas) - 1 - Cardinality(Early(e))
        BY <3>1, <4>6 DEF Left
      <4>8. Cardinality(Late(e)) + Cardinality(InFlight(end))
              <= Cardinality(Requests) + Top(Quotas) - 1 - Cardinality(Early(e))
        BY <1>3, <2>2, <2>5, Counts, Bounds, EarlyAndLate
      <4>9. QED
        BY <2>2, <3>1, <4>5, <4>7, <4>8, <1>3, Counts, Bounds DEF Within
    <3>4. QED
      BY <2>2, <3>2, <3>3
  <2>9. CycleStart(anchor, now)' = CycleStart(anchor, now)
    BY <1>4 DEF CycleStart
  <2>10. \A s \in Requests : req'[s].step = "count" => req'[s].start <= CycleStart(anchor, now)'
    BY <1>4, <2>9 DEF QuotaInv
  <2>11. Top(Quotas) > 0
    BY <1>3, <2>1, <2>4, <2>2, Counts
  <2>12. QED
    BY <2>8, <2>10, <2>11 DEF QuotaInv
<1>7. QED
  BY <1>5, <1>6

\* The row of a boost takes the place of its call.
LEMMA PayQuota ==
  ASSUME BoostAssumption, TypeOK, QuotaInv, NEW r \in Requests, Pay(r)
  PROVE  QuotaInv'
<1>1. req[r] \in Paying /\ req[r].step = "pay"
  BY BusyRequest DEF Pay
<1>2. PICK i \in Ids :
        /\ payments[i] = None
        /\ payments' = [payments EXCEPT ![i] = [at |-> now, kind |-> req[r].kind]]
  BY DEF Pay
<1>3. /\ UNCHANGED <<anchor, now>> /\ req'[r] = Idle
      /\ \A s \in Requests \ {r} : req'[s] = req[s]
  BY DEF Pay, TypeOK, plan
<1>4. payments'[i] = [at |-> now, kind |-> req[r].kind] /\ \A j \in Ids \ {i} : payments'[j] = payments[j]
  BY <1>2 DEF TypeOK
<1>5. i \notin Included
  BY <1>2 DEF Included
<1>6. CycleStart(anchor, now)' = CycleStart(anchor, now)
  BY <1>3 DEF CycleStart
<1>7. Promised' = Promised \ {r}
  BY <1>3 DEF Promised, Idle
<1>8. \A j \in Ids \ {i} : j \in Included' <=> j \in Included
  BY <1>3, <1>4, <1>6 DEF Included, InCycle
<1>9. \A e \in Nat : Blind(e)' = Blind(e)
  BY <1>1, <1>3 DEF Blind, Idle
<1>10. CASE i \notin Included'
  <2>1. Included' = Included
    BY <1>5, <1>8, <1>10 DEF Included
  <2>2. ASSUME NEW e \in Nat
        PROVE  Within(e)'
    <3>1. Late(e)' = Late(e) /\ Early(e)' = Early(e)
      BY <1>4, <1>5, <2>1 DEF Late, Early, Included
    <3>2. InFlight(e)' \subseteq InFlight(e)
      BY <1>7, <1>9 DEF InFlight
    <3>3. QED
      BY <3>1, <3>2, Eases DEF QuotaInv
  <2>3. QED
    BY <1>3, <1>6, <1>7, <2>1, <2>2 DEF QuotaInv, Idle
<1>11. CASE i \in Included'
  <2>1. req[r].kind = "included" /\ r \in Promised
    BY <1>1, <1>4, <1>11 DEF Included, Promised
  <2>2. Included' = Included \cup {i}
    BY <1>8, <1>11 DEF Included
  <2>3. /\ i \notin Included /\ payments'[i].at = now
        /\ \A j \in Included : payments'[j] = payments[j]
    BY <1>4, <1>5 DEF Included
  <2>4. now \in Nat
    BY DEF TypeOK
  <2>5. ASSUME NEW e \in Nat
        PROVE  Within(e)'
    <3>1. r \notin Blind(e)
      BY <1>1 DEF Blind
    <3>2. InFlight(e)' = InFlight(e) \ {r} /\ r \in InFlight(e)
      <4>1. Blind(e)' = Blind(e)
        BY <1>9
      <4>2. QED
        BY <1>7, <2>1, <3>1, <4>1 DEF InFlight
    <3>3. Cardinality(InFlight(e)') = Cardinality(InFlight(e)) - 1
      <4>1. IsFiniteSet(InFlight(e))
        BY Counts
      <4>2. QED
        BY <3>2, <4>1, FS_RemoveElement
    <3>4. CASE now >= e
      <4>1. Late(e)' = Late(e) \cup {i} /\ Early(e)' = Early(e)
        BY <2>2, <2>3, <2>4, <3>4 DEF Late, Early
      <4>2. Cardinality(Late(e)') = Cardinality(Late(e)) + 1
        BY <1>5, <4>1, Counts, FS_AddElement DEF Late
      <4>3. QED
        BY <3>3, <4>1, <4>2, Counts, Bounds DEF QuotaInv, Within, Left
    <3>5. CASE now < e
      <4>1. Late(e)' = Late(e) /\ Early(e)' = Early(e) \cup {i}
        BY <2>2, <2>3, <2>4, <3>5 DEF Late, Early
      <4>2. Cardinality(Early(e)') = Cardinality(Early(e)) + 1
        BY <1>5, <4>1, Counts, FS_AddElement DEF Early
      <4>3. Left(e)' >= Left(e) - 1 /\ Left(e)' \in Nat
        BY <4>2, Counts, Bounds DEF Left
      <4>4. QED
        BY <3>3, <4>1, <4>3, Counts, Bounds DEF QuotaInv, Within
    <3>6. QED
      BY <3>4, <3>5 DEF TypeOK
  <2>6. Top(Quotas) # 0
    BY <2>1 DEF QuotaInv
  <2>7. QED
    BY <1>3, <1>6, <2>5, <2>6 DEF QuotaInv, Idle
<1>12. QED
  BY <1>10, <1>11

\* An admin deletes a row: one less before e makes room for one boost.
LEMMA RemoveQuota ==
  ASSUME BoostAssumption, TypeOK, QuotaInv, NEW i \in Ids, RemovePayment(i)
  PROVE  QuotaInv'
<1>1. /\ UNCHANGED <<anchor, now, req>> /\ payments'[i] = None
      /\ \A j \in Ids \ {i} : payments'[j] = payments[j]
  BY DEF RemovePayment, TypeOK, plan
<1>2. CycleStart(anchor, now)' = CycleStart(anchor, now)
  BY <1>1 DEF CycleStart
<1>3. Included' = Included \ {i} /\ Promised' = Promised
  BY <1>1, <1>2 DEF Included, InCycle, Promised
<1>4. ASSUME NEW e \in Nat
      PROVE  Within(e)'
  <2>1. Late(e)' \subseteq Late(e) /\ Early(e)' \subseteq Early(e)
    BY <1>1, <1>3 DEF Late, Early, Included
  <2>2. InFlight(e)' \subseteq InFlight(e)
    BY <1>1, <1>3 DEF InFlight, Blind
  <2>3. QED
    BY <2>1, <2>2, Eases DEF QuotaInv
<1>5. QED
  BY <1>1, <1>2, <1>3, <1>4 DEF QuotaInv

\* A cycle begins today: what was entered before is of another one.
LEMMA NewCycle ==
  ASSUME BoostAssumption, TypeOK, TypeOK', QuotaInv, UNCHANGED <<payments, req>>,
         CycleStart(anchor, now)' = now', now' >= now
  PROVE  QuotaInv'
<1>1. now \in Nat /\ now' \in Nat /\ Promised' = Promised
  BY DEF TypeOK, Promised
<1>2. \A i \in Included' : payments[i].at \in Nat /\ payments[i].at = now'
  BY <1>1 DEF Included, InCycle, TypeOK
<1>3. Included' \subseteq Included
  <2>1. \A i \in Included' : payments[i].at <= now
    BY <1>2 DEF Included, TypeOK
  <2>2. CycleStart(anchor, now) <= now /\ now < CycleStart(anchor, now) + Cycle
    <3>1. now \in Nat /\ anchor \in Nat /\ anchor <= now
      BY DEF TypeOK
    <3>2. QED
      BY <3>1, CycleStartType
  <2>3. \A i \in Included' : payments[i].at = now
    BY <1>1, <1>2, <2>1
  <2>4. QED
    BY <2>2, <2>3 DEF Included, InCycle
<1>4. ASSUME NEW e \in Nat
      PROVE  Within(e)'
  <2>1. CASE e > now'
    <3>1. Late(e)' = {}
      BY <1>1, <1>2, <2>1 DEF Late
    <3>2. QED
      BY <3>1, NothingLate
  <2>2. CASE e <= now'
    <3>1. Early(e)' \subseteq Early(e) /\ Late(e)' \subseteq Late(e)
      BY <1>1, <1>2, <1>3, <2>2 DEF Early, Late
    <3>2. InFlight(e)' \subseteq InFlight(e)
      BY <1>1 DEF InFlight, Blind
    <3>3. QED
      BY <3>1, <3>2, Eases DEF QuotaInv
  <2>3. QED
    BY <1>1, <2>1, <2>2
<1>5. \A r \in Requests : req'[r].step = "count" => req'[r].start <= CycleStart(anchor, now)'
  <2>1. \A r \in Requests : req[r].step = "count" => req[r].start \in Nat /\ req[r].start <= now
    BY <1>1, BusyRequest DEF Counting
  <2>2. QED
    BY <1>1, <2>1
<1>6. QED
  BY <1>1, <1>3, <1>4, <1>5 DEF QuotaInv

LEMMA TickQuota ==
  ASSUME BoostAssumption, TypeOK, QuotaInv, Tick
  PROVE  QuotaInv'
<1>1. /\ now \in Nat /\ anchor \in Nat /\ anchor <= now /\ now' = now + 1
      /\ UNCHANGED <<anchor, payments, req>>
  BY DEF Tick, TypeOK, plan
<1>2. CycleStart(anchor, now)' \in {CycleStart(anchor, now), now'}
  <2>1. CycleStart(anchor, now)' = CycleStart(anchor, now + 1)
    BY <1>1 DEF CycleStart
  <2>2. QED
    BY <1>1, <2>1, NextDay
<1>3. CASE CycleStart(anchor, now)' = now'
  BY <1>1, <1>3, TickType, NewCycle
<1>4. CASE CycleStart(anchor, now)' = CycleStart(anchor, now)
  <2>1. Included' = Included /\ Promised' = Promised
    BY <1>1, <1>4 DEF Included, InCycle, Promised
  <2>2. ASSUME NEW e \in Nat
        PROVE  Within(e)'
    <3>1. Late(e)' = Late(e) /\ Early(e)' = Early(e) /\ InFlight(e)' = InFlight(e)
      BY <1>1, <2>1 DEF Late, Early, InFlight, Blind
    <3>2. QED
      BY <3>1, Eases DEF QuotaInv
  <2>3. QED
    BY <1>1, <1>4, <2>1, <2>2 DEF QuotaInv
<1>5. QED
  BY <1>2, <1>3, <1>4

LEMMA ChangePlanQuota ==
  ASSUME BoostAssumption, TypeOK, QuotaInv, ChangePlan
  PROVE  QuotaInv'
<1>1. UNCHANGED <<now, payments, req>> /\ anchor' \in {anchor, now}
  BY DEF ChangePlan
<1>2. CASE anchor' = now
  <2>1. CycleStart(anchor, now)' = now'
    <3>1. CycleStart(anchor, now)' = CycleStart(now, now)
      BY <1>1, <1>2 DEF CycleStart
    <3>2. QED
      BY <1>1, <3>1, FirstDay DEF TypeOK
  <2>2. QED
    BY <1>1, <2>1, OtherStepType, NewCycle DEF TypeOK
<1>3. CASE anchor' = anchor
  BY <1>1, <1>3, QuietQuota DEF Promised
<1>4. QED
  BY <1>1, <1>2, <1>3

LEMMA NextQuota ==
  ASSUME BoostAssumption, TypeOK, QuotaInv, [Next]_vars
  PROVE  QuotaInv'
<1>1. ASSUME NEW r \in Requests, Start(r) \/ Find(r) \/ Write(r) \/ Fail(r)
      PROVE  QuotaInv'
  <2>1. UNCHANGED <<payments, anchor, now>>
    BY <1>1 DEF Start, Find, Write, Fail, plan
  <2>2. \A s \in Requests : /\ s \in Promised' => s \in Promised
                            /\ req'[s].step = "count" => req'[s] = req[s]
    BY <1>1 DEF Start, Find, Write, Fail, Promised, Idle, TypeOK
  <2>3. QED
    BY <2>1, <2>2, QuietQuota
<1>2. CASE \/ \E p \in Products : Unboost(p) \/ ChangeListing(p)
           \/ ChangePromo \/ UNCHANGED vars
  <2>1. UNCHANGED <<payments, anchor, now, req>>
    BY <1>2 DEF Unboost, ChangeListing, ChangePromo, vars, plan
  <2>2. QED
    BY <2>1, QuietQuota DEF Promised
<1>3. QED
  BY <1>1, <1>2, ReadUserQuota, BillQuota, PayQuota, RemoveQuota, TickQuota,
     ChangePlanQuota DEF Next, BoostStep

LEMMA InitQuota ==
  ASSUME BoostAssumption, Init
  PROVE  QuotaInv
<1>1. Included = {} /\ Promised = {} /\ \A e \in Nat : Blind(e) = {}
  BY DEF Init, Idle, Included, Promised, Blind
<1>2. ASSUME NEW e \in Nat
      PROVE  Within(e)
  <2>1. Late(e) = {} /\ InFlight(e) = {}
    BY <1>1 DEF Late, InFlight
  <2>2. QED
    BY <2>1, Counts, Bounds, FS_EmptySet DEF Within
<1>3. QED
  BY <1>1, <1>2 DEF Init, Idle, QuotaInv

\* Of the first day of all, when every row is late.
LEMMA QuotaMeans ==
  ASSUME BoostAssumption, TypeOK, QuotaInv
  PROVE  FreeBoostsBounded
<1>1. CASE Top(Quotas) = 0
  <2>1. Included = {} /\ Promised = {}
    BY <1>1 DEF QuotaInv
  <2>2. Cardinality(Included) = 0 /\ Cardinality(Promised) = 0
    BY <2>1, FS_EmptySet
  <2>3. QED
    BY <1>1, <2>2, Bounds DEF FreeBoostsBounded
<1>2. CASE Top(Quotas) > 0
  <2>1. \A i \in Included : payments[i].at \in Nat
    BY DEF Included, TypeOK
  <2>2. Late(0) = Included /\ Early(0) = {}
    BY <2>1 DEF Late, Early
  <2>3. Left(0) = Top(Quotas) - 1
    BY <1>2, <2>2, Bounds, FS_EmptySet DEF Left
  <2>4. Cardinality(Promised) <= Cardinality(InFlight(0))
    BY Counts, FS_Subset DEF InFlight
  <2>5. Within(0)
    BY DEF QuotaInv
  <2>6. QED
    BY <2>2, <2>3, <2>4, <2>5, Counts, Bounds DEF Within, FreeBoostsBounded
<1>3. QED
  BY <1>1, <1>2, Bounds

-----------------------------------------------------------------------------
(***************************************************************************)
(* Together.                                                               *)
(***************************************************************************)
IInv == TypeOK /\ TimeInv /\ QuotaInv

LEMMA InitIInv ==
  ASSUME BoostAssumption, Init
  PROVE  IInv
  BY InitType, InitTime, InitQuota DEF IInv

LEMMA NextIInv ==
  ASSUME BoostAssumption, IInv, [Next]_vars
  PROVE  IInv'
  BY NextType, NextTime, NextQuota DEF IInv

LEMMA IInvMeans ==
  ASSUME BoostAssumption, IInv
  PROVE  TypeOK /\ FreeBoostsBounded /\ NoUnsoldTime /\ BoostRunsItsTerm
  BY TimeMeans, QuotaMeans DEF IInv
=============================================================================
