--------------------------- MODULE Listings_proofs ---------------------------
(***************************************************************************)
(* Listings for any number of sellers, listings and handlers, any table of *)
(* limits, any plans and promos.                                           *)
(***************************************************************************)
EXTENDS Listings, FiniteSetTheorems, TLAPS

\* A handler that is not idle is a record with every field.
LEMMA BusyHandler ==
  ASSUME TypeOK, NEW r \in Requests, req[r].step # "idle"
  PROVE  req[r] \in Handler
BY DEF TypeOK, Idle

\* effectiveLimits answers a record of limits.
LEMMA EffectiveLimitsType ==
  ASSUME NEW p \in UserPlan, NEW pr \in PromoState
  PROVE  /\ effectiveLimits(p, pr).maxActiveProducts \in Nat
         /\ effectiveLimits(p, pr).maxActiveProducts <= TopLimit
<1>1. /\ PLAN_LIMITS[p] \in PlanLimitsRecord
      /\ PLAN_LIMITS[pr.grantedPlan] \in PlanLimitsRecord
      /\ pr.grantedPlan \in UserPlan
      /\ pr.unlockLimits \in BOOLEAN
  BY PlanLimitsAssumption DEF PromoState
<1>2. /\ PLAN_LIMITS[p].maxActiveProducts \in Nat
      /\ PLAN_LIMITS[pr.grantedPlan].maxActiveProducts \in Nat
  BY <1>1 DEF PlanLimitsRecord
<1>3. /\ PLAN_LIMITS[p].maxActiveProducts <= TopLimit
      /\ PLAN_LIMITS[pr.grantedPlan].maxActiveProducts <= TopLimit
  BY <1>1, TopLimitAssumption
<1>4. effectiveLimits(p, pr).maxActiveProducts
        \in {PLAN_LIMITS[p].maxActiveProducts,
             PLAN_LIMITS[pr.grantedPlan].maxActiveProducts}
  BY <1>1 DEF effectiveLimits, Widened, Better
<1>5. QED
  BY <1>2, <1>3, <1>4

LEMMA TopLimitType == TopLimit \in Nat
BY PlanLimitsAssumption DEF TopLimit, UserPlan, PlanLimitsRecord

\* A status write keeps the columns well typed.
LEMMA SetStatusType ==
  ASSUME TypeOK, NEW ps, NEW st \in Row \cup {"deleted"}, NEW why \in Causes,
         SetStatus(ps, st, why)
  PROVE  /\ status' \in [Products -> Row \cup {"unused", "deleted"}]
         /\ cause' \in [Products -> Causes]
BY DEF TypeOK, SetStatus

\* Every step of a handler leaves a well-typed handler.
LEMMA SellerStepType ==
  ASSUME TypeOK, NEW r \in Requests, SellerStep(r)
  PROVE  TypeOK'
<1> USE DEF Idle
<1>1. CASE StartCreate(r) \/ StartUpdate(r) \/ StartRemove(r)
  <2>1. req' \in [Requests -> {Idle} \cup Handler]
    BY <1>1, ListingsAssumption
    DEF TypeOK, StartCreate, StartUpdate, StartRemove, Request, Handler, Row, UserPlan
  <2>2. QED
    BY <1>1, <2>1
    DEF TypeOK, StartCreate, StartUpdate, StartRemove, rows, world
<1>2. CASE FindListing(r)
  <2>1. req[r] \in Handler
    BY <1>2, BusyHandler DEF FindListing
  <2> DEFINE h == [req[r] EXCEPT !.seen = status[req[r].product]]
             next == [h EXCEPT !.step = IF /\ h.kind = "update"
                                           /\ h.images > 0 \/ Reactivates(h)
                                        THEN "plan" ELSE "write"]
  <2>2. h.product = req[r].product
    BY <2>1 DEF Handler
  <2>3. ASSUME status[req[r].product] \in Row
        PROVE  next \in Handler
    BY <2>1, <2>3 DEF Handler
  <2>4. \/ req' = [req EXCEPT ![r] = Idle]
        \/ status[req[r].product] \in Row /\ req' = [req EXCEPT ![r] = next]
    BY <1>2, <2>2 DEF FindListing, Finish
  <2>5. req' \in [Requests -> {Idle} \cup Handler]
    BY <2>3, <2>4 DEF TypeOK
  <2>6. QED
    BY <1>2, <2>5 DEF TypeOK, FindListing, rows, world
<1>3. CASE ReadPlan(r)
  <2>1. req[r] \in Handler
    BY <1>3, BusyHandler DEF ReadPlan
  <2>2. SellerOf[req[r].product] \in Sellers
    BY <2>1, ListingsAssumption DEF Handler
  <2>3. req' \in [Requests -> {Idle} \cup Handler]
    BY <1>3, <2>1, <2>2 DEF TypeOK, ReadPlan, Handler, UserPlan
  <2>4. QED
    BY <1>3, <2>3 DEF TypeOK, ReadPlan, rows, world
<1>4. CASE ReadPromo(r)
  <2>1. req[r] \in Handler
    BY <1>4, BusyHandler DEF ReadPromo
  <2>2. effectiveLimits(req[r].plan, promo).maxActiveProducts \in Nat
    BY <2>1, EffectiveLimitsType DEF TypeOK, Handler
  <2>3. req' \in [Requests -> {Idle} \cup Handler]
    BY <1>4, <2>1, <2>2, ListingsAssumption
    DEF TypeOK, ReadPromo, Finish, Handler, UserPlan
  <2>4. QED
    BY <1>4, <2>3 DEF TypeOK, ReadPromo, rows, world
<1>5. CASE CountActive(r)
  <2>1. req[r] \in Handler
    BY <1>5, BusyHandler DEF CountActive
  <2>2. req' \in [Requests -> {Idle} \cup Handler]
    BY <1>5, <2>1 DEF TypeOK, CountActive, Finish, Handler
  <2>3. QED
    BY <1>5, <2>2 DEF TypeOK, CountActive, rows, world
<1>6. CASE WriteCreate(r) \/ WriteUpdate(r) \/ WriteRemove(r)
  <2>1. req[r] \in Handler
    BY <1>6, BusyHandler DEF WriteCreate, WriteUpdate, WriteRemove
  <2>2. req' \in [Requests -> {Idle} \cup Handler]
    BY <1>6 DEF TypeOK, WriteCreate, WriteUpdate, WriteRemove, Finish
  <2>3. /\ status' \in [Products -> Row \cup {"unused", "deleted"}]
        /\ cause' \in [Products -> Causes]
    BY <1>6, <2>1, SetStatusType
    DEF TypeOK, WriteCreate, WriteUpdate, WriteRemove, rows, Handler, Row, Causes
  <2>4. QED
    BY <1>6, <2>2, <2>3
    DEF TypeOK, WriteCreate, WriteUpdate, WriteRemove, world
<1>7. CASE Abort(r)
  BY <1>7 DEF TypeOK, Abort, Finish, rows, world
<1>8. QED
  BY <1>1, <1>2, <1>3, <1>4, <1>5, <1>6, <1>7 DEF SellerStep

\* So does every step of the admin panel.
LEMMA AdminStepType ==
  ASSUME TypeOK, AdminStep
  PROVE  TypeOK'
<1>1. ASSUME NEW p \in Products, NEW st \in Row, AdminSetStatus(p, st)
      PROVE  TypeOK'
  BY <1>1, SetStatusType DEF TypeOK, AdminSetStatus, world, Row, Causes
<1>2. ASSUME NEW s \in Sellers,
             \/ SuspendUser(s) \/ UnsuspendUser(s) \/ ChangePlan(s)
             \/ \E d \in {"GRANTED", "DENIED"} : SetPermission(s, d)
      PROVE  TypeOK'
  BY <1>2, ListingsAssumption
  DEF TypeOK, SuspendUser, UnsuspendUser, ChangePlan, SetPermission, rows
<1>3. ASSUME NEW s \in Sellers,
             SweepHide(s) \/ SweepRestore(s) \/ RemoveUser(s)
      PROVE  TypeOK'
  <2>1. /\ status' \in [Products -> Row \cup {"unused", "deleted"}]
        /\ cause' \in [Products -> Causes]
    BY <1>3, SetStatusType DEF SweepHide, SweepRestore, RemoveUser, Row, Causes
  <2>2. QED
    BY <1>3, <2>1 DEF TypeOK, SweepHide, SweepRestore, RemoveUser
<1>4. CASE LoseSweep \/ ChangePromo
  BY <1>4, ListingsAssumption DEF TypeOK, LoseSweep, ChangePromo, rows
<1>5. QED
  BY <1>1, <1>2, <1>3, <1>4 DEF AdminStep

\* Type correctness.
THEOREM Typing == Spec => []TypeOK
<1>1. Init => TypeOK
  BY ListingsAssumption DEF Init, TypeOK, Causes, Row
<1>2. TypeOK /\ [Next]_vars => TypeOK'
  <2>1. TypeOK /\ UNCHANGED vars => TypeOK'
    BY DEF TypeOK, vars
  <2>2. QED
    BY <2>1, SellerStepType, AdminStepType DEF Next
<1>3. QED
  BY <1>1, <1>2, PTL DEF Spec

-----------------------------------------------------------------------------
(***************************************************************************)
(* Counting.  The sets the bounds count are subsets of Products and        *)
(* Requests; a step shrinks them, or moves one handler out of one and at   *)
(* most one listing into the other.                                        *)
(***************************************************************************)
LEMMA FiniteParts ==
  /\ \A S \in SUBSET Products : IsFiniteSet(S) /\ Cardinality(S) \in Nat
  /\ \A R \in SUBSET Requests :
        /\ IsFiniteSet(R) /\ Cardinality(R) \in Nat
        /\ Cardinality(R) <= Cardinality(Requests)
  /\ Cardinality(Requests) \in Nat \ {0}
BY ListingsAssumption, FS_Subset, FS_CardinalityType, FS_EmptySet

\* Shrinking both sets shrinks the sum.
LEMMA SumShrinks ==
  ASSUME NEW A \in SUBSET Products, NEW B \in SUBSET A,
         NEW Q \in SUBSET Requests, NEW R \in SUBSET Q
  PROVE  Cardinality(B) + Cardinality(R) <= Cardinality(A) + Cardinality(Q)
<1>1. IsFiniteSet(A) /\ IsFiniteSet(Q) /\ B \in SUBSET Products
      /\ R \in SUBSET Requests
  BY FiniteParts
<1>2. Cardinality(B) <= Cardinality(A) /\ Cardinality(R) <= Cardinality(Q)
  BY <1>1, FS_Subset
<1>3. QED
  BY <1>1, <1>2, FiniteParts

\* A listing that comes in against a handler that goes out keeps the sum.
LEMMA SumMoves ==
  ASSUME NEW A \in SUBSET Products, NEW p \in Products,
         NEW B \in SUBSET (A \cup {p}),
         NEW Q \in SUBSET Requests, NEW r \in Q, NEW R \in SUBSET (Q \ {r})
  PROVE  Cardinality(B) + Cardinality(R) <= Cardinality(A) + Cardinality(Q)
<1>1. IsFiniteSet(A) /\ IsFiniteSet(Q)
  BY FiniteParts
<1>2. /\ Cardinality(A \cup {p}) <= Cardinality(A) + 1
      /\ IsFiniteSet(A \cup {p})
  <2>1. Cardinality(A) \in Nat
    BY FiniteParts
  <2>2. /\ IsFiniteSet(A \cup {p})
        /\ Cardinality(A \cup {p}) =
              IF p \in A THEN Cardinality(A) ELSE Cardinality(A) + 1
    BY <1>1, FS_AddElement
  <2>3. QED
    BY <2>1, <2>2
<1>3. Cardinality(Q \ {r}) = Cardinality(Q) - 1 /\ IsFiniteSet(Q \ {r})
  BY <1>1, FS_RemoveElement
<1>4. /\ Cardinality(B) <= Cardinality(A \cup {p})
      /\ Cardinality(R) <= Cardinality(Q \ {r})
  BY <1>2, <1>3, FS_Subset
<1>5. /\ Cardinality(A) \in Nat /\ Cardinality(B) \in Nat
      /\ Cardinality(A \cup {p}) \in Nat
      /\ Cardinality(Q) \in Nat /\ Cardinality(R) \in Nat
  BY FiniteParts
<1>6. QED
  BY <1>2, <1>3, <1>4, <1>5

-----------------------------------------------------------------------------
(***************************************************************************)
(* The quota.  A handler at "count" carries a limit some plan allows, so   *)
(* passing the check means there was room below TopLimit at that instant.  *)
(***************************************************************************)
LimitsAllowed ==
  \A r \in Requests : req[r].step = "count" => req[r].limit <= TopLimit

\* What a step may do to the listings and handlers the quota counts.
QuotaShrinks(s) == Metered(s)' \subseteq Metered(s) /\ Passed(s)' \subseteq Passed(s)
QuotaMoves(s) ==
  \E r \in Passed(s), p \in Products :
    /\ Metered(s)' \subseteq Metered(s) \cup {p}
    /\ Passed(s)' \subseteq Passed(s) \ {r}
QuotaPasses(s) ==
  Metered(s)' \subseteq Metered(s) /\ Cardinality(Active(s)) < TopLimit

\* A handler that ends up without a passed check changes nothing that counts.
LEMMA QuotaQuiet ==
  ASSUME NEW s \in Sellers, NEW r \in Requests, UNCHANGED rows,
         \A q \in Requests \ {r} : req'[q] = req[q],
         \/ req'[r].step # "write"
         \/ req'[r].kind \notin {"create", "update"}
         \/ req'[r].kind = "update" /\ ~Reactivates(req'[r])
  PROVE  QuotaShrinks(s)
BY DEF QuotaShrinks, Metered, Active, Passed, Busy, rows, Owned

\* A status write that is not a metered publication counts no new listing.
LEMMA UnmeteredWrite ==
  ASSUME TypeOK, NEW ps, NEW st, NEW why, SetStatus(ps, st, why),
         st # "active" \/ why # "quota", NEW s \in Sellers
  PROVE  Metered(s)' \subseteq Metered(s)
BY DEF Metered, Active, Owned, SetStatus, TypeOK

\* A status write of one listing counts at most that listing.
LEMMA MeteredWrite ==
  ASSUME TypeOK, NEW p \in Products, NEW st, NEW why, SetStatus({p}, st, why),
         NEW s \in Sellers
  PROVE  /\ Metered(s)' \subseteq Metered(s) \cup {p}
         /\ SellerOf[p] # s => Metered(s)' \subseteq Metered(s)
BY DEF Metered, Active, Owned, SetStatus, TypeOK

\* Ending a handler takes it out of those that passed a check.
LEMMA FinishPassed ==
  ASSUME TypeOK, NEW r \in Requests, Finish(r), NEW s \in Sellers
  PROVE  /\ Passed(s)' \subseteq Passed(s) \ {r}
         /\ req'[r] = Idle /\ \A q \in Requests \ {r} : req'[q] = req[q]
BY DEF Passed, Busy, Finish, TypeOK, Idle, Reactivates

LEMMA QuotaSellerStep ==
  ASSUME TypeOK, LimitsAllowed, NEW s \in Sellers, NEW r \in Requests,
         SellerStep(r)
  PROVE  QuotaShrinks(s) \/ QuotaMoves(s) \/ QuotaPasses(s)
<1>0. ASSUME Finish(r), UNCHANGED rows PROVE QuotaShrinks(s)
  <2>1. req'[r] = Idle /\ \A q \in Requests \ {r} : req'[q] = req[q]
    BY <1>0, FinishPassed
  <2>2. QED
    BY <1>0, <2>1, QuotaQuiet DEF Idle
<1>1. CASE StartCreate(r) \/ StartUpdate(r) \/ StartRemove(r)
  <2>1. /\ UNCHANGED rows
        /\ \A q \in Requests \ {r} : req'[q] = req[q]
        /\ req'[r].step = "authorized"
    BY <1>1 DEF StartCreate, StartUpdate, StartRemove, Request, TypeOK
  <2>2. QED
    BY <2>1, QuotaQuiet
<1>2. CASE FindListing(r)
  <2>1. req[r] \in Handler
    BY <1>2, BusyHandler DEF FindListing
  <2> DEFINE h == [req[r] EXCEPT !.seen = status[req[r].product]]
             next == [h EXCEPT !.step = IF /\ h.kind = "update"
                                           /\ h.images > 0 \/ Reactivates(h)
                                        THEN "plan" ELSE "write"]
  <2>2. CASE Finish(r)
    BY <1>2, <2>2, <1>0 DEF FindListing
  <2>3. CASE req' = [req EXCEPT ![r] = next]
    <3>1. \/ next.step # "write"
          \/ next.kind \notin {"create", "update"}
          \/ next.kind = "update" /\ ~Reactivates(next)
      BY <1>2, <2>1 DEF Handler, Reactivates, FindListing
    <3>2. req'[r] = next /\ \A q \in Requests \ {r} : req'[q] = req[q]
      BY <2>3 DEF TypeOK
    <3>3. UNCHANGED rows
      BY <1>2 DEF FindListing
    <3> HIDE DEF next
    <3>4. QED
      BY <3>1, <3>2, <3>3, QuotaQuiet
  <2>4. QED
    BY <1>2, <2>2, <2>3 DEF FindListing
<1>3. CASE ReadPlan(r)
  <2>1. req[r] \in Handler
    BY <1>3, BusyHandler DEF ReadPlan
  <2>2. /\ UNCHANGED rows
        /\ \A q \in Requests \ {r} : req'[q] = req[q]
        /\ req'[r].step = "promo"
    BY <1>3, <2>1 DEF ReadPlan, TypeOK, Handler
  <2>3. QED
    BY <2>2, QuotaQuiet
<1>4. CASE ReadPromo(r)
  <2>1. req[r] \in Handler
    BY <1>4, BusyHandler DEF ReadPromo
  <2>2. CASE Finish(r)
    BY <1>4, <2>2, <1>0 DEF ReadPromo
  <2>3. CASE ~Finish(r)
    <3> DEFINE metered == req[r].kind = "create" \/ Reactivates(req[r])
    <3>1. /\ UNCHANGED rows
          /\ \A q \in Requests \ {r} : req'[q] = req[q]
          /\ req'[r].step = IF metered THEN "count" ELSE "write"
          /\ req'[r].kind = req[r].kind
          /\ req'[r].want = req[r].want /\ req'[r].seen = req[r].seen
      BY <1>4, <2>1, <2>3 DEF ReadPromo, TypeOK, Handler
    <3>2. QED
      BY <2>1, <3>1, QuotaQuiet DEF Reactivates, Handler
  <2>4. QED
    BY <2>2, <2>3
<1>5. CASE CountActive(r)
  <2>1. req[r] \in Handler
    BY <1>5, BusyHandler DEF CountActive
  <2>2. CASE Finish(r)
    BY <1>5, <2>2, <1>0 DEF CountActive
  <2>3. CASE ~Finish(r)
    <3>1. /\ UNCHANGED rows
          /\ \A q \in Requests \ {r} : req'[q] = req[q]
          /\ req'[r].product = req[r].product
          /\ ~(Cardinality(Active(SellerOf[req[r].product])) >= req[r].limit)
      BY <1>5, <2>1, <2>3 DEF CountActive, TypeOK, Handler
    <3>2. CASE SellerOf[req[r].product] = s
      <4>1. Cardinality(Active(s)) \in Nat
        BY FiniteParts DEF Active, Owned
      <4>2. req[r].limit \in Nat /\ req[r].limit <= TopLimit
        BY <1>5, <2>1 DEF LimitsAllowed, CountActive, Handler
      <4>3. Cardinality(Active(s)) < TopLimit
        BY <3>1, <3>2, <4>1, <4>2, TopLimitType
      <4>4. QED
        BY <3>1, <4>3 DEF QuotaPasses, Metered, Active, Owned, rows
    <3>3. CASE SellerOf[req[r].product] # s
      BY <3>1, <3>3
      DEF QuotaShrinks, Metered, Active, Owned, Passed, Busy, rows
    <3>4. QED
      BY <3>2, <3>3
  <2>4. QED
    BY <2>2, <2>3
<1>6. CASE WriteCreate(r)
  <2>1. req[r] \in Handler /\ Finish(r)
    BY <1>6, BusyHandler DEF WriteCreate
  <2>2. CASE UNCHANGED rows
    BY <2>1, <2>2, <1>0
  <2>3. CASE SetStatus({req[r].product}, "active", "quota")
    <3>1. Passed(s)' \subseteq Passed(s) \ {r}
      BY <2>1, FinishPassed
    <3>2. CASE SellerOf[req[r].product] = s
      <4>1. r \in Passed(s)
        BY <1>6, <3>2 DEF WriteCreate, Passed, Busy
      <4>2. QED
        BY <2>1, <2>3, <3>1, <4>1, MeteredWrite DEF QuotaMoves, Handler
    <3>3. CASE SellerOf[req[r].product] # s
      BY <2>1, <2>3, <3>1, <3>3, MeteredWrite DEF QuotaShrinks, Handler
    <3>4. QED
      BY <3>2, <3>3
  <2>4. QED
    BY <1>6, <2>2, <2>3 DEF WriteCreate
<1>7. CASE WriteUpdate(r)
  <2> DEFINE h == req[r]
             why == IF h.want = "hide" THEN "none"
                    ELSE IF h.seen = "active" THEN "stale" ELSE "quota"
  <2>1. h \in Handler /\ Finish(r)
    BY <1>7, BusyHandler DEF WriteUpdate
  <2>2. CASE UNCHANGED rows
    BY <2>1, <2>2, <1>0
  <2>3. CASE h.want # "keep" /\ SetStatus({h.product}, h.want, why)
    <3>1. Passed(s)' \subseteq Passed(s) \ {r}
      BY <2>1, FinishPassed
    <3>2. CASE why # "quota" \/ h.want # "active"
      <4>1. Metered(s)' \subseteq Metered(s)
        BY <2>3, <3>2, UnmeteredWrite
      <4>2. QED
        BY <3>1, <4>1 DEF QuotaShrinks
    <3>3. CASE SellerOf[h.product] # s
      BY <2>1, <2>3, <3>1, <3>3, MeteredWrite DEF QuotaShrinks, Handler
    <3>4. CASE why = "quota" /\ h.want = "active" /\ SellerOf[h.product] = s
      <4>1. r \in Passed(s)
        BY <1>7, <3>4 DEF WriteUpdate, Passed, Busy, Reactivates
      <4>2. QED
        BY <2>1, <2>3, <3>1, <4>1, MeteredWrite DEF QuotaMoves, Handler
    <3>5. QED
      BY <3>2, <3>3, <3>4
  <2>4. QED
    BY <1>7, <2>2, <2>3 DEF WriteUpdate
<1>8. CASE WriteRemove(r)
  <2>1. Finish(r)
    BY <1>8 DEF WriteRemove
  <2>2. CASE UNCHANGED rows
    BY <2>1, <2>2, <1>0
  <2>3. CASE SetStatus({req[r].product}, "deleted", "none")
    <3>1. Metered(s)' \subseteq Metered(s)
      BY <2>3, UnmeteredWrite
    <3>2. QED
      BY <2>1, <3>1, FinishPassed DEF QuotaShrinks
  <2>4. QED
    BY <1>8, <2>2, <2>3 DEF WriteRemove
<1>9. CASE Abort(r)
  BY <1>9, <1>0 DEF Abort
<1>10. QED
  BY <1>1, <1>2, <1>3, <1>4, <1>5, <1>6, <1>7, <1>8, <1>9 DEF SellerStep

\* No step of the admin panel counts against the quota.
LEMMA QuotaAdminStep ==
  ASSUME TypeOK, NEW s \in Sellers, AdminStep
  PROVE  QuotaShrinks(s)
<1>1. UNCHANGED req /\ Passed(s)' = Passed(s)
  <2>1. UNCHANGED req
    BY DEF AdminStep, AdminSetStatus, SuspendUser, UnsuspendUser, SweepHide,
           SweepRestore, RemoveUser, ChangePlan, SetPermission, LoseSweep,
           ChangePromo
  <2>2. QED
    BY <2>1 DEF Passed, Busy, Reactivates
<1>2. CASE \/ \E p \in Products, st \in Row : AdminSetStatus(p, st)
           \/ \E t \in Sellers : SweepHide(t) \/ SweepRestore(t) \/ RemoveUser(t)
  <2>1. Metered(s)' \subseteq Metered(s)
    BY <1>2, UnmeteredWrite DEF AdminSetStatus, SweepHide, SweepRestore, RemoveUser
  <2>2. QED
    BY <1>1, <2>1 DEF QuotaShrinks
<1>3. CASE UNCHANGED rows
  BY <1>1, <1>3 DEF QuotaShrinks, Metered, Active, Owned, rows
<1>4. QED
  BY <1>2, <1>3 DEF AdminStep, SuspendUser, UnsuspendUser, ChangePlan,
     SetPermission, LoseSweep, ChangePromo

\* A handler reaches "count" only with a limit the plan table allows.
LEMMA LimitsStep ==
  ASSUME TypeOK, LimitsAllowed, Next
  PROVE  LimitsAllowed'
<1>1. CASE AdminStep
  BY <1>1 DEF LimitsAllowed, AdminStep, AdminSetStatus, SuspendUser,
     UnsuspendUser, SweepHide, SweepRestore, RemoveUser, ChangePlan,
     SetPermission, LoseSweep, ChangePromo
<1>2. ASSUME NEW r \in Requests, SellerStep(r)
      PROVE  LimitsAllowed'
  <2>1. SUFFICES ASSUME req'[r].step = "count"
                 PROVE  req'[r].limit <= TopLimit
                        /\ \A q \in Requests \ {r} : req'[q] = req[q]
    <3>1. \A q \in Requests \ {r} : req'[q] = req[q]
      BY <1>2 DEF SellerStep, StartCreate, StartUpdate, StartRemove, Request,
         FindListing, ReadPlan, ReadPromo, CountActive, WriteCreate,
         WriteUpdate, WriteRemove, Abort, Finish, TypeOK
    <3>2. QED
      BY <2>1, <3>1 DEF LimitsAllowed
  <2>2. CASE ReadPromo(r)
    <3>1. req[r] \in Handler
      BY <2>2, BusyHandler DEF ReadPromo
    <3>2. effectiveLimits(req[r].plan, promo).maxActiveProducts <= TopLimit
      BY <3>1, EffectiveLimitsType DEF TypeOK, Handler
    <3>3. QED
      BY <2>1, <2>2, <3>1, <3>2 DEF ReadPromo, Finish, TypeOK, Handler, Idle
  <2>3. CASE ~ReadPromo(r)
    <3>1. req'[r].step # "count"
      <4>1. CASE StartCreate(r) \/ StartUpdate(r) \/ StartRemove(r)
        BY <4>1 DEF StartCreate, StartUpdate, StartRemove, Request, TypeOK
      <4>2. CASE WriteCreate(r) \/ WriteUpdate(r) \/ WriteRemove(r) \/ Abort(r)
        BY <4>2 DEF WriteCreate, WriteUpdate, WriteRemove, Abort, Finish,
           TypeOK, Idle
      <4>3. CASE FindListing(r) \/ ReadPlan(r) \/ CountActive(r)
        <5>1. req[r] \in Handler
          BY <4>3, BusyHandler DEF FindListing, ReadPlan, CountActive
        <5>2. CASE FindListing(r)
          <6> DEFINE h == [req[r] EXCEPT !.seen = status[req[r].product]]
                     step == IF /\ h.kind = "update"
                                /\ h.images > 0 \/ Reactivates(h)
                             THEN "plan" ELSE "write"
                     next == [h EXCEPT !.step = step]
          <6>1. \/ req'[r] = Idle
                \/ req'[r] = next
            BY <5>2 DEF FindListing, Finish, TypeOK
          <6>2. h \in [step : {"authorized", "plan", "promo", "count", "write"},
                       kind : {"create", "update", "remove"}, product : Products,
                       want : Row \cup {"keep"}, images : Images,
                       seen : Row \cup {"unused", "deleted"},
                       plan : UserPlan, limit : Nat]
            BY <5>1 DEF Handler, TypeOK
          <6>3. next.step = step
            BY <6>2
          <6>4. step # "count"
            OBVIOUS
          <6> HIDE DEF h, step, next
          <6>5. QED
            BY <6>1, <6>3, <6>4 DEF Idle
        <5>3. CASE ReadPlan(r) \/ CountActive(r)
          BY <5>1, <5>3 DEF ReadPlan, CountActive, Finish, TypeOK, Handler, Idle
        <5>4. QED
          BY <4>3, <5>2, <5>3
      <4>4. QED
        BY <1>2, <2>3, <4>1, <4>2, <4>3 DEF SellerStep
    <3>2. QED
      BY <2>1, <3>1
  <2>4. QED
    BY <2>2, <2>3
<1>3. QED
  BY <1>1, <1>2 DEF Next

\* Each of the three kinds of step keeps the bound.
LEMMA QuotaKept ==
  ASSUME QuotaOvershootBounded, NEW s \in Sellers,
         QuotaShrinks(s) \/ QuotaMoves(s) \/ QuotaPasses(s)
  PROVE  Cardinality(Metered(s)') + Cardinality(Passed(s)')
           <= TopLimit - 1 + Cardinality(Requests)
<1>1. /\ Metered(s) \in SUBSET Products /\ Metered(s)' \in SUBSET Products
      /\ Passed(s) \in SUBSET Requests /\ Passed(s)' \in SUBSET Requests
      /\ Active(s) \in SUBSET Products /\ Metered(s) \in SUBSET Active(s)
  BY DEF Metered, Passed, Active, Owned, Busy
<1>2. /\ Cardinality(Metered(s)) \in Nat /\ Cardinality(Metered(s)') \in Nat
      /\ Cardinality(Passed(s)) \in Nat /\ Cardinality(Passed(s)') \in Nat
      /\ Cardinality(Active(s)) \in Nat /\ Cardinality(Requests) \in Nat
      /\ Cardinality(Passed(s)') <= Cardinality(Requests)
  BY <1>1, FiniteParts
<1>3. Cardinality(Metered(s)) + Cardinality(Passed(s))
        <= TopLimit - 1 + Cardinality(Requests)
  BY DEF QuotaOvershootBounded
<1>4. CASE QuotaShrinks(s)
  <2>1. Cardinality(Metered(s)') + Cardinality(Passed(s)')
          <= Cardinality(Metered(s)) + Cardinality(Passed(s))
    BY <1>1, <1>4, SumShrinks DEF QuotaShrinks
  <2>2. QED
    BY <1>2, <1>3, <2>1, TopLimitType
<1>5. CASE QuotaMoves(s)
  <2>1. Cardinality(Metered(s)') + Cardinality(Passed(s)')
          <= Cardinality(Metered(s)) + Cardinality(Passed(s))
    BY <1>1, <1>5, SumMoves DEF QuotaMoves
  <2>2. QED
    BY <1>2, <1>3, <2>1, TopLimitType
<1>6. CASE QuotaPasses(s)
  <2>1. Cardinality(Metered(s)') <= Cardinality(Active(s))
    BY <1>1, <1>6, FiniteParts, FS_Subset DEF QuotaPasses
  <2>2. QED
    BY <1>2, <1>6, <2>1, TopLimitType DEF QuotaPasses
<1>7. QED
  BY <1>4, <1>5, <1>6

\* However mutations interleave, a seller's metered listings overshoot the
\* best quota by less than the number of mutations in flight.
THEOREM QuotaOvershootBoundedThm == Spec => []QuotaOvershootBounded
<1> DEFINE IInv == LimitsAllowed /\ QuotaOvershootBounded
<1>1. Init => IInv
  <2> SUFFICES ASSUME Init PROVE IInv
    OBVIOUS
  <2>1. LimitsAllowed
    BY DEF Init, LimitsAllowed, Idle
  <2>2. ASSUME NEW s \in Sellers
        PROVE  Metered(s) = {} /\ Passed(s) = {}
    BY DEF Init, Metered, Active, Owned, Passed, Busy, Idle
  <2>3. Cardinality(Requests) \in Nat \ {0}
    BY FiniteParts
  <2>4. ASSUME NEW s \in Sellers
        PROVE  Cardinality(Metered(s)) = 0 /\ Cardinality(Passed(s)) = 0
    BY <2>2, FS_EmptySet
  <2>5. QED
    BY <2>1, <2>3, <2>4, TopLimitType DEF QuotaOvershootBounded
<1>2. TypeOK /\ IInv /\ [Next]_vars => IInv'
  <2> SUFFICES ASSUME TypeOK, IInv, [Next]_vars PROVE IInv'
    OBVIOUS
  <2>1. CASE UNCHANGED vars
    BY <2>1 DEF vars, LimitsAllowed, QuotaOvershootBounded, Metered, Active,
       Owned, Passed, Busy, Reactivates
  <2>2. CASE Next
    <3>1. ASSUME NEW s \in Sellers
          PROVE  QuotaShrinks(s) \/ QuotaMoves(s) \/ QuotaPasses(s)
      BY <2>2, QuotaSellerStep, QuotaAdminStep DEF Next
    <3>2. ASSUME NEW s \in Sellers
          PROVE  Cardinality(Metered(s)') + Cardinality(Passed(s)')
                   <= TopLimit - 1 + Cardinality(Requests)
      BY <3>1, QuotaKept
    <3>3. QuotaOvershootBounded'
      BY <3>2 DEF QuotaOvershootBounded
    <3>4. QED
      BY <2>2, <3>3, LimitsStep
  <2>3. QED
    BY <2>1, <2>2
<1>3. QED
  BY <1>1, <1>2, Typing, PTL DEF Spec

-----------------------------------------------------------------------------
(***************************************************************************)
(* Accounts.                                                               *)
(***************************************************************************)
\* A removed account owns no listing: the foreign key refuses a late create,
\* and no write turns a deleted or unused id back into a row otherwise.
THEOREM RemovedUserOwnsNothingThm == Spec => []RemovedUserOwnsNothing
<1> USE DEF RemovedUserOwnsNothing, Owned, Row
<1>1. Init => RemovedUserOwnsNothing
  BY ListingsAssumption DEF Init
<1>2. TypeOK /\ RemovedUserOwnsNothing /\ [Next]_vars => RemovedUserOwnsNothing'
  <2> SUFFICES ASSUME TypeOK, RemovedUserOwnsNothing, [Next]_vars
               PROVE  RemovedUserOwnsNothing'
    OBVIOUS
  <2>1. CASE UNCHANGED <<rows, account>>
    BY <2>1 DEF rows
  <2>2. ASSUME NEW r \in Requests, SellerStep(r)
        PROVE  RemovedUserOwnsNothing'
    <3>1. CASE WriteCreate(r) \/ WriteUpdate(r) \/ WriteRemove(r)
      <4>1. req[r] \in Handler /\ UNCHANGED account
        BY <3>1, BusyHandler DEF WriteCreate, WriteUpdate, WriteRemove, world
      <4>2. CASE WriteCreate(r)
        BY <4>1, <4>2, ListingsAssumption
        DEF WriteCreate, SetStatus, rows, Handler, TypeOK
      <4>3. CASE WriteUpdate(r)
        BY <4>1, <4>3, ListingsAssumption
        DEF WriteUpdate, SetStatus, rows, Handler, TypeOK
      <4>4. CASE WriteRemove(r)
        BY <4>1, <4>4, ListingsAssumption
        DEF WriteRemove, SetStatus, rows, Handler, TypeOK
      <4>5. QED
        BY <3>1, <4>2, <4>3, <4>4
    <3>2. CASE ~(WriteCreate(r) \/ WriteUpdate(r) \/ WriteRemove(r))
      BY <2>1, <2>2, <3>2 DEF SellerStep, StartCreate, StartUpdate, StartRemove,
         FindListing, ReadPlan, ReadPromo, CountActive, Abort, world
    <3>3. QED
      BY <3>1, <3>2
  <2>3. CASE AdminStep
    <3>1. ASSUME NEW p \in Products, NEW st \in Row, AdminSetStatus(p, st)
          PROVE  RemovedUserOwnsNothing'
      BY <3>1, ListingsAssumption DEF AdminSetStatus, SetStatus, world, TypeOK
    <3>2. ASSUME NEW s \in Sellers, SweepHide(s) \/ SweepRestore(s)
          PROVE  RemovedUserOwnsNothing'
      BY <3>2, ListingsAssumption
      DEF SweepHide, SweepRestore, SetStatus, Active, TypeOK
    <3>3. ASSUME NEW s \in Sellers, RemoveUser(s)
          PROVE  RemovedUserOwnsNothing'
      BY <3>3, ListingsAssumption DEF RemoveUser, SetStatus, TypeOK
    <3>4. ASSUME NEW s \in Sellers,
                 \/ SuspendUser(s) \/ UnsuspendUser(s)
                 \/ \E d \in {"GRANTED", "DENIED"} : SetPermission(s, d)
          PROVE  RemovedUserOwnsNothing'
      BY <3>4 DEF SuspendUser, UnsuspendUser, SetPermission, rows, TypeOK
    <3>5. CASE LoseSweep \/ ChangePromo \/ \E s \in Sellers : ChangePlan(s)
      BY <2>1, <3>5 DEF LoseSweep, ChangePromo, ChangePlan
    <3>6. QED
      BY <2>3, <3>1, <3>2, <3>3, <3>4, <3>5 DEF AdminStep
  <2>4. CASE UNCHANGED vars
    BY <2>1, <2>4 DEF vars, rows
  <2>5. QED
    BY <2>2, <2>3, <2>4 DEF Next
<1>3. QED
  BY <1>1, <1>2, Typing, PTL DEF Spec

-----------------------------------------------------------------------------
(***************************************************************************)
(* Deletion.  The only write that does not look for a row is the insert of *)
(* create(); the id it inserts was never used, and nobody else has it.     *)
(***************************************************************************)
CreatesAreFresh ==
  \A r \in Requests : req[r].step # "idle" /\ req[r].kind = "create" =>
    /\ status[req[r].product] = "unused"
    /\ \A q \in Requests \ {r} :
         req[q].step # "idle" => req[q].product # req[r].product

\* A step that starts nothing leaves every handler idle or what it was about.
LEMMA HandlersKept ==
  ASSUME TypeOK, NEW r \in Requests, SellerStep(r),
         ~(StartCreate(r) \/ StartUpdate(r) \/ StartRemove(r))
  PROVE  \A q \in Requests : req'[q].step # "idle" =>
           /\ req[q].step # "idle"
           /\ req'[q].kind = req[q].kind /\ req'[q].product = req[q].product
<1>1. ASSUME NEW h, req' = [req EXCEPT ![r] = h], req[r].step # "idle",
             h.step # "idle" => /\ h.kind = req[r].kind
                                /\ h.product = req[r].product
      PROVE  \A q \in Requests : req'[q].step # "idle" =>
               /\ req[q].step # "idle"
               /\ req'[q].kind = req[q].kind /\ req'[q].product = req[q].product
  BY <1>1 DEF TypeOK
<1>2. req[r].step # "idle" /\ req[r] \in Handler
  BY BusyHandler DEF SellerStep, FindListing, ReadPlan, ReadPromo, CountActive,
     WriteCreate, WriteUpdate, WriteRemove, Abort
<1>3. CASE Finish(r)
  BY <1>1, <1>2, <1>3 DEF Finish, Idle
<1>4. CASE FindListing(r) /\ ~Finish(r)
  <2> DEFINE h == [req[r] EXCEPT !.seen = status[req[r].product]]
             next == [h EXCEPT !.step = IF /\ h.kind = "update"
                                           /\ h.images > 0 \/ Reactivates(h)
                                        THEN "plan" ELSE "write"]
  <2>1. next.kind = req[r].kind /\ next.product = req[r].product
    BY <1>2 DEF Handler
  <2>2. req' = [req EXCEPT ![r] = next]
    BY <1>4 DEF FindListing
  <2> HIDE DEF next
  <2>3. QED
    BY <1>1, <1>2, <2>1, <2>2
<1>5. CASE (ReadPlan(r) \/ ReadPromo(r) \/ CountActive(r)) /\ ~Finish(r)
  <2>1. /\ req'[r].kind = req[r].kind /\ req'[r].product = req[r].product
        /\ \A q \in Requests \ {r} : req'[q] = req[q]
    BY <1>2, <1>5 DEF ReadPlan, ReadPromo, CountActive, TypeOK, Handler
  <2>2. QED
    BY <1>2, <2>1
<1>6. QED
  BY <1>3, <1>4, <1>5 DEF SellerStep, WriteCreate, WriteUpdate, WriteRemove, Abort

\* What one step may do to the status column: only the insert of a fresh
\* create touches an id that has no row.
OnlyInsertsRevive(p) ==
  status[p] \notin Row /\ status'[p] # status[p] =>
    \E r \in Requests : WriteCreate(r) /\ req[r].product = p

LEMMA StatusWrites ==
  ASSUME TypeOK, [Next]_vars, NEW p \in Products
  PROVE  OnlyInsertsRevive(p)
<1> USE DEF OnlyInsertsRevive
<1>1. ASSUME NEW r \in Requests, SellerStep(r)
      PROVE  OnlyInsertsRevive(p)
  <2>1. CASE WriteCreate(r)
    BY <2>1 DEF WriteCreate, SetStatus, rows, TypeOK
  <2>2. CASE WriteUpdate(r) \/ WriteRemove(r)
    BY <2>2 DEF WriteUpdate, WriteRemove, SetStatus, rows, TypeOK
  <2>3. CASE ~(WriteCreate(r) \/ WriteUpdate(r) \/ WriteRemove(r))
    BY <1>1, <2>3 DEF SellerStep, StartCreate, StartUpdate, StartRemove,
       FindListing, ReadPlan, ReadPromo, CountActive, Abort, rows
  <2>4. QED
    BY <2>1, <2>2, <2>3
<1>2. ASSUME NEW q \in Products, NEW st \in Row, AdminSetStatus(q, st)
      PROVE  OnlyInsertsRevive(p)
  BY <1>2 DEF AdminSetStatus, SetStatus, TypeOK
<1>3. ASSUME NEW s \in Sellers, SweepHide(s) \/ SweepRestore(s) \/ RemoveUser(s)
      PROVE  OnlyInsertsRevive(p)
  BY <1>3 DEF SweepHide, SweepRestore, RemoveUser, SetStatus, Active, Row, TypeOK
<1>4. CASE UNCHANGED status
  BY <1>4
<1>5. CASE AdminStep
  BY <1>2, <1>3, <1>4, <1>5 DEF AdminStep, SuspendUser, UnsuspendUser,
     SetPermission, ChangePlan, LoseSweep, ChangePromo, rows
<1>6. QED
  BY <1>1, <1>4, <1>5 DEF Next, vars

LEMMA FreshKept ==
  ASSUME TypeOK, CreatesAreFresh, [Next]_vars
  PROVE  CreatesAreFresh'
<1>1. CASE UNCHANGED req
  <2>1. \A r \in Requests : ~WriteCreate(r)
    BY <1>1 DEF WriteCreate, Finish, Idle, TypeOK
  <2>2. \A r \in Requests : req[r].step # "idle" => req[r].product \in Products
    BY BusyHandler DEF Handler
  <2>3. QED
    BY <1>1, <2>1, <2>2, StatusWrites DEF CreatesAreFresh, OnlyInsertsRevive, Row
<1>2. ASSUME NEW r \in Requests, StartCreate(r) \/ StartUpdate(r) \/ StartRemove(r)
      PROVE  CreatesAreFresh'
  <2>1. /\ UNCHANGED status
        /\ \A q \in Requests \ {r} : req'[q] = req[q]
        /\ \/ /\ req'[r].kind = "create"
              /\ status[req'[r].product] = "unused"
              /\ \A q \in Requests \ {r} : req[q].step # "idle" =>
                   req[q].product # req'[r].product
           \/ /\ req'[r].kind # "create"
              /\ status[req'[r].product] # "unused"
    BY <1>2 DEF StartCreate, StartUpdate, StartRemove, Authorize, Request, rows,
       Row, TypeOK
  <2>2. QED
    BY <2>1 DEF CreatesAreFresh
<1>3. ASSUME NEW r \in Requests, SellerStep(r),
             ~(StartCreate(r) \/ StartUpdate(r) \/ StartRemove(r))
      PROVE  CreatesAreFresh'
  <2>1. ASSUME NEW q \in Requests, req'[q].step # "idle", req'[q].kind = "create"
        PROVE  status'[req'[q].product] = "unused"
    <3>1. /\ req[q].step # "idle" /\ req[q].kind = "create"
          /\ req'[q].product = req[q].product
      BY <1>3, <2>1, HandlersKept
    <3>2. req[q].product \in Products /\ status[req[q].product] = "unused"
      BY <3>1, BusyHandler DEF CreatesAreFresh, Handler
    <3>3. ASSUME NEW t \in Requests, WriteCreate(t)
          PROVE  req[t].product # req[q].product
      <4>1. t # q
        BY <2>1, <3>3 DEF WriteCreate, Finish, Idle, TypeOK
      <4>2. req[t].step # "idle"
        BY <3>3 DEF WriteCreate
      <4>3. QED
        BY <3>1, <4>1, <4>2 DEF CreatesAreFresh
    <3>4. QED
      BY <3>1, <3>2, <3>3, StatusWrites DEF OnlyInsertsRevive, Row
  <2>2. ASSUME NEW q \in Requests, req'[q].step # "idle", req'[q].kind = "create",
               NEW t \in Requests \ {q}, req'[t].step # "idle"
        PROVE  req'[t].product # req'[q].product
    <3>1. /\ req[q].step # "idle" /\ req[q].kind = "create"
          /\ req'[q].product = req[q].product
      BY <1>3, <2>2, HandlersKept
    <3>2. req[t].step # "idle" /\ req'[t].product = req[t].product
      BY <1>3, <2>2, HandlersKept
    <3>3. QED
      BY <3>1, <3>2 DEF CreatesAreFresh
  <2>3. QED
    BY <2>1, <2>2 DEF CreatesAreFresh
<1>4. AdminStep => UNCHANGED req
  BY DEF AdminStep, AdminSetStatus, SuspendUser, UnsuspendUser, SweepHide,
     SweepRestore, RemoveUser, ChangePlan, SetPermission, LoseSweep, ChangePromo
<1>5. QED
  BY <1>1, <1>2, <1>3, <1>4 DEF Next, vars

\* A deleted listing is gone for good: updates in flight find no row, and a
\* create in flight holds an id that has never had one.
THEOREM DeletedForGoodThm == Spec => DeletedForGood
<1>1. Init => CreatesAreFresh
  BY DEF Init, CreatesAreFresh, Idle
<1>2. TypeOK /\ CreatesAreFresh /\ [Next]_vars
        => [\A p \in Products : status[p] = "deleted" => status'[p] = "deleted"]_vars
  <2> SUFFICES ASSUME TypeOK, CreatesAreFresh, [Next]_vars, NEW p \in Products,
                      status[p] = "deleted", status'[p] # "deleted"
               PROVE  FALSE
    OBVIOUS
  <2>1. PICK r \in Requests : WriteCreate(r) /\ req[r].product = p
    BY StatusWrites DEF OnlyInsertsRevive, Row
  <2>2. status[p] = "unused"
    BY <2>1 DEF CreatesAreFresh, WriteCreate
  <2>3. QED
    BY <2>2
<1>3. QED
  BY <1>1, <1>2, Typing, FreshKept, PTL DEF Spec, DeletedForGood

-----------------------------------------------------------------------------
(***************************************************************************)
(* Bans.  While the listings of a banned seller are hidden, no request of  *)
(* theirs passes the JWT check, so every listing that leaks is paid for    *)
(* with a handler that was in flight.                                      *)
(***************************************************************************)
PulledBanned == \A s \in pulled : account[s] # "GRANTED"

LeakShrinks(s) == Leaked(s)' \subseteq Leaked(s) /\ Busy(s)' \subseteq Busy(s)
LeakMoves(s) ==
  \E r \in Busy(s), p \in Products :
    /\ Leaked(s)' \subseteq Leaked(s) \cup {p}
    /\ Busy(s)' \subseteq Busy(s) \ {r}

\* A status write leaks at most the listings written, and those only when it
\* shows them for another cause than an admin's.
LEMMA LeakingWrite ==
  ASSUME TypeOK, NEW ps, NEW st, NEW why, SetStatus(ps, st, why), NEW s \in Sellers
  PROVE  /\ Leaked(s)' \subseteq Leaked(s) \cup (ps \cap Owned(s))
         /\ st # "active" \/ why = "admin" => Leaked(s)' \subseteq Leaked(s)
BY DEF Leaked, Active, Owned, SetStatus, TypeOK

LEMMA LeakSellerStep ==
  ASSUME TypeOK, PulledBanned, NEW s \in pulled, NEW r \in Requests, SellerStep(r)
  PROVE  LeakShrinks(s) \/ LeakMoves(s)
<1>0. s \in Sellers /\ account[s] # "GRANTED"
  BY DEF TypeOK, PulledBanned
<1>1. ASSUME UNCHANGED rows PROVE Leaked(s)' = Leaked(s)
  BY <1>1 DEF Leaked, Active, Owned, rows
<1>2. CASE StartCreate(r) \/ StartUpdate(r) \/ StartRemove(r)
  <2>1. /\ UNCHANGED rows
        /\ \A q \in Requests \ {r} : req'[q] = req[q]
        /\ SellerOf[req'[r].product] # s
    BY <1>0, <1>2
    DEF StartCreate, StartUpdate, StartRemove, Authorize, Request, TypeOK
  <2>2. Busy(s)' \subseteq Busy(s)
    BY <2>1 DEF Busy
  <2>3. QED
    BY <1>1, <2>1, <2>2 DEF LeakShrinks
<1>3. CASE ~(StartCreate(r) \/ StartUpdate(r) \/ StartRemove(r))
  <2>1. Busy(s)' \subseteq Busy(s)
    BY <1>3, HandlersKept DEF Busy
  <2>2. CASE WriteCreate(r) \/ WriteUpdate(r) \/ WriteRemove(r)
    <3> DEFINE p == req[r].product
    <3>1. req[r].step # "idle" /\ p \in Products
      BY <2>2, BusyHandler DEF WriteCreate, WriteUpdate, WriteRemove, Handler
    <3>2. req'[r].step = "idle"
      BY <2>2 DEF WriteCreate, WriteUpdate, WriteRemove, Finish, Idle, TypeOK
    <3>3. Leaked(s)' \subseteq Leaked(s) \cup ({p} \cap Owned(s))
      BY <1>0, <1>1, <2>2, LeakingWrite DEF WriteCreate, WriteUpdate, WriteRemove
    <3>4. CASE SellerOf[p] = s
      <4>1. r \in Busy(s) /\ Busy(s)' \subseteq Busy(s) \ {r}
        BY <2>1, <3>1, <3>2, <3>4 DEF Busy
      <4>2. QED
        BY <3>1, <3>3, <4>1 DEF LeakMoves
    <3>5. CASE SellerOf[p] # s
      BY <2>1, <3>3, <3>5 DEF LeakShrinks, Owned
    <3>6. QED
      BY <3>4, <3>5
  <2>3. CASE ~(WriteCreate(r) \/ WriteUpdate(r) \/ WriteRemove(r))
    <3>1. UNCHANGED rows
      BY <1>3, <2>3 DEF SellerStep, FindListing, ReadPlan, ReadPromo,
         CountActive, Abort
    <3>2. QED
      BY <1>1, <2>1, <3>1 DEF LeakShrinks
  <2>4. QED
    BY <2>2, <2>3
<1>4. QED
  BY <1>2, <1>3

\* An admin's step starts no handler; it leaks nothing, and the sweep that
\* makes a seller "pulled" leaves that seller nothing to leak.
LEMMA LeakAdminStep ==
  ASSUME TypeOK, PulledBanned, AdminStep
  PROVE  /\ PulledBanned' /\ UNCHANGED req
         /\ \A s \in pulled' : \/ s \in pulled /\ Leaked(s)' \subseteq Leaked(s)
                               \/ Leaked(s)' = {}
<1> DEFINE Goal == /\ PulledBanned' /\ UNCHANGED req
                   /\ \A s \in pulled' :
                        \/ s \in pulled /\ Leaked(s)' \subseteq Leaked(s)
                        \/ Leaked(s)' = {}
<1>0. ASSUME UNCHANGED rows PROVE \A s : Leaked(s)' = Leaked(s)
  BY <1>0 DEF Leaked, Active, Owned, rows
<1>1. ASSUME NEW p \in Products, NEW st \in Row, AdminSetStatus(p, st)
      PROVE  Goal
  <2>1. UNCHANGED <<pulled, account, req>>
    BY <1>1 DEF AdminSetStatus, world
  <2>2. \A s \in Sellers : Leaked(s)' \subseteq Leaked(s)
    BY <1>1, LeakingWrite DEF AdminSetStatus
  <2>3. QED
    BY <2>1, <2>2 DEF PulledBanned, TypeOK
<1>2. ASSUME NEW s \in Sellers, SweepHide(s)
      PROVE  Goal
  <2>1. /\ UNCHANGED <<account, req>>
        /\ pulled' \subseteq pulled \cup {s}
        /\ s \in pulled' \ pulled => account[s] = "DENIED"
    BY <1>2 DEF SweepHide
  <2>2. \A t \in Sellers : Leaked(t)' \subseteq Leaked(t)
    BY <1>2, LeakingWrite DEF SweepHide
  <2>3. Leaked(s)' = {}
    BY <1>2 DEF SweepHide, SetStatus, Leaked, Active, Owned, TypeOK
  <2>4. QED
    BY <2>1, <2>2, <2>3 DEF PulledBanned, TypeOK
<1>3. ASSUME NEW s \in Sellers, SweepRestore(s) \/ RemoveUser(s)
      PROVE  Goal
  <2>1. UNCHANGED <<pulled, req>> /\ PulledBanned'
    BY <1>3 DEF SweepRestore, RemoveUser, PulledBanned, TypeOK
  <2>2. \A t \in Sellers : Leaked(t)' \subseteq Leaked(t)
    BY <1>3, LeakingWrite DEF SweepRestore, RemoveUser
  <2>3. QED
    BY <2>1, <2>2 DEF TypeOK
<1>4. ASSUME NEW s \in Sellers,
             \/ SuspendUser(s) \/ UnsuspendUser(s)
             \/ \E d \in {"GRANTED", "DENIED"} : SetPermission(s, d)
      PROVE  Goal
  <2>1. UNCHANGED <<rows, req>> /\ pulled' \subseteq pulled
    BY <1>4 DEF SuspendUser, UnsuspendUser, SetPermission
  <2>2. PulledBanned'
    BY <1>4 DEF SuspendUser, UnsuspendUser, SetPermission, PulledBanned, TypeOK
  <2>3. QED
    BY <1>0, <2>1, <2>2
<1>5. CASE LoseSweep \/ ChangePromo \/ \E s \in Sellers : ChangePlan(s)
  <2>1. UNCHANGED <<rows, req, pulled, account>>
    BY <1>5 DEF LoseSweep, ChangePromo, ChangePlan
  <2>2. QED
    BY <1>0, <2>1 DEF PulledBanned
<1>6. QED
  BY <1>1, <1>2, <1>3, <1>4, <1>5 DEF AdminStep

\* A banned seller's listings stay hidden but for at most one per mutation
\* that was already past the JWT check when they were hidden.
THEOREM SuspensionLeakBoundedThm == Spec => []SuspensionLeakBounded
<1> DEFINE IInv == PulledBanned /\ SuspensionLeakBounded
<1>1. Init => IInv
  BY DEF Init, PulledBanned, SuspensionLeakBounded
<1>2. TypeOK /\ IInv /\ [Next]_vars => IInv'
  <2> SUFFICES ASSUME TypeOK, IInv, [Next]_vars PROVE IInv'
    OBVIOUS
  <2>1. \A s : Leaked(s) \in SUBSET Products /\ Busy(s) \in SUBSET Requests
    BY DEF Leaked, Active, Owned, Busy
  <2>2. \A s : Leaked(s)' \in SUBSET Products /\ Busy(s)' \in SUBSET Requests
    BY DEF Leaked, Active, Owned, Busy
  <2>3. ASSUME NEW s \in pulled, LeakShrinks(s) \/ LeakMoves(s)
        PROVE  Cardinality(Leaked(s)') + Cardinality(Busy(s)')
                 <= Cardinality(Requests)
    <3>1. Cardinality(Leaked(s)') + Cardinality(Busy(s)')
            <= Cardinality(Leaked(s)) + Cardinality(Busy(s))
      BY <2>1, <2>2, <2>3, SumShrinks, SumMoves DEF LeakShrinks, LeakMoves
    <3>2. /\ Cardinality(Leaked(s)) + Cardinality(Busy(s)) <= Cardinality(Requests)
          /\ Cardinality(Leaked(s)) \in Nat /\ Cardinality(Leaked(s)') \in Nat
          /\ Cardinality(Busy(s)) \in Nat /\ Cardinality(Busy(s)') \in Nat
          /\ Cardinality(Requests) \in Nat
      BY <2>1, <2>2, FiniteParts DEF SuspensionLeakBounded
    <3>3. QED
      BY <3>1, <3>2
  <2>4. ASSUME NEW r \in Requests, SellerStep(r)
        PROVE  IInv'
    <3>1. UNCHANGED <<account, pulled>>
      BY <2>4 DEF SellerStep, StartCreate, StartUpdate, StartRemove, FindListing,
         ReadPlan, ReadPromo, CountActive, WriteCreate, WriteUpdate, WriteRemove,
         Abort, world
    <3>2. \A s \in pulled : LeakShrinks(s) \/ LeakMoves(s)
      BY <2>4, LeakSellerStep
    <3>3. QED
      BY <2>3, <3>1, <3>2 DEF PulledBanned, SuspensionLeakBounded
  <2>5. CASE AdminStep
    <3>1. PulledBanned' /\ UNCHANGED req
      BY <2>5, LeakAdminStep
    <3>2. ASSUME NEW s \in pulled'
          PROVE  Cardinality(Leaked(s)') + Cardinality(Busy(s)')
                   <= Cardinality(Requests)
      <4>1. Busy(s)' = Busy(s)
        BY <3>1 DEF Busy
      <4>2. CASE s \in pulled /\ Leaked(s)' \subseteq Leaked(s)
        BY <2>3, <4>1, <4>2 DEF LeakShrinks
      <4>3. CASE Leaked(s)' = {}
        BY <2>2, <4>3, FiniteParts, FS_EmptySet
      <4>4. QED
        BY <2>5, <4>2, <4>3, LeakAdminStep
    <3>3. QED
      BY <3>1, <3>2 DEF SuspensionLeakBounded
  <2>6. CASE UNCHANGED vars
    BY <2>6 DEF vars, PulledBanned, SuspensionLeakBounded, Leaked, Active, Owned, Busy
  <2>7. QED
    BY <2>4, <2>5, <2>6 DEF Next
<1>3. QED
  BY <1>1, <1>2, Typing, PTL DEF Spec
=============================================================================
