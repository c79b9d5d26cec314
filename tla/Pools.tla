------------------------------- MODULE Pools -------------------------------
(***************************************************************************)
(* The two lists a seller keeps of their own listings: the auto-bump pool  *)
(* and the listings pinned to the profile; and the hourly job that moves   *)
(* the pool up.  Saving a list checks plan and listings first, then        *)
(* replaces the rows in a transaction (READ COMMITTED): rows that another  *)
(* save commits after the snapshot of its delete stay.                     *)
(* The two lists share no row: a behaviour is about one of them.           *)
(* Source: products.service.ts (setAutoBumpSlots, autoBump,                *)
(* bumpBySlotCadence, bumpProduct), users.service.ts (setPinnedProducts).  *)
(*                                                                         *)
(* One unit of time is an hour or more; calls and passes take seconds, so  *)
(* the clock stands still while one is running.  A call that fails before  *)
(* it commits has changed nothing and is left out.                         *)
(***************************************************************************)
EXTENDS PlanLimits, FiniteSets, Sequences

CONSTANTS
  Calls,         \* how many saves run at once at most
  Products,
  Topics,        \* the lists that are saved: "slots", "pins" or both
  Plans, Promos, \* the plans the seller goes through, the states of the promo
  HOUR, DAY, WEEK,
  MaxSaves,      \* bound on the lists ever committed: rows carry the number
  MaxTime        \* bound on the clock

PeriodAssumption == DAY \in Nat /\ WEEK \in Nat /\ HOUR \in Nat
ListsAssumption ==
  /\ IsFiniteSet(Calls) /\ IsFiniteSet(Products) /\ MaxSaves \in Nat /\ MaxTime \in Nat
  /\ PLAN_LIMITS \in [UserPlan -> PlanLimitsRecord]
  /\ Plans \subseteq UserPlan /\ Promos \subseteq PromoState

VARIABLES
  now,
  plan, promo,   \* the plan in force of the seller, the promo
  products,
  topic,         \* which of the two lists is being saved
  slots, pins,   \* auto_bump_slots and pinned_products of the seller
  saves,
  calls,
  pass,          \* the hourly job
  slotBump,      \* history: when the pool last moved each listing up
  cascaded       \* history: a pinned listing was deleted

vars == <<now, topic, plan, promo, products, slots, pins, saves, calls, pass, slotBump, cascaded>>

-----------------------------------------------------------------------------
Never == -WEEK - 1
Idle == [step |-> "idle"]
Times == Never..MaxTime
Lists == {<<>>} \cup {<<p>> : p \in Products} \cup
         {<<pq[1], pq[2]>> : pq \in {x \in Products \X Products : x[1] # x[2]}}
Saves == 1..MaxSaves
SlotRow == [product : Products, cadence : {"WEEKLY", "DAILY"}, save : Saves]
PinRow == [product : Products, position : {0, 1}, save : Saves]

TypeOK ==
  /\ now \in 0..MaxTime
  /\ topic \in Topics
  /\ plan \in Plans /\ promo \in Promos
  /\ products \in [Products -> [status : {"active", "hide", "gone"}, bumpedAt : Times]]
  /\ slots \subseteq SlotRow /\ pins \subseteq PinRow
  /\ saves \in 0..MaxSaves
  /\ calls \in [Calls -> {Idle} \cup
       [step : {"owned", "snapshot", "commit"}, list : Lists, cadence : Cadence,
        mine : SUBSET (IF topic = "pins" THEN PinRow ELSE SlotRow)]]
  /\ pass \in {Idle} \cup [step : {"find", "update"}, cadence : {"WEEKLY", "DAILY"},
                           found : SUBSET Products]
       \cup [step : {"boosted"}]
  /\ slotBump \in [Products -> Times]
  /\ cascaded \in BOOLEAN

Init ==
  /\ now = 0
  /\ topic \in Topics
  /\ plan \in Plans /\ promo \in Promos
  /\ products = [p \in Products |-> [status |-> "active", bumpedAt |-> 0]]
  /\ slots = {} /\ pins = {}
  /\ saves = 0
  /\ calls = [c \in Calls |-> Idle]
  /\ pass = Idle
  /\ slotBump = [p \in Products |-> Never]
  /\ cascaded = FALSE

seller == <<topic, plan, promo>>
Go(c, step) == calls' = [calls EXCEPT ![c].step = step]
End(c) == calls' = [calls EXCEPT ![c] = Idle]
Named(list) == {list[i] : i \in DOMAIN list}
Bump(ps) == products' = [p \in Products |->
              IF p \in ps THEN [products[p] EXCEPT !.bumpedAt = now] ELSE products[p]]

-----------------------------------------------------------------------------
(***************************************************************************)
(* setAutoBumpSlots and setPinnedProducts                                  *)
(***************************************************************************)
\* A list that is not longer than the plan, or the promo, allows.
AdmitSlots(c) ==
  \E list \in Lists :
    LET limits == effectiveLimits(plan, promo)
    IN  /\ calls[c] = Idle /\ topic = "slots"
        /\ limits.autoBumpSlots > 0 /\ limits.autoBumpCadence # "none"
        /\ Len(list) <= limits.autoBumpSlots
        /\ calls' = [calls EXCEPT ![c] =
             [step |-> "owned", list |-> list, mine |-> {},
              cadence |-> limits.autoBumpCadence]]
        /\ UNCHANGED <<now, seller, products, slots, pins, saves, pass, slotBump, cascaded>>

AdmitPins(c) ==
  \E list \in Lists :
    LET max == effectiveLimits(plan, promo).pinnedProducts
    IN  /\ calls[c] = Idle /\ topic = "pins"
        /\ max > 0 /\ Len(list) <= max
        /\ calls' = [calls EXCEPT ![c] =
             [step |-> "owned", list |-> list, mine |-> {}, cadence |-> "none"]]
        /\ UNCHANGED <<now, seller, products, slots, pins, saves, pass, slotBump, cascaded>>

\* Every listing of the list is the seller's and active.
AllActive(list) == \A p \in Named(list) : products[p].status = "active"

CheckOwned(c) ==
  /\ calls[c].step = "owned"
  /\ IF AllActive(calls[c].list) THEN Go(c, "snapshot") ELSE End(c)
  /\ UNCHANGED <<now, seller, products, slots, pins, saves, pass, slotBump, cascaded>>

\* The rows the transaction reads and deletes.
Snapshot(c) ==
  /\ calls[c].step = "snapshot"
  /\ calls' = [calls EXCEPT ![c].step = "commit",
                            ![c].mine = IF topic = "pins" THEN pins ELSE slots]
  /\ UNCHANGED <<now, seller, products, slots, pins, saves, pass, slotBump, cascaded>>

\* A listing has one slot at most (unique key).  What the pool did not hold
\* before is moved up at once.
CommitSlots(c) ==
  LET new == Named(calls[c].list)
      kept == slots \ calls[c].mine
  IN  /\ calls[c].step = "commit" /\ topic = "slots"
      /\ IF \/ \E r \in kept : r.product \in new
            \/ \E p \in new : products[p].status = "gone"
         THEN UNCHANGED <<saves, slots, products>>
         ELSE /\ saves < MaxSaves
              /\ saves' = saves + 1
              /\ slots' = kept \cup
                   [product : new, cadence : {calls[c].cadence}, save : {saves + 1}]
              /\ Bump(new \ {r.product : r \in calls[c].mine})
      /\ End(c)
      /\ UNCHANGED <<now, seller, pins, pass, slotBump, cascaded>>

\* Mutant: no unique key on the position.
CommitPins_ProductKey(c) ==
  LET list == calls[c].list
      kept == pins \ calls[c].mine
  IN  /\ calls[c].step = "commit" /\ topic = "pins"
      /\ \A r \in kept : r.product \notin Named(list)
      /\ \A p \in Named(list) : products[p].status # "gone"
      /\ saves < MaxSaves /\ saves' = saves + 1
      /\ pins' = kept \cup {[product |-> list[i], position |-> i - 1, save |-> saves'] :
                              i \in DOMAIN list}
      /\ End(c)
      /\ UNCHANGED <<now, seller, products, slots, pass, slotBump, cascaded>>

\* Positions and listings are unique among the pins of a user.
CommitPins(c) ==
  LET list == calls[c].list
      kept == pins \ calls[c].mine
  IN  /\ calls[c].step = "commit" /\ topic = "pins"
      /\ IF \/ \E r \in kept : r.product \in Named(list) \/ r.position < Len(list)
            \/ \E p \in Named(list) : products[p].status = "gone"
         THEN UNCHANGED <<saves, pins>>
         ELSE /\ saves < MaxSaves
              /\ saves' = saves + 1
              /\ pins' = kept \cup
                   {[product |-> list[i], position |-> i - 1, save |-> saves + 1] :
                      i \in DOMAIN list}
      /\ End(c)
      /\ UNCHANGED <<now, seller, products, slots, pass, slotBump, cascaded>>

-----------------------------------------------------------------------------
(***************************************************************************)
(* autoBump(): the daily slots, the weekly slots, the boosted listings;    *)
(* ids are selected first and updated later, by id alone.                  *)
(***************************************************************************)
Period(cadence) == IF cadence = "DAILY" THEN DAY ELSE WEEK

\* On the first day a pass finds nothing: every listing is fresh.
PassStarts ==
  /\ pass = Idle /\ topic = "slots"
  /\ now > 0
  /\ pass' = [step |-> "find", cadence |-> "DAILY", found |-> {}]
  /\ UNCHANGED <<now, seller, products, slots, pins, saves, calls, slotBump, cascaded>>

\* Mutant: one cut-off for both cadences.
FindSlots_OneCutoff ==
  LET open == promo.active /\ promo.unlockAutoBump
      cadence == pass.cadence
  IN  /\ pass.step = "find"
      /\ pass' = [pass EXCEPT !.step = "update", !.found =
           {r.product : r \in {s \in slots :
              /\ s.cadence = cadence
              /\ products[s.product].status = "active"
              /\ products[s.product].bumpedAt < now - HOUR
              /\ open \/ plan = (IF cadence = "DAILY" THEN "PREMIUM" ELSE "STAR")}}]
      /\ UNCHANGED <<now, seller, products, slots, pins, saves, calls, slotBump, cascaded>>

FindSlots ==
  LET open == promo.active /\ promo.unlockAutoBump
      cadence == pass.cadence
  IN  /\ pass.step = "find"
      /\ pass' = [pass EXCEPT !.step = "update", !.found =
           {r.product : r \in {s \in slots :
              /\ s.cadence = cadence
              /\ products[s.product].status = "active"
              /\ products[s.product].bumpedAt < now - Period(cadence)
              /\ open \/ plan = (IF cadence = "DAILY" THEN "PREMIUM" ELSE "STAR")}}]
      /\ UNCHANGED <<now, seller, products, slots, pins, saves, calls, slotBump, cascaded>>

BumpSlots ==
  LET up == {p \in pass.found : products[p].status # "gone"}
  IN  /\ pass.step = "update"
      /\ Bump(up)
      /\ slotBump' = [p \in Products |-> IF p \in up THEN now ELSE slotBump[p]]
      /\ pass' = IF pass.cadence = "DAILY"
                 THEN [step |-> "find", cadence |-> "WEEKLY", found |-> {}]
                 ELSE [step |-> "boosted"]
      /\ UNCHANGED <<now, seller, slots, pins, saves, calls, cascaded>>

BumpBoosted ==
  /\ pass.step = "boosted"
  /\ \E boosted \in SUBSET Products :
       Bump({p \in boosted : products[p].status = "active"
                               /\ products[p].bumpedAt < now - HOUR})
  /\ pass' = Idle
  /\ UNCHANGED <<now, seller, slots, pins, saves, calls, slotBump, cascaded>>

-----------------------------------------------------------------------------
\* What other components do meanwhile: status, boosts and bumps by an admin
\* (both move the listing up), removal with its cascade, plan and promo.
HideOrShow(p) ==
  /\ products[p].status # "gone"
  /\ \E s \in {"active", "hide"} : products' = [products EXCEPT ![p].status = s]
  /\ UNCHANGED <<now, seller, slots, pins, saves, calls, pass, slotBump, cascaded>>

BumpProduct(p) ==
  /\ products[p].status # "gone"
  /\ Bump({p})
  /\ UNCHANGED <<now, seller, slots, pins, saves, calls, pass, slotBump, cascaded>>

RemoveProduct(p) ==
  /\ products[p].status # "gone"
  /\ products' = [products EXCEPT ![p].status = "gone"]
  /\ slots' = {r \in slots : r.product # p}
  /\ pins' = {r \in pins : r.product # p}
  /\ cascaded' = (cascaded \/ pins' # pins)
  /\ UNCHANGED <<now, seller, saves, calls, pass, slotBump>>

ChangePlan ==
  /\ plan' \in Plans /\ promo' \in Promos /\ topic' = topic
  /\ UNCHANGED <<now, products, slots, pins, saves, calls, pass, slotBump, cascaded>>

Tick ==
  /\ \A c \in Calls : calls[c] = Idle
  /\ pass = Idle
  /\ now < MaxTime
  /\ now' = now + 1
  /\ UNCHANGED <<seller, products, slots, pins, saves, calls, pass, slotBump, cascaded>>

Next ==
  \/ \E c \in Calls :
       AdmitSlots(c) \/ AdmitPins(c) \/ CheckOwned(c) \/ Snapshot(c) \/ CommitSlots(c) \/ CommitPins(c)
  \/ PassStarts \/ FindSlots \/ BumpSlots \/ BumpBoosted
  \/ \E p \in Products :
       HideOrShow(p) \/ BumpProduct(p) \/ RemoveProduct(p)
  \/ ChangePlan
  \/ Tick

Spec == Init /\ [][Next]_vars

-----------------------------------------------------------------------------
MostSlots == LET all == {effectiveLimits(p, m).autoBumpSlots : p \in Plans, m \in Promos}
             IN  CHOOSE n \in all : \A k \in all : k <= n

\* Saves that overlap do not see each other's rows: the pool can outgrow the
\* plan, by the lists of the saves that ran at once and no more
\* (setAutoBumpSlots).
PoolBounded == Cardinality(slots) <= MostSlots * Cardinality(Calls)

\* The pins of a profile are those of one save, never a blend of two: the
\* unique position turns the second of two overlapping saves down, unless
\* deleting a pinned listing had freed its position (setPinnedProducts).
PinsFromOneSave == ~cascaded => \A r, s \in pins : r.save = s.save

\* The job moves a listing up at most once per period of the slot, however
\* its slot is saved again, its plan changes or others move it up (autoBump).
PaceStep ==
  \A p \in Products : slotBump'[p] # slotBump[p] =>
    slotBump'[p] - slotBump[p] > Period(pass.cadence)

=============================================================================
