------------------------------ MODULE Listings ------------------------------
(***************************************************************************)
(* The life of a listing and the quota of active listings.                 *)
(*                                                                         *)
(* A seller's create, update and remove mutations run as handlers: every   *)
(* database call they await is a step of its own, and the steps of several *)
(* handlers, of the admin panel and of the account operations interleave.  *)
(* Source: products.service.ts, users.service.ts, jwt.strategy.ts.         *)
(*                                                                         *)
(* Product ids are generated and never reused, so the listings a seller    *)
(* will ever own are fixed up front (SellerOf) and start "unused".         *)
(***************************************************************************)
EXTENDS PlanLimits, FiniteSets

CONSTANTS
  Sellers, Products, SellerOf,
  Requests,   \* handler slots: how many mutations are in flight at most
  Plans,      \* the plans sold in this configuration
  Promos,     \* the promo states the platform goes through
  Images      \* how many images an input may carry

ASSUME ListingsAssumption ==
  /\ IsFiniteSet(Products) /\ IsFiniteSet(Requests) /\ Requests # {}
  /\ SellerOf \in [Products -> Sellers]
  /\ Plans \subseteq UserPlan /\ Promos \subseteq PromoState
  /\ Images \subseteq Nat /\ 0 \in Images

\* No plan allows more active listings than PREMIUM.
TopLimit == PLAN_LIMITS["PREMIUM"].maxActiveProducts

ASSUME TopLimitAssumption ==
  \A p \in UserPlan : PLAN_LIMITS[p].maxActiveProducts <= TopLimit

VARIABLES
  status,   \* products.status, or "unused" / "deleted" when there is no row
  plan,     \* the plan in force (activePlan) of each seller
  promo,    \* what PlanPromoService.state() answers
  account,  \* users.permission, or "deleted"
  sweeps,   \* updateMany calls a (un)suspension still has to make
  req,      \* the handlers
  cause,    \* history: what last changed the listing's status
  pulled    \* history: suspended sellers whose listings have been swept

vars == <<status, plan, promo, account, sweeps, req, cause, pulled>>

-----------------------------------------------------------------------------
Row == {"active", "hide"}
Causes == {"none", "quota", "stale", "admin", "sweep"}

Idle == [step |-> "idle"]

Handler ==
  [step : {"authorized", "plan", "promo", "count", "write"},
   kind : {"create", "update", "remove"}, product : Products,
   want : Row \cup {"keep"}, images : Images, seen : Row \cup {"unused"},
   plan : UserPlan, limit : Nat]

TypeOK ==
  /\ status \in [Products -> Row \cup {"unused", "deleted"}]
  /\ plan \in [Sellers -> UserPlan]
  /\ promo \in PromoState
  /\ account \in [Sellers -> {"GRANTED", "DENIED", "deleted"}]
  /\ sweeps \subseteq Sellers \X {"hide", "restore"}
  /\ req \in [Requests -> {Idle} \cup Handler]
  /\ cause \in [Products -> Causes]
  /\ pulled \subseteq Sellers

Init ==
  /\ status = [p \in Products |-> "unused"]
  /\ plan \in [Sellers -> Plans]
  /\ promo \in Promos
  /\ account = [s \in Sellers |-> "GRANTED"]
  /\ sweeps = {}
  /\ req = [r \in Requests |-> Idle]
  /\ cause = [p \in Products |-> "none"]
  /\ pulled = {}

-----------------------------------------------------------------------------
Owned(s) == {p \in Products : SellerOf[p] = s}
Active(s) == {p \in Owned(s) : status[p] = "active"}
Busy(s) == {r \in Requests : req[r].step # "idle" /\ SellerOf[req[r].product] = s}

\* A status column write; history follows real changes only.  A listing is
\* active for a cause, "quota" (a quota check let it), "stale" (a handler that
\* skipped the check) or "admin", and hidden by a "sweep" or otherwise.
SetStatus(ps, st, why) ==
  /\ status' = [p \in Products |-> IF p \in ps THEN st ELSE status[p]]
  /\ cause' = [p \in Products |-> IF p \in ps /\ status[p] # st
                                  THEN why ELSE cause[p]]

Finish(r) == req' = [req EXCEPT ![r] = Idle]

world == <<plan, promo, account, sweeps, pulled>>
rows == <<status, cause>>

-----------------------------------------------------------------------------
(***************************************************************************)
(* The seller's mutations.  The JWT strategy lets a request in only while  *)
(* the account is GRANTED; nothing re-checks that later.                   *)
(***************************************************************************)
Request(r, kind, p, want, images) ==
  req' = [req EXCEPT ![r] =
            [step |-> "authorized", kind |-> kind, product |-> p,
             want |-> want, images |-> images, seen |-> "unused",
             plan |-> "FREE", limit |-> 0]]

\* Mutant: the strategy only looks at whether the user still exists.
Authorize_IgnoresPermission(r, p) ==
  /\ req[r].step = "idle"
  /\ account[SellerOf[p]] # "deleted"

Authorize(r, p) ==
  /\ req[r].step = "idle"
  /\ account[SellerOf[p]] = "GRANTED"

\* The id of a new listing is fresh; its status column defaults to active.
StartCreate(r) ==
  \E p \in Products, n \in Images :
    /\ Authorize(r, p)
    /\ status[p] = "unused"
    /\ \A q \in Requests : req[q].step # "idle" => req[q].product # p
    /\ Request(r, "create", p, "active", n)
    /\ UNCHANGED <<rows, world>>

StartUpdate(r) ==
  \E p \in Products, want \in Row \cup {"keep"}, n \in Images :
    /\ Authorize(r, p)
    /\ status[p] \in Row
    /\ Request(r, "update", p, want, n)
    /\ UNCHANGED <<rows, world>>

StartRemove(r) ==
  \E p \in Products :
    /\ Authorize(r, p)
    /\ status[p] \in Row
    /\ Request(r, "remove", p, "keep", 0)
    /\ UNCHANGED <<rows, world>>

\* update() and remove() look the listing up first; a listing that is gone
\* ends the handler.  remove() deletes next, update() consults the plan when
\* the input carries images or reactivates a hidden listing.
Reactivates(h) == h.want = "active" /\ h.seen # "active"

\* Mutant: a reactivation is not metered.
FindListing_NoMeter(r) ==
  LET h == [req[r] EXCEPT !.seen = status[req[r].product]]
  IN  /\ req[r].step = "authorized" /\ req[r].kind # "create"
      /\ IF status[h.product] \notin Row
         THEN Finish(r)
         ELSE req' = [req EXCEPT ![r] =
                [h EXCEPT !.step = IF h.kind = "update" /\ h.images > 0
                                   THEN "plan" ELSE "write"]]
      /\ UNCHANGED <<rows, world>>

\* Mutant: update() trusts the id it was given.
FindListing_TrustsId(r) ==
  LET h == [req[r] EXCEPT !.seen = status[req[r].product]]
  IN  /\ req[r].step = "authorized" /\ req[r].kind # "create"
      /\ req' = [req EXCEPT ![r] =
           [h EXCEPT !.step = IF h.kind = "update" THEN "plan" ELSE "write"]]
      /\ UNCHANGED <<rows, world>>

FindListing(r) ==
  LET h == [req[r] EXCEPT !.seen = status[req[r].product]]
  IN  /\ req[r].step = "authorized" /\ req[r].kind # "create"
      /\ IF status[h.product] \notin Row
         THEN Finish(r)
         ELSE req' = [req EXCEPT ![r] =
                [h EXCEPT !.step = IF /\ h.kind = "update"
                                      /\ h.images > 0 \/ Reactivates(h)
                                   THEN "plan" ELSE "write"]]
      /\ UNCHANGED <<rows, world>>

\* The plan in force; a user row that is gone counts as FREE.
ReadPlan(r) ==
  LET s == SellerOf[req[r].product]
  IN  /\ \/ req[r].step = "plan"
         \/ req[r].step = "authorized" /\ req[r].kind = "create"
      /\ req' = [req EXCEPT ![r].step = "promo",
                            ![r].plan = IF account[s] = "deleted"
                                        THEN "FREE" ELSE plan[s]]
      /\ UNCHANGED <<rows, world>>

\* The promo widens the plan; too many images end the handler (create()
\* compares them after the count, with the same outcome).
ReadPromo(r) ==
  LET limits == effectiveLimits(req[r].plan, promo)
      metered == req[r].kind = "create" \/ Reactivates(req[r])
  IN  /\ req[r].step = "promo"
      /\ IF req[r].images > limits.maxImagesPerProduct
         THEN Finish(r)
         ELSE req' = [req EXCEPT
                ![r].step = IF metered THEN "count" ELSE "write",
                ![r].limit = IF metered THEN limits.maxActiveProducts ELSE 0,
                ![r].images = 0, ![r].plan = "FREE"]
      /\ UNCHANGED <<rows, world>>

CountActive(r) ==
  /\ req[r].step = "count"
  /\ IF Cardinality(Active(SellerOf[req[r].product])) >= req[r].limit
     THEN Finish(r)
     ELSE req' = [req EXCEPT ![r].step = "write", ![r].limit = 0]
  /\ UNCHANGED <<rows, world>>

\* product.create: the foreign key refuses a seller who is gone.
WriteCreate(r) ==
  LET p == req[r].product
  IN  /\ req[r].step = "write" /\ req[r].kind = "create"
      /\ IF account[SellerOf[p]] = "deleted"
         THEN UNCHANGED rows
         ELSE SetStatus({p}, "active", "quota")
      /\ Finish(r)
      /\ UNCHANGED world

\* Mutant: an upsert brings a deleted listing back.
WriteUpdate_Upserts(r) ==
  LET h == req[r]
  IN  /\ h.step = "write" /\ h.kind = "update"
      /\ IF h.want = "keep"
         THEN UNCHANGED rows
         ELSE SetStatus({h.product}, h.want, "none")
      /\ Finish(r)
      /\ UNCHANGED world

\* product.update: no row, no write (P2025); no status in the input, no
\* change of status.  A listing that was active when looked up is written
\* active without having been metered.
WriteUpdate(r) ==
  LET h == req[r]
      why == IF h.want = "hide" THEN "none"
             ELSE IF h.seen = "active" THEN "stale" ELSE "quota"
  IN  /\ h.step = "write" /\ h.kind = "update"
      /\ IF status[h.product] \notin Row \/ h.want = "keep"
         THEN UNCHANGED rows
         ELSE SetStatus({h.product}, h.want, why)
      /\ Finish(r)
      /\ UNCHANGED world

WriteRemove(r) ==
  LET p == req[r].product
  IN  /\ req[r].step = "write" /\ req[r].kind = "remove"
      /\ IF status[p] \in Row
         THEN SetStatus({p}, "deleted", "none") ELSE UNCHANGED rows
      /\ Finish(r)
      /\ UNCHANGED world

\* A rejected input, a failed query or a crashed process ends a handler
\* wherever it is; none of these steps is part of a transaction.
Abort(r) ==
  /\ req[r].step # "idle"
  /\ Finish(r)
  /\ UNCHANGED <<rows, world>>

SellerStep(r) ==
  \/ StartCreate(r) \/ StartUpdate(r) \/ StartRemove(r)
  \/ FindListing(r) \/ ReadPlan(r) \/ ReadPromo(r) \/ CountActive(r)
  \/ WriteCreate(r) \/ WriteUpdate(r) \/ WriteRemove(r) \/ Abort(r)

-----------------------------------------------------------------------------
(***************************************************************************)
(* The admin panel and the account operations.                             *)
(***************************************************************************)
\* Moderation and fix-ups write the status of any listing, unmetered.
AdminSetStatus(p, st) ==
  /\ status[p] \in Row
  /\ SetStatus({p}, st, IF st = "active" THEN "admin" ELSE "none")
  /\ UNCHANGED <<world, req>>

\* A ban revokes the permission first and hides the listings second ...
SuspendUser(s) ==
  /\ account[s] # "deleted"
  /\ account' = [account EXCEPT ![s] = "DENIED"]
  /\ sweeps' = sweeps \cup {<<s, "hide">>}
  /\ UNCHANGED <<rows, plan, promo, req, pulled>>

\* ... lifting it gives the permission back and then shows every listing.
UnsuspendUser(s) ==
  /\ account[s] # "deleted"
  /\ account' = [account EXCEPT ![s] = "GRANTED"]
  /\ sweeps' = sweeps \cup {<<s, "restore">>}
  /\ pulled' = pulled \ {s}
  /\ UNCHANGED <<rows, plan, promo, req>>

SweepHide(s) ==
  /\ <<s, "hide">> \in sweeps
  /\ SetStatus(Active(s), "hide", "sweep")
  /\ sweeps' = sweeps \ {<<s, "hide">>}
  /\ pulled' = IF account[s] = "DENIED" THEN pulled \cup {s} ELSE pulled
  /\ UNCHANGED <<plan, promo, account, req>>

SweepRestore(s) ==
  /\ <<s, "restore">> \in sweeps
  /\ SetStatus({p \in Owned(s) : status[p] = "hide"}, "active", "admin")
  /\ sweeps' = sweeps \ {<<s, "restore">>}
  /\ UNCHANGED <<plan, promo, account, req, pulled>>

\* The process dies between the two calls of a (un)suspension.
LoseSweep ==
  /\ \E w \in sweeps : sweeps' = sweeps \ {w}
  /\ UNCHANGED <<rows, plan, promo, account, req, pulled>>

\* users.adminUpdate writes the permission column on its own.
SetPermission(s, permission) ==
  /\ account[s] # "deleted"
  /\ account' = [account EXCEPT ![s] = permission]
  /\ pulled' = IF permission = "GRANTED" THEN pulled \ {s} ELSE pulled
  /\ UNCHANGED <<rows, plan, promo, sweeps, req>>

\* Mutant: only the visible listings go with the account.
RemoveUser_ActiveOnly(s) ==
  /\ account[s] # "deleted"
  /\ account' = [account EXCEPT ![s] = "deleted"]
  /\ SetStatus(Active(s), "deleted", "none")
  /\ UNCHANGED <<plan, promo, sweeps, req, pulled>>

\* The account and everything it published go in one transaction.
RemoveUser(s) ==
  /\ account[s] # "deleted"
  /\ account' = [account EXCEPT ![s] = "deleted"]
  /\ SetStatus({p \in Owned(s) : status[p] \in Row}, "deleted", "none")
  /\ UNCHANGED <<plan, promo, sweeps, req, pulled>>

\* A plan is bought, changed by an admin, or runs out.
ChangePlan(s) ==
  /\ account[s] # "deleted"
  /\ \E p \in Plans : plan' = [plan EXCEPT ![s] = p]
  /\ UNCHANGED <<rows, promo, account, sweeps, req, pulled>>

ChangePromo ==
  /\ promo' \in Promos
  /\ UNCHANGED <<rows, plan, account, sweeps, req, pulled>>

AdminStep ==
  \/ \E p \in Products, st \in Row : AdminSetStatus(p, st)
  \/ \E s \in Sellers : \/ SuspendUser(s) \/ UnsuspendUser(s)
                         \/ SweepHide(s) \/ SweepRestore(s)
                         \/ RemoveUser(s) \/ ChangePlan(s)
                         \/ \E d \in {"GRANTED", "DENIED"} : SetPermission(s, d)
  \/ LoseSweep
  \/ ChangePromo

Next == AdminStep \/ \E r \in Requests : SellerStep(r)

Spec == Init /\ [][Next]_vars

-----------------------------------------------------------------------------
\* The listings a seller shows because a quota check let them, and the
\* handlers that passed a check and have not written yet.
Metered(s) == {p \in Active(s) : cause[p] = "quota"}
Passed(s) ==
  {r \in Busy(s) : /\ req[r].step = "write"
                   /\ \/ req[r].kind = "create"
                      \/ req[r].kind = "update" /\ Reactivates(req[r])}

\* The listings a banned seller shows that no admin put there.
Leaked(s) == {p \in Active(s) : cause[p] # "admin"}

\* The count and the write are two calls, so concurrent mutations overshoot
\* the best quota a seller can have; never by more than the handlers that
\* can be between the two calls at once (create, update).
QuotaOvershootBounded ==
  \A s \in Sellers :
    Cardinality(Metered(s)) + Cardinality(Passed(s))
      <= TopLimit - 1 + Cardinality(Requests)

\* Once a ban has hidden the listings, only mutations that were already past
\* the JWT check can show one again, each at most one (suspendUser).
SuspensionLeakBounded ==
  \A s \in pulled :
    Cardinality(Leaked(s)) + Cardinality(Busy(s)) <= Cardinality(Requests)

\* A removed account owns no listing, whatever its handlers in flight were
\* about to write (users.remove against create and update).
RemovedUserOwnsNothing ==
  \A s \in Sellers : account[s] = "deleted" =>
    \A p \in Owned(s) : status[p] \notin Row

\* A deleted listing never comes back, although update() looked it up before
\* it was deleted (update against remove and users.remove).
DeletedForGood ==
  [][\A p \in Products : status[p] = "deleted" => status'[p] = "deleted"]_vars

=============================================================================
