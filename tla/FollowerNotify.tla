--------------------------- MODULE FollowerNotify ---------------------------
(***************************************************************************)
(* "A seller you follow published": the hourly pass that gathers a         *)
(* seller's new listings into one notification per follower, at most one   *)
(* per MinInterval.  Every query of the pass is a step; listings are       *)
(* published and hidden, followers come and go, and passes fail or are     *)
(* missed in between.  Source: follower-notify.cron.ts,                    *)
(* notifications.service.ts.                                               *)
(*                                                                         *)
(* One seller: all that the part of another seller does to this one is to  *)
(* end the pass by failing (Fail).  The clock is even on the hour, when a  *)
(* pass starts, and odd in between, when everything else happens; so no    *)
(* listing carries the very timestamp of a pass.                           *)
(***************************************************************************)
EXTENDS Integers, FiniteSets, FiniteSetsExt

CONSTANTS
  Listings, Followers,
  MinInterval,  \* BATCH_MIN_INTERVAL_MS
  Lookback,     \* FIRST_PASS_LOOKBACK_MS
  Retention,    \* RETENTION_DAYS
  Horizon       \* bound on the clock

Hour == 2

FollowerAssumption ==
  /\ {MinInterval, Lookback, Retention, Horizon} \subseteq Nat
  /\ MinInterval > 0 /\ MinInterval % Hour = 0
  /\ MinInterval + Hour <= Lookback /\ Lookback <= Retention

VARIABLES
  now, ran,   \* has this hour's pass started?
  batches,    \* batchedAt of the follower_notify_batches rows
  pass,       \* the pass that runs
  status, createdAt,  \* of the listings; createdAt is stamped before the commit
  ear,        \* what the followers are to this seller
  told,       \* history: the listings each follower was told of
  heard,      \* history: the pass each follower was last told by
  stray,      \* history: followers whose last pass told them but failed to record it
  times,      \* history: batches each listing was recorded in
  born,       \* history: listings created while a pass ran
  due         \* history: whom to tell of what, unless something came between

rows == <<status, createdAt, ear>>
clock == <<now, ran>>
outcome == <<told, heard, stray, times>>
vars == <<clock, batches, pass, rows, outcome, born, due>>

Never == -1
Idle == [step |-> "idle"]

Init ==
  /\ now = 0 /\ ran = FALSE /\ batches = {} /\ pass = Idle
  /\ status = [l \in Listings |-> "unused"]
  /\ createdAt = [l \in Listings |-> Never]
  /\ ear \in [Followers -> {"none", "listens"}]
  /\ told = [f \in Followers |-> {}]
  /\ heard = [f \in Followers |-> Never]
  /\ stray = {} /\ born = {} /\ due = {}
  /\ times = [l \in Listings |-> 0]

-----------------------------------------------------------------------------
(***************************************************************************)
(* The pass, flushAt(now).                                                 *)
(***************************************************************************)
Follows == {f \in Followers : ear[f] # "none"}

world == <<clock, rows, born>>

\* A pass that reaches its end prunes old batch rows.
Finish(kept) ==
  /\ pass' = Idle
  /\ batches' = {b \in kept : b >= pass.at - Retention}

Start ==
  /\ now % Hour = 0 /\ ~ran /\ pass = Idle
  /\ ran' = TRUE
  /\ pass' = [step |-> "sellers", at |-> now]
  /\ UNCHANGED <<now, batches, rows, outcome, born, due>>

\* Only sellers with followers are looked at.
FindSellers ==
  /\ pass.step = "sellers"
  /\ IF Follows = {}
     THEN Finish(batches)
     ELSE pass' = [pass EXCEPT !.step = "batch"] /\ UNCHANGED batches
  /\ UNCHANGED <<world, outcome, due>>

ReadProducts(cutoff) ==
  pass' = [step |-> "products", at |-> pass.at, cutoff |-> cutoff]

\* Mutant: the last batch only gates, the look-back is always a day.
FindBatch_FixedCutoff ==
  /\ pass.step = "batch"
  /\ IF batches # {} /\ pass.at - Max(batches) < MinInterval
     THEN Finish(batches)
     ELSE ReadProducts(pass.at - Lookback) /\ UNCHANGED batches
  /\ UNCHANGED <<world, outcome, due>>

\* Mutant: no minimum interval.
FindBatch_NoGate ==
  /\ pass.step = "batch"
  /\ ReadProducts(Max(batches \cup {pass.at - Lookback}))
  /\ UNCHANGED <<world, batches, outcome, due>>

\* Not within MinInterval of the last batch; then from there, or Lookback.
FindBatch ==
  /\ pass.step = "batch"
  /\ IF batches # {} /\ pass.at - Max(batches) < MinInterval
     THEN Finish(batches)
     ELSE /\ ReadProducts(Max(batches \cup {pass.at - Lookback}))
          /\ UNCHANGED batches
  /\ UNCHANGED <<world, outcome, due>>

New(cutoff) == {l \in Listings : status[l] = "active" /\ createdAt[l] > cutoff}

\* Mutant: a batch is made although nothing is new.
FindProducts_EvenNone ==
  /\ pass.step = "products"
  /\ pass' = [step |-> "followers", at |-> pass.at, ids |-> New(pass.cutoff)]
  /\ UNCHANGED <<world, batches, outcome, due>>

FindProducts ==
  /\ pass.step = "products"
  /\ IF New(pass.cutoff) = {}
     THEN Finish(batches)
     ELSE /\ pass' = [step |-> "followers", at |-> pass.at, ids |-> New(pass.cutoff)]
          /\ UNCHANGED batches
  /\ UNCHANGED <<world, outcome, due>>

FindFollowers ==
  /\ pass.step = "followers"
  /\ pass' = [step |-> "notify", at |-> pass.at, ids |-> pass.ids, who |-> Follows]
  /\ UNCHANGED <<world, batches, outcome, due>>

\* NotificationsService.create, once per follower and concurrently: nobody is
\* told against their preferences; storing, publishing or queueing may fail,
\* before or after the follower has been told.
Deliveries(who) ==
  LET listening == {f \in who : ear[f] # "muted"}
  IN  {[to |-> some, ok |-> FALSE] : some \in SUBSET listening}
        \cup {[to |-> listening, ok |-> TRUE]}

\* One failure ends the pass; the other followers have been told.
Notify ==
  /\ pass.step = "notify"
  /\ \E d \in Deliveries(pass.who) :
       /\ told' = [f \in Followers |-> IF f \in d.to THEN told[f] \cup pass.ids ELSE told[f]]
       /\ heard' = [f \in Followers |-> IF f \in d.to THEN pass.at ELSE heard[f]]
       /\ IF d.ok
          THEN /\ pass' = [step |-> "record", at |-> pass.at, ids |-> pass.ids]
               /\ stray' = stray \ d.to
               /\ UNCHANGED due
          ELSE pass' = Idle /\ stray' = stray \cup d.to /\ due' = {}
  /\ UNCHANGED <<world, batches, times>>

RecordAt(at) ==
  /\ pass.step = "record"
  /\ Finish(batches \cup {at})
  /\ times' = [l \in Listings |-> IF l \in pass.ids THEN times[l] + 1 ELSE times[l]]
  /\ UNCHANGED <<world, told, heard, stray, due>>

Record == RecordAt(pass.at)

\* A query fails, for this seller or one before, or the process dies.
Fail ==
  /\ pass # Idle
  /\ pass' = Idle
  /\ stray' = IF pass.step = "record"
              THEN stray \cup {f \in Followers : heard[f] = pass.at} ELSE stray
  /\ due' = {}
  /\ UNCHANGED <<world, batches, told, heard, times>>

Pass == \/ Start \/ FindSellers \/ FindBatch \/ FindProducts \/ FindFollowers
        \/ Notify \/ Record \/ Fail

-----------------------------------------------------------------------------
(***************************************************************************)
(* The sellers and the followers, between the hours.                       *)
(***************************************************************************)
Between == now % Hour = 1

\* products.create: createdAt is stamped when the statement is issued ...
Stamp(l) ==
  /\ Between /\ status[l] = "unused"
  /\ status' = [status EXCEPT ![l] = "inserting"]
  /\ createdAt' = [createdAt EXCEPT ![l] = now]
  /\ born' = IF pass # Idle THEN born \cup {l} ELSE born
  /\ due' = due \cup {<<f, l>> : f \in {g \in Followers : ear[g] = "listens"}}
  /\ UNCHANGED <<clock, batches, pass, ear, outcome>>

\* ... and others see the row when it is committed, which may be after a pass
\* with a later timestamp has looked.
Commit(l) ==
  LET late == \/ \E b \in batches : b > createdAt[l]
              \/ /\ pass.step \in {"followers", "notify", "record"}
                 /\ pass.at > createdAt[l]
  IN  /\ status[l] = "inserting"
      /\ status' = [status EXCEPT ![l] = "active"]
      /\ due' = IF late THEN due \ (Followers \X {l}) ELSE due
      /\ UNCHANGED <<clock, batches, pass, createdAt, ear, outcome, born>>

\* Hidden, shown again or removed.
ChangeListing(l) ==
  /\ Between
  /\ \/ /\ status[l] = "active"
        /\ \E st \in {"hide", "deleted"} : status' = [status EXCEPT ![l] = st]
     \/ status[l] = "hide" /\ status' = [status EXCEPT ![l] = "active"]
  /\ due' = due \ (Followers \X {l})
  /\ UNCHANGED <<clock, batches, pass, createdAt, ear, outcome, born>>

\* Follow, unfollow, or turn notifications off and on.
ChangeEar(f) ==
  /\ Between
  /\ \E e \in {"none", "listens", "muted"} \ {ear[f]} : ear' = [ear EXCEPT ![f] = e]
  /\ due' = due \ ({f} \X Listings)
  /\ UNCHANGED <<clock, batches, pass, status, createdAt, outcome, born>>

\* A pass ends within the hour and so does an insert; an hour at which no
\* process was up has no pass.
Tick ==
  /\ now < Horizon
  /\ now % Hour = Hour - 1 => pass = Idle
  /\ \A l \in Listings : status[l] = "inserting" => createdAt[l] = now
  /\ now' = now + 1
  /\ IF now' % Hour = 0
     THEN ran' = FALSE /\ due' = IF ran THEN due ELSE {}
     ELSE UNCHANGED <<ran, due>>
  /\ UNCHANGED <<batches, pass, rows, outcome, born>>

Next ==
  \/ Pass
  \/ \E l \in Listings : Stamp(l) \/ Commit(l) \/ ChangeListing(l)
  \/ \E f \in Followers : ChangeEar(f)
  \/ Tick

Spec == Init /\ [][Next]_vars

-----------------------------------------------------------------------------
Times == Never..Horizon
Batch == (SUBSET Listings) \ {{}}

TypeOK ==
  /\ now \in 0..Horizon /\ ran \in BOOLEAN
  /\ batches \subseteq 0..now
  /\ pass \in {Idle} \cup [step : {"sellers", "batch"}, at : 0..now]
         \cup [step : {"products"}, at : 0..now, cutoff : (-Lookback)..now]
         \cup [step : {"followers", "record"}, at : 0..now, ids : Batch]
         \cup [step : {"notify"}, at : 0..now, ids : Batch, who : SUBSET Followers]
  /\ status \in [Listings -> {"unused", "inserting", "active", "hide", "deleted"}]
  /\ createdAt \in [Listings -> Times]
  /\ ear \in [Followers -> {"none", "listens", "muted"}]
  /\ told \in [Followers -> SUBSET Listings] /\ heard \in [Followers -> Times]
  /\ times \in [Listings -> Nat]
  /\ stray \subseteq Followers /\ born \subseteq Listings
  /\ due \subseteq Followers \X Listings

\* However passes, failures and moderation interleave, a listing is recorded
\* in one batch; in two only if it was created while a pass ran, whose
\* timestamp is older than the listing (flushAt: newProducts has no upper
\* bound).
InOneBatch ==
  \A l \in Listings : times[l] <= IF l \in born THEN 2 ELSE 1

\* A follower hears of the seller twice within MinInterval only if the pass
\* that told them first failed before it was recorded (flushAt).
RepeatStep ==
  \A f \in Followers :
    /\ heard'[f] # heard[f] /\ heard[f] # Never
    /\ heard'[f] - heard[f] < MinInterval
    => f \in stray

\* Everyone who listens is told of a listing within MinInterval and an hour,
\* as long as they go on listening, the listing stays visible, passes neither
\* fail nor are missed, and the listing was not committed too late (flushAt).
NothingSkipped ==
  \A f \in Followers, l \in Listings :
    <<f, l>> \in due /\ now > createdAt[l] + MinInterval + Hour => l \in told[f]

-----------------------------------------------------------------------------
\* The comment on the class: a follower never receives more than one
\* aggregated notification per followed seller per MinInterval.
OnePerInterval ==
  [][\A f \in Followers :
       heard'[f] # heard[f] /\ heard[f] # Never
         => heard'[f] - heard[f] >= MinInterval]_vars
=============================================================================
