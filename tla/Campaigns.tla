------------------------------ MODULE Campaigns ------------------------------
(***************************************************************************)
(* The mails nobody asked for, as one user gets them: the weekly digest of *)
(* what happened on their listings and the comeback mail, and the links in *)
(* them that stop them.  Every process runs the jobs, an admin may run one *)
(* again the same day.                                                     *)
(* Source: email.cron.ts, preferences.ts, email.controller.ts.             *)
(*                                                                         *)
(* A mail is sent once for its dedupe key, which is what EmailDelivery     *)
(* promises.  Time is in ticks; a weekly job runs within JITTER of its     *)
(* hour, and no job lasts a tick.                                          *)
(***************************************************************************)
EXTENDS Naturals, FiniteSets

CONSTANTS
  Procs,       \* runs of a job that may be going on at once
  WEEK, MONTH, \* in ticks
  JITTER,
  ABSENT,      \* COMEBACK_INACTIVE_DAYS
  MaxEvents,   \* bound on the favourites, followers and reviews
  MaxTime      \* bound on the clock

CampaignAssumption ==
  /\ {JITTER, ABSENT, MaxEvents, MaxTime} \subseteq Nat
  /\ {WEEK, MONTH} \subseteq Nat \ {0}
  /\ JITTER < WEEK

VARIABLES
  now,
  prefs,     \* the preferences of the user that are on
  lastSeen,
  activity,  \* when each favourite, follower or review came
  runs,
  mails,     \* the mails sent, by campaign and dedupe key
  told,      \* history: how many digests counted each activity
  left,      \* history: the campaigns whose link the user followed
  ran,       \* history: has a digest run ended this week?
  smooth     \* history: every week had a digest run, and the user wanted it

vars == <<now, prefs, lastSeen, activity, runs, mails, told, left, ran, smooth>>

-----------------------------------------------------------------------------
Campaign == {"activity_digest", "comeback"}
Pref == {"notifOffers", "notifMarketing"}
Activities == 1..MaxEvents
Known == DOMAIN activity
Idle == [step |-> "idle"]

\* TEMPLATE_CATEGORY, shouldSendEmail: what silences a campaign.
PrefOf(c) == IF c = "activity_digest" THEN "notifOffers" ELSE "notifMarketing"

unsubscribeKeyFor(c) == PrefOf(c)

\* isoWeekKey and the month of the comeback key.
Period(c, t) == IF c = "activity_digest" THEN t \div WEEK ELSE t \div MONTH

TypeOK ==
  /\ now \in 0..MaxTime
  /\ prefs \subseteq Pref
  /\ lastSeen \in 0..MaxTime
  /\ \E n \in 0..MaxEvents : activity \in [1..n -> 0..MaxTime]
  /\ runs \in [Procs -> {Idle} \cup
       [step : {"users", "mail"}, of : Campaign, found : SUBSET Activities, wanted : BOOLEAN]]
  /\ mails \subseteq [of : Campaign, key : 0..MaxTime, wanted : BOOLEAN]
  /\ told \in [Activities -> Nat]
  /\ left \subseteq Campaign
  /\ {ran, smooth} \subseteq BOOLEAN

Init ==
  /\ now = 0
  /\ prefs = Pref
  /\ lastSeen = 0
  /\ activity = <<>>
  /\ runs = [p \in Procs |-> Idle]
  /\ mails = {}
  /\ told = [i \in Activities |-> 0]
  /\ left = {}
  /\ ran = FALSE
  /\ smooth = TRUE

Put(p, run) == runs' = [runs EXCEPT ![p] = run]
Monday(t) == t >= WEEK /\ t % WEEK <= JITTER

-----------------------------------------------------------------------------
(***************************************************************************)
(* activityDigest: the activity of the last week, the users who want it,   *)
(* one mail per user and week.                                             *)
(***************************************************************************)
RecentActivity == {i \in Known : activity[i] + WEEK >= now}

activityDigest(p) ==
  /\ Monday(now)
  /\ runs[p] = Idle
  /\ Put(p, [step |-> "users", of |-> "activity_digest", found |-> RecentActivity,
             wanted |-> "activity_digest" \notin left])
  /\ UNCHANGED <<now, prefs, lastSeen, activity, mails, told, left, ran, smooth>>

\* comeback: one query for whom, one for what they missed.
comeback(p) ==
  /\ runs[p] = Idle
  /\ lastSeen + ABSENT < now
  /\ Put(p, [step |-> "users", of |-> "comeback", found |-> {},
             wanted |-> "comeback" \notin left])
  /\ UNCHANGED <<now, prefs, lastSeen, activity, mails, told, left, ran, smooth>>

EndRun(p) ==
  /\ Put(p, Idle)
  /\ ran' = (ran \/ runs[p].of = "activity_digest")

\* No activity, or a user who does not want the mail: nothing is queued.
FindUsers(p) ==
  LET run == runs[p]
  IN  /\ run.step = "users"
      /\ IF PrefOf(run.of) \in prefs /\ (run.of = "activity_digest" => run.found # {})
         THEN Put(p, [run EXCEPT !.step = "mail"]) /\ UNCHANGED ran
         ELSE EndRun(p)
      /\ UNCHANGED <<now, prefs, lastSeen, activity, mails, told, left, smooth>>

Enqueue(p) ==
  LET run == runs[p]
      key == Period(run.of, now)
      first == \A m \in mails : ~(m.of = run.of /\ m.key = key)
  IN  /\ run.step = "mail"
      /\ IF first
         THEN /\ mails' = mails \cup {[of |-> run.of, key |-> key, wanted |-> run.wanted]}
              /\ told' = [i \in Activities |-> IF i \in run.found THEN told[i] + 1 ELSE told[i]]
         ELSE UNCHANGED <<mails, told>>
      /\ EndRun(p)
      /\ UNCHANGED <<now, prefs, lastSeen, activity, left, smooth>>

Fail(p) ==
  /\ runs[p] # Idle
  /\ Put(p, Idle)
  /\ UNCHANGED <<now, prefs, lastSeen, activity, mails, told, left, ran, smooth>>

-----------------------------------------------------------------------------
\* The link in a mail the user got; it only ever switches off.
Unsubscribe(m) ==
  /\ m \in mails
  /\ prefs' = prefs \ {unsubscribeKeyFor(m.of)}
  /\ left' = left \cup {m.of}
  /\ smooth' = (smooth /\ m.of # "activity_digest")
  /\ UNCHANGED <<now, lastSeen, activity, runs, mails, told, ran>>

\* Back on in the settings; a run under way may or may not see it.
OptIn(c) ==
  /\ PrefOf(c) \notin prefs
  /\ prefs' = prefs \cup {PrefOf(c)}
  /\ left' = left \ {c}
  /\ runs' = [p \in Procs |-> IF runs[p] # Idle /\ runs[p].of = c
                              THEN [runs[p] EXCEPT !.wanted = TRUE] ELSE runs[p]]
  /\ UNCHANGED <<now, lastSeen, activity, mails, told, ran, smooth>>

See ==
  /\ lastSeen' = now
  /\ UNCHANGED <<now, prefs, activity, runs, mails, told, left, ran, smooth>>

Happen ==
  LET n == Cardinality(Known) + 1
  IN  /\ n \in Activities
      /\ activity' = [i \in 1..n |-> IF i < n THEN activity[i] ELSE now]
      /\ UNCHANGED <<now, prefs, lastSeen, runs, mails, told, left, ran, smooth>>

\* When the hour of the digest is over, it has run or was missed.
Tick ==
  LET over == Monday(now) /\ ~Monday(now + 1)
  IN  /\ now < MaxTime
      /\ \A p \in Procs : runs[p] = Idle
      /\ now' = now + 1
      /\ ran' = (ran /\ ~over)
      /\ smooth' = (smooth /\ (over => ran))
      /\ UNCHANGED <<prefs, lastSeen, activity, runs, mails, told, left>>

Next ==
  \/ \E p \in Procs : activityDigest(p) \/ comeback(p) \/ FindUsers(p) \/ Enqueue(p) \/ Fail(p)
  \/ \E m \in mails : Unsubscribe(m)
  \/ \E c \in Campaign : OptIn(c)
  \/ See \/ Happen \/ Tick

Spec == Init /\ [][Next]_vars

-----------------------------------------------------------------------------
\* What happened well inside a week is in one digest, and in the digest of
\* that week if no run was missed; only around the hour of the job itself can
\* it be in two, or in none (activityDigest).
InOneDigest ==
  \A i \in Known :
    LET at == activity[i]
        inside == at % WEEK > JITTER /\ (at + JITTER) % WEEK > JITTER
    IN  inside => /\ told[i] <= 1
                  /\ smooth /\ now > (at \div WEEK + 1) * WEEK + JITTER => told[i] = 1

\* "No recibirás más emails de esta categoría": after following the link in a
\* mail, the user gets no mail of its campaign but from a run under way.
UnsubscribeHolds == \A m \in mails : m.wanted

=============================================================================
