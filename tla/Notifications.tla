---------------------------- MODULE Notifications ----------------------------
(***************************************************************************)
(* From a domain event to the devices of its recipients: a listener or a   *)
(* broadcast picks the recipients, the service stores a notification for   *)
(* each one who wants it and queues a push job, a worker sends the push.   *)
(* Source: notifications.service.ts, notifications.listener.ts,            *)
(* notifications.admin.resolver.ts, notifications.processor.ts,            *)
(* push.service.ts.                                                        *)
(*                                                                         *)
(* The queue is at-least-once: a job whose worker dies is run again, once. *)
(* The notification list of the app (reading, marking, deleting) is left   *)
(* out: single statements on rows nothing else here reads.                 *)
(***************************************************************************)
EXTENDS Naturals, FiniteSets

CONSTANTS
  Users,
  Devices,
  NoUser,       \* a device without a token row
  Kinds,        \* the kinds of event of the run
  MaxEvents,    \* bound on the events
  MaxStalls,    \* maxStalledCount of the queue
  BATCH         \* BROADCAST_BATCH

DeliveryAssumption ==
  IsFiniteSet(Users) /\ NoUser \notin Users /\ {MaxEvents, MaxStalls, BATCH} \subseteq Nat

VARIABLES
  opted,   \* the users whose preference lets gated notifications through
  tokens,  \* push_tokens: whose device each is
  holder,  \* history: who is signed in on each device
  events,  \* the handler of each event, with what it has still to do
  jobs,    \* notifications-delivery
  inbox,   \* how many notifications of each event each user got
  pushes,  \* history: how often each device was pushed each user's notification
  willing, \* history: the users opted in at some time since the event
  held     \* history: who held which device at some time since the event

vars == <<opted, tokens, holder, events, jobs, inbox, pushes, willing, held>>

-----------------------------------------------------------------------------
Events == 1..MaxEvents
Started == DOMAIN events

TypeOK ==
  /\ opted \subseteq Users
  /\ {tokens, holder} \subseteq [Devices -> Users \cup {NoUser}]
  /\ \E n \in 0..MaxEvents : events \in
       [1..n -> [kind : Kinds, rest : [Users -> 0..2],
                 calls : SUBSET [user : Users, step : {"prefs", "store", "queue"}]]]
  /\ jobs \subseteq [event : Events, user : Users, stalls : 0..MaxStalls,
                     to : SUBSET Devices, step : {"waiting", "send"}]
  /\ inbox \in [Events -> [Users -> Nat]]
  /\ pushes \in [Events -> [Users \X Devices -> Nat]]
  /\ willing \in [Events -> SUBSET Users]
  /\ held \in [Events -> SUBSET (Users \X Devices)]

Init ==
  /\ opted \in SUBSET Users
  /\ tokens = [d \in Devices |-> NoUser]
  /\ holder = tokens
  /\ events = <<>>
  /\ jobs = {}
  /\ inbox = [e \in Events |-> [u \in Users |-> 0]]
  /\ pushes = [e \in Events |-> [ud \in Users \X Devices |-> 0]]
  /\ willing = [e \in Events |-> {}]
  /\ held = [e \in Events |-> {}]

Holders == {ud \in Users \X Devices : holder[ud[2]] = ud[1]}

\* The types of TYPE_TO_PREFERENCE; security is not among them.
Gated == {"price", "alert", "broadcast"}

-----------------------------------------------------------------------------
(***************************************************************************)
(* Choosing the recipients.  A price drop tells who favours the listing    *)
(* and who follows the seller; a new listing tells the owners of matching  *)
(* saved searches, one of whom may own two; a broadcast selects by         *)
(* preference; a security event has one recipient.                         *)
(***************************************************************************)
Count(S) == [u \in Users |-> IF u \in S THEN 1 ELSE 0]

\* Mutant: favouriters first, then followers.
Audience_Twice(kind, A, B) ==
  CASE kind = "price"     -> [u \in Users |-> Count(A)[u] + Count(B)[u]]
    [] kind = "alert"     -> Count(A \cup B)
    [] kind = "broadcast" -> Count(A \cap opted)
    [] kind = "security"  -> Count(A)

Audience(kind, A, B) ==
  CASE kind = "price"     -> Count(A \cup B)
    [] kind = "alert"     -> Count(A \cup B)
    [] kind = "broadcast" -> Count(A \cap opted)
    [] kind = "security"  -> Count(A)

Happen(kind, A, B) ==
  LET e == Cardinality(Started) + 1
  IN  /\ e \in Events
      /\ kind = "security" => Cardinality(A) = 1
      /\ kind \notin {"price", "alert"} => B = {}
      /\ events' = [i \in 1..e |-> IF i < e THEN events[i]
                     ELSE [kind |-> kind, rest |-> Audience(kind, A, B), calls |-> {}]]
      /\ willing' = [willing EXCEPT ![e] = opted]
      /\ held' = [held EXCEPT ![e] = Holders]
      /\ UNCHANGED <<opted, tokens, holder, jobs, inbox, pushes>>

\* How many create() calls run at once: all of them for a price drop, one at a
\* time in the loop over the saved searches, a batch in fanOut.
Width(kind) ==
  CASE kind = "alert" -> 1
    [] kind = "broadcast" -> BATCH
    [] OTHER -> Cardinality(Users)

\* The next batch starts when the last one is done.
StartBatch(e, S) ==
  LET ev == events[e]
      waiting == {u \in Users : ev.rest[u] > 0}
      first == IF ev.kind = "broadcast" THEN "store" ELSE "prefs"
  IN  /\ ev.calls = {}
      /\ S \subseteq waiting
      /\ S # {}
      /\ \/ Cardinality(S) = Width(ev.kind)
         \/ Cardinality(S) < Width(ev.kind) /\ S = waiting
      /\ events' = [events EXCEPT
           ![e].rest = [u \in Users |-> IF u \in S THEN @[u] - 1 ELSE @[u]],
           ![e].calls = {[user |-> u, step |-> first] : u \in S}]
      /\ UNCHANGED <<opted, tokens, holder, jobs, inbox, pushes, willing, held>>

(***************************************************************************)
(* create() and createForced(): preferences (create only), the row, the    *)
(* live feed, the push job.  The feed is published with the row.           *)
(***************************************************************************)
Move(e, call, steps) ==
  events' = [events EXCEPT ![e].calls =
    (@ \ {call}) \cup {[call EXCEPT !.step = s] : s \in steps}]

\* Mutant: alerts for saved searches have no preference.
ReadPrefs_AlertUngated(e, call) ==
  /\ call \in events[e].calls
  /\ call.step = "prefs"
  /\ Move(e, call, IF events[e].kind \in Gated \ {"alert"} /\ call.user \notin opted
                   THEN {} ELSE {"store"})
  /\ UNCHANGED <<opted, tokens, holder, jobs, inbox, pushes, willing, held>>

ReadPrefs(e, call) ==
  /\ call \in events[e].calls
  /\ call.step = "prefs"
  /\ Move(e, call, IF events[e].kind \in Gated /\ call.user \notin opted
                   THEN {} ELSE {"store"})
  /\ UNCHANGED <<opted, tokens, holder, jobs, inbox, pushes, willing, held>>

Store(e, call) ==
  /\ call \in events[e].calls
  /\ call.step = "store"
  /\ Move(e, call, {"queue"})
  /\ inbox' = [inbox EXCEPT ![e][call.user] = @ + 1]
  /\ UNCHANGED <<opted, tokens, holder, jobs, pushes, willing, held>>

Enqueue(e, call) ==
  /\ call \in events[e].calls
  /\ call.step = "queue"
  /\ Move(e, call, {})
  /\ jobs' = jobs \cup {[event |-> e, user |-> call.user, stalls |-> 0,
                         to |-> {}, step |-> "waiting"]}
  /\ UNCHANGED <<opted, tokens, holder, inbox, pushes, willing, held>>

\* One call fails: the others of its batch go on, later batches never start.
FailCall(e, call) ==
  /\ call \in events[e].calls
  /\ events' = [events EXCEPT ![e].calls = @ \ {call},
                              ![e].rest = [u \in Users |-> 0]]
  /\ UNCHANGED <<opted, tokens, holder, jobs, inbox, pushes, willing, held>>

\* The process dies: nothing of the event is taken up again.
Crash(e) ==
  /\ events[e].calls # {}
  /\ events' = [events EXCEPT ![e].calls = {}, ![e].rest = [u \in Users |-> 0]]
  /\ UNCHANGED <<opted, tokens, holder, jobs, inbox, pushes, willing, held>>

-----------------------------------------------------------------------------
(***************************************************************************)
(* sendToUser: the token rows of the user, then the call to Expo.  Expo    *)
(* takes the messages or fails as a whole (bad), and names dead devices,   *)
(* whose token rows go, whoever holds them by then.  Nothing is thrown, so *)
(* the queue never retries.                                                *)
(***************************************************************************)
LookupTokens(j) ==
  /\ j \in jobs
  /\ j.step = "waiting"
  /\ jobs' = (jobs \ {j}) \cup
       {[j EXCEPT !.step = "send", !.to = {d \in Devices : tokens[d] = j.user}]}
  /\ UNCHANGED <<opted, tokens, holder, events, inbox, pushes, willing, held>>

Deliver(j, got, dead) ==
  /\ pushes' = [pushes EXCEPT ![j.event] =
       [ud \in Users \X Devices |->
          IF ud[1] = j.user /\ ud[2] \in got THEN @[ud] + 1 ELSE @[ud]]]
  /\ tokens' = [d \in Devices |-> IF d \in dead THEN NoUser ELSE tokens[d]]

\* Mutant: a dead device fails the job, and the queue tries it again.
SendPush_Throws(j, dead) ==
  /\ j \in jobs
  /\ j.step = "send"
  /\ dead \subseteq j.to
  /\ Deliver(j, j.to \ dead, dead)
  /\ jobs' = IF dead = {} THEN jobs \ {j}
             ELSE (jobs \ {j}) \cup {[j EXCEPT !.step = "waiting"]}
  /\ UNCHANGED <<opted, holder, events, inbox, willing, held>>

SendPush(j, dead) ==
  /\ j \in jobs
  /\ j.step = "send"
  /\ dead \subseteq j.to
  /\ Deliver(j, j.to \ dead, dead)
  /\ jobs' = jobs \ {j}
  /\ UNCHANGED <<opted, holder, events, inbox, willing, held>>

SendFails(j) ==
  /\ j \in jobs
  /\ j.step = "send"
  /\ jobs' = jobs \ {j}
  /\ UNCHANGED <<opted, tokens, holder, events, inbox, pushes, willing, held>>

\* The worker dies after Expo has taken the messages.
Stall(j) ==
  /\ j \in jobs
  /\ j.step = "send"
  /\ Deliver(j, j.to, {})
  /\ jobs' = (jobs \ {j}) \cup
       IF j.stalls = MaxStalls THEN {}
       ELSE {[j EXCEPT !.step = "waiting", !.to = {}, !.stalls = @ + 1]}
  /\ UNCHANGED <<opted, holder, events, inbox, willing, held>>

-----------------------------------------------------------------------------
\* The user of the device signs in: the row is made, or pointed at them.
RegisterToken(u, d) ==
  /\ tokens' = [tokens EXCEPT ![d] = u]
  /\ holder' = [holder EXCEPT ![d] = u]
  /\ held' = [e \in Events |-> IF e \in Started THEN held[e] \cup {<<u, d>>} ELSE {}]
  /\ UNCHANGED <<opted, events, jobs, inbox, pushes, willing>>

RemoveToken(d) ==
  /\ tokens' = [tokens EXCEPT ![d] = NoUser]
  /\ holder' = [holder EXCEPT ![d] = NoUser]
  /\ UNCHANGED <<opted, events, jobs, inbox, pushes, willing, held>>

ChangePrefs(u) ==
  /\ opted' = IF u \in opted THEN opted \ {u} ELSE opted \cup {u}
  /\ willing' = [e \in Events |-> IF e \in Started THEN willing[e] \cup opted' ELSE {}]
  /\ UNCHANGED <<tokens, holder, events, jobs, inbox, pushes, held>>

Next ==
  \/ \E kind \in Kinds, A, B \in SUBSET Users : Happen(kind, A, B)
  \/ \E e \in Started : \/ \E S \in SUBSET Users : StartBatch(e, S)
                        \/ Crash(e)
                        \/ \E call \in events[e].calls :
                             \/ ReadPrefs(e, call) \/ Store(e, call)
                             \/ Enqueue(e, call) \/ FailCall(e, call)
  \/ \E j \in jobs : \/ LookupTokens(j) \/ SendFails(j) \/ Stall(j)
                     \/ \E dead \in SUBSET Devices : SendPush(j, dead)
  \/ \E u \in Users, d \in Devices : RegisterToken(u, d)
  \/ \E d \in Devices : RemoveToken(d)
  \/ \E u \in Users : ChangePrefs(u)

Spec == Init /\ [][Next]_vars

-----------------------------------------------------------------------------
\* "One notification per user even though several of their searches match":
\* who favours a listing and follows its seller, or owns two searches, is told
\* once (NotificationsListener).
OneNoticePerEvent == \A e \in Events, u \in Users : inbox[e][u] <= 1

\* Who has been opted out since before the event gets nothing of it, though
\* create() asks per recipient and a broadcast only when it starts.
NoticesWanted ==
  \A e \in Started, u \in Users :
    events[e].kind \in Gated /\ inbox[e][u] > 0 => u \in willing[e]

\* A push goes to a device its user held at some time since the event, however
\* late the job runs and whoever signed in on the device before.
PushesReachTheirUser ==
  \A e \in Events, ud \in Users \X Devices : pushes[e][ud] > 0 => ud \in held[e]

\* "Never throws": with no retry behind it, a device hears of a notification
\* once, and once more for each worker that died over the job.
PushesBounded ==
  \A e \in Events, ud \in Users \X Devices : pushes[e][ud] <= 1 + MaxStalls

=============================================================================
