---------------------------- MODULE EmailDelivery ----------------------------
(***************************************************************************)
(* Delivering an email: producers enqueue one job per dedupe key, workers  *)
(* of any number of processes run EmailService.send for a job, and the OTP *)
(* resolver calls send directly.  Every database or provider call of send  *)
(* is a step; workers, stalled jobs, crashes and retries interleave.       *)
(* Source: email.service.ts, email.processor.ts, email.module.ts.          *)
(*                                                                         *)
(* The queue is BullMQ, modelled from how email.module.ts configures it: a *)
(* job id is added once while the job is remembered, a thrown error is     *)
(* retried up to Attempts times, and a job whose worker lost its lock is   *)
(* handed out again, once (BullMQ's default).                              *)
(***************************************************************************)
EXTENDS Naturals

CONSTANTS
  Keys,      \* dedupe keys: one per occasion that deserves an email
  Workers,   \* calls of send that can be running at once
  Attempts,  \* defaultJobOptions.attempts
  None

ASSUME EmailAssumption == Attempts \in Nat \ {0} /\ None \notin Workers

VARIABLES
  configured,  \* is there a RESEND_API_KEY?
  job,         \* state of the BullMQ job of each key
  attempts,    \* failed attempts of the job
  stalls,      \* has the job been handed out again after a stall?
  lock,        \* the worker that holds the job
  log,         \* status of the email_logs row of each key, or "none"
  mails,       \* messages the provider accepted, per key
  sender       \* the calls of send

queue == <<job, attempts, stalls, lock>>
vars == <<configured, queue, log, mails, sender>>

JobState == {"absent", "waiting", "active", "completed", "failed"}
Idle == [step |-> "idle"]
Send == [step : {"lookup", "create", "deliver", "markSent", "markFailed"},
         key : Keys]

TypeOK ==
  /\ configured \in BOOLEAN
  /\ job \in [Keys -> JobState]
  /\ attempts \in [Keys -> 0..Attempts]
  /\ stalls \in [Keys -> BOOLEAN]
  /\ lock \in [Keys -> Workers \cup {None}]
  /\ log \in [Keys -> {"none", "queued", "sent", "failed"}]
  /\ mails \in [Keys -> 0..2]
  /\ sender \in [Workers -> {Idle} \cup Send]

Init ==
  /\ configured \in BOOLEAN
  /\ job = [k \in Keys |-> "absent"]
  /\ attempts = [k \in Keys |-> 0]
  /\ stalls = [k \in Keys |-> FALSE]
  /\ lock = [k \in Keys |-> None]
  /\ log = [k \in Keys |-> "none"]
  /\ mails = [k \in Keys |-> 0]
  /\ sender = [w \in Workers |-> Idle]

-----------------------------------------------------------------------------
(***************************************************************************)
(* The queue.                                                              *)
(***************************************************************************)
\* A listener or a cron adds the job; BullMQ ignores an id it remembers.
Enqueue(k) ==
  /\ job[k] = "absent"
  /\ job' = [job EXCEPT ![k] = "waiting"]
  /\ UNCHANGED <<configured, attempts, stalls, lock, log, mails, sender>>

\* removeOnComplete and removeOnFail forget old jobs: the same occasion can
\* be enqueued again, by a cron run twice or an event emitted twice.
Forget(k) ==
  /\ job[k] \in {"completed", "failed"}
  /\ job' = [job EXCEPT ![k] = "absent"]
  /\ attempts' = [attempts EXCEPT ![k] = 0]
  /\ stalls' = [stalls EXCEPT ![k] = FALSE]
  /\ UNCHANGED <<configured, lock, log, mails, sender>>

Take(w, k) ==
  /\ job[k] = "waiting"
  /\ sender[w] = Idle
  /\ job' = [job EXCEPT ![k] = "active"]
  /\ lock' = [lock EXCEPT ![k] = w]
  /\ sender' = [sender EXCEPT ![w] = [step |-> "lookup", key |-> k]]
  /\ UNCHANGED <<configured, attempts, stalls, log, mails>>

\* The lock of an active job expires, because its worker died or was too busy
\* to renew it (it may well still be running): back to the queue, once.
Stall(k) ==
  /\ job[k] = "active"
  /\ job' = [job EXCEPT ![k] = IF stalls[k] THEN "failed" ELSE "waiting"]
  /\ stalls' = [stalls EXCEPT ![k] = TRUE]
  /\ lock' = [lock EXCEPT ![k] = None]
  /\ UNCHANGED <<configured, attempts, log, mails, sender>>

\* The end of process(): only the holder of the lock settles the job.
Complete(w, k) ==
  /\ sender' = [sender EXCEPT ![w] = Idle]
  /\ IF lock[k] = w
     THEN /\ job' = [job EXCEPT ![k] = "completed"]
          /\ lock' = [lock EXCEPT ![k] = None]
     ELSE UNCHANGED <<job, lock>>
  /\ UNCHANGED <<attempts, stalls>>

\* Mutant: a retry that is not counted.
Throw_Uncounted(w, k) ==
  /\ sender' = [sender EXCEPT ![w] = Idle]
  /\ IF lock[k] = w
     THEN /\ job' = [job EXCEPT ![k] = "waiting"]
          /\ lock' = [lock EXCEPT ![k] = None]
     ELSE UNCHANGED <<job, lock>>
  /\ UNCHANGED <<attempts, stalls>>

\* Mutant: one attempt too many.
Throw_OneMore(w, k) ==
  /\ sender' = [sender EXCEPT ![w] = Idle]
  /\ IF lock[k] = w
     THEN /\ attempts' = [attempts EXCEPT ![k] = @ + 1]
          /\ job' = [job EXCEPT ![k] =
                       IF attempts[k] + 1 > Attempts THEN "failed" ELSE "waiting"]
          /\ lock' = [lock EXCEPT ![k] = None]
     ELSE UNCHANGED <<attempts, job, lock>>
  /\ UNCHANGED stalls

Throw(w, k) ==
  /\ sender' = [sender EXCEPT ![w] = Idle]
  /\ IF lock[k] = w
     THEN /\ attempts' = [attempts EXCEPT ![k] = @ + 1]
          /\ job' = [job EXCEPT ![k] =
                       IF attempts[k] + 1 >= Attempts THEN "failed" ELSE "waiting"]
          /\ lock' = [lock EXCEPT ![k] = None]
     ELSE UNCHANGED <<attempts, job, lock>>
  /\ UNCHANGED stalls

-----------------------------------------------------------------------------
(***************************************************************************)
(* EmailService.send.                                                      *)
(***************************************************************************)
At(w, step) == sender[w].step = step
Goto(w, step) == sender' = [sender EXCEPT ![w].step = step]

\* The OTP resolver sends inline, without a job.
Direct(w, k) ==
  /\ sender[w] = Idle
  /\ sender' = [sender EXCEPT ![w] = [step |-> "lookup", key |-> k]]
  /\ UNCHANGED <<configured, queue, log, mails>>

\* A row with the same dedupe key, whatever its status, ends the call.
Lookup(w) ==
  /\ At(w, "lookup")
  /\ IF log[sender[w].key] # "none"
     THEN Complete(w, sender[w].key)
     ELSE Goto(w, "create") /\ UNCHANGED queue
  /\ UNCHANGED <<configured, log, mails>>

\* Mutant: no unique constraint; the lookup is the only guard.
CreateLog_NotUnique(w) ==
  /\ At(w, "create")
  /\ log' = [log EXCEPT ![sender[w].key] = "queued"]
  /\ Goto(w, IF configured THEN "deliver" ELSE "markSent")
  /\ UNCHANGED <<configured, queue, mails>>

\* The unique key decides a race; the loser ends the call quietly.
CreateLog(w) ==
  LET k == sender[w].key
  IN  /\ At(w, "create")
      /\ IF log[k] = "none"
         THEN /\ log' = [log EXCEPT ![k] = "queued"]
              /\ Goto(w, IF configured THEN "deliver" ELSE "markSent")
              /\ UNCHANGED queue
         ELSE Complete(w, k) /\ UNCHANGED log
      /\ UNCHANGED <<configured, mails>>

\* Mutant: the error the provider returns (it does not throw) is ignored.
Deliver_IgnoresError(w) ==
  /\ At(w, "deliver")
  /\ \/ mails' = [mails EXCEPT ![sender[w].key] = IF @ < 2 THEN @ + 1 ELSE @]
     \/ UNCHANGED mails
  /\ Goto(w, "markSent")
  /\ UNCHANGED <<configured, queue, log>>

\* The provider accepts, refuses, or accepts while the answer gets lost.
Deliver(w) ==
  /\ At(w, "deliver")
  /\ \E accepted, answered \in BOOLEAN :
       /\ mails' = [mails EXCEPT ![sender[w].key] =
                      IF accepted /\ @ < 2 THEN @ + 1 ELSE @]
       /\ Goto(w, IF accepted /\ answered THEN "markSent" ELSE "markFailed")
  /\ UNCHANGED <<configured, queue, log>>

MarkSent(w) ==
  LET k == sender[w].key
  IN  /\ At(w, "markSent")
      /\ log' = [log EXCEPT ![k] = "sent"]
      /\ Complete(w, k)
      /\ UNCHANGED <<configured, mails>>

MarkFailed(w) ==
  LET k == sender[w].key
  IN  /\ At(w, "markFailed")
      /\ log' = [log EXCEPT ![k] = "failed"]
      /\ Throw(w, k)
      /\ UNCHANGED <<configured, mails>>

\* A database call fails.  Recording a delivered message is inside the try,
\* so a delivered message can be recorded as failed.
DatabaseError(w) ==
  /\ \/ At(w, "markSent") /\ configured /\ Goto(w, "markFailed") /\ UNCHANGED queue
     \/ /\ \/ At(w, "lookup") \/ At(w, "create") \/ At(w, "markFailed")
           \/ At(w, "markSent") /\ ~configured
        /\ Throw(w, sender[w].key)
  /\ UNCHANGED <<configured, log, mails>>

\* The process dies; the job it held stays active until the queue notices.
Crash(w) ==
  /\ sender[w] # Idle
  /\ sender' = [sender EXCEPT ![w] = Idle]
  /\ lock' = [k \in Keys |-> IF lock[k] = w THEN None ELSE lock[k]]
  /\ UNCHANGED <<configured, job, attempts, stalls, log, mails>>

Run(w) == \/ Lookup(w) \/ CreateLog(w) \/ Deliver(w)
          \/ MarkSent(w) \/ MarkFailed(w) \/ DatabaseError(w)

Next ==
  \/ \E k \in Keys : Enqueue(k) \/ Forget(k) \/ Stall(k)
  \/ \E w \in Workers, k \in Keys : Take(w, k) \/ Direct(w, k)
  \/ \E w \in Workers : Run(w) \/ Crash(w)

Spec == Init /\ [][Next]_vars

-----------------------------------------------------------------------------
(***************************************************************************)
(* Fairness: a worker that runs goes on running, the queue hands waiting   *)
(* jobs to an idle worker again and again, and the lock of a job whose     *)
(* worker is gone expires.                                                 *)
(***************************************************************************)
Orphaned(k) == lock[k] = None

FairSpec ==
  /\ Spec
  /\ \A w \in Workers : WF_vars(Run(w))
  /\ \A k \in Keys : SF_vars(\E w \in Workers : Take(w, k))
  /\ \A k \in Keys : WF_vars(Orphaned(k) /\ Stall(k))

-----------------------------------------------------------------------------
\* A row marked sent stands for exactly one message the provider accepted,
\* whatever calls raced for the row (EmailService.send).
SentMeansMailedOnce ==
  \A k \in Keys : log[k] = "sent" /\ configured => mails[k] = 1

\* The fate of a dedupe key, read off the log, the provider and the calls.
Delivering(k) ==
  \E w \in Workers :
    /\ sender[w] # Idle /\ sender[w].key = k
    /\ \/ At(w, "deliver")
       \/ At(w, "markSent") /\ ~configured

fate ==
  [k \in Keys |->
     IF mails[k] > 0 THEN "mailed"
     ELSE IF log[k] = "none" THEN "open"
     ELSE IF Delivering(k) THEN "claimed" ELSE "lost"]

Once == INSTANCE EmailOnce WITH Keys <- Keys, fate <- fate

\* One attempt per key, ever: however often the job is retried, stalls, is
\* enqueued again or races a direct call (the dedupe key of send).
OneAttempt == Once!Spec

\* A job does not sit in the queue for ever, although it may stall, crash its
\* worker or fail: it is completed or failed (attempts in email.module.ts).
JobsSettle ==
  \A k \in Keys : job[k] = "waiting" ~> job[k] \in {"completed", "failed"}

-----------------------------------------------------------------------------
\* The comment on the queue: transient hiccups recover through the retries,
\* so a job that failed and was then completed has been mailed.
RetriesRecover ==
  \A k \in Keys :
    /\ configured
    /\ job[k] = "completed" /\ attempts[k] > 0
    /\ \A w \in Workers : sender[w] # Idle => sender[w].key # k
    => mails[k] > 0
=============================================================================
