------------------------- MODULE EmailDelivery_proofs -------------------------
(***************************************************************************)
(* EmailDelivery for any dedupe keys, workers and number of attempts: type *)
(* correctness, what a row marked sent stands for, and that the pipeline   *)
(* implements EmailOnce.                                                   *)
(***************************************************************************)
EXTENDS EmailDelivery, TLAPS

-----------------------------------------------------------------------------
(***************************************************************************)
(* What holds in between.                                                  *)
(***************************************************************************)
\* Only an active job has a lock, and a job that can still run has a try left.
QueueInv ==
  \A k \in Keys :
    /\ lock[k] # None => job[k] = "active"
    /\ job[k] \in {"absent", "waiting", "active"} => attempts[k] < Attempts

\* The call that inserted the row of k has not returned.
Claims(w, k) ==
  /\ sender[w].step \in {"deliver", "markSent", "markFailed"}
  /\ sender[w].key = k

\* The row of a key belongs to one call, and is still queued while it runs.
OneClaim ==
  \A k \in Keys, w \in Workers : Claims(w, k) =>
    /\ log[k] = "queued"
    /\ \A v \in Workers : Claims(v, k) => v = w

\* What a call has done so far can be read off its step.
StepsTell ==
  \A k \in Keys, w \in Workers : Claims(w, k) =>
    /\ sender[w].step = "deliver" => configured /\ mails[k] = 0
    /\ sender[w].step = "markSent" => mails[k] = (IF configured THEN 1 ELSE 0)
    /\ sender[w].step = "markFailed" => configured

\* A key without a row was never mailed, a row marked sent was, once.
LogTells ==
  \A k \in Keys :
    /\ mails[k] \in {0, 1}
    /\ log[k] = "none" => mails[k] = 0
    /\ log[k] = "sent" => mails[k] = (IF configured THEN 1 ELSE 0)

IInv == TypeOK /\ QueueInv /\ OneClaim /\ StepsTell /\ LogTells

-----------------------------------------------------------------------------
\* A worker that is not idle runs a call of send.
LEMMA BusyWorker ==
  ASSUME TypeOK, NEW w \in Workers, sender[w].step # "idle"
  PROVE  sender[w] \in Send
BY DEF TypeOK, Idle

LEMMA InitIInv == Init => IInv
BY EmailAssumption
DEF Init, IInv, TypeOK, QueueInv, OneClaim, StepsTell, LogTells, Claims, JobState, Idle

\* The end of a call, well or badly, keeps queue and workers in order.
LEMMA CallEnds ==
  ASSUME TypeOK, QueueInv, NEW w \in Workers, NEW k \in Keys,
         Complete(w, k) \/ Throw(w, k)
  PROVE  /\ job' \in [Keys -> JobState]
         /\ attempts' \in [Keys -> 0..Attempts]
         /\ stalls' \in [Keys -> BOOLEAN]
         /\ lock' \in [Keys -> Workers \cup {None}]
         /\ sender' = [sender EXCEPT ![w] = Idle]
         /\ sender' \in [Workers -> {Idle} \cup Send]
         /\ QueueInv'
<1>1. CASE Complete(w, k)
  BY <1>1, EmailAssumption DEF TypeOK, QueueInv, Complete, JobState
<1>2. CASE Throw(w, k)
  <2>1. CASE lock[k] = w
    <3>1. job[k] = "active" /\ attempts[k] + 1 \in 0..Attempts
      BY <2>1, EmailAssumption DEF TypeOK, QueueInv
    <3>2. QED
      BY <1>2, <2>1, <3>1, EmailAssumption DEF TypeOK, QueueInv, Throw, JobState
  <2>2. CASE lock[k] # w
    BY <1>2, <2>2 DEF TypeOK, QueueInv, Throw
  <2>3. QED
    BY <2>1, <2>2
<1>3. QED
  BY <1>1, <1>2

\* A step that leaves rows and mails alone, and every call that has a row as it
\* was, if it is still there, keeps what is known of rows, mails and calls.
LEMMA ClaimsKept ==
  ASSUME IInv, TypeOK', QueueInv', UNCHANGED <<configured, log, mails>>,
         \A v \in Workers, i \in Keys :
           Claims(v, i)' => Claims(v, i) /\ sender'[v] = sender[v]
  PROVE  IInv'
BY DEF IInv, OneClaim, StepsTell, LogTells

\* A step of the queue, or a call that begins, changes neither rows nor mails
\* and no call that has a row.
LEMMA QueueStep ==
  ASSUME IInv, NEW k \in Keys,
         \/ Enqueue(k) \/ Forget(k) \/ Stall(k)
         \/ \E w \in Workers : Take(w, k) \/ Direct(w, k)
  PROVE  IInv'
<1>1. TypeOK' /\ QueueInv'
  <2>1. CASE Enqueue(k)
    BY <2>1 DEF IInv, TypeOK, QueueInv, Enqueue, JobState
  <2>2. CASE Forget(k)
    BY <2>2, EmailAssumption DEF IInv, TypeOK, QueueInv, Forget, JobState
  <2>3. CASE Stall(k)
    BY <2>3 DEF IInv, TypeOK, QueueInv, Stall, JobState
  <2>4. CASE \E w \in Workers : Take(w, k)
    BY <2>4 DEF IInv, TypeOK, QueueInv, Take, JobState, Send
  <2>5. CASE \E w \in Workers : Direct(w, k)
    BY <2>5 DEF IInv, TypeOK, QueueInv, Direct, queue, Send
  <2>6. QED
    BY <2>1, <2>2, <2>3, <2>4, <2>5
<1>2. UNCHANGED <<configured, log, mails>>
  BY DEF Enqueue, Forget, Stall, Take, Direct
<1>3. \A v \in Workers, i \in Keys :
        Claims(v, i)' => Claims(v, i) /\ sender'[v] = sender[v]
  BY DEF IInv, TypeOK, Claims, Enqueue, Forget, Stall, Take, Direct, Send, Idle
<1>4. QED
  BY <1>1, <1>2, <1>3, ClaimsKept

\* A call that returns, fails or dies gives up its claim; the others keep theirs.
LEMMA ClaimGone ==
  ASSUME TypeOK, NEW w \in Workers, sender' = [sender EXCEPT ![w] = Idle]
  PROVE  \A v \in Workers, i \in Keys :
           Claims(v, i)' => v # w /\ Claims(v, i) /\ sender'[v] = sender[v]
BY DEF TypeOK, Claims, Idle

\* The next step of a call: no other call notices.
LEMMA CallGoesOn ==
  ASSUME TypeOK, NEW w \in Workers, NEW step, sender[w] \in Send,
         step \in {"create", "deliver", "markSent", "markFailed"}, Goto(w, step)
  PROVE  /\ sender' \in [Workers -> {Idle} \cup Send]
         /\ sender'[w].step = step /\ sender'[w].key = sender[w].key
         /\ \A v \in Workers \ {w} : sender'[v] = sender[v]
BY DEF TypeOK, Goto, Send

LEMMA LookupStep ==
  ASSUME IInv, NEW w \in Workers, Lookup(w)
  PROVE  IInv'
<1>1. sender[w] \in Send
  BY BusyWorker DEF IInv, Lookup, At
<1> DEFINE k == sender[w].key
<1>2. k \in Keys
  BY <1>1 DEF Send
<1>3. CASE log[k] # "none"
  <2>1. Complete(w, k) /\ UNCHANGED <<configured, log, mails>>
    BY <1>3 DEF Lookup
  <2>2. sender' = [sender EXCEPT ![w] = Idle]
    BY <2>1 DEF Complete
  <2>3. TypeOK' /\ QueueInv'
    BY <1>2, <2>1, CallEnds DEF IInv, TypeOK
  <2>4. QED
    BY <2>1, <2>2, <2>3, ClaimGone, ClaimsKept DEF IInv
<1>4. CASE log[k] = "none"
  <2>1. Goto(w, "create") /\ UNCHANGED <<queue, configured, log, mails>>
    BY <1>4 DEF Lookup
  <2>2. TypeOK' /\ QueueInv'
    BY <1>1, <2>1, CallGoesOn DEF IInv, TypeOK, QueueInv, queue
  <2>3. \A v \in Workers, i \in Keys :
          Claims(v, i)' => Claims(v, i) /\ sender'[v] = sender[v]
    BY <1>1, <2>1, CallGoesOn DEF IInv, Claims
  <2>4. QED
    BY <2>1, <2>2, <2>3, ClaimsKept
<1>5. QED
  BY <1>3, <1>4

LEMMA CreateLogStep ==
  ASSUME IInv, NEW w \in Workers, CreateLog(w)
  PROVE  IInv'
<1>1. sender[w] \in Send
  BY BusyWorker DEF IInv, CreateLog, At
<1> DEFINE k == sender[w].key
<1>2. k \in Keys
  BY <1>1 DEF Send
<1>3. CASE log[k] # "none"
  <2>1. Complete(w, k) /\ UNCHANGED <<configured, log, mails>>
    BY <1>3 DEF CreateLog
  <2>2. sender' = [sender EXCEPT ![w] = Idle]
    BY <2>1 DEF Complete
  <2>3. TypeOK' /\ QueueInv'
    BY <1>2, <2>1, CallEnds DEF IInv, TypeOK
  <2>4. QED
    BY <2>1, <2>2, <2>3, ClaimGone, ClaimsKept DEF IInv
<1>4. CASE log[k] = "none"
  <2> DEFINE step == IF configured THEN "deliver" ELSE "markSent"
  <2>1. /\ log' = [log EXCEPT ![k] = "queued"]
        /\ Goto(w, step)
        /\ UNCHANGED <<queue, configured, mails>>
    BY <1>4 DEF CreateLog
  <2>2. step \in {"deliver", "markSent"}
    OBVIOUS
  <2> HIDE DEF step
  <2>3. /\ sender' \in [Workers -> {Idle} \cup Send]
        /\ sender'[w].step = step /\ sender'[w].key = k
        /\ \A v \in Workers \ {w} : sender'[v] = sender[v]
    BY <1>1, <2>1, <2>2, CallGoesOn DEF IInv
  <2>4. TypeOK' /\ QueueInv'
    BY <2>1, <2>3 DEF IInv, TypeOK, QueueInv, queue
  \* There was no row, so that nobody else has one now.
  <2>5. \A v \in Workers : ~Claims(v, k)
    BY <1>2, <1>4 DEF IInv, OneClaim
  <2>6. \A v \in Workers, i \in Keys :
          Claims(v, i)' <=> IF v = w THEN i = k ELSE Claims(v, i)
    BY <2>2, <2>3 DEF Claims
  <2>7. OneClaim'
    BY <1>2, <2>1, <2>5, <2>6 DEF IInv, TypeOK, OneClaim
  <2>8. mails[k] = 0
    BY <1>2, <1>4 DEF IInv, LogTells
  <2>9. StepsTell'
    BY <1>2, <2>1, <2>3, <2>5, <2>6, <2>8 DEF IInv, StepsTell, step
  <2>10. LogTells'
    BY <1>2, <2>1, <2>8 DEF IInv, TypeOK, LogTells
  <2>11. QED
    BY <2>4, <2>7, <2>9, <2>10 DEF IInv
<1>5. QED
  BY <1>3, <1>4

LEMMA DeliverStep ==
  ASSUME IInv, NEW w \in Workers, Deliver(w)
  PROVE  IInv'
<1>1. sender[w] \in Send /\ At(w, "deliver")
  BY BusyWorker DEF IInv, Deliver, At
<1> DEFINE k == sender[w].key
<1>2. k \in Keys /\ Claims(w, k)
  BY <1>1 DEF Send, At, Claims
<1>3. /\ log[k] = "queued" /\ configured /\ mails[k] = 0
      /\ \A v \in Workers : Claims(v, k) => v = w
  BY <1>1, <1>2 DEF IInv, OneClaim, StepsTell, At
<1>4. PICK accepted, answered \in BOOLEAN :
        /\ mails' = [mails EXCEPT ![k] = IF accepted /\ @ < 2 THEN @ + 1 ELSE @]
        /\ Goto(w, IF accepted /\ answered THEN "markSent" ELSE "markFailed")
  BY DEF Deliver
<1> DEFINE step == IF accepted /\ answered THEN "markSent" ELSE "markFailed"
<1>5. UNCHANGED <<configured, queue, log>>
  BY DEF Deliver
<1>6. /\ mails' \in [Keys -> 0..2]
      /\ mails'[k] = (IF accepted THEN 1 ELSE 0)
      /\ \A i \in Keys \ {k} : mails'[i] = mails[i]
  BY <1>2, <1>3, <1>4 DEF IInv, TypeOK
<1>7. step \in {"markSent", "markFailed"} /\ (step = "markSent" => accepted)
  OBVIOUS
<1> HIDE DEF step
<1>8. /\ sender' \in [Workers -> {Idle} \cup Send]
      /\ sender'[w].step = step /\ sender'[w].key = k
      /\ \A v \in Workers \ {w} : sender'[v] = sender[v]
  <2>1. Goto(w, step)
    BY <1>4 DEF step
  <2>2. QED
    BY <1>1, <1>7, <2>1, CallGoesOn DEF IInv
<1>9. TypeOK' /\ QueueInv'
  BY <1>5, <1>6, <1>8 DEF IInv, TypeOK, QueueInv, queue
<1>10. \A v \in Workers, i \in Keys : Claims(v, i)' <=> Claims(v, i)
  BY <1>1, <1>2, <1>7, <1>8 DEF Claims, At
<1>11. OneClaim'
  BY <1>5, <1>10 DEF IInv, OneClaim
<1>12. StepsTell'
  <2> SUFFICES ASSUME NEW i \in Keys, NEW v \in Workers, Claims(v, i)'
               PROVE  /\ sender'[v].step = "deliver" => configured' /\ mails'[i] = 0
                      /\ sender'[v].step = "markSent"
                           => mails'[i] = (IF configured' THEN 1 ELSE 0)
                      /\ sender'[v].step = "markFailed" => configured'
    BY DEF StepsTell
  <2>1. CASE v = w
    <3>1. i = k
      BY <1>8, <2>1 DEF Claims
    <3>2. QED
      BY <1>3, <1>5, <1>6, <1>7, <1>8, <2>1, <3>1
  <2>2. CASE v # w
    <3>1. Claims(v, i) /\ sender'[v] = sender[v] /\ i # k
      BY <1>3, <1>8, <1>10, <2>2
    <3>2. QED
      BY <1>5, <1>6, <3>1 DEF IInv, StepsTell
  <2>3. QED
    BY <2>1, <2>2
<1>13. LogTells'
  BY <1>2, <1>3, <1>5, <1>6 DEF IInv, TypeOK, LogTells
<1>14. QED
  BY <1>9, <1>11, <1>12, <1>13 DEF IInv

\* The call that has the row writes how it ended.
LEMMA MarkStep ==
  ASSUME IInv, NEW w \in Workers, MarkSent(w) \/ MarkFailed(w)
  PROVE  IInv'
<1> DEFINE k == sender[w].key
           status == IF At(w, "markSent") THEN "sent" ELSE "failed"
<1>1. sender[w] \in Send
  BY BusyWorker DEF IInv, MarkSent, MarkFailed, At
<1>2. k \in Keys /\ Claims(w, k)
  BY <1>1 DEF Send, At, Claims, MarkSent, MarkFailed
<1>3. /\ \A v \in Workers : Claims(v, k) => v = w
      /\ At(w, "markSent") => mails[k] = (IF configured THEN 1 ELSE 0)
  BY <1>1, <1>2 DEF IInv, OneClaim, StepsTell, At
<1>4. /\ log' = [log EXCEPT ![k] = status]
      /\ Complete(w, k) \/ Throw(w, k)
      /\ UNCHANGED <<configured, mails>>
  BY DEF MarkSent, MarkFailed, At
<1>5. status \in {"sent", "failed"} /\ (status = "sent" => At(w, "markSent"))
  OBVIOUS
<1> HIDE DEF status
<1>6. sender' = [sender EXCEPT ![w] = Idle]
  BY <1>4 DEF Complete, Throw
<1>7. TypeOK' /\ QueueInv'
  BY <1>2, <1>4, <1>5, CallEnds DEF IInv, TypeOK
<1>8. \A v \in Workers, i \in Keys :
        Claims(v, i)' => i # k /\ Claims(v, i) /\ sender'[v] = sender[v]
  BY <1>2, <1>3, <1>6, ClaimGone DEF IInv
<1>9. OneClaim' /\ StepsTell'
  BY <1>4, <1>8 DEF IInv, TypeOK, OneClaim, StepsTell
<1>10. LogTells'
  BY <1>2, <1>3, <1>4, <1>5 DEF IInv, TypeOK, LogTells
<1>11. QED
  BY <1>7, <1>9, <1>10 DEF IInv

LEMMA FailureStep ==
  ASSUME IInv, NEW w \in Workers, DatabaseError(w) \/ Crash(w)
  PROVE  IInv'
<1>1. UNCHANGED <<configured, log, mails>>
  BY DEF DatabaseError, Crash
<1>2. CASE Crash(w)
  <2>1. TypeOK' /\ QueueInv'
    BY <1>2 DEF IInv, TypeOK, QueueInv, Crash
  <2>2. sender' = [sender EXCEPT ![w] = Idle]
    BY <1>2 DEF Crash
  <2>3. QED
    BY <1>1, <2>1, <2>2, ClaimGone, ClaimsKept DEF IInv
<1>3. CASE At(w, "markSent") /\ configured /\ Goto(w, "markFailed") /\ UNCHANGED queue
  <2>1. sender[w] \in Send
    BY <1>3, BusyWorker DEF IInv, At
  <2>2. /\ sender' \in [Workers -> {Idle} \cup Send]
        /\ sender'[w].step = "markFailed" /\ sender'[w].key = sender[w].key
        /\ \A v \in Workers \ {w} : sender'[v] = sender[v]
    BY <1>3, <2>1, CallGoesOn DEF IInv
  <2>3. TypeOK' /\ QueueInv'
    BY <1>1, <1>3, <2>2 DEF IInv, TypeOK, QueueInv, queue
  <2>4. \A v \in Workers, i \in Keys :
          /\ Claims(v, i)' <=> Claims(v, i)
          /\ v # w => sender'[v] = sender[v]
    BY <1>3, <2>2 DEF Claims, At
  <2>5. QED
    BY <1>1, <1>3, <2>2, <2>3, <2>4 DEF IInv, OneClaim, StepsTell, LogTells
<1>4. CASE \E k \in Keys : k = sender[w].key /\ Throw(w, k)
  <2>1. TypeOK' /\ QueueInv'
    BY <1>1, <1>4, CallEnds DEF IInv, TypeOK
  <2>2. sender' = [sender EXCEPT ![w] = Idle]
    BY <1>4 DEF Throw
  <2>3. QED
    BY <1>1, <2>1, <2>2, ClaimGone, ClaimsKept DEF IInv
<1>5. DatabaseError(w) => sender[w] \in Send
  BY BusyWorker DEF IInv, DatabaseError, At
<1>6. QED
  BY <1>2, <1>3, <1>4, <1>5 DEF DatabaseError, Send

LEMMA NextIInv ==
  ASSUME IInv, [Next]_vars
  PROVE  IInv'
<1>1. CASE UNCHANGED vars
  BY <1>1 DEF IInv, TypeOK, QueueInv, OneClaim, StepsTell, LogTells, Claims, vars, queue
<1>2. CASE \E k \in Keys : Enqueue(k) \/ Forget(k) \/ Stall(k)
  BY <1>2, QueueStep
<1>3. CASE \E w \in Workers, k \in Keys : Take(w, k) \/ Direct(w, k)
  BY <1>3, QueueStep
<1>4. CASE \E w \in Workers : Run(w) \/ Crash(w)
  BY <1>4, LookupStep, CreateLogStep, DeliverStep, MarkStep, FailureStep DEF Run
<1>5. QED
  BY <1>1, <1>2, <1>3, <1>4 DEF Next

LEMMA Invariance == Spec => []IInv
<1>1. Init => IInv
  BY InitIInv
<1>2. IInv /\ [Next]_vars => IInv'
  BY NextIInv
<1>3. QED
  BY <1>1, <1>2, PTL DEF Spec

-----------------------------------------------------------------------------
\* In every reachable state queue, log and calls are well typed: no job is
\* tried more often than email.module.ts says, no key is mailed twice.
THEOREM Typing == Spec => []TypeOK
<1>1. IInv => TypeOK
  BY DEF IInv
<1>2. QED
  BY <1>1, Invariance, PTL

\* However calls race for the row, a row marked sent stands for exactly one
\* message (EmailService.send).
THEOREM SentMeansMailedOnceThm == Spec => []SentMeansMailedOnce
<1>1. IInv => SentMeansMailedOnce
  BY DEF IInv, LogTells, SentMeansMailedOnce
<1>2. QED
  BY <1>1, Invariance, PTL

-----------------------------------------------------------------------------
(***************************************************************************)
(* The pipeline implements EmailOnce: fate is the refinement mapping.      *)
(***************************************************************************)
\* The call is still to hand the message over, or to skip it without a key.
Sending(w, k) ==
  /\ sender[w].key = k
  /\ \/ sender[w].step = "deliver"
     \/ sender[w].step = "markSent" /\ ~configured

\* The fate of one key.
FateIs(k, f) ==
  f = IF mails[k] > 0 THEN "mailed"
      ELSE IF log[k] = "none" THEN "open"
      ELSE IF \E w \in Workers : Sending(w, k) THEN "claimed" ELSE "lost"

LEMMA Fate ==
  /\ fate = [k \in Keys |-> fate[k]] /\ \A k \in Keys : FateIs(k, fate[k])
  /\ fate' = [k \in Keys |-> fate'[k]] /\ \A k \in Keys : FateIs(k, fate[k])'
<1>1. \A k \in Keys : Delivering(k) <=> \E w \in Workers : Sending(w, k)
  BY DEF Delivering, Sending, At, Idle
<1>2. \A k \in Keys : Delivering(k)' <=> \E w \in Workers : Sending(w, k)'
  BY DEF Delivering, Sending, At, Idle
<1>3. QED
  BY <1>1, <1>2 DEF fate, FateIs

\* A call that is still to hand over has the row to itself, and no mail went out.
LEMMA SendingClaims ==
  ASSUME IInv, NEW w \in Workers, NEW k \in Keys, Sending(w, k)
  PROVE  /\ log[k] = "queued" /\ mails[k] = 0
         /\ \A v \in Workers : Sending(v, k) => v = w
<1>1. \A v \in Workers : Sending(v, k) => Claims(v, k)
  BY DEF Sending, Claims
<1>2. QED
  BY <1>1 DEF IInv, OneClaim, StepsTell, Sending

\* A key moves on as EmailOnce says when the others stay as they are.
LEMMA Moves ==
  ASSUME NEW k \in Keys, \A i \in Keys \ {k} : fate'[i] = fate[i],
         \/ fate[k] = "open" /\ fate'[k] = "claimed"
         \/ fate[k] = "claimed" /\ fate'[k] \in {"mailed", "lost"}
  PROVE  Once!Next
<1>1. \A to : fate'[k] = to => fate' = [fate EXCEPT ![k] = to]
  BY Fate
<1>2. QED
  BY <1>1 DEF Once!Next, Once!Becomes

\* A step of a call that neither inserts a row nor mails, and hands over
\* nothing after it: if it was to hand over, its message is lost.
LEMMA GivesUp ==
  ASSUME IInv, NEW w \in Workers, UNCHANGED <<configured, mails>>,
         \A i \in Keys : log'[i] = "none" <=> log[i] = "none",
         \A i \in Keys : ~Sending(w, i)',
         \A v \in Workers \ {w} : sender'[v] = sender[v]
  PROVE  [Once!Next]_fate
<1>1. \A v \in Workers \ {w}, i \in Keys : Sending(v, i)' <=> Sending(v, i)
  BY DEF Sending
<1>2. CASE \E k \in Keys : Sending(w, k)
  <2>1. PICK k \in Keys : Sending(w, k)
    BY <1>2
  <2>2. /\ log[k] = "queued" /\ mails[k] = 0
        /\ \A v \in Workers : ~Sending(v, k)'
    BY <1>1, <2>1, SendingClaims
  <2>3. fate[k] = "claimed" /\ fate'[k] = "lost"
    BY <2>1, <2>2, Fate DEF FateIs
  <2>4. \A i \in Keys \ {k} : ~Sending(w, i)
    BY <2>1 DEF Sending
  <2>5. \A i \in Keys \ {k} : fate'[i] = fate[i]
    BY <1>1, <2>4, Fate DEF FateIs
  <2>6. QED
    BY <2>3, <2>5, Moves
<1>3. CASE \A k \in Keys : ~Sending(w, k)
  <2>1. \A i \in Keys : fate'[i] = fate[i]
    BY <1>1, <1>3, Fate DEF FateIs
  <2>2. QED
    BY <2>1, Fate
<1>4. QED
  BY <1>2, <1>3

\* The call that inserts the row claims the key.
LEMMA CreateLogClaims ==
  ASSUME IInv, NEW w \in Workers, CreateLog(w), log[sender[w].key] = "none"
  PROVE  Once!Next
<1>1. sender[w] \in Send
  BY BusyWorker DEF IInv, CreateLog, At
<1>k. PICK k \in Keys : k = sender[w].key
  BY <1>1 DEF Send
<1>2. /\ log' = [log EXCEPT ![k] = "queued"]
      /\ Goto(w, IF configured THEN "deliver" ELSE "markSent")
      /\ UNCHANGED <<configured, mails>>
  BY <1>k DEF CreateLog
<1>3. mails[k] = 0
  BY <1>1, <1>k DEF IInv, LogTells
<1>4. Sending(w, k)'
  BY <1>1, <1>k, <1>2 DEF IInv, TypeOK, Goto, Sending, Send
<1>5. fate[k] = "open" /\ fate'[k] = "claimed"
  BY <1>1, <1>k, <1>2, <1>3, <1>4, Fate DEF IInv, TypeOK, FateIs
<1>6. \A i \in Keys \ {k}, v \in Workers : Sending(v, i)' <=> Sending(v, i)
  BY <1>1, <1>k, <1>2 DEF IInv, TypeOK, Goto, Sending, Send
<1>7. \A i \in Keys \ {k} : fate'[i] = fate[i]
  BY <1>1, <1>k, <1>2, <1>6, Fate DEF IInv, TypeOK, FateIs
<1>8. QED
  BY <1>1, <1>k, <1>5, <1>7, Moves

\* The call that hands the message over decides what becomes of the key.
LEMMA DeliverSettles ==
  ASSUME IInv, NEW w \in Workers, Deliver(w)
  PROVE  Once!Next
<1>0. sender[w] \in Send /\ At(w, "deliver")
  BY BusyWorker DEF IInv, Deliver, At
<1>k. PICK k \in Keys : k = sender[w].key
  BY <1>0 DEF Send
<1>1. Sending(w, k)
  BY <1>0, <1>k DEF Sending, At
<1>2. /\ log[k] = "queued" /\ mails[k] = 0 /\ configured
      /\ \A v \in Workers : Sending(v, k) => v = w
  BY <1>0, <1>k, <1>1, SendingClaims DEF Claims, IInv, StepsTell, Deliver, At
<1>3. PICK accepted, answered \in BOOLEAN :
        /\ mails' = [mails EXCEPT ![k] = IF accepted /\ @ < 2 THEN @ + 1 ELSE @]
        /\ Goto(w, IF accepted /\ answered THEN "markSent" ELSE "markFailed")
  BY <1>k DEF Deliver
<1>4. UNCHANGED <<configured, log>>
  BY DEF Deliver
<1>5. /\ mails'[k] \in {0, 1}
      /\ \A i \in Keys \ {k} : mails'[i] = mails[i]
  BY <1>0, <1>k, <1>1, <1>2, <1>3 DEF IInv, TypeOK
<1>6. \A i \in Keys, v \in Workers : Sending(v, i)' <=> v # w /\ Sending(v, i)
  BY <1>0, <1>k, <1>1, <1>2, <1>3, <1>4 DEF IInv, TypeOK, Goto, Sending, Send
<1>7. \A v \in Workers : ~Sending(v, k)'
  BY <1>0, <1>k, <1>1, <1>2, <1>6
<1>8. fate[k] = "claimed" /\ fate'[k] \in {"mailed", "lost"}
  BY <1>0, <1>k, <1>1, <1>2, <1>4, <1>5, <1>7, Fate DEF FateIs
<1>9. \A i \in Keys \ {k} : ~Sending(w, i)
  BY <1>k DEF Sending
<1>10. \A i \in Keys \ {k} : fate'[i] = fate[i]
  BY <1>4, <1>5, <1>6, <1>9, Fate DEF FateIs
<1>11. QED
  BY <1>0, <1>k, <1>1, <1>8, <1>10, Moves

\* The end of a call, after its row had been found, written or not.
LEMMA CallReturns ==
  ASSUME IInv, NEW w \in Workers, sender' = [sender EXCEPT ![w] = Idle],
         UNCHANGED <<configured, mails>>,
         \A i \in Keys : log'[i] = "none" <=> log[i] = "none"
  PROVE  [Once!Next]_fate
<1>1. \A i \in Keys : ~Sending(w, i)'
  BY DEF IInv, TypeOK, Sending, Idle
<1>2. \A v \in Workers \ {w} : sender'[v] = sender[v]
  BY DEF IInv, TypeOK
<1>3. QED
  BY <1>1, <1>2, GivesUp

LEMMA NextFate ==
  ASSUME IInv, [Next]_vars
  PROVE  [Once!Next]_fate
<1>1. CASE \E k \in Keys : Enqueue(k) \/ Forget(k) \/ Stall(k)
  <2>1. UNCHANGED <<configured, log, mails, sender>>
    BY <1>1 DEF Enqueue, Forget, Stall
  <2>2. \A i \in Keys, v \in Workers : Sending(v, i)' <=> Sending(v, i)
    BY <2>1 DEF Sending
  <2>3. \A i \in Keys : fate'[i] = fate[i]
    BY <2>1, <2>2, Fate DEF FateIs
  <2>4. QED
    BY <2>3, Fate
<1>2. ASSUME NEW w \in Workers, NEW k \in Keys, Take(w, k) \/ Direct(w, k)
      PROVE  [Once!Next]_fate
  <2>1. /\ UNCHANGED <<configured, log, mails>>
        /\ sender' = [sender EXCEPT ![w] = [step |-> "lookup", key |-> k]]
    BY <1>2 DEF Take, Direct
  <2>2. /\ \A i \in Keys : ~Sending(w, i)'
        /\ \A v \in Workers \ {w} : sender'[v] = sender[v]
    BY <2>1 DEF IInv, TypeOK, Sending
  <2>3. QED
    BY <2>1, <2>2, GivesUp
<1>3. ASSUME NEW w \in Workers, Lookup(w)
      PROVE  [Once!Next]_fate
  <2>1. UNCHANGED <<configured, log, mails>> /\ sender[w] \in Send
    BY <1>3, BusyWorker DEF IInv, Lookup, At
  <2>2. CASE sender' = [sender EXCEPT ![w] = Idle]
    BY <2>1, <2>2, CallReturns
  <2>3. CASE Goto(w, "create")
    <3>1. /\ \A i \in Keys : ~Sending(w, i)'
          /\ \A v \in Workers \ {w} : sender'[v] = sender[v]
      BY <2>1, <2>3, CallGoesOn DEF IInv, Sending
    <3>2. QED
      BY <2>1, <3>1, GivesUp
  <2>4. QED
    BY <1>3, <2>2, <2>3 DEF Lookup, Complete
<1>4. ASSUME NEW w \in Workers, CreateLog(w)
      PROVE  [Once!Next]_fate
  <2>1. CASE log[sender[w].key] = "none"
    BY <1>4, <2>1, CreateLogClaims
  <2>2. CASE log[sender[w].key] # "none"
    <3>1. UNCHANGED <<configured, log, mails>> /\ sender' = [sender EXCEPT ![w] = Idle]
      BY <1>4, <2>2 DEF CreateLog, Complete
    <3>2. QED
      BY <3>1, CallReturns
  <2>3. QED
    BY <2>1, <2>2
<1>5. ASSUME NEW w \in Workers, MarkSent(w) \/ MarkFailed(w)
      PROVE  [Once!Next]_fate
  <2>1. sender[w] \in Send /\ sender[w].key \in Keys /\ Claims(w, sender[w].key)
    BY <1>5, BusyWorker DEF IInv, MarkSent, MarkFailed, At, Send, Claims
  <2>2. \A i \in Keys : log'[i] = "none" <=> log[i] = "none"
    <3>1. log[sender[w].key] = "queued"
      BY <2>1 DEF IInv, OneClaim
    <3>2. QED
      BY <1>5, <2>1, <3>1 DEF IInv, TypeOK, MarkSent, MarkFailed
  <2>3. UNCHANGED <<configured, mails>> /\ sender' = [sender EXCEPT ![w] = Idle]
    BY <1>5 DEF MarkSent, MarkFailed, Complete, Throw
  <2>4. QED
    BY <2>2, <2>3, CallReturns
<1>6. ASSUME NEW w \in Workers, DatabaseError(w) \/ Crash(w)
      PROVE  [Once!Next]_fate
  <2>1. UNCHANGED <<configured, log, mails>>
    BY <1>6 DEF DatabaseError, Crash
  <2>2. CASE sender' = [sender EXCEPT ![w] = Idle]
    BY <2>1, <2>2, CallReturns
  <2>3. CASE At(w, "markSent") /\ configured /\ Goto(w, "markFailed")
    <3>1. sender[w] \in Send
      BY <2>3, BusyWorker DEF IInv, At
    <3>2. /\ \A i \in Keys : ~Sending(w, i)'
          /\ \A v \in Workers \ {w} : sender'[v] = sender[v]
      BY <2>3, <3>1, CallGoesOn DEF IInv, Sending
    <3>3. QED
      BY <2>1, <3>2, GivesUp
  <2>4. QED
    BY <1>6, <2>2, <2>3 DEF DatabaseError, Crash, Throw
<1>7. CASE UNCHANGED vars
  <2>1. \A i \in Keys, v \in Workers : Sending(v, i)' <=> Sending(v, i)
    BY <1>7 DEF vars, Sending
  <2>2. \A i \in Keys : fate'[i] = fate[i]
    BY <1>7, <2>1, Fate DEF vars, FateIs
  <2>3. QED
    BY <2>2, Fate
<1>8. QED
  BY <1>1, <1>2, <1>3, <1>4, <1>5, <1>6, <1>7, DeliverSettles DEF Next, Run

\* Retried, stalled, enqueued again or raced by direct calls, a key sees one
\* attempt: the pipeline implements EmailOnce (the dedupe key of send).
THEOREM OneAttemptThm == Spec => OneAttempt
<1>1. Init => Once!Init
  <2> SUFFICES ASSUME Init PROVE Once!Init
    OBVIOUS
  <2>1. \A k \in Keys : fate[k] = "open"
    BY Fate DEF Init, FateIs
  <2>2. QED
    BY <2>1, Fate DEF Once!Init
<1>2. IInv /\ [Next]_vars => [Once!Next]_fate
  BY NextFate
<1>3. QED
  BY <1>1, <1>2, Invariance, PTL DEF Spec, OneAttempt, Once!Spec
=============================================================================
