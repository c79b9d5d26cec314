---------------------------- MODULE Verification ----------------------------
(***************************************************************************)
(* The verification requests of one user.  The user asks, staff approve or *)
(* reject; each reads the state it decides on before it writes.            *)
(* Source: verifications.service.ts, otp.resolver.ts, users.service.ts.    *)
(*                                                                         *)
(* One unit of time is a day; the clock stands still during a call.        *)
(***************************************************************************)
EXTENDS Naturals, FiniteSets

CONSTANTS
  Calls,        \* how many calls run at once at most
  MaxRequests,  \* bound on the requests of the user
  WAIT,         \* days between a rejection and the next request
  MaxTime       \* bound on the clock

CaseAssumption == IsFiniteSet(Calls) /\ {MaxRequests, WAIT, MaxTime} \subseteq Nat

VARIABLES
  today,
  verified,  \* users.verified
  requests,  \* verification_requests, oldest first
  calls,
  verdicts   \* history: how often the user was told about each request

vars == <<today, verified, requests, calls, verdicts>>

-----------------------------------------------------------------------------
Ids == 1..MaxRequests
Idle == [step |-> "idle"]
Verdict == {"approved", "rejected"}

TypeOK ==
  /\ today \in 0..MaxTime
  /\ verified \in BOOLEAN
  /\ \E n \in 0..MaxRequests : requests \in
       [1..n -> [status : {"pending", "deleted"} \cup Verdict, on : 0..MaxTime]]
  /\ calls \in [Calls -> {Idle} \cup [step : {"lookup", "create"}]
                  \cup [step : {"decide", "notify"}, id : Ids, verdict : Verdict]]
  /\ verdicts \in [Ids -> Nat]

Init ==
  /\ today = 0
  /\ verified = FALSE
 
  /\ requests = <<>>
  /\ calls = [c \in Calls |-> Idle]
  /\ verdicts = [i \in Ids |-> 0]

Kept == {i \in DOMAIN requests : requests[i].status # "deleted"}
IsNewest(i) == i \in Kept /\ \A j \in Kept : j <= i
Pending == {i \in Kept : requests[i].status = "pending"}
CallsAt(step) == {c \in Calls : calls[c].step = step}
End(c) == calls' = [calls EXCEPT ![c] = Idle]

-----------------------------------------------------------------------------
(***************************************************************************)
(* requestVerification: the user row, the newest request, the insert.      *)
(* Whether the profile is complete is open; if not, the call ends here.    *)
(***************************************************************************)
ReadUser(c) ==
  /\ calls[c] = Idle
  /\ ~verified
  /\ calls' = [calls EXCEPT ![c] = [step |-> "lookup"]]
  /\ UNCHANGED <<today, verified, requests, verdicts>>

\* Mutant: only a rejected request is looked at.
Refused_PendingPasses(i) ==
  requests[i].status = "rejected" /\ today < requests[i].on + WAIT

Refused(i) ==
  \/ requests[i].status = "pending"
  \/ requests[i].status = "rejected" /\ today < requests[i].on + WAIT

Lookup(c) ==
  /\ calls[c].step = "lookup"
  /\ IF \E i \in Kept : IsNewest(i) /\ Refused(i)
     THEN End(c)
     ELSE calls' = [calls EXCEPT ![c].step = "create"]
  /\ UNCHANGED <<today, verified, requests, verdicts>>

Create(c) ==
  LET n == Cardinality(DOMAIN requests) + 1
  IN  /\ calls[c].step = "create"
      /\ n \in Ids
      /\ requests' = [i \in 1..n |->
           IF i < n THEN requests[i] ELSE [status |-> "pending", on |-> 0]]
      /\ End(c)
      /\ UNCHANGED <<today, verified, verdicts>>

(***************************************************************************)
(* approve and reject: find the request, decide it in one write (approve:  *)
(* one transaction with the badge), notify the user and emit the e-mail.   *)
(***************************************************************************)
Review(c) ==
  \E i \in Pending, v \in Verdict :
    /\ calls[c] = Idle
    /\ calls' = [calls EXCEPT ![c] = [step |-> "decide", id |-> i, verdict |-> v]]
    /\ UNCHANGED <<today, verified, requests, verdicts>>

\* Mutant: the badge is given before the request is found to be gone.
Decide_BadgeFirst(c) ==
  LET i == calls[c].id
      v == calls[c].verdict
  IN  /\ calls[c].step = "decide"
      /\ verified' = (verified \/ v = "approved")
      /\ IF i \in Kept
         THEN /\ requests' = [requests EXCEPT ![i] = [status |-> v, on |-> IF v = "rejected" THEN today ELSE 0]]
              /\ calls' = [calls EXCEPT ![c].step = "notify"]
         ELSE End(c) /\ UNCHANGED requests
      /\ UNCHANGED <<today, verdicts>>

\* A request deleted meanwhile: the write finds no row, and the transaction
\* takes the badge back with it.
Decide(c) ==
  LET i == calls[c].id
      v == calls[c].verdict
  IN  /\ calls[c].step = "decide"
      /\ IF i \in Kept
         THEN /\ requests' = [requests EXCEPT ![i] = [status |-> v, on |-> IF v = "rejected" THEN today ELSE 0]]
              /\ verified' = (verified \/ v = "approved")
              /\ calls' = [calls EXCEPT ![c].step = "notify"]
         ELSE End(c) /\ UNCHANGED <<requests, verified>>
      /\ UNCHANGED <<today, verdicts>>

Notify(c) ==
  /\ calls[c].step = "notify"
  /\ verdicts' = [verdicts EXCEPT ![calls[c].id] = @ + 1]
  /\ End(c)
  /\ UNCHANGED <<today, verified, requests>>

Fail(c) ==
  /\ calls[c] # Idle
  /\ End(c)
  /\ UNCHANGED <<today, verified, requests, verdicts>>

\* Staff delete requests for good, whatever their status.
DeleteMany(S) ==
  /\ requests' = [i \in DOMAIN requests |->
       IF i \in S THEN [status |-> "deleted", on |-> 0] ELSE requests[i]]
  /\ UNCHANGED <<today, verified, calls, verdicts>>

\* A new phone number (verifyPhoneOtp) costs the badge.
ChangePhone ==
  /\ verified' = FALSE
  /\ UNCHANGED <<today, requests, calls, verdicts>>

Tick ==
  /\ \A c \in Calls : calls[c] = Idle
  /\ today < MaxTime
  /\ today' = today + 1
  /\ UNCHANGED <<verified, requests, calls, verdicts>>

Next ==
  \/ \E c \in Calls : \/ ReadUser(c) \/ Lookup(c) \/ Create(c)
                      \/ Review(c) \/ Decide(c) \/ Notify(c) \/ Fail(c)
  \/ \E i \in Kept : DeleteMany({i})
  \/ ChangePhone \/ Tick

Spec == Init /\ [][Next]_vars

-----------------------------------------------------------------------------
\* Only the newest request is looked at, so one that is pending under an
\* answered one does not keep the user from asking again.  Still, the user
\* cannot make the queue grow alone: each decision or deletion opens room for
\* one request, or one from each call in flight (requestVerification).
QueueGrowsByDecisions ==
  Cardinality(Pending) + Cardinality(CallsAt("create"))
    <= Cardinality(Calls) * (1 + Cardinality(DOMAIN requests \ Pending))

\* "Esta solicitud ya fue procesada": the user hears about a request once, or
\* once from each of the reviewers who had it open before one of them decided.
VerdictsBounded ==
  \A i \in DOMAIN requests :
    LET open == {c \in CallsAt("decide") \cup CallsAt("notify") : calls[c].id = i}
    IN  verdicts[i] > 0 => verdicts[i] + Cardinality(open) <= Cardinality(Calls)

\* The badge comes with a decided request: only a reviewer who finds the
\* request still there gives it (approve against deleteMany).
BadgeStep ==
  verified' /\ ~verified => \E i \in Kept : requests'[i].status = "approved"

=============================================================================
