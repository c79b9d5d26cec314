-------------------------------- MODULE Otp --------------------------------
(***************************************************************************)
(* One-time codes of one user and purpose.  generate() and verify() make   *)
(* every database call on its own, without a transaction; several calls    *)
(* run at once, and each can fail anywhere.  Source: otp.service.ts,       *)
(* otp.resolver.ts.                                                        *)
(*                                                                         *)
(* One unit of time is a minute.  Calls take milliseconds, so the clock    *)
(* stands still while one is running.                                      *)
(***************************************************************************)
EXTENDS Naturals, FiniteSets

CONSTANTS
  Calls,     \* how many calls run at once at most
  MaxCodes,  \* codes ever drawn: rows are numbered in order of creation
  COOLDOWN, WINDOW, MAX_CODES_PER_15MIN, OTP_EXPIRY, MAX_ATTEMPTS,
  PRUNE,     \* how long an expired row is kept
  TokenLife, \* validity of the token that lets an admin change the PIN
  MaxTime    \* bound on the clock

\* Rows are kept for longer than the windows they are counted in.
OtpAssumption ==
  /\ IsFiniteSet(Calls)
  /\ {COOLDOWN, WINDOW, OTP_EXPIRY, PRUNE, MaxCodes, MaxTime} \subseteq Nat
  /\ {MAX_CODES_PER_15MIN, MAX_ATTEMPTS, TokenLife} \subseteq Nat \ {0}
  /\ COOLDOWN <= WINDOW /\ WINDOW <= OTP_EXPIRY + PRUNE

VARIABLES
  now,
  purpose,  \* phone_verify or pin_change
  codes,    \* otp_codes
  calls,
  tokens,   \* the PIN-change tokens that have not expired
  stored,   \* the code that users.phone, or users.pin, rests on (0: none)
  guesses,  \* history: how often a code was compared with a guess
  wins      \* history: how often a code was redeemed

vars == <<now, purpose, codes, calls, tokens, stored, guesses, wins>>

-----------------------------------------------------------------------------
Ids == 1..MaxCodes
Idle == [step |-> "idle"]
Row == [at : 0..MaxTime, attempts : Nat, used : BOOLEAN, kept : BOOLEAN]

TypeOK ==
  /\ now \in 0..MaxTime
  /\ purpose \in {"phone_verify", "pin_change"}
  /\ \E n \in 0..MaxCodes : codes \in [1..n -> Row]
  /\ calls \in [Calls ->
       {Idle} \cup [step : {"window", "invalidate", "create", "prune"}]
              \cup [step : {"attempt", "redeem", "effect"},
                    code : Ids]]
  /\ tokens \subseteq [code : Ids, at : 0..MaxTime]
  /\ stored \in 0..MaxCodes
  /\ guesses \in [Ids -> Nat] /\ wins \in [Ids -> Nat]

Init ==
  /\ now = 0
  /\ purpose \in {"phone_verify", "pin_change"}
  /\ codes = <<>>
  /\ calls = [c \in Calls |-> Idle]
  /\ tokens = {}
  /\ stored = 0
  /\ guesses = [i \in Ids |-> 0]
  /\ wins = [i \in Ids |-> 0]

-----------------------------------------------------------------------------
Rows == {i \in DOMAIN codes : codes[i].kept}
Unused == {i \in Rows : ~codes[i].used}
Since(minutes) == {i \in Rows : codes[i].at + minutes >= now}
At(step) == {c \in Calls : calls[c].step = step}

Go(c, step) == calls' = [calls EXCEPT ![c].step = step]
End(c) == calls' = [calls EXCEPT ![c] = Idle]
effects == <<tokens, stored>>
history == <<guesses, wins>>

(***************************************************************************)
(* generate(): no code in the last minute, few in the last quarter of an   *)
(* hour; then older codes are spent, the new one stored, dead rows pruned. *)
(***************************************************************************)
Request(c) ==
  /\ calls[c] = Idle
  /\ Since(COOLDOWN) = {}
  /\ calls' = [calls EXCEPT ![c] = [step |-> "window"]]
  /\ UNCHANGED <<now, purpose, codes, effects, history>>

CountWindow(c) ==
  /\ calls[c].step = "window"
  /\ IF Cardinality(Since(WINDOW)) >= MAX_CODES_PER_15MIN
     THEN End(c) ELSE Go(c, "invalidate")
  /\ UNCHANGED <<now, purpose, codes, effects, history>>

Invalidate(c) ==
  /\ calls[c].step = "invalidate"
  /\ codes' = [i \in DOMAIN codes |-> [codes[i] EXCEPT !.used = TRUE]]
  /\ Go(c, "create")
  /\ UNCHANGED <<now, purpose, effects, history>>

Create(c) ==
  LET i == Cardinality(DOMAIN codes) + 1
  IN  /\ calls[c].step = "create"
      /\ i \in Ids
      /\ codes' = [k \in 1..i |->
           IF k < i THEN codes[k]
           ELSE [at |-> now, attempts |-> 0, used |-> FALSE, kept |-> TRUE]]
      /\ Go(c, "prune")
      /\ UNCHANGED <<now, purpose, effects, history>>

Prune(c) ==
  /\ calls[c].step = "prune"
  /\ codes' = [i \in DOMAIN codes |->
       [codes[i] EXCEPT !.kept = @ /\ codes[i].at + OTP_EXPIRY + PRUNE >= now]]
  /\ End(c)
  /\ UNCHANGED <<now, purpose, effects, history>>

(***************************************************************************)
(* verify(): the newest unused code, which must be live and not exhausted; *)
(* the attempt is counted before the comparison, whose outcome is open.    *)
(***************************************************************************)
Find(c) ==
  \E i \in Unused :
    /\ calls[c] = Idle
    /\ \A j \in Unused : j <= i
    /\ codes[i].at + OTP_EXPIRY >= now
    /\ codes[i].attempts < MAX_ATTEMPTS
    /\ calls' = [calls EXCEPT ![c] = [step |-> "attempt", code |-> i]]
    /\ UNCHANGED <<now, purpose, codes, effects, history>>

\* Mutant: the new count is computed from the row that was found, so two
\* guesses at once count as one.
Attempt_LostUpdate(c) ==
  LET i == calls[c].code
      others == {d \in Calls \ {c} : calls[d].step = "attempt" /\ calls[d].code = i}
  IN  /\ calls[c].step = "attempt"
      /\ codes' = [codes EXCEPT ![i].attempts = IF others = {} THEN @ + 1 ELSE @]
      /\ guesses' = [guesses EXCEPT ![i] = @ + 1]
      /\ Go(c, "redeem") \/ End(c)
      /\ UNCHANGED <<now, purpose, effects, wins>>

Attempt(c) ==
  LET i == calls[c].code
  IN  /\ calls[c].step = "attempt"
      /\ codes' = [codes EXCEPT ![i].attempts = @ + 1]
      /\ guesses' = [guesses EXCEPT ![i] = @ + 1]
      /\ Go(c, "redeem") \/ End(c)
      /\ UNCHANGED <<now, purpose, effects, wins>>

Redeem(c) ==
  LET i == calls[c].code
  IN  /\ calls[c].step = "redeem"
      /\ codes' = [codes EXCEPT ![i].used = TRUE]
      /\ wins' = [wins EXCEPT ![i] = @ + 1]
      /\ Go(c, "effect")
      /\ UNCHANGED <<now, purpose, effects, guesses>>

\* verifyPhoneOtp stores the target of the code, verifyPinChangeOtp signs a
\* token.
Effect(c) ==
  LET i == calls[c].code
  IN  /\ calls[c].step = "effect"
      /\ \/ /\ purpose = "phone_verify"
            /\ stored' = i
            /\ UNCHANGED tokens
         \/ /\ purpose = "pin_change"
            /\ tokens' = tokens \cup {[code |-> i, at |-> now]}
            /\ UNCHANGED stored
      /\ End(c)
      /\ UNCHANGED <<now, purpose, codes, history>>

\* changePinWithOtp: a token opens until it expires, as often as it is used.
ChangePin ==
  /\ \E t \in tokens : stored' = t.code
  /\ UNCHANGED <<now, purpose, codes, calls, tokens, history>>

Fail(c) ==
  /\ calls[c] # Idle
  /\ End(c)
  /\ UNCHANGED <<now, purpose, codes, effects, history>>

Tick ==
  /\ \A c \in Calls : calls[c] = Idle
  /\ now < MaxTime
  /\ now' = now + 1
  /\ tokens' = {t \in tokens : now + 1 < t.at + TokenLife}
  /\ UNCHANGED <<purpose, codes, calls, stored, history>>

Next ==
  \/ \E c \in Calls :
       \/ Request(c) \/ CountWindow(c) \/ Invalidate(c) \/ Create(c) \/ Prune(c)
       \/ Find(c) \/ Attempt(c) \/ Redeem(c) \/ Effect(c) \/ Fail(c)
  \/ ChangePin
  \/ Tick

Spec == Init /\ [][Next]_vars

-----------------------------------------------------------------------------
Drawn(minutes) == {i \in DOMAIN codes : codes[i].at + minutes >= now}

\* The cooldown and the quarter-hour limit are checked before the code is
\* stored: concurrent requests overshoot both, by less than the calls that
\* run at once, as long as rows outlive the windows they are counted in.
IssueRateBounded ==
  LET coming == Cardinality(At("create") \cup At("invalidate"))
  IN  /\ Cardinality(Drawn(COOLDOWN)) + coming <= Cardinality(Calls)
      /\ Cardinality(Drawn(WINDOW)) + coming
           <= MAX_CODES_PER_15MIN - 1 + Cardinality(Calls)

\* A new code spends the older ones, except those of concurrent requests:
\* there are never more codes to guess from than calls that run at once.
LiveCodesBounded ==
  Cardinality(Unused) + Cardinality(At("create")) <= Cardinality(Calls)

\* The attempts of a code are checked before they are counted: concurrent
\* guesses get more comparisons than allowed, by less than the calls in flight.
GuessesBounded ==
  \A i \in DOMAIN codes :
    guesses[i] + Cardinality({c \in At("attempt") : calls[c].code = i})
      <= MAX_ATTEMPTS - 1 + Cardinality(Calls)

\* A code is redeemed once, or once by each call that had found it before
\* the first of them marked it (verify).
RedeemedOncePerCall ==
  \A i \in DOMAIN codes :
    wins[i] > 0 =>
      wins[i] + Cardinality({c \in At("attempt") \cup At("redeem") : calls[c].code = i})
        <= Cardinality(Calls)

\* A phone or a PIN changes on the strength of a code requested not longer
\* ago than a code and a token live, however often the token is used.
BackedStep ==
  stored' # stored => now < codes[stored'].at + OTP_EXPIRY + TokenLife

=============================================================================
