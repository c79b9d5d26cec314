------------------------------- MODULE SignIn -------------------------------
(***************************************************************************)
(* One person's account and sessions: sign-in with Google or a PIN, token  *)
(* refresh, bans, removal, and the "last seen" mark every request leaves.  *)
(* googleLogin() looks up and writes in separate calls; several sign-ins   *)
(* run at once.  Source: auth.service.ts, jwt.strategy.ts, users.service.ts*)
(* (create, suspendUser, unsuspendUser, remove), roles.service.ts.         *)
(*                                                                         *)
(* The person keeps one Google identity and one e-mail address, which are  *)
(* unique in users.  One unit of time is an hour or more: calls take       *)
(* milliseconds, so the clock stands still while one is running.           *)
(***************************************************************************)
EXTENDS Integers, FiniteSets

CONSTANTS
  Calls,       \* how many sign-ins run at once at most
  Procs,       \* server processes, each with its own lastSeenCache
  ACCESS, REFRESH,        \* how long the two tokens are valid
  LAST_SEEN_THROTTLE,     \* one write of last_seen_at per process and period
  MaxAccounts,            \* bound on the accounts ever created
  MaxTime                 \* bound on the clock

TokenAssumption ==
  /\ {ACCESS, REFRESH, LAST_SEEN_THROTTLE, MaxAccounts, MaxTime} \subseteq Nat
  /\ ACCESS <= REFRESH

VARIABLES
  now,
  account,   \* the users row of the person, or Nobody
  made,      \* accounts created so far; ids are never reused
  role,      \* whether the default role exists
  calls,
  tokens,    \* the tokens that have not expired
  cache,     \* lastSeenCache of each process, by account
  touches,   \* writes of last_seen_at on their way
  welcomes,  \* history: UserRegistered events of each account
  invited    \* history: the accounts an admin created

vars == <<now, account, made, role, calls, tokens, cache, touches, welcomes, invited>>

-----------------------------------------------------------------------------
Ids == 1..MaxAccounts
Never == -1
Nobody == [id |-> 0]
Idle == [step |-> "idle"]
Sessions == <<tokens, cache, touches>>
History == <<welcomes, invited>>

TypeOK ==
  /\ now \in 0..MaxTime
  /\ account \in {Nobody} \cup
       [id : Ids, google : BOOLEAN, pin : BOOLEAN, role : BOOLEAN, seen : Never..MaxTime,
        permission : {"GRANTED", "DENIED"}, bannedAt : Never..MaxTime]
  /\ made \in 0..MaxAccounts /\ account.id <= made
  /\ role \in BOOLEAN
  /\ calls \in [Calls -> {Idle} \cup [step : {"byEmail", "role", "create"}]
                           \cup [step : {"link"}, id : Ids]]
  /\ tokens \subseteq [id : Ids, until : 0..(MaxTime + REFRESH)]
  /\ cache \in [Procs -> [Ids -> Never..MaxTime]]
  /\ touches \subseteq [proc : Procs, id : Ids, at : 0..MaxTime]
  /\ welcomes \in [Ids -> Nat]
  /\ invited \subseteq Ids

Init ==
  /\ now = 0
  /\ account = Nobody
  /\ made = 0
  /\ role = FALSE
  /\ calls = [c \in Calls |-> Idle]
  /\ tokens = {}
  /\ cache = [p \in Procs |-> [i \in Ids |-> Never]]
  /\ touches = {}
  /\ welcomes = [i \in Ids |-> 0]
  /\ invited = {}

Known == account # Nobody
Granted == Known /\ account.permission = "GRANTED"
Go(c, step) == calls' = [calls EXCEPT ![c] = [step |-> step]]
End(c) == calls' = [calls EXCEPT ![c] = Idle]

\* generateTokens, for an account whose row was not DENIED.
Issue(id) == tokens' = tokens \cup {[id |-> id, until |-> now + ACCESS],
                                    [id |-> id, until |-> now + REFRESH]}
Answer(c, id) == End(c) /\ IF Granted THEN Issue(id) ELSE UNCHANGED tokens

NewAccount(id, byGoogle) ==
  [id |-> id, google |-> byGoogle, pin |-> ~byGoogle, role |-> TRUE, seen |-> Never,
   permission |-> "GRANTED", bannedAt |-> Never]

-----------------------------------------------------------------------------
(***************************************************************************)
(* googleLogin(), through validateOrCreateUser()                           *)
(***************************************************************************)
ByGoogleId(c) ==
  /\ calls[c] = Idle
  /\ IF Known /\ account.google THEN Answer(c, account.id)
     ELSE Go(c, "byEmail") /\ UNCHANGED tokens
  /\ UNCHANGED <<now, account, made, role, cache, touches, History>>

ByEmail(c) ==
  /\ calls[c].step = "byEmail"
  /\ IF Known THEN calls' = [calls EXCEPT ![c] = [step |-> "link", id |-> account.id]]
     ELSE Go(c, "role")
  /\ UNCHANGED <<now, account, made, role, Sessions, History>>

\* The row found by its address gets the Google identity; it may be gone.
Link(c) ==
  /\ calls[c].step = "link"
  /\ IF account.id = calls[c].id
     THEN account' = [account EXCEPT !.google = TRUE] /\ Answer(c, account.id)
     ELSE End(c) /\ UNCHANGED <<account, tokens>>
  /\ UNCHANGED <<now, made, role, cache, touches, History>>

EnsureRole(c) ==
  /\ calls[c].step = "role"
  /\ role' = TRUE
  /\ Go(c, "create")
  /\ UNCHANGED <<now, account, made, Sessions, History>>

\* Mutant: the row of a concurrent sign-in is taken as created.
Create_Upsert(c) ==
  LET id == IF Known THEN account.id ELSE made + 1
  IN  /\ calls[c].step = "create"
      /\ id \in Ids /\ role
      /\ made' = (IF Known THEN made ELSE id)
      /\ account' = (IF Known THEN account ELSE NewAccount(id, TRUE))
      /\ welcomes' = [welcomes EXCEPT ![id] = @ + 1]
      /\ Issue(id)
      /\ End(c)
      /\ UNCHANGED <<now, role, cache, touches, invited>>

\* Someone has signed up with the address meanwhile (unique key), the role is
\* gone (foreign key), or the row is stored and the welcome goes out, unless
\* the process dies first.
Create(c) ==
  /\ calls[c].step = "create"
  /\ IF Known \/ ~role
     THEN UNCHANGED <<account, made, tokens, welcomes>>
     ELSE LET id == made + 1
          IN  /\ id \in Ids
              /\ made' = id
              /\ account' = NewAccount(id, TRUE)
              /\ \/ welcomes' = [welcomes EXCEPT ![id] = @ + 1] /\ Issue(id)
                 \/ UNCHANGED <<welcomes, tokens>>
  /\ End(c)
  /\ UNCHANGED <<now, role, cache, touches, invited>>

Fail(c) ==
  /\ calls[c] # Idle
  /\ End(c)
  /\ UNCHANGED <<now, account, made, role, Sessions, History>>

-----------------------------------------------------------------------------
(***************************************************************************)
(* The other ways to a token                                               *)
(***************************************************************************)
AdminLogin ==
  /\ Granted /\ account.pin
  /\ Issue(account.id)
  /\ UNCHANGED <<now, account, made, role, calls, cache, touches, History>>

RefreshToken ==
  \E t \in tokens :
    /\ account.id = t.id
    /\ account.permission # "DENIED"
    /\ Issue(t.id)
    /\ UNCHANGED <<now, account, made, role, calls, cache, touches, History>>

-----------------------------------------------------------------------------
(***************************************************************************)
(* A request: the strategy looks the account up and touches last_seen_at,  *)
(* at most once in a while, without waiting for the write.                 *)
(***************************************************************************)
Validate(p) ==
  \E t \in tokens :
    LET last == cache[p][t.id]
    IN  /\ account.id = t.id
        /\ account.permission # "DENIED"
        /\ last = Never \/ now - last >= LAST_SEEN_THROTTLE
        /\ cache' = [cache EXCEPT ![p][t.id] = now]
        /\ touches' = touches \cup {[proc |-> p, id |-> t.id, at |-> now]}
        /\ UNCHANGED <<now, account, made, role, calls, tokens, History>>

TouchLands(w) ==
  /\ account.id = w.id
  /\ account' = [account EXCEPT !.seen = w.at]
  /\ touches' = touches \ {w}
  /\ UNCHANGED <<now, made, role, calls, tokens, cache, History>>

TouchFails(w) ==
  /\ touches' = touches \ {w}
  /\ cache' = [cache EXCEPT ![w.proc][w.id] = Never]
  /\ UNCHANGED <<now, account, made, role, calls, tokens, History>>

Restart(p) ==
  /\ cache' = [cache EXCEPT ![p] = [i \in Ids |-> Never]]
  /\ touches' = {w \in touches : w.proc # p}
  /\ UNCHANGED <<now, account, made, role, calls, tokens, History>>

-----------------------------------------------------------------------------
(***************************************************************************)
(* Administration                                                          *)
(***************************************************************************)
\* The default role is found or created in the same request.
AdminCreate ==
  /\ ~Known /\ made + 1 \in Ids
  /\ made' = made + 1
  /\ account' = NewAccount(made + 1, FALSE)
  /\ role' = TRUE
  /\ invited' = invited \cup {made + 1}
  /\ UNCHANGED <<now, calls, Sessions, welcomes>>

SuspendUser ==
  /\ Known
  /\ account' = [account EXCEPT !.permission = "DENIED",
                   !.bannedAt = IF Granted THEN now ELSE @]
  /\ UNCHANGED <<now, made, role, calls, Sessions, History>>

UnsuspendUser ==
  /\ Known
  /\ account' = [account EXCEPT !.permission = "GRANTED"]
  /\ UNCHANGED <<now, made, role, calls, Sessions, History>>

RemoveUser ==
  /\ Known
  /\ account' = Nobody
  /\ UNCHANGED <<now, made, role, calls, Sessions, History>>

\* Accounts that had the role keep none.
RemoveRole ==
  /\ role
  /\ role' = FALSE
  /\ account' = IF Known THEN [account EXCEPT !.role = FALSE] ELSE account
  /\ UNCHANGED <<now, made, calls, Sessions, History>>

Tick ==
  /\ \A c \in Calls : calls[c] = Idle
  /\ touches = {}
  /\ now < MaxTime
  /\ now' = now + 1
  /\ tokens' = {t \in tokens : now + 1 < t.until}
  /\ UNCHANGED <<account, made, role, calls, cache, touches, History>>

Next ==
  \/ \E c \in Calls :
       ByGoogleId(c) \/ ByEmail(c) \/ Link(c) \/ EnsureRole(c) \/ Create(c) \/ Fail(c)
  \/ AdminLogin \/ RefreshToken
  \/ \E p \in Procs : Validate(p) \/ Restart(p)
  \/ \E w \in touches : TouchLands(w) \/ TouchFails(w)
  \/ AdminCreate \/ SuspendUser \/ UnsuspendUser \/ RemoveUser \/ RemoveRole
  \/ Tick

Spec == Init /\ [][Next]_vars

-----------------------------------------------------------------------------
\* "fires only on genuine first-time creation": however many sign-ins of one
\* person run at once, an account is welcomed at most once, and never when an
\* admin created it (validateOrCreateUser).
WelcomedOnce ==
  \A i \in Ids : welcomes[i] <= IF i \in invited THEN 0 ELSE 1

\* No way to a token works for a banned account, so that what it holds runs
\* out one refresh period after the ban (refreshToken, googleLogin, adminLogin).
BannedSessionsRunOut ==
  Known /\ ~Granted =>
    \A t \in tokens : t.id = account.id => t.until <= account.bannedAt + REFRESH

\* A process that skips the write of last_seen_at has one behind it that
\* arrived, or is on its way: a failed one is forgotten (touchLastSeen).
TouchNotForgotten ==
  \A p \in Procs :
    Known =>
      LET at == cache[p][account.id]
      IN  \/ account.seen >= at
          \/ [proc |-> p, id |-> account.id, at |-> at] \in touches

=============================================================================
