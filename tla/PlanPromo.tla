------------------------------ MODULE PlanPromo ------------------------------
(***************************************************************************)
(* The platform-wide promo: one database row, changed by admins, and one   *)
(* in-memory cache of it per API process.  A lookup that misses the cache  *)
(* awaits the database; writes, other lookups and the clock go on in the   *)
(* meantime.  Source: plan-promo.service.ts.                               *)
(*                                                                         *)
(* Of the row only the switch and the window matter here; what the promo   *)
(* grants is PlanLimits' business.  A clock tick is a fraction of the TTL. *)
(***************************************************************************)
EXTENDS Integers

CONSTANTS
  Processes,
  TTL,       \* CACHE_TTL_MS
  Latency,   \* how long a lookup or an update awaits the database at most
  Horizon,   \* bound on the clock
  Versions,  \* bound on the writes
  Inputs,    \* what an admin may send: any of the row's fields
  NoDate

Dates == 0..Horizon
Row == [enabled : BOOLEAN, startsAt : Dates \cup {NoDate},
        endsAt : Dates \cup {NoDate}]
NotCached == [row |-> NoDate]
Idle == [step |-> "idle"]

\* DISABLED_ROW, and the row the first upsert creates.
Off == [enabled |-> FALSE, startsAt |-> NoDate, endsAt |-> NoDate]

\* The row r after an update: undefined fields of the input are left alone.
Changed(r, input) ==
  [f \in DOMAIN r |-> IF f \in DOMAIN input THEN input[f] ELSE r[f]]

PromoAssumption ==
  /\ TTL \in Nat /\ Latency \in Nat /\ Horizon \in Nat /\ Versions \in Nat
  /\ NoDate \notin Int
  /\ \A i \in Inputs : DOMAIN i \subseteq DOMAIN Off /\ Changed(Off, i) \in Row

VARIABLES
  now,
  row,     \* the plan_promo row
  writes,  \* writes so far
  past,    \* history: the rows that were overwritten, and when
  cache,   \* of each process: the row, when it was stored, and whether it was read at all
  lookup,  \* of each process: a row() call that awaits the database (failed: ok is FALSE)
  update   \* of each process: an admin's update() call

vars == <<now, row, writes, past, cache, lookup, update>>

Init ==
  /\ now = 0 /\ row = Off /\ writes = 0 /\ past = {}
  /\ cache = [p \in Processes |-> NotCached]
  /\ lookup = [p \in Processes |-> Idle]
  /\ update = [p \in Processes |-> Idle]

-----------------------------------------------------------------------------
\* Mutant: the age of the cached row is not looked at.
Fresh_Forever(p) == cache[p] # NotCached

Fresh(p) == cache[p] # NotCached /\ now - cache[p].at < TTL

\* isWithinWindow, at the instant the row is used.
Covers(r, t) ==
  /\ r.enabled
  /\ r.startsAt # NoDate => r.startsAt <= t
  /\ r.endsAt # NoDate => r.endsAt > t

\* row(): the query reaches the database and sees the row as it is then, or
\* fails, which counts as "no promo" ...
Query(p) ==
  /\ ~Fresh(p) /\ lookup[p] = Idle
  /\ \E ok \in BOOLEAN :
       lookup' = [lookup EXCEPT ![p] =
         [step |-> "answer", ok |-> ok, row |-> IF ok THEN row ELSE Off, at |-> now]]
  /\ UNCHANGED <<now, row, writes, past, cache, update>>

\* Mutant: the entry holds the instant it expires at instead of the one it was stored at.
Store_DatedAhead(p) ==
  /\ lookup[p].step = "answer"
  /\ cache' = [cache EXCEPT ![p] =
                [ok |-> lookup[p].ok, row |-> lookup[p].row, at |-> now + TTL]]
  /\ lookup' = [lookup EXCEPT ![p] = Idle]
  /\ UNCHANGED <<now, row, writes, past, update>>

\* ... and its answer is cached as of the time it arrives.
Store(p) ==
  /\ lookup[p].step = "answer"
  /\ cache' = [cache EXCEPT ![p] =
                [ok |-> lookup[p].ok, row |-> lookup[p].row, at |-> now]]
  /\ lookup' = [lookup EXCEPT ![p] = Idle]
  /\ UNCHANGED <<now, row, writes, past, update>>

\* update() looks the row up like everybody else (from a fresh cache; a miss
\* is a Query and a Store before), validates the resulting window, and writes
\* only the fields the admin sent.
Validate(p) ==
  /\ Fresh(p) /\ update[p] = Idle /\ writes < Versions
  /\ \E input \in Inputs :
       LET after == Changed(cache[p].row, input)
       IN  /\ ~ /\ after.startsAt # NoDate /\ after.endsAt # NoDate
                /\ after.endsAt <= after.startsAt
           /\ update' = [update EXCEPT ![p] =
                [step |-> "write", input |-> input, at |-> now]]
  /\ UNCHANGED <<now, row, writes, past, cache, lookup>>

\* The upsert, then invalidate(): this process drops its cache.
Write(p) ==
  LET new == Changed(row, update[p].input)
  IN  /\ update[p].step = "write" /\ writes < Versions
      /\ row' = new
      /\ past' = IF new = row THEN past ELSE past \cup {[row |-> row, until |-> now]}
      /\ writes' = writes + 1
      /\ cache' = [cache EXCEPT ![p] = NotCached]
      /\ update' = [update EXCEPT ![p] = Idle]
      /\ UNCHANGED <<now, lookup>>

\* A process restarts: its memory is gone, what it had in flight too.
Restart(p) ==
  /\ cache' = [cache EXCEPT ![p] = NotCached]
  /\ lookup' = [lookup EXCEPT ![p] = Idle]
  /\ update' = [update EXCEPT ![p] = Idle]
  /\ <<cache, lookup, update>>' # <<cache, lookup, update>>
  /\ UNCHANGED <<now, row, writes, past>>

\* Time passes; no call awaits the database for longer than Latency.
Tick ==
  /\ now < Horizon
  /\ \A p \in Processes :
       /\ lookup[p] # Idle => now - lookup[p].at < Latency
       /\ update[p] # Idle => now - update[p].at < Latency
  /\ now' = now + 1
  /\ UNCHANGED <<row, writes, past, cache, lookup, update>>

Next ==
  \/ \E p \in Processes :
       Query(p) \/ Store(p) \/ Validate(p) \/ Write(p) \/ Restart(p)
  \/ Tick

Spec == Init /\ [][Next]_vars

-----------------------------------------------------------------------------
\* The rows that were current less than n ticks ago.
CurrentWithin(n) == {row} \cup {w.row : w \in {v \in past : v.until + n > now}}

\* What state() answers from the cache.
Active(p) == Fresh(p) /\ Covers(cache[p].row, now)

Stored == [ok : BOOLEAN, row : Row, at : Dates]

TypeOK ==
  /\ now \in Dates /\ row \in Row /\ writes \in 0..Versions
  /\ past \subseteq [row : Row, until : Dates]
  /\ cache \in [Processes -> {NotCached} \cup Stored]
  /\ lookup \in [Processes ->
       {Idle} \cup [step : {"answer"}, ok : BOOLEAN, row : Row, at : Dates]]
  /\ update \in [Processes ->
       {Idle} \cup [step : {"write"}, input : Inputs, at : Dates]]

\* What a process answers from its cache (promo or no promo, decided for this
\* very instant) is what a row says that was in the database less than a TTL
\* and a query ago, or "no promo" because the query failed.  So neither
\* another process's write nor the start or the end of the window is missed
\* for longer, whichever lookup an invalidation races with (row, state).
AnswerWasTrueLately ==
  \A p \in Processes : Fresh(p) =>
    \E r \in IF cache[p].ok THEN CurrentWithin(TTL + Latency) ELSE {Off} :
      Active(p) <=> Covers(r, now)

=============================================================================
