------------------------------- MODULE Visits -------------------------------
(***************************************************************************)
(* Visits counted once per visitor and window: views of a listing          *)
(* (registerView) and scans of a seller's code (track).  Both look for a   *)
(* recent row and then insert one; nothing in the schema forbids a second. *)
(* Source: products.service.ts, seller-qr-scans.service.ts.                *)
(*                                                                         *)
(* One visitor: visitors share no rows.  The clock stands still in a call. *)
(***************************************************************************)
EXTENDS Naturals, FiniteSets

CONSTANTS
  Calls,    \* how many calls run at once at most
  WINDOW,   \* how long a visitor is not counted again
  DAY,      \* units of time in a day
  Days,     \* days in the chart
  MaxTime, MaxVisits  \* bounds

VisitAssumption ==
  /\ IsFiniteSet(Calls)
  /\ {WINDOW, MaxTime, MaxVisits} \subseteq Nat
  /\ {DAY, Days} \subseteq Nat \ {0}

VARIABLES
  now,
  kind,     \* "view" or "scan": the tables are independent
  access,   \* the seller's plan, or the promo, gives statistics
  visits,   \* createdAt of the rows, oldest first
  counter,  \* products.views
  calls,
  unkeyed,  \* history: views without a visitor key, counted without a row
  died      \* history: a call died between row and counter

vars == <<now, kind, access, visits, counter, calls, unkeyed, died>>

-----------------------------------------------------------------------------
Times == 0..MaxTime
Steps == {"idle", "insert", "count"}

TypeOK ==
  /\ now \in Times
  /\ kind \in {"view", "scan"}
  /\ access \in BOOLEAN
  /\ \E n \in 0..MaxVisits : visits \in [1..n -> Times]
  /\ counter \in Nat
  /\ calls \in [Calls -> Steps]
  /\ unkeyed \in Nat
  /\ died \in BOOLEAN

Init ==
  /\ now = 0
  /\ kind \in {"view", "scan"}
  /\ access = FALSE
  /\ visits = <<>>
  /\ counter = 0
  /\ calls = [c \in Calls |-> "idle"]
  /\ unkeyed = 0
  /\ died = FALSE

Rows == DOMAIN visits
CallsAt(step) == {c \in Calls : calls[c] = step}

-----------------------------------------------------------------------------
\* A view is fresh again when exactly a window has passed, a scan just after.
Recent ==
  {i \in Rows : IF kind = "view" THEN now < visits[i] + WINDOW ELSE now <= visits[i] + WINDOW}

\* A scan counts for sellers with statistics only.
Find(c) ==
  /\ calls[c] = "idle"
  /\ kind = "scan" => access
  /\ Recent = {}
  /\ calls' = [calls EXCEPT ![c] = "insert"]
  /\ UNCHANGED <<now, kind, access, visits, counter, unkeyed, died>>

Insert(c) ==
  LET n == Cardinality(Rows) + 1
  IN  /\ calls[c] = "insert"
      /\ n <= MaxVisits
      /\ visits' = [i \in 1..n |-> IF i < n THEN visits[i] ELSE now]
      /\ calls' = [calls EXCEPT ![c] = IF kind = "view" THEN "count" ELSE "idle"]
      /\ UNCHANGED <<now, kind, access, counter, unkeyed, died>>

Count(c) ==
  /\ calls[c] = "count"
  /\ counter' = counter + 1
  /\ calls' = [calls EXCEPT ![c] = "idle"]
  /\ UNCHANGED <<now, kind, access, visits, unkeyed, died>>

\* A view without a visitor key: the counter only.
CountUnkeyed ==
  /\ kind = "view"
  /\ unkeyed = 0
  /\ counter' = counter + 1
  /\ unkeyed' = unkeyed + 1
  /\ UNCHANGED <<now, kind, access, visits, calls, died>>

Fail(c) ==
  /\ calls[c] # "idle"
  /\ died' = (died \/ calls[c] = "count")
  /\ calls' = [calls EXCEPT ![c] = "idle"]
  /\ UNCHANGED <<now, kind, access, visits, counter, unkeyed>>

ChangeAccess ==
  /\ kind = "scan"
  /\ access' = ~access
  /\ UNCHANGED <<now, kind, visits, counter, calls, unkeyed, died>>

Tick ==
  /\ CallsAt("idle") = Calls
  /\ now < MaxTime
  /\ now' = now + 1
  /\ UNCHANGED <<kind, access, visits, counter, calls, unkeyed, died>>

Next ==
  \/ \E c \in Calls : Find(c) \/ Insert(c) \/ Count(c) \/ Fail(c)
  \/ CountUnkeyed \/ ChangeAccess \/ Tick

Spec == Init /\ [][Next]_vars

-----------------------------------------------------------------------------
(***************************************************************************)
(* sellerViewsDaily: one bucket per day, today's last, and the rows since  *)
(* the midnight that opens the first bucket.                               *)
(***************************************************************************)
Today == now \div DAY

Since == {i \in Rows : visits[i] \div DAY + Days > Today}
Bucket(b) == {i \in Since : visits[i] \div DAY + Days = Today + b}

-----------------------------------------------------------------------------
\* One visitor is counted once per window, or once by each call that looked
\* before the first of them had stored its row (registerView, track).
VisitsPerWindowBounded ==
  Recent # {} => Cardinality(Recent) + Cardinality(CallsAt("insert")) <= Cardinality(Calls)

\* The counter of a listing is its rows and the views without a key, up to
\* the calls between row and counter, unless one died there.
CounterMatchesVisits ==
  kind = "view" /\ ~died =>
    counter + Cardinality(CallsAt("count")) = Cardinality(Rows) + unkeyed

\* The chart loses no view and counts none twice: each row it was computed
\* from is in one of its buckets.
ChartAddsUp ==
  \A i \in Since : \E b \in 1..Days : \A d \in 1..Days : i \in Bucket(d) <=> d = b

=============================================================================
