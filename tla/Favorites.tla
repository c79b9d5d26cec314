----------------------------- MODULE Favorites -----------------------------
(***************************************************************************)
(* Who has one listing among their favourites, and the counter the listing *)
(* shows.  toggle() writes the row and the counter in separate calls.      *)
(* Source: favorites.service.ts, users.service.ts (remove).                *)
(***************************************************************************)
EXTENDS Integers, FiniteSets

CONSTANTS
  Calls,   \* how many toggles run at once at most
  Fans,    \* the users
  MaxRows  \* bound on the rows ever inserted

FavoriteAssumption == IsFiniteSet(Calls) /\ IsFiniteSet(Fans) /\ MaxRows \in Nat

VARIABLES
  favorite,   \* the id of the row of each user, 0 when there is none
  count,      \* products.favorites_count
  accounts,   \* the users that exist
  calls,
  inserted,   \* rows inserted so far; ids are never reused
  disturbed   \* history: a call died between its writes, or an account went

vars == <<favorite, count, accounts, calls, inserted, disturbed>>

-----------------------------------------------------------------------------
Idle == [step |-> "idle"]

TypeOK ==
  /\ favorite \in [Fans -> 0..MaxRows]
  /\ count \in -MaxRows..MaxRows
  /\ accounts \subseteq Fans
  /\ calls \in [Calls -> {Idle} \cup
       [step : {"delete", "insert", "decrement", "increment"},
        fan : Fans, row : 0..MaxRows]]
  /\ inserted \in 0..MaxRows
  /\ disturbed \in BOOLEAN

Init ==
  /\ favorite = [u \in Fans |-> 0]
  /\ count = 0
  /\ accounts = Fans
  /\ calls = [c \in Calls |-> Idle]
  /\ inserted = 0
  /\ disturbed = FALSE

Holders == {u \in Fans : favorite[u] # 0}
CallsAt(step) == {c \in Calls : calls[c].step = step}
Go(c, step) == calls' = [calls EXCEPT ![c].step = step]
End(c) == calls' = [calls EXCEPT ![c] = Idle]

-----------------------------------------------------------------------------
Find(c) ==
  \E u \in accounts :
    /\ calls[c] = Idle
    /\ calls' = [calls EXCEPT ![c] =
         [step |-> IF favorite[u] # 0 THEN "delete" ELSE "insert",
          fan |-> u, row |-> favorite[u]]]
    /\ UNCHANGED <<favorite, count, accounts, inserted, disturbed>>

\* Mutant: the row is deleted by user and listing, and need not be there.
Delete_IfAny(c) ==
  LET h == calls[c]
  IN  /\ h.step = "delete"
      /\ favorite' = [favorite EXCEPT ![h.fan] = 0]
      /\ Go(c, "decrement")
      /\ UNCHANGED <<count, accounts, inserted, disturbed>>

\* The row that was found is deleted by its id; when it is gone, the call
\* fails before it touches the counter.
Delete(c) ==
  LET h == calls[c]
  IN  /\ h.step = "delete"
      /\ IF favorite[h.fan] = h.row
         THEN favorite' = [favorite EXCEPT ![h.fan] = 0] /\ Go(c, "decrement")
         ELSE UNCHANGED favorite /\ End(c)
      /\ UNCHANGED <<count, accounts, inserted, disturbed>>

\* A second row of the user violates the unique key, a row of a user who is
\* gone the foreign key.
Insert(c) ==
  LET u == calls[c].fan
  IN  /\ calls[c].step = "insert"
      /\ inserted < MaxRows
      /\ IF favorite[u] = 0 /\ u \in accounts
         THEN /\ inserted' = inserted + 1
              /\ favorite' = [favorite EXCEPT ![u] = inserted + 1]
              /\ Go(c, "increment")
         ELSE UNCHANGED <<favorite, inserted>> /\ End(c)
      /\ UNCHANGED <<count, accounts, disturbed>>

\* After the increment the seller is told (ProductFavorited).
Count(c) ==
  /\ \/ calls[c].step = "increment" /\ count' = count + 1
     \/ calls[c].step = "decrement" /\ count' = count - 1
  /\ End(c)
  /\ UNCHANGED <<favorite, accounts, inserted, disturbed>>

Fail(c) ==
  /\ calls[c] # Idle
  /\ disturbed' = (disturbed \/ calls[c].step \in {"increment", "decrement"})
  /\ End(c)
  /\ UNCHANGED <<favorite, count, accounts, inserted>>

\* users.remove deletes the rows of the user and leaves the counters alone.
RemoveAccount(u) ==
  /\ u \in accounts
  /\ accounts' = accounts \ {u}
  /\ disturbed' = (disturbed \/ favorite[u] # 0)
  /\ favorite' = [favorite EXCEPT ![u] = 0]
  /\ UNCHANGED <<count, calls, inserted>>

Next ==
  \/ \E c \in Calls : Find(c) \/ Delete(c) \/ Insert(c) \/ Count(c) \/ Fail(c)
  \/ \E u \in Fans : RemoveAccount(u)

Spec == Init /\ [][Next]_vars

-----------------------------------------------------------------------------
\* However often and however fast users tap, the counter is the number of
\* rows, up to the calls between their two writes; only a call that dies
\* there and the removal of an account make it wrong (toggle).
CounterMatchesRows ==
  ~disturbed =>
    count + Cardinality(CallsAt("increment")) - Cardinality(CallsAt("decrement"))
      = Cardinality(Holders)

=============================================================================
