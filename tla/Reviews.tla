------------------------------ MODULE Reviews ------------------------------
(***************************************************************************)
(* The reviews of one seller, the figures computed from them, and the      *)
(* saved searches of one user: small services of one lookup and one write. *)
(* Source: reviews.service.ts, saved-searches.service.ts.                  *)
(***************************************************************************)
EXTENDS Integers, FiniteSets

CONSTANTS
  Calls,               \* how many calls run at once at most
  Authors,             \* those who review
  Given,               \* the ratings they give, of those there are
  MaxReviews,          \* bound on the reviews ever written
  MAX_SAVED_SEARCHES,
  MaxWrites            \* bound on the writes of reviews

Stars == 1..5

LimitAssumption ==
  /\ IsFiniteSet(Calls) /\ Given \subseteq Stars
  /\ MaxReviews \in Nat /\ MAX_SAVED_SEARCHES \in Nat \ {0}

VARIABLES
  reviews,   \* rows in order of creation; 0 stars when deleted
  searches,  \* number of saved searches of the user
  calls,
  stats,     \* getStats: idle, or what its first query counted
  shown,     \* the last answer of getStats
  writes,    \* history: writes of reviews so far
  skew       \* history: writes between the two queries of the last getStats

vars == <<reviews, searches, calls, stats, shown, writes, skew>>

-----------------------------------------------------------------------------
Ids == 1..MaxReviews
Review == [author : Authors, stars : Stars \cup {0}]
Idle == [step |-> "idle"]

TypeOK ==
  /\ \E n \in 0..MaxReviews : reviews \in [1..n -> Review]
  /\ searches \in Nat
  /\ calls \in [Calls -> {Idle} \cup [step : {"save"}]
       \cup [step : {"update", "remove"}, id : Ids, by : Authors]]
  /\ stats \in [open : BOOLEAN, count : Nat, at : Nat]
  /\ shown \in [count : Nat, distribution : [Stars -> Nat]]
  /\ writes \in Nat /\ skew \in Nat

Init ==
  /\ reviews = <<>>
  /\ searches = 0
  /\ calls = [c \in Calls |-> Idle]
  /\ stats = [open |-> FALSE, count |-> 0, at |-> 0]
  /\ shown = [count |-> 0, distribution |-> [s \in Stars |-> 0]]
  /\ writes = 0
  /\ skew = 0

Rows == {i \in DOMAIN reviews : reviews[i].stars # 0}
Aggregate == Cardinality(Rows)
GroupBy == [s \in Stars |-> Cardinality({i \in Rows : reviews[i].stars = s})]
End(c) == calls' = [calls EXCEPT ![c] = Idle]
desk == <<stats, shown, skew>>

-----------------------------------------------------------------------------
(***************************************************************************)
(* Reviews: anyone but the seller writes one, several if they like; only   *)
(* the author edits or deletes it, checked on a row read before.           *)
(***************************************************************************)
Change ==
  /\ writes < MaxWrites
  /\ writes' = writes + 1

Create(a, s) ==
  LET n == Cardinality(DOMAIN reviews) + 1
  IN  /\ n \in Ids
      /\ Change
      /\ reviews' = [i \in 1..n |->
           IF i < n THEN reviews[i] ELSE [author |-> a, stars |-> s]]
      /\ UNCHANGED <<searches, calls, desk>>

Open(c, a) ==
  \E i \in Rows, step \in {"update", "remove"} :
    /\ calls[c] = Idle
    /\ reviews[i].author = a
    /\ calls' = [calls EXCEPT ![c] = [step |-> step, id |-> i, by |-> a]]
    /\ UNCHANGED <<reviews, searches, writes, desk>>

\* A review that is gone by now is an error.
Update(c, s) ==
  LET i == calls[c].id
  IN  /\ calls[c].step = "update"
      /\ IF i \in Rows
         THEN Change /\ reviews' = [reviews EXCEPT ![i].stars = s]
         ELSE UNCHANGED <<reviews, writes>>
      /\ End(c)
      /\ UNCHANGED <<searches, desk>>

Remove(c) ==
  LET i == calls[c].id
  IN  /\ calls[c].step = "remove"
      /\ IF i \in Rows
         THEN Change /\ reviews' = [reviews EXCEPT ![i].stars = 0]
         ELSE UNCHANGED <<reviews, writes>>
      /\ End(c)
      /\ UNCHANGED <<searches, desk>>

\* getStats: the count in one query, with the average, which no one compares;
\* the distribution in the next.
ReadAggregate ==
  /\ ~stats.open
  /\ stats' = [open |-> TRUE, count |-> Aggregate, at |-> writes]
  /\ UNCHANGED <<reviews, searches, calls, shown, writes, skew>>

ReadDistribution ==
  /\ stats.open
  /\ shown' = [count |-> stats.count, distribution |-> GroupBy]
  /\ skew' = writes - stats.at
  /\ stats' = [stats EXCEPT !.open = FALSE]
  /\ UNCHANGED <<reviews, searches, calls, writes>>

(***************************************************************************)
(* Saved searches: counted first, stored in another call.                  *)
(***************************************************************************)
CountSearches(c) ==
  /\ calls[c] = Idle
  /\ searches < MAX_SAVED_SEARCHES
  /\ calls' = [calls EXCEPT ![c] = [step |-> "save"]]
  /\ UNCHANGED <<reviews, searches, writes, desk>>

SaveSearch(c) ==
  /\ calls[c].step = "save"
  /\ searches' = searches + 1
  /\ End(c)
  /\ UNCHANGED <<reviews, writes, desk>>

RemoveSearch ==
  /\ searches > 0
  /\ searches' = searches - 1
  /\ UNCHANGED <<reviews, calls, writes, desk>>

Next ==
  \/ \E a \in Authors, s \in Given : Create(a, s)
  \/ \E c \in Calls, a \in Authors : Open(c, a)
  \/ \E c \in Calls, s \in Given : Update(c, s)
  \/ \E c \in Calls : Remove(c) \/ CountSearches(c) \/ SaveSearch(c)
  \/ ReadAggregate \/ ReadDistribution \/ RemoveSearch

Spec == Init /\ [][Next]_vars

-----------------------------------------------------------------------------
\* The average and the bars of the dashboard come from two queries: they
\* differ by no more reviews than were written between the two (getStats).
StatsSkewBounded ==
  LET d == shown.distribution
      bars == d[1] + d[2] + d[3] + d[4] + d[5]
  IN  bars - shown.count \in -skew..skew

\* The saved searches are counted before one is stored: the limit is
\* overshot by less than the calls in flight (create).
SearchesBounded ==
  searches + Cardinality({c \in Calls : calls[c].step = "save"})
    <= MAX_SAVED_SEARCHES - 1 + Cardinality(Calls)

=============================================================================
