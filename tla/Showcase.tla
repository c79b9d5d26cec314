------------------------------- MODULE Showcase -------------------------------
(***************************************************************************)
(* Reading the premium carousel: the Premium sellers of the moment, the    *)
(* pick of the day of each (or their newest listings, if there is none),   *)
(* dealt out in turns, and the listings still on show.  Plans, listings    *)
(* and picks change between the three reads.  How a pick is made is in     *)
(* Carousel.  Source: home-sections.service.ts.                            *)
(***************************************************************************)
EXTENDS Naturals, FiniteSets

CONSTANTS
  Sellers,
  Listings,  \* listings of one seller, 1 the newest
  Picks,     \* the sequences of listings a day's row may hold
  NoRow,
  CAP,       \* the 3 of the cap per seller
  Take

\* A row names a listing once (premium-carousel.cron.ts picks from a set).
PicksAssumption ==
  /\ IsFiniteSet(Sellers) /\ IsFiniteSet(Listings) /\ Listings \subseteq Nat
  /\ CAP \in Nat /\ Take \in Nat
  /\ \A s \in Picks : /\ IsFiniteSet(DOMAIN s) /\ DOMAIN s = 1..Cardinality(DOMAIN s)
                      /\ \A i \in DOMAIN s : s[i] \in Listings
                      /\ \A i, j \in DOMAIN s : i # j => s[i] # s[j]
  /\ NoRow \notin Picks

VARIABLES
  premium,  \* sellers who are Premium now
  active,   \* pairs of seller and listing on show
  rows,     \* today's premium_carousel_days of each seller
  call,
  paying    \* history: who was Premium at some time during the call

vars == <<premium, active, rows, call, paying>>

-----------------------------------------------------------------------------
Tiles == Sellers \X Listings
Len(s) == Cardinality(DOMAIN s)
Cut(s, n) == [i \in 1..(IF Len(s) < n THEN Len(s) ELSE n) |-> s[i]]
Own(r, S) == [i \in DOMAIN S |-> <<r, S[i]>>]
Idle == [step |-> "idle"]

\* The CAP newest active listings of a seller.
Newest(r) ==
  LET on == {l \in Listings : <<r, l>> \in active}
      rank(l) == Cardinality({k \in on : k <= l})
  IN  Cut([n \in 1..Cardinality(on) |-> CHOOSE l \in on : rank(l) = n], CAP)

TypeOK ==
  /\ {premium, paying} \subseteq SUBSET Sellers
  /\ active \subseteq Tiles
  /\ rows \in [Sellers -> Picks \cup {NoRow}]
  /\ call.step \in {"idle", "rows", "tiles", "answered"}
  /\ call.step \in {"tiles", "answered"} =>
       \A i \in DOMAIN call.ids : call.ids[i] \in Tiles

Init ==
  /\ premium \in SUBSET Sellers
  /\ active \in SUBSET Tiles
  /\ rows \in [Sellers -> Picks \cup {NoRow}]
  /\ call = Idle
  /\ paying = {}

-----------------------------------------------------------------------------
ReadSellers ==
  /\ call = Idle
  /\ call' = [step |-> "rows", newest |-> [r \in premium |-> Newest(r)]]
  /\ paying' = premium
  /\ UNCHANGED <<premium, active, rows>>

\* The first of every list, the second of every list, and so on; order is
\* the order of the sellers.
interleaveByVendor(lists, order) ==
  LET spots == {p \in (DOMAIN lists) \X (1..CAP) : p[2] <= Len(lists[p[1]])}
      before(p) == {q \in spots : \/ q[2] < p[2]
                                  \/ q[2] = p[2] /\ order[q[1]] < order[p[1]]}
  IN  [n \in 1..Cardinality(spots) |->
         LET p == CHOOSE p \in spots : Cardinality(before(p)) = n - 1
         IN  <<p[1], lists[p[1]][p[2]]>>]

ReadRows(order) ==
  LET list(r) == IF rows[r] # NoRow THEN Cut(rows[r], CAP) ELSE call.newest[r]
  IN  /\ call.step = "rows"
      /\ call' = [step |-> "tiles", ids |-> Cut(interleaveByVendor(
                    [r \in DOMAIN call.newest |-> list(r)], order), Take)]
      /\ UNCHANGED <<premium, active, rows, paying>>

\* Listings no longer active are dropped; the rest keep their order.
ReadTiles ==
  LET kept == {i \in DOMAIN call.ids : call.ids[i] \in active}
      nth(n) == CHOOSE i \in kept : Cardinality({j \in kept : j <= i}) = n
  IN  /\ call.step = "tiles"
      /\ call' = [step |-> "answered", ids |-> call.ids,
                  shown |-> [n \in 1..Cardinality(kept) |-> call.ids[nth(n)]]]
      /\ UNCHANGED <<premium, active, rows, paying>>

Answered ==
  /\ call.step = "answered"
  /\ call' = Idle
  /\ paying' = {}
  /\ UNCHANGED <<premium, active, rows>>

ChangePlan(r) ==
  /\ call # Idle
  /\ premium' = IF r \in premium THEN premium \ {r} ELSE premium \cup {r}
  /\ paying' = paying \cup premium'
  /\ UNCHANGED <<active, rows, call>>

ChangeListing(t) ==
  /\ call # Idle
  /\ active' = IF t \in active THEN active \ {t} ELSE active \cup {t}
  /\ UNCHANGED <<premium, rows, call, paying>>

Next ==
  \/ ReadSellers \/ ReadTiles \/ Answered
  \/ \E order \in [Sellers -> 1..Cardinality(Sellers)] :
       /\ \A r, q \in Sellers : r # q => order[r] # order[q]
       /\ ReadRows(order)
  \/ \E r \in Sellers : ChangePlan(r)
  \/ \E t \in Tiles : ChangeListing(t)

Spec == Init /\ [][Next]_vars

-----------------------------------------------------------------------------
\* "Who appears is decided by the plan the seller has now": whoever is shown
\* was Premium at some time during the read, whatever row the job left, with
\* no more tiles than the cap, and none twice (premiumCarousel).
OnlyPremiumShown ==
  call.step = "answered" =>
    /\ \A i \in DOMAIN call.shown : call.shown[i][1] \in paying
    /\ \A i, j \in DOMAIN call.shown : i # j => call.shown[i] # call.shown[j]
    /\ \A r \in Sellers :
         Cardinality({i \in DOMAIN call.shown : call.shown[i][1] = r}) <= CAP

\* "Consecutive tiles come from different sellers": between two tiles of one
\* seller comes every seller who still has one, unless a listing was dropped.
SellersTakeTurns ==
  call.step = "answered" /\ Len(call.shown) = Len(call.ids) =>
    LET of(i) == call.shown[i][1]
    IN  \A i, j \in DOMAIN call.shown : i < j /\ of(i) = of(j) =>
          \A k \in DOMAIN call.shown : k > j =>
            \E n \in i..j : of(n) = of(k)

=============================================================================
