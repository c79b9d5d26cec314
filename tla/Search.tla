-------------------------------- MODULE Search --------------------------------
(***************************************************************************)
(* A buyer leafs through the results of one search: the exact matches a    *)
(* page at a time, filled up with similar ones when they come short, then  *)
(* put in order.  The listings do not change meanwhile.                    *)
(* Source: products.service.ts.                                            *)
(*                                                                         *)
(* Which listings match exactly, which are similar, and which pass the     *)
(* other filters is open.  Rows the database sorts alike come in any order.*)
(***************************************************************************)
EXTENDS Integers, FiniteSets

CONSTANTS
  Ids,          \* the listings, numbers as ids are ordered
  Prices,
  Bumps,        \* bumpedAt
  Sorts,        \* orders the buyer may ask for
  Take,         \* the size of a page
  FUZZY_BELOW   \* an exact page shorter than this is filled up

SearchAssumption ==
  /\ IsFiniteSet(Ids) /\ Ids \subseteq Nat /\ Prices \subseteq Int /\ Bumps \subseteq Int
  /\ Sorts \subseteq {"recent", "price_asc", "price_desc"}
  /\ Take \in Nat \ {0} /\ FUZZY_BELOW \in Nat

VARIABLES
  listing,  \* the listings
  sortBy,
  text,     \* is there a text to search for?
  skip,
  pages     \* the pages shown so far

vars == <<listing, sortBy, text, skip, pages>>

-----------------------------------------------------------------------------
Listing == [price : Prices, bump : Bumps, boosted : BOOLEAN,
            match : {"exact", "similar", "none"}, passes : BOOLEAN]

\* S as sequences, each element once.
Orders(S) == {s \in [1..Cardinality(S) -> S] : \A i, j \in DOMAIN s : i # j => s[i] # s[j]}
Members(s) == {s[i] : i \in DOMAIN s}
Join(s, t) == [i \in 1..(Cardinality(DOMAIN s) + Cardinality(DOMAIN t)) |->
                 IF i \in DOMAIN s THEN s[i] ELSE t[i - Cardinality(DOMAIN s)]]
Slice(s, from, n) ==
  LET len == Cardinality(DOMAIN s)
      size == IF from + n <= len THEN n ELSE IF from < len THEN len - from ELSE 0
  IN  [i \in 1..size |-> s[from + i]]

\* Array.prototype.sort is stable.
Sorted(s, Before(_, _)) ==
  LET place(i) == 1 + Cardinality({j \in DOMAIN s :
                    Before(s[j], s[i]) \/ (j < i /\ ~Before(s[i], s[j]))})
  IN  [k \in DOMAIN s |-> s[CHOOSE i \in DOMAIN s : place(i) = k]]

IsPriceSort == sortBy # "recent"

TypeOK ==
  /\ listing \in [Ids -> Listing]
  /\ sortBy \in Sorts
  /\ text \in BOOLEAN
  /\ skip = Take * Cardinality(DOMAIN pages)
  /\ Members(pages) \subseteq UNION {Orders(S) : S \in SUBSET Ids}

Init ==
  /\ listing \in [Ids -> Listing]
  /\ sortBy \in Sorts
  /\ text \in BOOLEAN
  /\ ~text => \A i \in Ids : listing[i].match = "exact"
  \* What the order asked for does not look at is the same for all.
  /\ \A i \in Ids : IF IsPriceSort
       THEN ~listing[i].boosted /\ \A b \in Bumps : listing[i].bump <= b
       ELSE \A n \in Prices : listing[i].price <= n
  /\ skip = 0
  /\ pages = <<>>

-----------------------------------------------------------------------------
\* Mutant: listings at one price have no order of their own.
OrderBy_PriceOnly(a, b) ==
  CASE sortBy = "price_asc"  -> listing[a].price < listing[b].price
    [] sortBy = "price_desc" -> listing[a].price > listing[b].price
    [] OTHER                 -> listing[a].bump > listing[b].bump

OrderBy(a, b) ==
  LET cheaper == listing[a].price < listing[b].price
      dearer == listing[a].price > listing[b].price
  IN  CASE sortBy = "price_asc"  -> cheaper \/ (~dearer /\ a < b)
        [] sortBy = "price_desc" -> dearer \/ (~cheaper /\ a < b)
        [] OTHER                 -> listing[a].bump > listing[b].bump

\* The exact matches, sorted by the database.
Found ==
  {s \in Orders({i \in Ids : listing[i].match = "exact" /\ listing[i].passes}) :
     \A i, j \in DOMAIN s : OrderBy(s[i], s[j]) => i < j}

\* The Take most similar listings, whatever the filters; then those of them
\* that pass and are not on the page yet.
Extras(page) ==
  LET similar == {i \in Ids : listing[i].match # "none"}
      tops == {Slice(s, 0, Take) : s \in Orders(similar)}
      keep(top) == {i \in Members(top) : listing[i].passes} \ Members(page)
  IN  UNION {{e \in Orders(keep(top)) :
                \A i, j \in DOMAIN e : \E a, b \in DOMAIN top :
                   top[a] = e[i] /\ top[b] = e[j] /\ (i < j => a < b)} : top \in tops}

FilledUp(page) ==
  IF ~text \/ Cardinality(DOMAIN page) >= FUZZY_BELOW THEN {page}
  ELSE {page} \cup {Slice(Join(page, e), 0, Take) : e \in Extras(page)}

applyBoostSort(s) ==
  Sorted(s, LAMBDA a, b : \/ listing[a].boosted /\ ~listing[b].boosted
                          \/ /\ listing[a].boosted = listing[b].boosted
                             /\ listing[a].bump > listing[b].bump)

InOrder(s) == IF IsPriceSort THEN Sorted(s, OrderBy) ELSE applyBoostSort(s)

\* search(), and the buyer asks for the next page.
search ==
  \E s \in Found :
    \E page \in FilledUp(Slice(s, skip, Take)) :
      /\ skip < Cardinality(Ids)
      /\ pages' = Join(pages, <<InOrder(page)>>)
      /\ skip' = skip + Take
      /\ UNCHANGED <<listing, sortBy, text>>

Next == search

Spec == Init /\ [][Next]_vars

-----------------------------------------------------------------------------
\* Filling up keeps every filter but the text, adds nothing the page has
\* already, and leaves the page in the order that was asked for (search).
PagesSound ==
  \A n \in DOMAIN pages :
    LET p == pages[n]
    IN  /\ Cardinality(Members(p)) = Cardinality(DOMAIN p)
        /\ \A i \in DOMAIN p : listing[p[i]].passes /\ listing[p[i]].match # "none"
        /\ \A i, j \in DOMAIN p : OrderBy(p[i], p[j]) /\ IsPriceSort => i < j

\* On a page a boosted listing comes before one that is not, and within each
\* kind the later bump comes first (applyBoostSort).
BoostedFirst ==
  ~IsPriceSort => \A n \in DOMAIN pages : \A i, j \in DOMAIN pages[n] :
    LET a == listing[pages[n][i]]
        b == listing[pages[n][j]]
    IN  i < j => /\ b.boosted => a.boosted
                 /\ a.boosted = b.boosted => a.bump >= b.bump

\* Leafing through a search without text, sorted by price, or with no two
\* listings bumped in one moment, shows every match once and none twice.
EveryMatchOnce ==
  LET ties == \E a, b \in Ids : a # b /\ ~OrderBy(a, b) /\ ~OrderBy(b, a)
      showing(i) == {n \in DOMAIN pages : i \in Members(pages[n])}
  IN  ~text /\ (IsPriceSort \/ ~ties) =>
        \A i \in Ids :
          /\ Cardinality(showing(i)) <= 1
          /\ skip >= Cardinality(Ids) /\ listing[i].passes => showing(i) # {}

=============================================================================
