------------------------------- MODULE HomeFeed -------------------------------
(***************************************************************************)
(* The home screen: the sections that are on, each with the listings its   *)
(* filter finds or the ones the viewer opened last, fetched one section    *)
(* after the other while listings, views and sections change; and the      *)
(* pages behind "see all".  How sections come about is in HomeSections.    *)
(* Source: home-sections.service.ts, filter-engine.ts.                     *)
(*                                                                         *)
(* A filter lets some of the listings through; of the orders it may ask    *)
(* for there is one, by the number of the listing.                         *)
(***************************************************************************)
EXTENDS Integers, FiniteSets

CONSTANTS
  Listings,   \* numbers, in the order the filters ask for
  Sections,   \* the sections there may be
  None,       \* no filter, no limit
  DEFAULT,    \* the 10 listings of a rail without a limit
  MAX_RAIL,   \* the 30 of any rail
  MAX_PAGE,   \* the 50 of a page behind "see all"
  POOL,       \* the 40 views a viewer's rail is made from
  TARGET,     \* the 10 listings of that rail
  MaxViews,
  MaxTime

VARIABLES
  active,    \* listings on show
  sections,  \* the sections, by sortOrder
  views,     \* what the viewer opened, latest first
  now,
  feed,      \* the call of findPublic
  onShow     \* history: what was on show at some time during it

vars == <<active, sections, views, now, feed, onShow>>

-----------------------------------------------------------------------------
Len(s) == Cardinality(DOMAIN s)
Cut(s, n) == [i \in 1..(IF Len(s) < n THEN Len(s) ELSE n) |-> s[i]]
Drop(s, n) == [i \in 1..(IF Len(s) < n THEN 0 ELSE Len(s) - n) |-> s[i + n]]
Min2(a, b) == IF a < b THEN a ELSE b
Members(s) == {s[i] : i \in DOMAIN s}
Orders(S) == {s \in [1..Cardinality(S) -> S] : Members(s) = S}

\* The elements of s at the places P.
At(s, P) == [n \in 1..Cardinality(P) |->
               s[CHOOSE i \in P : Cardinality({j \in P : j <= i}) = n]]
Idle == [step |-> "idle"]

Filter == [lets : SUBSET Listings, limit : Nat \cup {None}]
Section == [type : {"rail", "grid", "recent", "banner"}, filter : Filter \cup {None},
            visible : BOOLEAN, from : Nat, until : Nat, minResults : Nat]

FeedAssumption ==
  /\ IsFiniteSet(Listings) /\ Listings \subseteq Int
  /\ Sections \subseteq Section
  /\ {DEFAULT, MAX_RAIL, MAX_PAGE, POOL, TARGET, MaxViews, MaxTime} \subseteq Nat

TypeOK ==
  /\ {active, onShow} \subseteq SUBSET Listings
  /\ Members(sections) \subseteq Section
  /\ Members(views) \subseteq Listings
  /\ now \in 0..MaxTime
  /\ feed.step \in {"idle", "sections", "answered"}
  /\ feed # Idle =>
       \A i \in DOMAIN feed.rails : Members(feed.rails[i].listings) \subseteq Listings

Init ==
  /\ active = Listings
  /\ sections \in [1..2 -> Sections]
  /\ views = <<>>
  /\ now = 0
  /\ feed = Idle
  /\ onShow = {}

-----------------------------------------------------------------------------
isSectionActive(s) == s.visible /\ s.from <= now /\ now <= s.until

\* What the filter lets through and is on show, in every order the database
\* may return it in: the one asked for, or any without a filter.
Matches(filter) ==
  IF filter = None THEN Orders(active)
  ELSE LET found == active \cap filter.lets
       IN  {[n \in 1..Cardinality(found) |->
               CHOOSE l \in found : Cardinality({k \in found : k <= l}) = n]}

RailSize(filter) ==
  IF filter = None \/ filter.limit = None THEN DEFAULT ELSE Min2(filter.limit, MAX_RAIL)

\* Without a filter there is a limit whatever skipLimit says.
buildProductQuery(filter, skipLimit) ==
  {IF skipLimit /\ filter # None THEN s ELSE Cut(s, RailSize(filter)) : s \in Matches(filter)}

\* The listings of the last POOL views, once each, as far as they are on show.
resolveRecentViews ==
  LET pool == Cut(views, POOL)
      first(i) == \A j \in DOMAIN pool : j < i => pool[j] # pool[i]
  IN  Cut(At(pool, {i \in DOMAIN pool : pool[i] \in active /\ first(i)}), TARGET)

Rails(s) ==
  CASE s.type = "recent" -> {resolveRecentViews}
    [] s.type = "banner" -> {<<>>}
    [] OTHER             -> buildProductQuery(s.filter, s.type = "grid")

findPublic ==
  /\ feed = Idle
  /\ feed' = [step |-> "sections", rails |-> <<>>,
              todo |-> At(sections, {i \in DOMAIN sections : isSectionActive(sections[i])})]
  /\ onShow' = active
  /\ UNCHANGED <<active, sections, views, now>>

\* The next section; one with too few listings is left out, a banner never.
Resolve ==
  /\ feed.step = "sections"
  /\ feed.todo # <<>>
  /\ LET s == feed.todo[1]
         rest == [feed EXCEPT !.todo = Drop(@, 1)]
     IN  \E rail \in Rails(s) :
           feed' = IF s.type # "banner" /\ Len(rail) < s.minResults THEN rest
                   ELSE [rest EXCEPT !.rails = [i \in 1..(Len(@) + 1) |->
                           IF i <= Len(@) THEN @[i] ELSE [section |-> s, listings |-> rail]]]
  /\ UNCHANGED <<active, sections, views, now, onShow>>

Answer ==
  /\ feed.step = "sections"
  /\ feed.todo = <<>>
  /\ feed' = [feed EXCEPT !.step = "answered"]
  /\ UNCHANGED <<active, sections, views, now, onShow>>

Done ==
  /\ feed.step = "answered"
  /\ feed' = Idle
  /\ onShow' = {}
  /\ UNCHANGED <<active, sections, views, now>>

\* Mutant: the page counts from the start.
getSectionProducts_NoSkip(s, take, skip) ==
  {Cut(q, IF take = 0 THEN RailSize(s.filter) ELSE Min2(take, MAX_PAGE)) :
     q \in Matches(s.filter)}

getSectionProducts(s, take, skip) ==
  {Cut(Drop(q, skip), IF take = 0 THEN RailSize(s.filter) ELSE Min2(take, MAX_PAGE)) :
     q \in Matches(s.filter)}

-----------------------------------------------------------------------------
HideOrShow(l) ==
  /\ active' = IF l \in active THEN active \ {l} ELSE active \cup {l}
  /\ onShow' = IF feed = Idle THEN {} ELSE onShow \cup active'
  /\ UNCHANGED <<sections, views, now, feed>>

View(l) ==
  /\ Len(views) < MaxViews
  /\ views' = [i \in 1..(Len(views) + 1) |-> IF i = 1 THEN l ELSE views[i - 1]]
  /\ UNCHANGED <<active, sections, now, feed, onShow>>

Update(i, s) ==
  /\ sections' = [sections EXCEPT ![i] = s]
  /\ UNCHANGED <<active, views, now, feed, onShow>>

Tick ==
  /\ now < MaxTime
  /\ now' = now + 1
  /\ UNCHANGED <<active, sections, views, feed, onShow>>

Next ==
  \/ findPublic \/ Resolve \/ Answer \/ Done \/ Tick
  \/ \E l \in Listings : HideOrShow(l) \/ View(l)
  \/ \E i \in DOMAIN sections, s \in Sections : Update(i, s)

Spec == Init /\ [][Next]_vars

-----------------------------------------------------------------------------
\* A home screen shows listings that were on show at some time while it was
\* put together, none of them twice in a section, and of a section with a
\* minimum at least so many (findPublic, resolveRecentViews).
FeedSound ==
  feed.step = "answered" =>
    \A i \in DOMAIN feed.rails :
      LET rail == feed.rails[i]
      IN  /\ Members(rail.listings) \subseteq onShow
          /\ Cardinality(Members(rail.listings)) = Len(rail.listings)
          /\ rail.section.type # "banner" => Len(rail.listings) >= rail.section.minResults

\* The rail of what a viewer opened leaves out a listing on show only for
\* others opened later, or because it is not among the last POOL views; and
\* lists the latest first (resolveRecentViews).
RecentComplete ==
  LET rail == resolveRecentViews
      latest(l) == CHOOSE i \in DOMAIN views : views[i] = l /\ \A j \in 1..(i - 1) : views[j] # l
  IN  /\ \A l \in Members(Cut(views, POOL)) \cap active :
           l \notin Members(rail) =>
             Len(rail) = TARGET /\ \A k \in Members(rail) : latest(k) < latest(l)
      /\ \A i, j \in DOMAIN rail : i < j => latest(rail[i]) < latest(rail[j])

\* "See all" goes on from the rail it was opened from: its first page starts
\* as the rail, and its pages, if no larger than the maximum, hold everything
\* the filter finds, once and in order (getSectionProducts, findPublic).
SeeAllGoesOn ==
  \A i \in DOMAIN sections :
    LET s == sections[i]
    IN  s.type \in {"rail", "grid"} /\ s.filter # None =>
          \A all \in Matches(s.filter), take \in 1..MAX_PAGE :
            /\ \A rail \in Rails(s), page \in getSectionProducts(s, 0, 0) :
                 \A n \in DOMAIN rail \cap DOMAIN page : rail[n] = page[n]
            /\ \A p \in 0..Len(all) : \A page \in getSectionProducts(s, take, p * take) :
                 page = Cut(Drop(all, p * take), take)

=============================================================================
