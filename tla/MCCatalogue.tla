---------------------------- MODULE MCCatalogue ----------------------------
(***************************************************************************)
(* Listings as buyers see them: media, the lists sellers keep and the      *)
(* promo that opens them, the home screen, search and prices. The parts    *)
(* share no state that the models keep: a behaviour is about one of them,  *)
(* which "part" names.                                                     *)
(***************************************************************************)
EXTENDS Integers, TLC

CONSTANTS
  Pair, Couple,  \* calls, sellers, listings, files: interchangeable within each
  MaxImages, MIN_AGE, MediaTime,  \* of MediaStore, and the bound on its clock
  PlanTable, SavePlans, SavePromos, MaxSaves,  \* of Pools
  Pooled, Savers, JobPlans, JobPromos, JobSaves,  \* of Pools, where the job runs
  DAY, WEEK, JobTime,
  TTL, Latency, Inputs,  \* of PlanPromo
  PromoTime, Versions,  \* its bounds
  Numbered,  \* listings that are ordered: of Carousel, Showcase and Search
  RunSize, WindowDays,  \* of Carousel: CAROUSEL_SIZE, FAIRNESS_WINDOW_DAYS
  DayPicks, TileCap, TileCount,  \* of Showcase
  Posted, HomeSet, Default, MaxRail, MaxPage, ViewPool, Target,  \* of HomeFeed
  FeedViews, FeedTime,  \* its bounds
  Themes, MaxSuggestions,  \* of HomeSections
  SearchPrices, SearchBumps, Orderings, PageTake, FuzzyBelow,  \* of Search
  Asked, Discounts,  \* of PriceDrop
  One,  \* the one there is of its kind
  None  \* no value

VARIABLES
  part,  \* the part a behaviour is about
  s1, s2, s3, s4, s5, s6, s7, s8, s9, s10, s11, s12  \* its variables; None beyond them

vars == <<part, s1, s2, s3, s4, s5, s6, s7, s8, s9, s10, s11, s12>>

-----------------------------------------------------------------------------
\* Partial updates that turn the promo on and off and open and close its window.
PromoInputs ==
  {[enabled |-> TRUE], [enabled |-> FALSE], [startsAt |-> 2],
   [enabled |-> TRUE, endsAt |-> 2]}

\* The rows of a day that the carousel's cron may have left.
ShownPicks == {<<2, 1>>, <<2, 3, 1>>}

\* A rail that wants two listings and is taken down after a while, a grid
\* without a filter, and what the viewer opened.
FeedSections ==
  LET section(type, filter, until, min) ==
        [type |-> type, filter |-> filter, visible |-> TRUE, from |-> 0,
         until |-> until, minResults |-> min]
  IN  {section("rail", [lets |-> {1, 2}, limit |-> 3], 0, 2),
       section("grid", None, 1, 0), section("recent", None, 1, 1)}

Gates == INSTANCE PlanLimits WITH PLAN_LIMITS <- <<>>, NoDate <- None

\* One slot and two pins for whoever pays, the slot daily on the best plan.
PoolTable ==
  [p \in Gates!UserPlan |->
     CASE p = "PREMIUM" -> Gates!Limits(1, 1, 0, 0, 2, 1, "DAILY")
       [] p = "STAR"    -> Gates!Limits(1, 1, 0, 0, 2, 1, "WEEKLY")
       [] OTHER         -> Gates!Limits(0, 0, 0, 0, 0, 0, "none")]

NoPromo == {Gates!PROMO_OFF}
StarForAll == {Gates!PROMO_OFF,
  [Gates!PROMO_OFF EXCEPT !.active = TRUE, !.unlockAutoBump = TRUE,
                          !.grantedPlan = "STAR"]}

Media == INSTANCE MediaStore WITH
  Calls <- Pair, Files <- Couple, MaxTime <- MediaTime, now <- s1,
  uploaded <- s2, stored <- s3, used <- s4, member <- s5, listing <- s6,
  images <- s7, avatar <- s8, docs <- s9, calls <- s10, sweep <- s11,
  torn <- s12

Pins == INSTANCE Pools WITH
  PLAN_LIMITS <- PlanTable, NoDate <- None, Calls <- Pair, HOUR <- 0,
  DAY <- 0, WEEK <- 1, Products <- Couple, Topics <- {"pins"},
  Plans <- SavePlans, Promos <- SavePromos, MaxTime <- 0, now <- s1,
  plan <- s2, promo <- s3, products <- s4,
  topic <- s5, slots <- s6, pins <- s7, saves <- s8, calls <- s9,
  pass <- s10, slotBump <- s11, cascaded <- s12

Pool == INSTANCE Pools WITH
  PLAN_LIMITS <- PlanTable, NoDate <- None, Calls <- Pair, HOUR <- 0,
  DAY <- 0, WEEK <- 1, Products <- Couple \cup {One}, Topics <- {"slots"},
  Plans <- SavePlans, Promos <- SavePromos, MaxTime <- 0, now <- s1,
  plan <- s2, promo <- s3, products <- s4,
  topic <- s5, slots <- s6, pins <- s7, saves <- s8, calls <- s9,
  pass <- s10, slotBump <- s11, cascaded <- s12

Job == INSTANCE Pools WITH
  PLAN_LIMITS <- PlanTable, NoDate <- None, Calls <- Savers, HOUR <- 0,
  Products <- Pooled, Topics <- {"slots"}, Plans <- JobPlans,
  Promos <- JobPromos, MaxSaves <- JobSaves,
  MaxTime <- JobTime, now <- s1, plan <- s2, promo <- s3, products <- s4,
  topic <- s5, slots <- s6, pins <- s7, saves <- s8, calls <- s9,
  pass <- s10, slotBump <- s11, cascaded <- s12

Promo == INSTANCE PlanPromo WITH
  Processes <- Pair, Horizon <- PromoTime, NoDate <- None, now <- s1,
  row <- s2, writes <- s3, past <- s4, cache <- s5, lookup <- s6,
  update <- s7

Turns == INSTANCE Carousel WITH
  Runs <- Pair, Products <- Numbered, CAROUSEL_SIZE <- RunSize,
  FAIRNESS_WINDOW_DAYS <- WindowDays, SETTLE <- WindowDays, premium <- s1,
  active <- s2, settled <- s3, rows <- s4, runs <- s5

Front == INSTANCE Showcase WITH
  Sellers <- Couple, Listings <- Numbered, Picks <- DayPicks, NoRow <- None,
  CAP <- TileCap, Take <- TileCount,
  premium <- s1, active <- s2, rows <- s3, call <- s4, paying <- s5

Feed == INSTANCE HomeFeed WITH
  Listings <- Posted, Sections <- HomeSet, None <- None, DEFAULT <- Default,
  MAX_RAIL <- MaxRail, MAX_PAGE <- MaxPage, POOL <- ViewPool,
  TARGET <- Target, MaxViews <- FeedViews, MaxTime <- FeedTime,
  active <- s1, sections <- s2, views <- s3, now <- s4,
  feed <- s5, onShow <- s6

Sections == INSTANCE HomeSections WITH
  Calls <- Pair, Titles <- Themes, Ids <- Couple \cup {One},
  sections <- s1, suggestions <- s2, calls <- s3

Finder == INSTANCE Search WITH
  Ids <- Numbered, Prices <- SearchPrices, Bumps <- SearchBumps,
  Sorts <- Orderings, Take <- PageTake, FUZZY_BELOW <- FuzzyBelow,
  listing <- s1, sortBy <- s2, text <- s3, skip <- s4, pages <- s5

Prices == INSTANCE PriceDrop WITH
  Calls <- Pair, Prices <- Asked, row <- s1, reduced <- s2, calls <- s3,
  ended <- s4

ASSUME CatalogueAssumption ==
  /\ Media!MediaAssumption
  /\ Pins!ListsAssumption
  /\ Pool!ListsAssumption
  /\ Job!PeriodAssumption
  /\ Job!ListsAssumption
  /\ Promo!PromoAssumption
  /\ Turns!WindowAssumption
  /\ Front!PicksAssumption
  /\ Feed!FeedAssumption
  /\ Sections!SectionsAssumption
  /\ Finder!SearchAssumption
  /\ Prices!PriceAssumption

-----------------------------------------------------------------------------
Init ==
  \/ /\ part = "media" /\ Media!Init
  \/ /\ part = "pins" /\ Pins!Init
  \/ /\ part = "pool" /\ Pool!Init
  \/ /\ part = "job" /\ Job!Init
  \/ /\ part = "promo" /\ Promo!Init /\ s8 = None /\ s9 = None /\ s10 = None
     /\ s11 = None /\ s12 = None
  \/ /\ part = "carousel" /\ Turns!Init /\ s6 = None /\ s7 = None
     /\ s8 = None /\ s9 = None /\ s10 = None /\ s11 = None /\ s12 = None
  \/ /\ part = "showcase" /\ Front!Init /\ s6 = None /\ s7 = None
     /\ s8 = None /\ s9 = None /\ s10 = None /\ s11 = None /\ s12 = None
  \/ /\ part = "feed" /\ Feed!Init /\ s7 = None /\ s8 = None /\ s9 = None
     /\ s10 = None /\ s11 = None /\ s12 = None
  \/ /\ part = "sections" /\ Sections!Init /\ s4 = None /\ s5 = None
     /\ s6 = None /\ s7 = None /\ s8 = None /\ s9 = None /\ s10 = None
     /\ s11 = None /\ s12 = None
  \/ /\ part = "search" /\ Finder!Init /\ s6 = None /\ s7 = None
     /\ s8 = None /\ s9 = None /\ s10 = None /\ s11 = None /\ s12 = None
  \/ /\ part = "prices" /\ Prices!Init /\ s5 = None /\ s6 = None
     /\ s7 = None /\ s8 = None /\ s9 = None /\ s10 = None /\ s11 = None
     /\ s12 = None

MediaStep == part = "media" /\ Media!Next /\ UNCHANGED part
PinsStep == part = "pins" /\ Pins!Next /\ UNCHANGED part
PoolStep == part = "pool" /\ Pool!Next /\ UNCHANGED part
JobStep == part = "job" /\ Job!Next /\ UNCHANGED part
PromoStep == part = "promo" /\ Promo!Next
             /\ UNCHANGED <<part, s8, s9, s10, s11, s12>>
TurnsStep == part = "carousel" /\ Turns!Next
             /\ UNCHANGED <<part, s6, s7, s8, s9, s10, s11, s12>>
FrontStep == part = "showcase" /\ Front!Next
             /\ UNCHANGED <<part, s6, s7, s8, s9, s10, s11, s12>>
FeedStep == part = "feed" /\ Feed!Next
            /\ UNCHANGED <<part, s7, s8, s9, s10, s11, s12>>
SectionsStep == part = "sections" /\ Sections!Next
                /\ UNCHANGED <<part, s4, s5, s6, s7, s8, s9, s10, s11, s12>>
FinderStep == part = "search" /\ Finder!Next
              /\ UNCHANGED <<part, s6, s7, s8, s9, s10, s11, s12>>
PricesStep == part = "prices" /\ Prices!Next
              /\ UNCHANGED <<part, s5, s6, s7, s8, s9, s10, s11, s12>>

Next == MediaStep \/ PinsStep \/ PoolStep \/ JobStep \/ PromoStep \/
        TurnsStep \/ FrontStep \/ FeedStep \/ SectionsStep \/ FinderStep \/
        PricesStep

Spec == Init /\ [][Next]_vars

Symmetry == Permutations(Pair) \cup Permutations(Couple)

-----------------------------------------------------------------------------
TypeOK ==
  /\ part = "media" => Media!TypeOK
  /\ part = "pins" => Pins!TypeOK
  /\ part = "pool" => Pool!TypeOK
  /\ part = "job" => Job!TypeOK
  /\ part = "promo" => Promo!TypeOK
  /\ part = "carousel" => Turns!TypeOK
  /\ part = "showcase" => Front!TypeOK
  /\ part = "feed" => Feed!TypeOK
  /\ part = "sections" => Sections!TypeOK
  /\ part = "search" => Finder!TypeOK
  /\ part = "prices" => Prices!TypeOK

\* An image that a page shows is in storage, unless handlers overlapped on
\* its rows (update, remove, adminDeleteImage, cleanOrphans).
RowsHaveFiles == part = "media" => Media!RowsHaveFiles

\* Images, the auto-bump pool and the pins of a profile stay within what the
\* plan allows for each call that runs at once; pins never mix two saves
\* (update, setAutoBumpSlots, setPinnedProducts).
ListsBounded ==
  /\ part = "media" => Media!ImagesBounded
  /\ part = "pool" => Pool!PoolBounded
  /\ part = "pins" => Pins!PinsFromOneSave

\* The hourly job bumps a listing once per period of its slot, and the daily
\* job picks a carousel once a day, however often they run (autoBump,
\* pickForDay).
JobsKeepPace ==
  [][/\ part = "job" => Job!PaceStep
     /\ part = "carousel" => Turns!PickStep]_vars

\* What a process says of the promo was in the database a cache lifetime ago
\* at most (PlanPromoService.row).
AnswerWasTrueLately == part = "promo" => Promo!AnswerWasTrueLately

\* The carousel leaves no listing out for longer than its window, shows
\* sellers who are Premium now, and lets them take turns (pickForDay,
\* premiumCarousel, interleaveByVendor).
FrontPageFair ==
  /\ part = "carousel" => Turns!NoneLeftOut
  /\ part = "showcase" => Front!OnlyPremiumShown /\ Front!SellersTakeTurns

\* A title waits for review, and a place is shared, once per call that runs
\* at once at most (generateSuggestions, create); a home screen holds what
\* was on show, once, the latest first of what the viewer opened, and "see
\* all" goes on from it (findPublic, getSectionProducts).
SectionsSound ==
  /\ part = "sections" => Sections!WaitingBounded /\ Sections!PlacesShared
  /\ part = "feed" => Feed!FeedSound /\ Feed!RecentComplete /\ Feed!SeeAllGoesOn

\* Pages hold what was asked for in the order that was asked for, boosted
\* listings first, and leafing through them shows every match once (search).
SearchSound ==
  part = "search" =>
    /\ Finder!PagesSound
    /\ Finder!BoostedFirst
    /\ Finder!EveryMatchOnce

\* Watchers are told of a lower price exactly if the buyer pays less
\* (ProductsService.update).
ToldIffCheaper == part = "prices" => Prices!ToldIffCheaper
=============================================================================
