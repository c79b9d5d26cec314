------------------------- MODULE MCCatalogue_proofs -------------------------
(***************************************************************************)
(* Properties of the catalogue for every value of the constants.  Each     *)
(* part has an inductive invariant of its own; a step is one of the        *)
(* part's, or leaves its variables alone.  Of what buyers are shown the    *)
(* invariants are in BuyerViews_proofs.                                    *)
(***************************************************************************)
EXTENDS BuyerViews_proofs

-----------------------------------------------------------------------------
(***************************************************************************)
(* A behaviour stays in its part.                                          *)
(***************************************************************************)
LEMMA PartSteps ==
  ASSUME [Next]_vars
  PROVE  /\ part' = part
         /\ \/ UNCHANGED vars
            \/ /\ part = "media" => Media!Next
               /\ part = "pins" => Pins!Next
               /\ part = "pool" => Pool!Next
               /\ part = "job" => Job!Next
               /\ part = "promo" => Promo!Next
               /\ part = "carousel" => Turns!Next
               /\ part = "showcase" => Front!Next
               /\ part = "feed" => Feed!Next
               /\ part = "sections" => Sections!Next
               /\ part = "search" => Finder!Next
               /\ part = "prices" => Prices!Next
  BY DEF Next, vars, MediaStep, PinsStep, PoolStep, JobStep, PromoStep,
     TurnsStep, FrontStep, FeedStep, SectionsStep, FinderStep, PricesStep

-----------------------------------------------------------------------------
(***************************************************************************)
(* The promo: what each variable of the part is called there.              *)
(***************************************************************************)
promoNow == s1
promoRow == s2
promoPast == s4
promoCache == s5
promoLookup == s6

\* The rows that were in the database at the instant t or later.
CurrentSince(t) == {promoRow} \cup {w.row : w \in {v \in promoPast : v.until >= t}}

\* What a lookup found, and a cache holds, was the row at an instant at most
\* Latency before it was stored; without an answer it is "no promo".
Backed(answer, since) ==
  IF answer.ok THEN answer.row \in CurrentSince(since) ELSE answer.row = Promo!Off

PromoInv ==
  /\ promoNow \in Nat
  /\ \A w \in promoPast : w.until \in Nat
  /\ \A p \in Pair : promoLookup[p] # Promo!Idle =>
       /\ promoLookup[p].at \in Nat /\ promoLookup[p].at <= promoNow
       /\ promoNow - promoLookup[p].at <= Latency
       /\ Backed(promoLookup[p], promoLookup[p].at)
  /\ \A p \in Pair : promoCache[p] # Promo!NotCached =>
       /\ promoCache[p].at \in Nat /\ promoCache[p].at <= promoNow
       /\ Backed(promoCache[p], promoCache[p].at - Latency)
  /\ promoLookup = [p \in Pair |-> promoLookup[p]]
  /\ promoCache = [p \in Pair |-> promoCache[p]]

\* A row that is overwritten stays among those that were current until now.
LEMMA StillCurrent ==
  ASSUME NEW t \in Int, promoNow \in Nat, t <= promoNow,
         \/ promoRow' = promoRow /\ promoPast' = promoPast
         \/ promoPast' = promoPast \cup {[row |-> promoRow, until |-> promoNow]}
  PROVE  CurrentSince(t) \subseteq CurrentSince(t)'
<1>1. ASSUME NEW w \in promoPast, w.until >= t
      PROVE  w.row \in CurrentSince(t)'
  <2>1. w \in promoPast'
    OBVIOUS
  <2>2. QED
    BY <1>1, <2>1 DEF CurrentSince
<1>2. promoRow \in CurrentSince(t)'
  <2>1. CASE promoRow' = promoRow
    BY <2>1 DEF CurrentSince
  <2>2. CASE promoPast' = promoPast \cup {[row |-> promoRow, until |-> promoNow]}
    <3>1. PICK w \in promoPast' : w = [row |-> promoRow, until |-> promoNow]
      BY <2>2
    <3>2. w.until >= t /\ w.row = promoRow
      BY <3>1
    <3>3. QED
      BY <3>2 DEF CurrentSince
  <2>3. QED
    BY <2>1, <2>2
<1>3. QED
  BY <1>1, <1>2 DEF CurrentSince

LEMMA StillBacked ==
  ASSUME NEW answer, NEW t \in Int, Backed(answer, t), promoNow \in Nat, t <= promoNow,
         \/ promoRow' = promoRow /\ promoPast' = promoPast
         \/ promoPast' = promoPast \cup {[row |-> promoRow, until |-> promoNow]}
  PROVE  Backed(answer, t)'
  BY StillCurrent DEF Backed

LEMMA PromoInit == ASSUME CatalogueAssumption, Promo!Init PROVE PromoInv
  BY DEF Promo!Init, PromoInv, promoNow, promoPast, promoCache, promoLookup,
     Promo!Idle, Promo!NotCached

\* What is in flight and what is cached stays backed when others go on.
LEMMA OthersBacked ==
  ASSUME CatalogueAssumption, PromoInv,
         \/ promoRow' = promoRow /\ promoPast' = promoPast
         \/ promoPast' = promoPast \cup {[row |-> promoRow, until |-> promoNow]}
  PROVE  /\ \A p \in Pair : promoLookup[p] # Promo!Idle =>
              \A a : a = promoLookup[p] => Backed(a, a.at)'
         /\ \A p \in Pair : promoCache[p] # Promo!NotCached =>
              \A a : a = promoCache[p] => Backed(a, a.at - Latency)'
<1>0. Latency \in Nat
  BY DEF CatalogueAssumption, Promo!PromoAssumption
<1>1. ASSUME NEW p \in Pair, promoLookup[p] # Promo!Idle, NEW a, a = promoLookup[p]
      PROVE  Backed(a, a.at)'
  <2>1. a.at \in Nat /\ a.at <= promoNow /\ promoNow \in Nat /\ Backed(a, a.at)
    BY <1>1 DEF PromoInv
  <2>2. QED
    BY <2>1, StillBacked
<1>2. ASSUME NEW p \in Pair, promoCache[p] # Promo!NotCached, NEW a, a = promoCache[p]
      PROVE  Backed(a, a.at - Latency)'
  <2>1. /\ a.at - Latency \in Int /\ a.at - Latency <= promoNow /\ promoNow \in Nat
        /\ Backed(a, a.at - Latency)
    BY <1>0, <1>2 DEF PromoInv
  <2>2. QED
    BY <2>1, StillBacked
<1>3. QED
  BY <1>1, <1>2

\* A step that changes one lookup and one cache at most.
LEMMA PromoStepInv ==
  ASSUME CatalogueAssumption, PromoInv, NEW p \in Pair, promoNow' = promoNow,
         \/ promoRow' = promoRow /\ promoPast' = promoPast
         \/ promoPast' = promoPast \cup {[row |-> promoRow, until |-> promoNow]},
         NEW l, NEW c,
         promoLookup' = [promoLookup EXCEPT ![p] = l],
         promoCache' = [promoCache EXCEPT ![p] = c],
         \/ l = promoLookup[p] \/ l = Promo!Idle
         \/ l.at = promoNow /\ Backed(l, l.at)',
         \/ c = promoCache[p] \/ c = Promo!NotCached
         \/ c.at = promoNow /\ Backed(c, c.at - Latency)'
  PROVE  PromoInv'
<1>0. /\ promoLookup = [q \in Pair |-> promoLookup[q]]
      /\ promoCache = [q \in Pair |-> promoCache[q]]
      /\ promoNow \in Nat /\ Latency \in Nat
  BY DEF PromoInv, CatalogueAssumption, Promo!PromoAssumption
<1>1. ASSUME NEW q \in Pair, promoLookup'[q] # Promo!Idle
      PROVE  /\ promoLookup'[q].at \in Nat /\ promoLookup'[q].at <= promoNow
             /\ promoNow - promoLookup'[q].at <= Latency
             /\ Backed(promoLookup[q], promoLookup[q].at)'
  <2>1. CASE promoLookup'[q] = promoLookup[q]
    BY <1>1, <2>1, OthersBacked DEF PromoInv
  <2>2. CASE promoLookup'[q] # promoLookup[q]
    <3>1. q = p /\ promoLookup'[q] = l /\ l.at = promoNow /\ Backed(l, l.at)'
      BY <1>0, <1>1, <2>2
    <3>2. QED
      BY <1>0, <3>1
  <2>3. QED
    BY <2>1, <2>2
<1>2. ASSUME NEW q \in Pair, promoCache'[q] # Promo!NotCached
      PROVE  /\ promoCache'[q].at \in Nat /\ promoCache'[q].at <= promoNow
             /\ Backed(promoCache[q], promoCache[q].at - Latency)'
  <2>1. CASE promoCache'[q] = promoCache[q]
    BY <1>2, <2>1, OthersBacked DEF PromoInv
  <2>2. CASE promoCache'[q] # promoCache[q]
    <3>1. q = p /\ promoCache'[q] = c /\ c.at = promoNow /\ Backed(c, c.at - Latency)'
      BY <1>0, <1>2, <2>2
    <3>2. QED
      BY <1>0, <3>1
  <2>3. QED
    BY <2>1, <2>2
<1>3. \A w \in promoPast' : w.until \in Nat
  BY <1>0 DEF PromoInv
<1>4. /\ promoLookup' = [q \in Pair |-> promoLookup'[q]]
      /\ promoCache' = [q \in Pair |-> promoCache'[q]]
  BY <1>0
<1>5. QED
  BY <1>0, <1>1, <1>2, <1>3, <1>4 DEF PromoInv

\* An answer that arrives was asked for at most Latency before.
LEMMA StoredBacked ==
  ASSUME CatalogueAssumption, PromoInv, NEW p \in Pair, promoLookup[p] # Promo!Idle,
         NEW c, c.ok = promoLookup[p].ok, c.row = promoLookup[p].row
  PROVE  Backed(c, promoNow - Latency)
<1>1. PICK t \in Nat : /\ t = promoLookup[p].at /\ Backed(promoLookup[p], t)
                       /\ promoNow - t <= Latency
  BY DEF PromoInv
<1>2. promoNow \in Nat /\ Latency \in Nat /\ \A w \in promoPast : w.until \in Nat
  BY DEF PromoInv, CatalogueAssumption, Promo!PromoAssumption
<1>3. CurrentSince(t) \subseteq CurrentSince(promoNow - Latency)
  BY <1>1, <1>2 DEF CurrentSince
<1>4. QED
  BY <1>1, <1>3 DEF Backed

LEMMA PromoNext ==
  ASSUME CatalogueAssumption, PromoInv, Promo!Next
  PROVE  PromoInv'
<1> USE DEF promoNow, promoRow, promoPast, promoCache, promoLookup
<1>0. /\ promoLookup = [q \in Pair |-> promoLookup[q]]
      /\ promoCache = [q \in Pair |-> promoCache[q]]
      /\ promoNow \in Nat /\ Latency \in Nat
  BY DEF PromoInv, CatalogueAssumption, Promo!PromoAssumption
<1>1. ASSUME NEW p \in Pair, Promo!Query(p)
      PROVE  PromoInv'
  <2>1. PICK ok \in BOOLEAN :
          promoLookup' = [promoLookup EXCEPT ![p] =
            [step |-> "answer", ok |-> ok,
             row |-> IF ok THEN promoRow ELSE Promo!Off, at |-> promoNow]]
    BY <1>1 DEF Promo!Query
  <2>2. PICK l : l = [step |-> "answer", ok |-> ok,
                      row |-> IF ok THEN promoRow ELSE Promo!Off, at |-> promoNow]
    OBVIOUS
  <2>3. UNCHANGED <<promoNow, promoRow, promoPast, promoCache>>
    BY <1>1 DEF Promo!Query
  <2>4. l.at = promoNow /\ Backed(l, l.at)'
    BY <2>2, <2>3 DEF Backed, CurrentSince
  <2>5. promoCache' = [promoCache EXCEPT ![p] = promoCache[p]]
    BY <1>0, <2>3
  <2>6. QED
    BY <2>1, <2>2, <2>3, <2>4, <2>5, PromoStepInv
<1>2. ASSUME NEW p \in Pair, Promo!Store(p)
      PROVE  PromoInv'
  <2>1. PICK c : c = [ok |-> promoLookup[p].ok, row |-> promoLookup[p].row, at |-> promoNow]
    OBVIOUS
  <2>2. /\ promoLookup[p] # Promo!Idle
        /\ promoCache' = [promoCache EXCEPT ![p] = c]
        /\ promoLookup' = [promoLookup EXCEPT ![p] = Promo!Idle]
        /\ UNCHANGED <<promoNow, promoRow, promoPast>>
    BY <1>2, <2>1 DEF Promo!Store, Promo!Idle
  <2>3. c.at = promoNow /\ Backed(c, promoNow - Latency)
    BY <2>1, <2>2, StoredBacked
  <2>4. Backed(c, c.at - Latency)'
    BY <2>2, <2>3 DEF Backed, CurrentSince
  <2>5. QED
    BY <2>2, <2>3, <2>4, PromoStepInv
<1>3. ASSUME NEW p \in Pair, Promo!Validate(p)
      PROVE  PromoInv'
  BY <1>3 DEF Promo!Validate, PromoInv, Backed, CurrentSince
<1>4. ASSUME NEW p \in Pair, Promo!Write(p)
      PROVE  PromoInv'
  <2>1. /\ promoCache' = [promoCache EXCEPT ![p] = Promo!NotCached]
        /\ promoLookup' = [promoLookup EXCEPT ![p] = promoLookup[p]]
        /\ promoNow' = promoNow
    BY <1>0, <1>4 DEF Promo!Write
  <2>2. \/ promoRow' = promoRow /\ promoPast' = promoPast
        \/ promoPast' = promoPast \cup {[row |-> promoRow, until |-> promoNow]}
    BY <1>4 DEF Promo!Write
  <2>3. QED
    BY <2>1, <2>2, PromoStepInv
<1>5. ASSUME NEW p \in Pair, Promo!Restart(p)
      PROVE  PromoInv'
  <2>1. /\ promoCache' = [promoCache EXCEPT ![p] = Promo!NotCached]
        /\ promoLookup' = [promoLookup EXCEPT ![p] = Promo!Idle]
        /\ UNCHANGED <<promoNow, promoRow, promoPast>>
    BY <1>5 DEF Promo!Restart
  <2>2. QED
    BY <2>1, PromoStepInv
<1>6. CASE Promo!Tick
  <2>1. /\ promoNow' = promoNow + 1
        /\ UNCHANGED <<promoRow, promoPast, promoCache, promoLookup>>
        /\ \A p \in Pair : promoLookup[p] # Promo!Idle =>
             promoNow - promoLookup[p].at < Latency
    BY <1>6 DEF Promo!Tick
  <2>2. QED
    BY <1>0, <2>1 DEF PromoInv, Backed, CurrentSince
<1>7. QED
  BY <1>1, <1>2, <1>3, <1>4, <1>5, <1>6 DEF Promo!Next

LEMMA PromoMeans ==
  ASSUME CatalogueAssumption, PromoInv
  PROVE  Promo!AnswerWasTrueLately
<1> USE DEF promoNow, promoRow, promoPast, promoCache
<1>0. promoNow \in Nat /\ Latency \in Nat /\ TTL \in Nat
      /\ \A w \in promoPast : w.until \in Nat
  BY DEF PromoInv, CatalogueAssumption, Promo!PromoAssumption
<1>1. ASSUME NEW p \in Pair, Promo!Fresh(p)
      PROVE  \E r \in IF promoCache[p].ok THEN Promo!CurrentWithin(TTL + Latency)
                      ELSE {Promo!Off} :
               Promo!Active(p) <=> Promo!Covers(r, promoNow)
  <2>1. PICK t \in Int : t = promoCache[p].at - Latency /\ Backed(promoCache[p], t)
                         /\ promoNow < t + TTL + Latency
    BY <1>0, <1>1 DEF Promo!Fresh, PromoInv
  <2>2. CurrentSince(t) \subseteq Promo!CurrentWithin(TTL + Latency)
    BY <1>0, <2>1 DEF CurrentSince, Promo!CurrentWithin
  <2>3. promoCache[p].row \in IF promoCache[p].ok THEN Promo!CurrentWithin(TTL + Latency)
                              ELSE {Promo!Off}
    BY <2>1, <2>2 DEF Backed
  <2>4. Promo!Active(p) <=> Promo!Covers(promoCache[p].row, promoNow)
    BY <1>1 DEF Promo!Active
  <2>5. QED
    BY <2>3, <2>4
<1>2. QED
  BY <1>1 DEF Promo!AnswerWasTrueLately

-----------------------------------------------------------------------------
(***************************************************************************)
(* The promo: types.                                                       *)
(***************************************************************************)
promoWrites == s3
promoUpdate == s7

CachedTypes == {Promo!NotCached} \cup Promo!Stored
LookupTypes == {Promo!Idle} \cup
  [step : {"answer"}, ok : BOOLEAN, row : Promo!Row, at : Promo!Dates]
UpdateTypes == {Promo!Idle} \cup [step : {"write"}, input : Inputs, at : Promo!Dates]

PromoTyped ==
  /\ promoNow \in Promo!Dates /\ promoRow \in Promo!Row /\ promoWrites \in 0..Versions
  /\ promoPast \subseteq [row : Promo!Row, until : Promo!Dates]
  /\ promoCache \in [Pair -> CachedTypes]
  /\ promoLookup \in [Pair -> LookupTypes]
  /\ promoUpdate \in [Pair -> UpdateTypes]

LEMMA PromoTypes == ASSUME PromoTyped PROVE Promo!TypeOK
  BY Zenon DEF PromoTyped, CachedTypes, LookupTypes, UpdateTypes, Promo!TypeOK, promoNow, promoRow,
     promoWrites, promoPast, promoCache, promoLookup, promoUpdate

LEMMA PromoTypedInit == ASSUME CatalogueAssumption, Promo!Init PROVE PromoTyped
<1>1. PromoTime \in Nat /\ Versions \in Nat
  BY DEF CatalogueAssumption, Promo!PromoAssumption
<1>2. Promo!Off \in Promo!Row
  BY DEF Promo!Off, Promo!Row
<1>3. 0 \in Promo!Dates /\ 0 \in 0..Versions
  BY <1>1 DEF Promo!Dates
<1>4. QED
  BY <1>2, <1>3 DEF Promo!Init, PromoTyped, CachedTypes, LookupTypes, UpdateTypes, promoNow,
     promoRow, promoWrites, promoPast, promoCache, promoLookup, promoUpdate

\* What an admin sends on top of a row is a row.
LEMMA ChangedRow ==
  ASSUME CatalogueAssumption, NEW input \in Inputs, NEW r \in Promo!Row
  PROVE  Promo!Changed(r, input) \in Promo!Row
<1> DEFINE D == {"enabled", "startsAt", "endsAt"}
<1>1. Promo!Changed(Promo!Off, input) \in Promo!Row
  BY DEF CatalogueAssumption, Promo!PromoAssumption
<1>2. DOMAIN Promo!Off = D
  BY DEF Promo!Off
<1>3. PICK a \in BOOLEAN, b \in Promo!Dates \cup {None}, c \in Promo!Dates \cup {None} :
        Promo!Changed(Promo!Off, input) = [enabled |-> a, startsAt |-> b, endsAt |-> c]
  BY <1>1 DEF Promo!Row
<1>4. /\ "enabled" \in DOMAIN input => input["enabled"] = a
      /\ "startsAt" \in DOMAIN input => input["startsAt"] = b
      /\ "endsAt" \in DOMAIN input => input["endsAt"] = c
  <2>1. PICK g : g = Promo!Changed(Promo!Off, input)
    OBVIOUS
  <2>2. g = [f \in D |-> IF f \in DOMAIN input THEN input[f] ELSE Promo!Off[f]]
    BY <1>2, <2>1 DEF Promo!Changed
  <2>3. g["enabled"] = a /\ g["startsAt"] = b /\ g["endsAt"] = c
    BY <1>3, <2>1
  <2>4. QED
    BY <2>2, <2>3
<1>5. PICK x \in BOOLEAN, y \in Promo!Dates \cup {None}, z \in Promo!Dates \cup {None} :
        r = [enabled |-> x, startsAt |-> y, endsAt |-> z]
  BY DEF Promo!Row
<1>6. PICK w : w = Promo!Changed(r, input)
  OBVIOUS
<1>7. w = [f \in D |-> IF f \in DOMAIN input THEN input[f] ELSE r[f]]
  BY <1>5, <1>6 DEF Promo!Changed
<1>8. /\ w["enabled"] \in BOOLEAN
      /\ w["startsAt"] \in Promo!Dates \cup {None} /\ w["endsAt"] \in Promo!Dates \cup {None}
  BY <1>4, <1>5, <1>7
<1>9. w = [enabled |-> w["enabled"], startsAt |-> w["startsAt"], endsAt |-> w["endsAt"]]
  BY <1>7
<1>10. QED
  BY <1>6, <1>8, <1>9 DEF Promo!Row

LEMMA PromoTypedNext ==
  ASSUME CatalogueAssumption, PromoTyped, Promo!Next
  PROVE  PromoTyped'
<1> USE DEF promoNow, promoRow, promoPast, promoCache, promoLookup, promoWrites, promoUpdate
<1>1. /\ promoNow \in Promo!Dates /\ promoRow \in Promo!Row /\ promoWrites \in 0..Versions
      /\ promoPast \subseteq [row : Promo!Row, until : Promo!Dates]
      /\ promoCache \in [Pair -> CachedTypes]
      /\ promoLookup \in [Pair -> LookupTypes]
      /\ promoUpdate \in [Pair -> UpdateTypes]
      /\ Promo!Off \in Promo!Row
  BY DEF PromoTyped, Promo!Off, Promo!Row
<1>2. ASSUME NEW p \in Pair, Promo!Query(p) PROVE PromoTyped'
  <2>1. PICK ok \in BOOLEAN :
          promoLookup' = [promoLookup EXCEPT ![p] =
            [step |-> "answer", ok |-> ok,
             row |-> IF ok THEN promoRow ELSE Promo!Off, at |-> promoNow]]
    BY <1>2 DEF Promo!Query
  <2>2. [step |-> "answer", ok |-> ok,
         row |-> IF ok THEN promoRow ELSE Promo!Off, at |-> promoNow] \in LookupTypes
    BY <1>1 DEF LookupTypes
  <2>3. promoLookup' \in [Pair -> LookupTypes]
    BY <1>1, <2>1, <2>2
  <2>4. QED
    BY <1>1, <1>2, <2>3 DEF Promo!Query, PromoTyped
<1>3. ASSUME NEW p \in Pair, Promo!Store(p) PROVE PromoTyped'
  <2>1. PICK c : /\ c = [ok |-> promoLookup[p].ok, row |-> promoLookup[p].row, at |-> promoNow]
                 /\ promoCache' = [promoCache EXCEPT ![p] = c]
                 /\ promoLookup' = [promoLookup EXCEPT ![p] = Promo!Idle]
                 /\ UNCHANGED <<promoNow, promoRow, promoWrites, promoPast, promoUpdate>>
                 /\ promoLookup[p].step = "answer"
    BY <1>3 DEF Promo!Store
  <2>2. PICK l \in LookupTypes : l = promoLookup[p]
    BY <1>1
  <2>3. l.ok \in BOOLEAN /\ l.row \in Promo!Row
    BY <2>1, <2>2 DEF LookupTypes, Promo!Idle
  <2>4. c \in CachedTypes /\ Promo!Idle \in LookupTypes
    BY <1>1, <2>1, <2>2, <2>3 DEF CachedTypes, Promo!Stored, LookupTypes
  <2>5. promoCache' \in [Pair -> CachedTypes] /\ promoLookup' \in [Pair -> LookupTypes]
    BY <1>1, <2>1, <2>4
  <2>6. QED
    BY <1>1, <2>1, <2>5 DEF PromoTyped
<1>4. ASSUME NEW p \in Pair, Promo!Validate(p) PROVE PromoTyped'
  <2>1. PICK input \in Inputs :
          promoUpdate' = [promoUpdate EXCEPT ![p] =
            [step |-> "write", input |-> input, at |-> promoNow]]
    BY <1>4, Zenon DEF Promo!Validate
  <2>2. [step |-> "write", input |-> input, at |-> promoNow] \in UpdateTypes
    BY <1>1 DEF UpdateTypes
  <2>3. promoUpdate' \in [Pair -> UpdateTypes]
    BY <1>1, <2>1, <2>2
  <2>4. UNCHANGED <<promoNow, promoRow, promoWrites, promoPast, promoCache, promoLookup>>
    BY <1>4 DEF Promo!Validate
  <2>5. QED
    BY <1>1, <2>3, <2>4 DEF PromoTyped
<1>5. ASSUME NEW p \in Pair, Promo!Write(p) PROVE PromoTyped'
  <2>1. PICK new :
          /\ new = Promo!Changed(promoRow, promoUpdate[p].input)
          /\ promoUpdate[p].step = "write" /\ promoWrites < Versions
          /\ promoRow' = new
          /\ \/ promoPast' = promoPast
             \/ promoPast' = promoPast \cup {[row |-> promoRow, until |-> promoNow]}
          /\ promoWrites' = promoWrites + 1
          /\ promoCache' = [promoCache EXCEPT ![p] = Promo!NotCached]
          /\ promoUpdate' = [promoUpdate EXCEPT ![p] = Promo!Idle]
          /\ UNCHANGED <<promoNow, promoLookup>>
    BY <1>5 DEF Promo!Write
  <2>2. PICK u \in UpdateTypes : u = promoUpdate[p]
    BY <1>1
  <2>3. u.input \in Inputs
    BY <2>1, <2>2 DEF UpdateTypes, Promo!Idle
  <2>4. promoRow' \in Promo!Row
    BY <1>1, <2>1, <2>2, <2>3, ChangedRow
  <2>5. [row |-> promoRow, until |-> promoNow] \in [row : Promo!Row, until : Promo!Dates]
    BY <1>1
  <2>6. promoPast' \subseteq [row : Promo!Row, until : Promo!Dates]
    BY <1>1, <2>1, <2>5
  <2>7. promoWrites' \in 0..Versions
    <3>1. Versions \in Nat
      BY DEF CatalogueAssumption, Promo!PromoAssumption
    <3>2. QED
      BY <1>1, <2>1, <3>1
  <2>8. Promo!NotCached \in CachedTypes /\ Promo!Idle \in UpdateTypes
    BY DEF CachedTypes, UpdateTypes
  <2>9. promoCache' \in [Pair -> CachedTypes] /\ promoUpdate' \in [Pair -> UpdateTypes]
    BY <1>1, <2>1, <2>8
  <2>10. QED
    BY <1>1, <2>1, <2>4, <2>6, <2>7, <2>9 DEF PromoTyped
<1>6. ASSUME NEW p \in Pair, Promo!Restart(p) PROVE PromoTyped'
  <2>1. /\ promoCache' = [promoCache EXCEPT ![p] = Promo!NotCached]
        /\ promoLookup' = [promoLookup EXCEPT ![p] = Promo!Idle]
        /\ promoUpdate' = [promoUpdate EXCEPT ![p] = Promo!Idle]
        /\ UNCHANGED <<promoNow, promoRow, promoWrites, promoPast>>
    BY <1>6 DEF Promo!Restart
  <2>2. /\ Promo!NotCached \in CachedTypes /\ Promo!Idle \in LookupTypes
        /\ Promo!Idle \in UpdateTypes
    BY DEF CachedTypes, LookupTypes, UpdateTypes
  <2>3. /\ promoCache' \in [Pair -> CachedTypes] /\ promoLookup' \in [Pair -> LookupTypes]
        /\ promoUpdate' \in [Pair -> UpdateTypes]
    BY <1>1, <2>1, <2>2
  <2>4. QED
    BY <1>1, <2>1, <2>3 DEF PromoTyped
<1>7. CASE Promo!Tick
  <2>1. /\ promoNow < PromoTime /\ promoNow' = promoNow + 1
        /\ UNCHANGED <<promoRow, promoWrites, promoPast, promoCache, promoLookup, promoUpdate>>
    BY <1>7 DEF Promo!Tick
  <2>2. promoNow' \in Promo!Dates
    BY <1>1, <2>1 DEF Promo!Dates, CatalogueAssumption, Promo!PromoAssumption
  <2>3. QED
    BY <1>1, <2>1, <2>2 DEF PromoTyped
<1>8. QED
  BY <1>2, <1>3, <1>4, <1>5, <1>6, <1>7 DEF Promo!Next

-----------------------------------------------------------------------------
(***************************************************************************)
(* Who hears that a listing got cheaper.                                   *)
(***************************************************************************)
priceRow == s1
priceCalls == s3
priceEnded == s4

\* Rounding as the code does is what the buyer pays.
LEMMA RoundsWell ==
  ASSUME NEW e \in Nat, NEW top \in Nat, e <= 100 * top
  PROVE  (CHOOSE n \in 0..top : 100 * n - 50 <= e /\ e < 100 * n + 50) = (e + 50) \div 100
<1>1. PICK q \in Int : q = (e + 50) \div 100
  OBVIOUS
<1>2. 100 * q <= e + 50 /\ e + 50 < 100 * q + 100
  BY <1>1
<1>3. q \in 0..top
  BY <1>2
<1>4. \A n \in 0..top : 100 * n - 50 <= e /\ e < 100 * n + 50 <=> n = q
  BY <1>2
<1>5. QED
  BY <1>1, <1>3, <1>4

LEMMA PaysEffective ==
  ASSUME CatalogueAssumption, NEW r \in Prices!Rows
  PROVE  /\ Prices!effectivePrice(r) = Prices!Pays(r)
         /\ Prices!effectivePrice(r) \in Int
<1>1. PICK price \in Nat, left \in 0..100 : price = r.price /\ left = 100 - r.discount
  <2>1. r.price \in Nat /\ r.discount \in 0..100
    BY DEF CatalogueAssumption, Prices!PriceAssumption, Prices!Rows
  <2>2. 100 - r.discount \in 0..100
    BY <2>1
  <2>3. QED
    BY <2>1, <2>2
<1>2. PICK e \in Nat : e = price * left /\ e <= 100 * price
  <2>1. price * left \in Nat /\ price * left <= 100 * price
    OBVIOUS
  <2>2. QED
    BY <2>1
<1>3. Prices!effectivePrice(r) = (e + 50) \div 100
  BY <1>1, <1>2 DEF Prices!effectivePrice
<1>4. Prices!Pays(r) = CHOOSE n \in 0..price : 100 * n - 50 <= e /\ e < 100 * n + 50
  BY <1>1, <1>2 DEF Prices!Pays
<1>5. QED
  BY <1>2, <1>3, <1>4, RoundsWell

\* Who has not been overtaken decides on the row there is, and announces what
\* fell.
Deciding == [step : {"write"}, read : Prices!Rows, stale : BOOLEAN]
Announcing == [step : {"stamp", "emit"}, fell : BOOLEAN, stale : BOOLEAN]
PriceCall(m) ==
  \/ m = Prices!Idle
  \/ m \in Deciding /\ (m.stale \/ m.read = priceRow)
  \/ m \in Announcing /\ (m.stale \/ m.fell)

PriceInv ==
  /\ priceRow \in Prices!Rows
  /\ priceCalls = [c \in Pair |-> priceCalls[c]]
  /\ \A c \in Pair : PriceCall(priceCalls[c])
  /\ Prices!ToldIffCheaper

LEMMA PriceInit == ASSUME Prices!Init PROVE PriceInv
  BY DEF Prices!Init, PriceInv, PriceCall, Prices!ToldIffCheaper, priceRow, priceCalls

\* A write overtakes whoever has read the row and not written yet.
Overtaken(m) == IF m.step = "write" THEN [m EXCEPT !.stale = TRUE] ELSE m

LEMMA OvertakenCall ==
  ASSUME NEW m, PriceCall(m), NEW n, n = Overtaken(m)
  PROVE  PriceCall(n)'
<1>1. CASE m \in Deciding
  <2>1. n \in Deciding /\ n.stale
    BY <1>1 DEF Deciding, Overtaken
  <2>2. QED
    BY <2>1 DEF PriceCall
<1>2. CASE m \in Announcing
  <2>1. n = m
    BY <1>2 DEF Announcing, Overtaken
  <2>2. m.stale \/ m.fell
    BY <1>2 DEF PriceCall, Announcing, Deciding, Prices!Idle
  <2>3. QED
    BY <1>2, <2>1, <2>2 DEF PriceCall
<1>3. CASE m = Prices!Idle
  <2>1. n = m
    BY <1>3 DEF Overtaken, Prices!Idle
  <2>2. QED
    BY <1>3, <2>1 DEF PriceCall
<1>4. QED
  BY <1>1, <1>2, <1>3 DEF PriceCall

LEMMA SameCall ==
  ASSUME NEW m, PriceCall(m), priceRow' = priceRow
  PROVE  PriceCall(m)'
  BY DEF PriceCall

\* The call of one update, when the others stay or are overtaken.
LEMMA PriceStepInv ==
  ASSUME PriceInv, NEW c \in Pair, NEW m, PriceCall(m)',
         priceRow' \in Prices!Rows,
         priceCalls' = [d \in Pair |-> priceCalls'[d]],
         priceCalls'[c] = m,
         \A d \in Pair : d # c =>
           \/ priceCalls'[d] = priceCalls[d] /\ priceRow' = priceRow
           \/ priceCalls'[d] = Overtaken(priceCalls[d]),
         Prices!ToldIffCheaper'
  PROVE  PriceInv'
<1>1. ASSUME NEW d \in Pair
      PROVE  PriceCall(priceCalls[d])'
  <2>1. PICK n : n = priceCalls'[d]
    OBVIOUS
  <2>2. PICK old : old = priceCalls[d]
    OBVIOUS
  <2>3. PriceCall(old)
    BY <2>2 DEF PriceInv
  <2>4. PriceCall(n)'
    <3>1. CASE d = c
      <4>1. n = m
        BY <2>1, <3>1
      <4>2. QED
        BY <4>1
    <3>2. CASE d # c /\ n = old /\ priceRow' = priceRow
      BY <2>3, <3>2, SameCall
    <3>3. CASE d # c /\ n = Overtaken(old)
      BY <2>3, <3>3, OvertakenCall
    <3>4. QED
      BY <2>1, <2>2, <3>1, <3>2, <3>3
  <2>5. QED
    BY <2>1, <2>4 DEF PriceCall
<1>2. QED
  BY <1>1 DEF PriceInv

LEMMA PriceNext ==
  ASSUME CatalogueAssumption, PriceInv, Prices!Next
  PROVE  PriceInv'
<1> USE DEF priceRow, priceCalls, priceEnded
<1>0. /\ priceRow \in Prices!Rows /\ priceCalls = [d \in Pair |-> priceCalls[d]]
      /\ Prices!Idle.step = "idle"
      /\ \A c \in Pair : PriceCall(priceCalls[c])
  BY DEF PriceInv, Prices!Idle
<1>1. ASSUME NEW c \in Pair, Prices!Find(c)
      PROVE  PriceInv'
  <2>1. PICK m : m = [step |-> "write", read |-> priceRow, stale |-> FALSE]
    OBVIOUS
  <2>2. PriceCall(m)'
    BY <1>0, <1>1, <2>1 DEF PriceCall, Deciding, Prices!Find
  <2>3. /\ priceCalls' = [priceCalls EXCEPT ![c] = m]
        /\ UNCHANGED <<priceRow, priceEnded>>
    BY <1>1, <2>1 DEF Prices!Find
  <2>4. /\ priceCalls' = [d \in Pair |-> priceCalls'[d]] /\ priceCalls'[c] = m
        /\ \A d \in Pair : d # c => priceCalls'[d] = priceCalls[d]
    BY <1>0, <2>3
  <2>5. Prices!ToldIffCheaper'
    BY <2>3 DEF PriceInv, Prices!ToldIffCheaper
  <2>6. QED
    BY <1>0, <2>2, <2>3, <2>4, <2>5, PriceStepInv
<1>2. ASSUME NEW c \in Pair, NEW new \in Prices!Rows, Prices!Write(c, new)
      PROVE  PriceInv'
  <2>1. /\ priceCalls[c] \in Deciding
        /\ priceCalls[c].stale \/ priceCalls[c].read = priceRow
    BY <1>0, <1>2 DEF Prices!Write, PriceCall, Announcing
  <2>2. PICK fell \in BOOLEAN : fell = (Prices!Pays(new) < Prices!Pays(priceRow))
    <3>1. (Prices!Pays(new) < Prices!Pays(priceRow)) \in BOOLEAN
      BY <1>0, PaysEffective
    <3>2. QED
      BY <3>1, Zenon
  <2>3. priceCalls[c].stale \/ (Prices!Cheaper(new, priceCalls[c].read) <=> fell)
    BY <1>0, <2>1, <2>2, PaysEffective DEF Prices!Cheaper
  <2>4. priceRow' = new
    BY <1>2 DEF Prices!Write
  <2>5. PICK m : m = IF Prices!Cheaper(new, priceCalls[c].read)
                     THEN [step |-> "stamp", fell |-> fell, stale |-> priceCalls[c].stale]
                     ELSE Prices!Idle
    OBVIOUS
  <2>6. priceCalls' = [Prices!Outdated(c) EXCEPT ![c] = m]
    BY <1>2, <2>2, <2>5 DEF Prices!Write
  <2>7. /\ priceCalls' = [d \in Pair |-> priceCalls'[d]] /\ priceCalls'[c] = m
        /\ \A d \in Pair : d # c => priceCalls'[d] = Overtaken(priceCalls[d])
    BY <2>6 DEF Prices!Outdated, Overtaken
  <2>8. PriceCall(m)'
    BY <2>1, <2>3, <2>5 DEF PriceCall, Announcing, Deciding
  <2>9. Prices!ToldIffCheaper'
    <3>1. CASE Prices!Cheaper(new, priceCalls[c].read)
      BY <1>2, <3>1 DEF Prices!Write, PriceInv, Prices!ToldIffCheaper
    <3>2. CASE ~Prices!Cheaper(new, priceCalls[c].read)
      <4>1. priceEnded' = [fell |-> fell, told |-> FALSE,
                           stale |-> priceCalls[c].stale, failed |-> FALSE]
        BY <1>2, <2>2, <3>2 DEF Prices!Write, Prices!Finish
      <4>2. QED
        BY <2>3, <3>2, <4>1 DEF Prices!ToldIffCheaper
    <3>3. QED
      BY <3>1, <3>2
  <2>10. QED
    BY <1>2, <2>4, <2>7, <2>8, <2>9, PriceStepInv
<1>3. ASSUME NEW c \in Pair, Prices!Stamp(c)
      PROVE  PriceInv'
  <2>1. priceCalls[c] \in Announcing /\ (priceCalls[c].stale \/ priceCalls[c].fell)
    BY <1>0, <1>3 DEF Prices!Stamp, PriceCall, Deciding
  <2>2. PICK m : m = [priceCalls[c] EXCEPT !.step = "emit"]
    OBVIOUS
  <2>3. /\ priceCalls' = [priceCalls EXCEPT ![c] = m]
        /\ UNCHANGED <<priceRow, priceEnded>>
    BY <1>3, <2>2 DEF Prices!Stamp
  <2>4. PriceCall(m)'
    BY <2>1, <2>2 DEF PriceCall, Announcing
  <2>5. /\ priceCalls' = [d \in Pair |-> priceCalls'[d]] /\ priceCalls'[c] = m
        /\ \A d \in Pair : d # c => priceCalls'[d] = priceCalls[d]
    BY <1>0, <2>3
  <2>6. Prices!ToldIffCheaper'
    BY <2>3 DEF PriceInv, Prices!ToldIffCheaper
  <2>7. QED
    BY <1>0, <2>3, <2>4, <2>5, <2>6, PriceStepInv
<1>4. ASSUME NEW c \in Pair, Prices!Emit(c) \/ Prices!Fail(c)
      PROVE  PriceInv'
  <2>1. /\ priceCalls' = [priceCalls EXCEPT ![c] = Prices!Idle]
        /\ priceRow' = priceRow
    BY <1>4 DEF Prices!Emit, Prices!Fail
  <2>2. /\ priceCalls' = [d \in Pair |-> priceCalls'[d]] /\ priceCalls'[c] = Prices!Idle
        /\ \A d \in Pair : d # c => priceCalls'[d] = priceCalls[d]
    BY <1>0, <2>1
  <2>3. Prices!ToldIffCheaper'
    <3>1. CASE Prices!Emit(c)
      <4>1. priceCalls[c] \in Announcing /\ (priceCalls[c].stale \/ priceCalls[c].fell)
        BY <1>0, <3>1 DEF Prices!Emit, PriceCall, Deciding
      <4>2. priceEnded' = [fell |-> priceCalls[c].fell, told |-> TRUE,
                           stale |-> priceCalls[c].stale, failed |-> FALSE]
        BY <3>1 DEF Prices!Emit, Prices!Finish
      <4>3. priceCalls[c].fell \in BOOLEAN /\ priceCalls[c].stale \in BOOLEAN
        BY <4>1 DEF Announcing
      <4>4. QED
        BY <4>1, <4>2, <4>3 DEF Prices!ToldIffCheaper
    <3>2. CASE Prices!Fail(c)
      BY <3>2 DEF Prices!Fail, Prices!Finish, Prices!ToldIffCheaper
    <3>3. QED
      BY <1>4, <3>1, <3>2
  <2>4. PriceCall(Prices!Idle)'
    BY DEF PriceCall, Prices!Idle
  <2>5. QED
    BY <1>0, <2>1, <2>2, <2>3, <2>4, PriceStepInv
<1>5. ASSUME NEW new \in Prices!Rows, Prices!adminUpdate(new)
      PROVE  PriceInv'
  <2>1. /\ priceRow' = new /\ UNCHANGED priceEnded
        /\ priceCalls' = [d \in Pair |-> Overtaken(priceCalls[d])]
    BY <1>5 DEF Prices!adminUpdate, Overtaken
  <2>2. ASSUME NEW d \in Pair
        PROVE  PriceCall(priceCalls[d])'
    <3>1. PICK n : n = priceCalls'[d]
      OBVIOUS
    <3>2. PriceCall(n)'
      BY <1>0, <2>1, <3>1, OvertakenCall
    <3>3. QED
      BY <3>1, <3>2 DEF PriceCall
  <2>3. Prices!ToldIffCheaper'
    BY <2>1 DEF PriceInv, Prices!ToldIffCheaper
  <2>4. QED
    BY <2>1, <2>2, <2>3 DEF PriceInv
<1>6. CASE Prices!Expire
  BY <1>6 DEF Prices!Expire, PriceInv, PriceCall, Prices!ToldIffCheaper
<1>7. QED
  BY <1>1, <1>2, <1>3, <1>4, <1>5, <1>6 DEF Prices!Next

-----------------------------------------------------------------------------
(***************************************************************************)
(* Prices: types.                                                          *)
(***************************************************************************)
priceReduced == s2

CallTypes == {Prices!Idle} \cup Deciding \cup Announcing

PriceTyped ==
  /\ priceRow \in Prices!Rows /\ priceReduced \in BOOLEAN
  /\ priceCalls \in [Pair -> CallTypes] /\ priceEnded \in Prices!Outcome

LEMMA PriceTypes == ASSUME PriceTyped PROVE Prices!TypeOK
<1>1. priceCalls \in [Pair -> {Prices!Idle}
        \cup [step : {"write"}, read : Prices!Rows, stale : BOOLEAN]
        \cup [step : {"stamp", "emit"}, fell : BOOLEAN, stale : BOOLEAN]]
  BY Zenon DEF PriceTyped, CallTypes, Deciding, Announcing
<1>2. QED
  BY <1>1, Zenon DEF PriceTyped, Prices!TypeOK, priceRow, priceReduced, priceCalls, priceEnded

LEMMA PriceTypedInit == ASSUME Prices!Init PROVE PriceTyped
  BY DEF Prices!Init, PriceTyped, CallTypes, Prices!Outcome, priceRow, priceReduced, priceCalls,
     priceEnded

LEMMA PriceTypedNext ==
  ASSUME CatalogueAssumption, PriceTyped, Prices!Next
  PROVE  PriceTyped'
<1> USE DEF priceRow, priceReduced, priceCalls, priceEnded
<1>1. /\ priceRow \in Prices!Rows /\ priceReduced \in BOOLEAN
      /\ priceCalls \in [Pair -> CallTypes] /\ priceEnded \in Prices!Outcome
      /\ Prices!Idle \in CallTypes
  BY DEF PriceTyped, CallTypes
<1>2. \A m \in CallTypes : /\ m.step = "write" => m \in Deciding
                           /\ m.step \in {"stamp", "emit"} => m \in Announcing
                           /\ m # Prices!Idle => m \in Deciding \cup Announcing
  BY DEF CallTypes, Deciding, Announcing, Prices!Idle
<1>3. ASSUME NEW m \in CallTypes
      PROVE  (IF m.step = "write" THEN [m EXCEPT !.stale = TRUE] ELSE m) \in CallTypes
  BY <1>2, <1>3 DEF Deciding, CallTypes
<1>4. \A m \in Deciding \cup Announcing : m.stale \in BOOLEAN
  BY DEF Deciding, Announcing
<1>5. ASSUME NEW c \in Pair, Prices!Find(c) PROVE PriceTyped'
  <2>1. [step |-> "write", read |-> priceRow, stale |-> FALSE] \in CallTypes
    BY <1>1 DEF CallTypes, Deciding
  <2>2. priceCalls' \in [Pair -> CallTypes]
    BY <1>1, <1>5, <2>1 DEF Prices!Find
  <2>3. QED
    BY <1>1, <1>5, <2>2 DEF Prices!Find, PriceTyped
<1>6. ASSUME NEW c \in Pair, NEW new \in Prices!Rows, Prices!Write(c, new) PROVE PriceTyped'
  <2>1. PICK m \in Deciding : m = priceCalls[c]
    BY <1>1, <1>2, <1>6 DEF Prices!Write
  <2>2. PICK fell \in BOOLEAN : fell = (Prices!Pays(new) < Prices!Pays(priceRow))
    <3>1. PICK x \in Int, y \in Int : x = Prices!Pays(new) /\ y = Prices!Pays(priceRow)
      BY <1>1, PaysEffective
    <3>2. (x < y) \in BOOLEAN
      OBVIOUS
    <3>3. QED
      BY <3>1, <3>2
  <2>3. PICK w : w = Prices!Outdated(c)
    OBVIOUS
  <2>4. w \in [Pair -> CallTypes]
    <3>1. ASSUME NEW d \in Pair PROVE w[d] \in CallTypes
      <4>1. PICK n \in CallTypes : n = priceCalls[d]
        BY <1>1
      <4>2. w[d] = n \/ w[d] = (IF n.step = "write" THEN [n EXCEPT !.stale = TRUE] ELSE n)
        BY <2>3, <4>1 DEF Prices!Outdated
      <4>3. QED
        BY <1>3, <4>2
    <3>2. w = [d \in Pair |-> w[d]]
      BY <2>3 DEF Prices!Outdated
    <3>3. QED
      BY <3>1, <3>2
  <2>5. m.stale \in BOOLEAN
    BY <1>4, <2>1
  <2>6. [step |-> "stamp", fell |-> fell, stale |-> m.stale] \in CallTypes
    BY <2>5 DEF CallTypes, Announcing
  <2>7. /\ \/ /\ priceCalls' = [w EXCEPT ![c] =
                   [step |-> "stamp", fell |-> fell, stale |-> m.stale]]
              /\ priceEnded' = priceEnded
           \/ /\ priceCalls' = [w EXCEPT ![c] = Prices!Idle]
              /\ priceEnded' = [fell |-> fell, told |-> FALSE, stale |-> m.stale,
                                failed |-> FALSE]
        /\ priceRow' = new /\ priceReduced' = priceReduced
    BY <1>6, <2>1, <2>2, <2>3 DEF Prices!Write, Prices!Finish
  <2>8. priceCalls' \in [Pair -> CallTypes]
    BY <1>1, <2>4, <2>6, <2>7
  <2>9. priceEnded' \in Prices!Outcome
    <3>1. [fell |-> fell, told |-> FALSE, stale |-> m.stale, failed |-> FALSE] \in Prices!Outcome
      BY <2>5 DEF Prices!Outcome
    <3>2. QED
      BY <1>1, <2>7, <3>1
  <2>10. QED
    BY <1>1, <2>7, <2>8, <2>9 DEF PriceTyped
<1>7. ASSUME NEW c \in Pair, Prices!Stamp(c) PROVE PriceTyped'
  <2>1. PICK m \in Announcing : m = priceCalls[c]
    BY <1>1, <1>2, <1>7 DEF Prices!Stamp
  <2>2. [m EXCEPT !.step = "emit"] \in CallTypes
    BY DEF Announcing, CallTypes
  <2>3. priceCalls' = [priceCalls EXCEPT ![c] = [m EXCEPT !.step = "emit"]]
    BY <1>7, <2>1 DEF Prices!Stamp
  <2>4. priceCalls' \in [Pair -> CallTypes]
    BY <1>1, <2>2, <2>3
  <2>5. QED
    BY <1>1, <1>7, <2>4 DEF Prices!Stamp, PriceTyped
<1>8. ASSUME NEW c \in Pair, Prices!Emit(c) PROVE PriceTyped'
  <2>1. PICK m \in Announcing : m = priceCalls[c]
    BY <1>1, <1>2, <1>8 DEF Prices!Emit
  <2>2. m.fell \in BOOLEAN /\ m.stale \in BOOLEAN
    BY DEF Announcing
  <2>3. priceCalls' \in [Pair -> CallTypes]
    BY <1>1, <1>8 DEF Prices!Emit
  <2>4. priceEnded' \in Prices!Outcome
    BY <1>8, <2>1, <2>2 DEF Prices!Emit, Prices!Finish, Prices!Outcome
  <2>5. QED
    BY <1>1, <1>8, <2>3, <2>4 DEF Prices!Emit, PriceTyped
<1>9. ASSUME NEW c \in Pair, Prices!Fail(c) PROVE PriceTyped'
  <2>1. PICK m \in Deciding \cup Announcing : m = priceCalls[c]
    BY <1>1, <1>2, <1>9 DEF Prices!Fail
  <2>2. m.stale \in BOOLEAN /\ (m.step # "write" => m.fell \in BOOLEAN)
    BY DEF Announcing, Deciding
  <2>3. priceCalls' \in [Pair -> CallTypes]
    BY <1>1, <1>9 DEF Prices!Fail
  <2>4. PICK fell \in BOOLEAN : fell = (m.step # "write" /\ m.fell)
    OBVIOUS
  <2>5. priceEnded' = [fell |-> fell, told |-> FALSE, stale |-> m.stale, failed |-> TRUE]
    BY <1>9, <2>1, <2>4 DEF Prices!Fail, Prices!Finish
  <2>6. QED
    BY <1>1, <1>9, <2>2, <2>3, <2>5 DEF Prices!Fail, PriceTyped, Prices!Outcome
<1>10. ASSUME NEW new \in Prices!Rows, Prices!adminUpdate(new) PROVE PriceTyped'
  <2>1. ASSUME NEW d \in Pair PROVE priceCalls'[d] \in CallTypes
    <3>1. PICK n \in CallTypes : n = priceCalls[d]
      BY <1>1
    <3>2. priceCalls'[d] = (IF n.step = "write" THEN [n EXCEPT !.stale = TRUE] ELSE n)
      BY <1>10, <3>1 DEF Prices!adminUpdate
    <3>3. QED
      BY <1>3, <3>2
  <2>2. priceCalls' = [d \in Pair |-> priceCalls'[d]]
    BY <1>10 DEF Prices!adminUpdate
  <2>3. priceCalls' \in [Pair -> CallTypes]
    BY <2>1, <2>2
  <2>4. QED
    BY <1>1, <1>10, <2>3 DEF Prices!adminUpdate, PriceTyped
<1>11. ASSUME Prices!Expire PROVE PriceTyped'
  BY <1>1, <1>11 DEF Prices!Expire, PriceTyped
<1>12. QED
  BY <1>5, <1>6, <1>7, <1>8, <1>9, <1>10, <1>11 DEF Prices!Next

-----------------------------------------------------------------------------
(***************************************************************************)
(* The hourly job: it never moved a listing up later than the listing      *)
(* says, and no listing's time lies ahead of the clock.                    *)
(***************************************************************************)
jobNow == s1
jobProducts == s4
jobPass == s10
jobSlotBump == s11

JobShape ==
  /\ jobNow \in Int
  /\ jobProducts = [p \in Pooled |-> jobProducts[p]]
  /\ \A p \in Pooled : /\ jobProducts[p] = [status |-> jobProducts[p].status,
                                            bumpedAt |-> jobProducts[p].bumpedAt]
                       /\ jobProducts[p].bumpedAt \in Int
  /\ jobSlotBump = [p \in Pooled |-> jobSlotBump[p]]
  /\ \A p \in Pooled : jobSlotBump[p] \in Int
  /\ \/ jobPass = Job!Idle
     \/ jobPass = [step |-> "boosted"]
     \/ /\ jobPass.step \in {"find", "update"}
        /\ jobPass = [step |-> jobPass.step, cadence |-> jobPass.cadence,
                      found |-> jobPass.found]

\* What the job has found is due: also after others moved it up.
JobInv ==
  /\ JobShape
  /\ \A p \in Pooled : /\ jobSlotBump[p] <= jobProducts[p].bumpedAt
                       /\ jobProducts[p].bumpedAt <= jobNow
  /\ jobPass.step = "update" => \A p \in Pooled : p \in jobPass.found =>
       jobSlotBump[p] < jobNow - Job!Period(jobPass.cadence)

LEMMA PeriodInt ==
  ASSUME CatalogueAssumption, NEW cadence
  PROVE  Job!Period(cadence) \in Nat
  BY DEF CatalogueAssumption, Job!PeriodAssumption, Job!Period

LEMMA JobInit == ASSUME CatalogueAssumption, Job!Init PROVE JobInv
<1>1. WEEK \in Nat
  BY DEF CatalogueAssumption, Job!PeriodAssumption
<1>2. Job!Never \in Int /\ Job!Never <= 0
  BY <1>1 DEF Job!Never
<1>3. QED
  BY <1>2 DEF Job!Init, JobInv, JobShape, Job!Idle, jobNow, jobProducts, jobPass, jobSlotBump

\* Whatever moves listings up moves them to now.
LEMMA JobMoves ==
  ASSUME JobInv, NEW ps, Job!Bump(ps)
  PROVE  /\ jobProducts' = [p \in Pooled |-> jobProducts'[p]]
         /\ \A p \in Pooled :
              /\ jobProducts'[p] = [status |-> jobProducts[p].status,
                                    bumpedAt |-> jobProducts'[p].bumpedAt]
              /\ jobProducts'[p].bumpedAt = IF p \in ps THEN jobNow ELSE jobProducts[p].bumpedAt
  BY DEF JobInv, JobShape, Job!Bump, jobNow, jobProducts

\* What is due to the job concerns the listings' times alone.
LEMMA JobKeeps ==
  ASSUME JobInv, UNCHANGED <<jobNow, jobSlotBump>>,
         \/ UNCHANGED jobPass
         \/ jobPass' = Job!Idle
         \/ jobPass' = [step |-> "find", cadence |-> "DAILY", found |-> {}],
         jobProducts' = [p \in Pooled |-> jobProducts'[p]],
         \A p \in Pooled :
           /\ jobProducts'[p] = [status |-> jobProducts'[p].status,
                                 bumpedAt |-> jobProducts'[p].bumpedAt]
           /\ jobProducts'[p].bumpedAt \in {jobProducts[p].bumpedAt, jobNow}
  PROVE  JobInv'
<1>1. JobShape'
  BY DEF JobInv, JobShape, Job!Idle
<1>2. \A p \in Pooled : jobSlotBump'[p] <= jobProducts'[p].bumpedAt
                        /\ jobProducts'[p].bumpedAt <= jobNow'
  BY DEF JobInv, JobShape
<1>3. (jobPass.step = "update" => \A p \in Pooled : p \in jobPass.found =>
         jobSlotBump[p] < jobNow - Job!Period(jobPass.cadence))'
  BY DEF JobInv, Job!Idle, Job!Period
<1>4. QED
  BY <1>1, <1>2, <1>3 DEF JobInv

LEMMA JobFinds ==
  ASSUME CatalogueAssumption, JobInv, Job!FindSlots
  PROVE  JobInv'
<1> USE DEF jobNow, jobProducts, jobPass, jobSlotBump
<1>1. PICK found : found = {r.product : r \in {s \in s6 :
             /\ s.cadence = jobPass.cadence
             /\ jobProducts[s.product].status = "active"
             /\ jobProducts[s.product].bumpedAt < jobNow - Job!Period(jobPass.cadence)
             /\ \/ s3.active /\ s3.unlockAutoBump
                \/ s2 = (IF jobPass.cadence = "DAILY" THEN "PREMIUM" ELSE "STAR")}}
  OBVIOUS
<1>2. /\ UNCHANGED <<jobNow, jobProducts, jobSlotBump>>
      /\ jobPass.step = "find"
      /\ jobPass' = [step |-> "update", cadence |-> jobPass.cadence, found |-> found]
  <2>1. /\ UNCHANGED <<jobNow, jobProducts, jobSlotBump>>
        /\ jobPass.step = "find"
        /\ jobPass' = [jobPass EXCEPT !.step = "update", !.found = found]
    BY <1>1 DEF Job!FindSlots
  <2>2. jobPass = [step |-> jobPass.step, cadence |-> jobPass.cadence, found |-> jobPass.found]
    BY <2>1 DEF JobInv, JobShape, Job!Idle
  <2>3. QED
    BY <2>1, <2>2
<1>3. JobShape'
  BY <1>2 DEF JobInv, JobShape
<1>4. Job!Period(jobPass.cadence) \in Nat
  BY PeriodInt
<1>5. ASSUME NEW p \in Pooled, p \in found
      PROVE  jobSlotBump[p] < jobNow - Job!Period(jobPass.cadence)
  <2>1. jobProducts[p].bumpedAt < jobNow - Job!Period(jobPass.cadence)
    BY <1>1, <1>5
  <2>2. /\ jobProducts[p].bumpedAt \in Int /\ jobSlotBump[p] \in Int /\ jobNow \in Int
        /\ jobSlotBump[p] <= jobProducts[p].bumpedAt
    BY DEF JobInv, JobShape
  <2>3. QED
    BY <1>4, <2>1, <2>2
<1>6. QED
  BY <1>2, <1>3, <1>5 DEF JobInv, Job!Period

LEMMA JobBumps ==
  ASSUME CatalogueAssumption, JobInv, Job!BumpSlots
  PROVE  JobInv' /\ Job!PaceStep
<1> USE DEF jobNow, jobProducts, jobPass, jobSlotBump
<1>1. PICK up : up = {p \in jobPass.found : jobProducts[p].status # "gone"}
  OBVIOUS
<1>2. /\ Job!Bump(up) /\ UNCHANGED jobNow
      /\ jobPass.step = "update"
      /\ jobPass' = IF jobPass.cadence = "DAILY"
                    THEN [step |-> "find", cadence |-> "WEEKLY", found |-> {}]
                    ELSE [step |-> "boosted"]
      /\ jobSlotBump' = [p \in Pooled |-> IF p \in up THEN jobNow ELSE jobSlotBump[p]]
  BY <1>1 DEF Job!BumpSlots
<1>3. /\ jobProducts' = [p \in Pooled |-> jobProducts'[p]]
      /\ \A p \in Pooled :
           /\ jobProducts'[p] = [status |-> jobProducts[p].status,
                                 bumpedAt |-> jobProducts'[p].bumpedAt]
           /\ jobProducts'[p].bumpedAt = IF p \in up THEN jobNow ELSE jobProducts[p].bumpedAt
  BY <1>2, JobMoves
<1>4. JobShape'
  <2>1. \/ jobPass' = [step |-> "boosted"]
        \/ /\ jobPass'.step \in {"find", "update"}
           /\ jobPass' = [step |-> jobPass'.step, cadence |-> jobPass'.cadence,
                          found |-> jobPass'.found]
    BY <1>2
  <2>2. /\ jobSlotBump' = [p \in Pooled |-> jobSlotBump'[p]]
        /\ \A p \in Pooled : jobSlotBump'[p] \in Int
    BY <1>2 DEF JobInv, JobShape
  <2>3. \A p \in Pooled :
          /\ jobProducts'[p] = [status |-> jobProducts'[p].status,
                                bumpedAt |-> jobProducts'[p].bumpedAt]
          /\ jobProducts'[p].bumpedAt \in Int
    BY <1>2, <1>3 DEF JobInv, JobShape
  <2>4. QED
    BY <1>2, <1>3, <2>1, <2>2, <2>3 DEF JobInv, JobShape
<1>5. \A p \in Pooled : jobSlotBump'[p] <= jobProducts'[p].bumpedAt
                        /\ jobProducts'[p].bumpedAt <= jobNow'
  BY <1>2, <1>3 DEF JobInv, JobShape
<1>6. JobInv'
  BY <1>2, <1>4, <1>5 DEF JobInv
<1>7. ASSUME NEW p \in Pooled, jobSlotBump'[p] # jobSlotBump[p]
      PROVE  jobSlotBump'[p] - jobSlotBump[p] > Job!Period(jobPass.cadence)
  <2>1. p \in jobPass.found /\ jobSlotBump'[p] = jobNow
    BY <1>1, <1>2, <1>7
  <2>2. jobSlotBump[p] < jobNow - Job!Period(jobPass.cadence)
    BY <1>2, <2>1 DEF JobInv
  <2>3. jobSlotBump[p] \in Int /\ jobNow \in Int /\ Job!Period(jobPass.cadence) \in Nat
    BY PeriodInt DEF JobInv, JobShape
  <2>4. QED
    BY <2>1, <2>2, <2>3
<1>8. Job!PaceStep
  BY <1>7 DEF Job!PaceStep
<1>9. QED
  BY <1>6, <1>8

LEMMA JobNext ==
  ASSUME CatalogueAssumption, JobInv, Job!Next
  PROVE  JobInv' /\ Job!PaceStep
<1> USE DEF jobNow, jobProducts, jobPass, jobSlotBump
<1>1. CASE Job!FindSlots
  <2>1. Job!PaceStep
    BY <1>1 DEF Job!FindSlots, Job!PaceStep
  <2>2. QED
    BY <1>1, <2>1, JobFinds
<1>2. CASE Job!BumpSlots
  BY <1>2, JobBumps
<1>3. CASE Job!Tick
  <2>1. jobPass = Job!Idle /\ jobNow' = jobNow + 1
        /\ UNCHANGED <<jobProducts, jobPass, jobSlotBump>>
    BY <1>3 DEF Job!Tick
  <2>2. Job!Idle.step = "idle"
    BY DEF Job!Idle
  <2>3. JobInv'
    BY <2>1, <2>2 DEF JobInv, JobShape
  <2>4. QED
    BY <2>1, <2>3 DEF Job!PaceStep
<1>4. CASE ~Job!FindSlots /\ ~Job!BumpSlots /\ ~Job!Tick
  <2>1. UNCHANGED <<jobNow, jobSlotBump>>
    BY <1>4 DEF Job!Next, Job!AdmitSlots, Job!AdmitPins, Job!CheckOwned, Job!Snapshot,
       Job!CommitSlots, Job!CommitPins, Job!PassStarts, Job!BumpBoosted, Job!HideOrShow,
       Job!BumpProduct, Job!RemoveProduct, Job!ChangePlan
  <2>2. \/ UNCHANGED jobPass
        \/ jobPass' = Job!Idle
        \/ jobPass' = [step |-> "find", cadence |-> "DAILY", found |-> {}]
    BY <1>4 DEF Job!Next, Job!AdmitSlots, Job!AdmitPins, Job!CheckOwned, Job!Snapshot,
       Job!CommitSlots, Job!CommitPins, Job!PassStarts, Job!BumpBoosted, Job!HideOrShow,
       Job!BumpProduct, Job!RemoveProduct, Job!ChangePlan
  <2>3. \/ \E ps : Job!Bump(ps)
        \/ UNCHANGED jobProducts
        \/ \E p \in Pooled : \E s : jobProducts' = [jobProducts EXCEPT ![p].status = s]
    BY <1>4 DEF Job!Next, Job!AdmitSlots, Job!AdmitPins, Job!CheckOwned, Job!Snapshot,
       Job!CommitSlots, Job!CommitPins, Job!PassStarts, Job!BumpBoosted, Job!HideOrShow,
       Job!BumpProduct, Job!RemoveProduct, Job!ChangePlan
  <2>4. /\ jobProducts' = [p \in Pooled |-> jobProducts'[p]]
        /\ \A p \in Pooled :
             /\ jobProducts'[p] = [status |-> jobProducts'[p].status,
                                   bumpedAt |-> jobProducts'[p].bumpedAt]
             /\ jobProducts'[p].bumpedAt \in {jobProducts[p].bumpedAt, jobNow}
    <3>1. CASE \E ps : Job!Bump(ps)
      <4>1. PICK ps : Job!Bump(ps)
        BY <3>1
      <4>2. /\ jobProducts' = [p \in Pooled |-> jobProducts'[p]]
            /\ \A p \in Pooled :
                 /\ jobProducts'[p] = [status |-> jobProducts[p].status,
                                       bumpedAt |-> jobProducts'[p].bumpedAt]
                 /\ jobProducts'[p].bumpedAt =
                      IF p \in ps THEN jobNow ELSE jobProducts[p].bumpedAt
        BY <4>1, JobMoves
      <4>3. QED
        BY <4>2
    <3>2. CASE UNCHANGED jobProducts
      BY <3>2 DEF JobInv, JobShape
    <3>3. CASE \E p \in Pooled : \E s : jobProducts' = [jobProducts EXCEPT ![p].status = s]
      BY <3>3 DEF JobInv, JobShape
    <3>4. QED
      BY <2>3, <3>1, <3>2, <3>3
  <2>5. JobInv'
    BY <2>1, <2>2, <2>4, JobKeeps
  <2>6. QED
    BY <2>1, <2>5 DEF Job!PaceStep
<1>5. QED
  BY <1>1, <1>2, <1>3, <1>4

-----------------------------------------------------------------------------
(***************************************************************************)
(* Media: which files a handler is about to write or to delete, and which  *)
(* of them a running sweep spares.                                         *)
(***************************************************************************)
clock == s1
uploaded == s2
stored == s3
used == s4
member == s5
listing == s6
images == s7
avatar == s8
calls == s10
sweep == s11
torn == s12

Young(f) == uploaded[f] + MIN_AGE >= clock
IsShown(f) == images[f] > 0
Spared(f) == sweep = Media!NoSweep \/ f \in sweep.refs \/ Young(f)
Takes(m, f) == f \in m.new \/ f \in m.old

ForListing(m) == m # Media!Idle /\ m.parts = {"listing"}
ForProfile(m) == m # Media!Idle /\ m.parts = {"profile"}
ForAll(m) == m # Media!Idle /\ m.parts = {"listing", "profile"}

MediaCallShape(m) ==
  \/ m = Media!Idle
  \/ m \in [parts : {{"listing"}}, step : {"read", "delete", "write", "clean", "remove"},
            new : SUBSET Couple, old : SUBSET Couple]
  \/ m \in [parts : {{"profile"}}, step : {"write", "clean"},
            new : SUBSET Couple, old : SUBSET Couple]
  \/ m \in [parts : {{"listing", "profile"}}, step : {"leave", "clean"},
            new : {{}}, old : SUBSET Couple]

\* The new rows of an update that nobody overlapped have their files until
\* they are written; the files that it deletes are in no row by then.
ListingCall(m) ==
  /\ listing # "none"
  /\ \A f \in Couple : Takes(m, f) => f \notin avatar
  /\ \A f \in Couple : ~ (f \in m.new /\ f \in m.old)
  /\ "listing" \notin torn =>
       /\ m.step \in {"read", "delete"} =>
            \A f \in Couple : f \in m.new => f \in stored /\ (IsShown(f) \/ Young(f))
       /\ m.step = "write" =>
            /\ \A f \in Couple : ~IsShown(f)
            /\ \A f \in Couple : f \in m.new => f \in stored /\ Spared(f)
       /\ m.step = "clean" => \A f \in Couple : f \in m.old => ~IsShown(f)

ProfileCall(m) ==
  /\ \A f \in Couple : Takes(m, f) => ~IsShown(f)
  /\ \A f \in Couple : ~ (f \in m.new /\ f \in m.old)
  /\ "profile" \notin torn =>
       /\ m.step = "write" =>
            \A f \in Couple : f \in m.new => f \in stored /\ (f \in avatar \/ Young(f))
       /\ m.step = "clean" => \A f \in Couple : f \in m.old => f \notin avatar

MediaCall(m) ==
  /\ MediaCallShape(m)
  /\ m # Media!Idle => \A f \in Couple : f \in m.old => f \in used
  /\ ForListing(m) => ListingCall(m)
  /\ ForProfile(m) => ProfileCall(m)
  /\ ForAll(m) /\ m.step = "clean" => listing = "gone" /\ ~member

\* No file is the listing's and the profile's; handlers on the same rows have
\* overlapped.
Apart(m, n) ==
  ForListing(m) /\ ForProfile(n) => \A f \in Couple : ~ (Takes(m, f) /\ Takes(n, f))
Overlap(m, n) ==
  /\ m # Media!Idle /\ n # Media!Idle /\ ~ForProfile(m) /\ ~ForProfile(n) =>
       "listing" \in torn
  /\ m # Media!Idle /\ n # Media!Idle /\ ~ForListing(m) /\ ~ForListing(n) =>
       "profile" \in torn

MediaShape ==
  /\ clock \in Int
  /\ uploaded = [f \in Couple |-> uploaded[f]]
  /\ \A f \in Couple : uploaded[f] \in Int
  /\ images = [f \in Couple |-> images[f]]
  /\ \A f \in Couple : images[f] \in Nat
  /\ stored \subseteq Couple /\ avatar \subseteq Couple
  /\ member \in BOOLEAN
  /\ sweep = Media!NoSweep \/ sweep = [running |-> TRUE, refs |-> sweep.refs]
  /\ calls = [c \in Pair |-> calls[c]]

RowsInv ==
  /\ \A f \in Couple : IsShown(f) => f \notin avatar /\ f \in used
  /\ \A f \in Couple : f \in avatar => f \in used
  /\ listing # "live" => \A f \in Couple : ~IsShown(f)
  /\ ~member => avatar = {}
  /\ "listing" \notin torn =>
       \A f \in Couple : images[f] <= 1 /\ (IsShown(f) => f \in stored /\ Spared(f))
  /\ "profile" \notin torn =>
       \A f \in Couple : f \in avatar => f \in stored /\ Spared(f)

CallsInv == \A c \in Pair : MediaCall(calls[c])
PairsInv == \A c, d \in Pair :
              Apart(calls[c], calls[d]) /\ (c # d => Overlap(calls[c], calls[d]))

MediaInv == MediaShape /\ RowsInv /\ CallsInv /\ PairsInv

LEMMA MediaMeans == ASSUME MediaInv PROVE Media!RowsHaveFiles
<1>1. "listing" \notin torn => Media!Shown \subseteq stored
  BY DEF MediaInv, RowsInv, IsShown, Media!Shown, images
<1>2. "profile" \notin torn => avatar \subseteq stored
  BY DEF MediaInv, MediaShape, RowsInv
<1>3. QED
  BY <1>1, <1>2 DEF Media!RowsHaveFiles, torn, stored, avatar

LEMMA MediaInit == ASSUME CatalogueAssumption, Media!Init PROVE MediaInv
<1> USE DEF clock, uploaded, stored, used, member, listing, images, avatar, calls, sweep, torn
<1>1. MediaShape
  BY DEF Media!Init, MediaShape, Media!Never, Media!NoSweep
<1>2. RowsInv
  BY DEF Media!Init, RowsInv, IsShown
<1>3. \A c \in Pair : calls[c] = Media!Idle
  BY DEF Media!Init
<1>4. CallsInv
  BY <1>3 DEF CallsInv, MediaCall, MediaCallShape, ForListing, ForProfile, ForAll
<1>5. PairsInv
  BY <1>3 DEF PairsInv, Apart, Overlap, ForListing, ForProfile
<1>6. QED
  BY <1>1, <1>2, <1>4, <1>5 DEF MediaInv

\* What another handler must leave alone for a call to stay sound.
Undisturbed(m) ==
  /\ used \subseteq used' /\ torn \subseteq torn'
  /\ \A f \in Couple : Young(f) => Young(f)'
  /\ member' => member
  /\ listing = "gone" => listing' = "gone"
  /\ listing # "none" => listing' # "none"
  /\ ForListing(m) =>
       /\ \A f \in Couple : Takes(m, f) /\ f \in avatar' => f \in avatar
       /\ "listing" \notin torn' =>
            /\ \A f \in Couple : IsShown(f)' <=> IsShown(f)
            /\ m.step \in {"read", "delete", "write"} =>
                 \A f \in Couple : f \in m.new /\ f \in stored => f \in stored'
            /\ m.step = "write" => \A f \in Couple : f \in m.new /\ Spared(f) => Spared(f)'
  /\ ForProfile(m) =>
       /\ \A f \in Couple : Takes(m, f) /\ IsShown(f)' => IsShown(f)
       /\ "profile" \notin torn' =>
            /\ \A f \in Couple : f \in avatar' <=> f \in avatar
            /\ m.step = "write" => \A f \in Couple : f \in m.new /\ f \in stored => f \in stored'

LEMMA CallStays ==
  ASSUME NEW m, MediaCall(m), Undisturbed(m), member \in BOOLEAN
  PROVE  MediaCall(m)'
<1>1. ForListing(m) => ListingCall(m)'
  <2>1. SUFFICES ASSUME ForListing(m) PROVE ListingCall(m)'
    OBVIOUS
  <2>2. ListingCall(m)
    BY <2>1 DEF MediaCall
  <2>3. listing' # "none" /\ \A f \in Couple : Takes(m, f) => f \notin avatar'
    BY <2>1, <2>2 DEF ListingCall, Undisturbed
  <2>4. ASSUME "listing" \notin torn'
        PROVE  /\ m.step \in {"read", "delete"} =>
                    \A f \in Couple : f \in m.new => f \in stored' /\ (IsShown(f)' \/ Young(f)')
               /\ m.step = "write" =>
                    /\ \A f \in Couple : ~IsShown(f)'
                    /\ \A f \in Couple : f \in m.new => f \in stored' /\ Spared(f)'
               /\ m.step = "clean" => \A f \in Couple : f \in m.old => ~IsShown(f)'
    <3>1. /\ "listing" \notin torn
          /\ \A f \in Couple : IsShown(f)' <=> IsShown(f)
          /\ \A f \in Couple : Young(f) => Young(f)'
          /\ m.step \in {"read", "delete", "write"} =>
               \A f \in Couple : f \in m.new /\ f \in stored => f \in stored'
          /\ m.step = "write" => \A f \in Couple : f \in m.new /\ Spared(f) => Spared(f)'
      BY <2>1, <2>4 DEF Undisturbed
    <3>2. QED
      BY <2>2, <3>1 DEF ListingCall
  <2>5. QED
    BY <2>2, <2>3, <2>4 DEF ListingCall, Takes
<1>2. ForProfile(m) => ProfileCall(m)'
  <2>1. SUFFICES ASSUME ForProfile(m) PROVE ProfileCall(m)'
    OBVIOUS
  <2>2. ProfileCall(m)
    BY <2>1 DEF MediaCall
  <2>3. \A f \in Couple : Takes(m, f) => ~IsShown(f)'
    BY <2>1, <2>2 DEF ProfileCall, Undisturbed
  <2>4. ASSUME "profile" \notin torn'
        PROVE  /\ m.step = "write" =>
                    \A f \in Couple : f \in m.new => f \in stored' /\ (f \in avatar' \/ Young(f)')
               /\ m.step = "clean" => \A f \in Couple : f \in m.old => f \notin avatar'
    <3>1. /\ "profile" \notin torn
          /\ \A f \in Couple : f \in avatar' <=> f \in avatar
          /\ \A f \in Couple : Young(f) => Young(f)'
          /\ m.step = "write" => \A f \in Couple : f \in m.new /\ f \in stored => f \in stored'
      BY <2>1, <2>4 DEF Undisturbed
    <3>2. QED
      BY <2>2, <3>1 DEF ProfileCall
  <2>5. QED
    BY <2>2, <2>3, <2>4 DEF ProfileCall, Takes
<1>3. /\ m # Media!Idle => \A f \in Couple : f \in m.old => f \in used'
      /\ ForAll(m) /\ m.step = "clean" => listing' = "gone" /\ ~member'
  BY DEF MediaCall, Undisturbed
<1>4. QED
  BY <1>1, <1>2, <1>3 DEF MediaCall, MediaCallShape, ForListing, ForProfile, ForAll

\* What a step does to its own call: it leaves the part alone and takes no
\* more files, or takes files of the listing while no profile has them.
LEMMA PairsStay ==
  ASSUME MediaInv, NEW c \in Pair, NEW n,
         calls' = [calls EXCEPT ![c] = n], torn \subseteq torn',
         \/ n = Media!Idle
         \/ /\ calls[c] # Media!Idle /\ n.parts = calls[c].parts
            /\ \A f \in Couple : Takes(n, f) => Takes(calls[c], f)
         \/ /\ ForListing(calls[c]) /\ n.parts = calls[c].parts
            /\ \A f \in Couple : Takes(n, f) => Takes(calls[c], f) \/ IsShown(f)
  PROVE  PairsInv'
<1>0. calls' = [d \in Pair |-> IF d = c THEN n ELSE calls[d]]
  BY DEF MediaInv, MediaShape
<1>1. \A d \in Pair : Apart(calls[c], calls[d]) /\ Apart(calls[d], calls[c])
                      /\ (d # c => Overlap(calls[c], calls[d]) /\ Overlap(calls[d], calls[c]))
  BY DEF MediaInv, PairsInv
<1>2. ASSUME NEW d \in Pair, d # c
      PROVE  /\ Apart(n, calls[d]) /\ Apart(calls[d], n)
             /\ (\A m : m = calls[d] => Overlap(n, m)' /\ Overlap(m, n)')
  <2>1. CASE n = Media!Idle
    BY <2>1 DEF Apart, Overlap, ForListing, ForProfile
  <2>2. CASE /\ calls[c] # Media!Idle /\ n.parts = calls[c].parts
             /\ \A f \in Couple : Takes(n, f) => Takes(calls[c], f)
    BY <1>1, <1>2, <2>2 DEF Apart, Overlap, ForListing, ForProfile
  <2>3. CASE /\ ForListing(calls[c]) /\ n.parts = calls[c].parts
             /\ \A f \in Couple : Takes(n, f) => Takes(calls[c], f) \/ IsShown(f)
    <3>1. ForProfile(calls[d]) => \A f \in Couple : Takes(calls[d], f) => ~IsShown(f)
      BY DEF MediaInv, CallsInv, MediaCall, ProfileCall
    <3>2. Apart(n, calls[d])
      BY <1>1, <2>3, <3>1 DEF Apart, ForListing
    <3>3. ~ForProfile(n)
      BY <2>3 DEF ForListing, ForProfile
    <3>4. \A m : m = calls[d] => Overlap(n, m)' /\ Overlap(m, n)'
      BY <1>1, <1>2, <2>3 DEF Overlap, ForListing, ForProfile
    <3>5. QED
      BY <3>2, <3>3, <3>4 DEF Apart
  <2>4. QED
    BY <2>1, <2>2, <2>3
<1>3. Apart(n, n)
  BY DEF Apart, ForListing, ForProfile
<1>4. ASSUME NEW d \in Pair, NEW e \in Pair
      PROVE  (Apart(calls[d], calls[e]) /\ (d # e => Overlap(calls[d], calls[e])))'
  <2>1. CASE d # c /\ e # c
    BY <1>0, <2>1 DEF MediaInv, PairsInv, Overlap
  <2>2. CASE d = c /\ e # c
    BY <1>0, <1>2, <2>2 DEF Overlap
  <2>3. CASE d # c /\ e = c
    BY <1>0, <1>2, <2>3 DEF Overlap
  <2>4. CASE d = c /\ e = c
    BY <1>0, <1>3, <2>4
  <2>5. QED
    BY <2>1, <2>2, <2>3, <2>4
<1>5. QED
  BY <1>4 DEF PairsInv

\* The step of one call, when the others are not disturbed.
LEMMA CallsStay ==
  ASSUME MediaInv, NEW c \in Pair, NEW n,
         calls' = [calls EXCEPT ![c] = n], MediaCall(n)',
         \A d \in Pair : d # c => Undisturbed(calls[d])
  PROVE  CallsInv'
<1>0. calls' = [d \in Pair |-> IF d = c THEN n ELSE calls[d]]
  BY DEF MediaInv, MediaShape
<1>1. ASSUME NEW d \in Pair, NEW m, m = calls'[d] PROVE MediaCall(m)'
  <2>1. CASE d = c
    <3>1. m = n
      BY <1>0, <1>1, <2>1
    <3>2. QED
      BY <3>1
  <2>2. CASE d # c
    <3>1. m = calls[d]
      BY <1>0, <1>1, <2>2
    <3>2. MediaCall(m) /\ Undisturbed(m)
      BY <2>2, <3>1 DEF MediaInv, CallsInv, Undisturbed
    <3>3. member \in BOOLEAN
      BY DEF MediaInv, MediaShape
    <3>4. QED
      BY <3>2, <3>3, CallStays
  <2>3. QED
    BY <2>1, <2>2
<1>2. \A d \in Pair : MediaCall(calls[d])'
  BY <1>1 DEF MediaCall, MediaCallShape
<1>3. QED
  BY <1>2 DEF CallsInv

\* Steps that write no row and delete no file disturb nobody.
Quiet ==
  /\ UNCHANGED <<clock, listing, member, images, avatar, sweep>>
  /\ used \subseteq used' /\ stored \subseteq stored' /\ torn \subseteq torn'
  /\ \A f \in Couple : Young(f) => Young(f)'

LEMMA QuietCalls == ASSUME Quiet, NEW m PROVE Undisturbed(m)
  BY DEF Quiet, Undisturbed, IsShown, Spared

LEMMA QuietRows == ASSUME Quiet, RowsInv PROVE RowsInv'
<1>1. \A f \in Couple : (IsShown(f)' <=> IsShown(f)) /\ (Spared(f) => Spared(f)')
  BY DEF Quiet, IsShown, Spared
<1>2. QED
  BY <1>1 DEF Quiet, RowsInv

LEMMA SameAge ==
  ASSUME UNCHANGED <<clock, uploaded>>
  PROVE  \A f \in Couple : Young(f) <=> Young(f)'
  BY DEF Young

\* What a form may submit besides what is in the rows already.
LEMMA FreshFiles ==
  ASSUME MediaInv, NEW f \in Media!Fresh
  PROVE  /\ f \in Couple /\ f \in stored /\ Young(f) /\ f \notin used
         /\ ~IsShown(f) /\ f \notin avatar
         /\ \A d \in Pair : calls[d] # Media!Idle => ~Takes(calls[d], f)
<1>1. /\ f \in stored /\ Young(f) /\ f \notin used
      /\ \A d \in Pair : calls[d] # Media!Idle => f \notin calls[d].new
  BY DEF Media!Fresh, Media!Running, stored, Young, uploaded, clock, used, calls
<1>2. f \in Couple
  BY <1>1 DEF MediaInv, MediaShape
<1>3. ~IsShown(f) /\ f \notin avatar
  BY <1>1, <1>2 DEF MediaInv, RowsInv
<1>4. \A d \in Pair : calls[d] # Media!Idle => f \notin calls[d].old
  BY <1>1, <1>2 DEF MediaInv, CallsInv, MediaCall
<1>5. QED
  BY <1>1, <1>2, <1>3, <1>4 DEF Takes

\* A handler that starts is known to have overlapped others from then on.
LEMMA Started ==
  ASSUME MediaInv, NEW c \in Pair, NEW n, n.parts \in SUBSET {"listing", "profile"},
         Media!Start(c, n.parts, n.step, n.new, n.old),
         n = [parts |-> n.parts, step |-> n.step, new |-> n.new, old |-> n.old],
         ForListing(n) \/ ForProfile(n) \/ ForAll(n),
         \A f \in Couple : Takes(n, f) =>
           /\ ForListing(n) => /\ f \notin avatar
                               /\ \A d \in Pair : ForProfile(calls[d]) => ~Takes(calls[d], f)
           /\ ForProfile(n) => /\ ~IsShown(f)
                               /\ \A d \in Pair : ForListing(calls[d]) => ~Takes(calls[d], f)
  PROVE  /\ calls[c] = Media!Idle
         /\ calls' = [calls EXCEPT ![c] = n]
         /\ torn \subseteq torn'
         /\ \A d \in Pair : /\ "listing" \in n.parts /\ "listing" \notin torn' =>
                                 calls[d] = Media!Idle \/ ForProfile(calls[d])
                            /\ "profile" \in n.parts /\ "profile" \notin torn' =>
                                 calls[d] = Media!Idle \/ ForListing(calls[d])
         /\ PairsInv'
<1>1. /\ calls[c] = Media!Idle
      /\ calls' = [calls EXCEPT ![c] = n]
      /\ torn' = torn \cup {p \in n.parts : \E d \in Pair : calls[d] # Media!Idle /\ p \in calls[d].parts}
  BY DEF Media!Start, Media!Running, calls, torn
<1>2. \A d \in Pair : \/ calls[d] = Media!Idle
                      \/ ForListing(calls[d]) \/ ForProfile(calls[d]) \/ ForAll(calls[d])
  BY DEF MediaInv, CallsInv, MediaCall, MediaCallShape, ForListing, ForProfile, ForAll
<1>3. \A d \in Pair : /\ "listing" \in n.parts /\ "listing" \notin torn' =>
                           calls[d] = Media!Idle \/ ForProfile(calls[d])
                      /\ "profile" \in n.parts /\ "profile" \notin torn' =>
                           calls[d] = Media!Idle \/ ForListing(calls[d])
  BY <1>1, <1>2 DEF ForListing, ForProfile, ForAll
<1>4. ASSUME NEW d \in Pair, NEW e \in Pair
      PROVE  (Apart(calls[d], calls[e]) /\ (d # e => Overlap(calls[d], calls[e])))'
  <2>0. calls' = [x \in Pair |-> IF x = c THEN n ELSE calls[x]]
    BY <1>1 DEF MediaInv, MediaShape
  <2>1. CASE d # c /\ e # c
    BY <1>1, <2>0, <2>1 DEF MediaInv, PairsInv, Overlap
  <2>2. CASE d = c /\ e # c
    <3>1. calls'[d] = n /\ calls'[e] = calls[e]
      BY <2>0, <2>2
    <3>2. Apart(n, calls[e])
      BY DEF Apart
    <3>3. \A m : m = calls[e] => Overlap(n, m)'
      BY <1>3, <1>2 DEF Overlap, ForListing, ForProfile, ForAll
    <3>4. QED
      BY <3>1, <3>2, <3>3 DEF Overlap
  <2>3. CASE d # c /\ e = c
    <3>1. calls'[e] = n /\ calls'[d] = calls[d]
      BY <2>0, <2>3
    <3>2. Apart(calls[d], n)
      BY DEF Apart
    <3>3. \A m : m = calls[d] => Overlap(m, n)'
      BY <1>3, <1>2 DEF Overlap, ForListing, ForProfile, ForAll
    <3>4. QED
      BY <3>1, <3>2, <3>3 DEF Overlap
  <2>4. CASE d = c /\ e = c
    BY <2>0, <2>4 DEF Apart, ForListing, ForProfile
  <2>5. QED
    BY <2>1, <2>2, <2>3, <2>4
<1>5. QED
  BY <1>1, <1>3, <1>4 DEF PairsInv

LEMMA CallsSame ==
  ASSUME MediaInv, UNCHANGED calls, torn \subseteq torn',
         \A d \in Pair : Undisturbed(calls[d])
  PROVE  CallsInv' /\ PairsInv'
<1>1. ASSUME NEW d \in Pair, NEW m, m = calls[d] PROVE MediaCall(m)'
  <2>1. MediaCall(m) /\ Undisturbed(m) /\ member \in BOOLEAN
    BY <1>1 DEF MediaInv, MediaShape, CallsInv, Undisturbed
  <2>2. QED
    BY <2>1, CallStays
<1>2. \A d \in Pair : MediaCall(calls[d])'
  BY <1>1 DEF MediaCall, MediaCallShape
<1>3. PairsInv'
  BY DEF MediaInv, PairsInv, Overlap
<1>4. QED
  BY <1>2, <1>3 DEF CallsInv

LEMMA UploadInv ==
  ASSUME CatalogueAssumption, MediaInv, NEW f \in Couple, Media!Upload(f)
  PROVE  MediaInv'
<1>1. /\ UNCHANGED <<clock, used, member, listing, images, avatar, calls, sweep, torn>>
      /\ uploaded' = [uploaded EXCEPT ![f] = clock] /\ stored' = stored \cup {f}
  BY DEF Media!Upload, Media!rows, clock, used, member, listing, images, avatar,
     calls, sweep, torn, uploaded, stored
<1>2. MediaShape'
  BY <1>1 DEF MediaInv, MediaShape
<1>3. Quiet
  <2>1. MIN_AGE \in Nat
    BY DEF CatalogueAssumption, Media!MediaAssumption
  <2>2. \A g \in Couple : Young(g) => Young(g)'
    BY <1>1, <2>1 DEF MediaInv, MediaShape, Young
  <2>3. QED
    BY <1>1, <2>2 DEF Quiet
<1>4. RowsInv'
  BY <1>3, QuietRows DEF MediaInv
<1>5. CallsInv' /\ PairsInv'
  BY <1>1, <1>3, QuietCalls, CallsSame
<1>6. QED
  BY <1>2, <1>4, <1>5 DEF MediaInv

LEMMA RequestVerificationInv ==
  ASSUME MediaInv, Media!RequestVerification
  PROVE  MediaInv'
<1>1. /\ UNCHANGED <<clock, uploaded, stored, member, listing, images, avatar, calls, sweep, torn>>
      /\ used \subseteq used'
  BY DEF Media!RequestVerification, Media!disk, clock, used, member, listing, images, avatar,
     calls, sweep, torn, uploaded, stored
<1>2. MediaShape'
  BY <1>1 DEF MediaInv, MediaShape
<1>3. Quiet
  BY <1>1, SameAge DEF Quiet
<1>4. RowsInv'
  BY <1>3, QuietRows DEF MediaInv
<1>5. CallsInv' /\ PairsInv'
  BY <1>1, <1>3, QuietCalls, CallsSame
<1>6. QED
  BY <1>2, <1>4, <1>5 DEF MediaInv

LEMMA PublishInv ==
  ASSUME MediaInv, Media!Publish
  PROVE  MediaInv'
<1>1. PICK new \in SUBSET Media!Fresh :
        /\ listing = "none" /\ listing' = "live"
        /\ images' = [f \in Couple |-> IF f \in new THEN 1 ELSE 0]
        /\ used' = used \cup new
        /\ UNCHANGED <<clock, uploaded, stored, member, avatar, calls, sweep, torn>>
  BY DEF Media!Publish, Media!Photos, Media!disk, clock, used, member, listing, images,
     avatar, calls, sweep, torn, uploaded, stored
<1>2. MediaShape'
  BY <1>1 DEF MediaInv, MediaShape
<1>3. /\ \A f \in Couple : IsShown(f)' <=> f \in new
      /\ \A f \in Couple : (Young(f) <=> Young(f)') /\ (Spared(f) <=> Spared(f)')
  <2>1. \A f \in Couple : IsShown(f)' <=> f \in new
    BY <1>1 DEF IsShown
  <2>2. \A f \in Couple : (Young(f) <=> Young(f)')
    BY <1>1, SameAge
  <2>3. QED
    BY <1>1, <2>1, <2>2 DEF Spared
<1>4. \A f \in new : f \in stored /\ Young(f) /\ f \notin avatar
  BY FreshFiles
<1>5. RowsInv'
  <2>1. \A f \in Couple : f \in avatar => f \in used
    BY DEF MediaInv, RowsInv
  <2>2. ~member => avatar = {}
    BY DEF MediaInv, RowsInv
  <2>3. "profile" \notin torn => \A f \in Couple : f \in avatar => f \in stored /\ Spared(f)
    BY DEF MediaInv, RowsInv
  <2>4. \A f \in Couple : images'[f] <= 1
    BY <1>1
  <2>5. \A f \in new : Spared(f)
    BY <1>4 DEF Spared
  <2>6. QED
    BY <1>1, <1>3, <1>4, <2>1, <2>2, <2>3, <2>4, <2>5 DEF RowsInv
<1>6. ASSUME NEW d \in Pair PROVE Undisturbed(calls[d])
  <2>1. ~ForListing(calls[d])
    BY <1>1 DEF MediaInv, CallsInv, MediaCall, ListingCall
  <2>2. ForProfile(calls[d]) => \A f \in Couple : Takes(calls[d], f) => ~IsShown(f)'
    BY <1>3, FreshFiles DEF ForProfile
  <2>3. QED
    BY <1>1, <1>3, <2>1, <2>2 DEF Undisturbed
<1>7. CallsInv' /\ PairsInv'
  BY <1>1, <1>6, CallsSame
<1>8. QED
  BY <1>2, <1>5, <1>7 DEF MediaInv

LEMMA StartUpdateInv ==
  ASSUME MediaInv, NEW c \in Pair, Media!StartUpdate(c)
  PROVE  MediaInv'
<1>1. PICK new \in SUBSET (Media!Shown \cup Media!Fresh) :
        /\ listing = "live"
        /\ Media!Start(c, {"listing"}, "read", new, {})
        /\ UNCHANGED <<clock, uploaded, stored, used, member, listing, images, avatar, sweep>>
  BY DEF Media!StartUpdate, Media!Photos, Media!disk, Media!rows, clock, used, member,
     listing, images, avatar, sweep, uploaded, stored
<1>2. PICK n : n = [parts |-> {"listing"}, step |-> "read", new |-> new, old |-> {}]
  OBVIOUS
<1>3. ForListing(n) /\ ~ForProfile(n) /\ ~ForAll(n)
  BY <1>2 DEF ForListing, ForProfile, ForAll, Media!Idle
<1>4. \A f \in new : \/ f \in Couple /\ IsShown(f)
                     \/ f \in Media!Fresh
  BY <1>1 DEF Media!Shown, IsShown, images
<1>5. \A f \in Couple : Takes(n, f) <=> f \in new
  BY <1>2 DEF Takes
<1>6. \A f \in new : /\ f \in Couple /\ f \notin avatar
                     /\ \A d \in Pair : ForProfile(calls[d]) => ~Takes(calls[d], f)
  <2>1. \A f \in Couple : IsShown(f) =>
          /\ f \notin avatar
          /\ \A d \in Pair : ForProfile(calls[d]) => ~Takes(calls[d], f)
    BY DEF MediaInv, RowsInv, CallsInv, MediaCall, ProfileCall
  <2>2. QED
    BY <1>4, <2>1, FreshFiles DEF ForProfile
<1>7. /\ calls' = [calls EXCEPT ![c] = n]
      /\ torn \subseteq torn' /\ PairsInv'
  BY <1>1, <1>2, <1>3, <1>5, <1>6, Started
<1>8. Quiet
  BY <1>1, <1>7, SameAge DEF Quiet
<1>9. MediaShape'
  BY <1>1, <1>7 DEF MediaInv, MediaShape
<1>10. MediaCall(n)'
  <2>1. MediaCallShape(n)
    BY <1>2, <1>6 DEF MediaCallShape
  <2>2. n.step = "read" /\ n.new = new /\ n.old = {}
    BY <1>2
  <2>3. "listing" \notin torn' =>
          \A f \in new : f \in stored' /\ (IsShown(f)' \/ Young(f)')
    <3>1. "listing" \notin torn => \A f \in Couple : IsShown(f) => f \in stored
      BY DEF MediaInv, RowsInv
    <3>2. \A f \in Couple : (IsShown(f) => IsShown(f)') /\ (Young(f) => Young(f)')
      BY <1>1, SameAge DEF IsShown
    <3>3. QED
      BY <1>1, <1>4, <1>6, <1>7, <3>1, <3>2, FreshFiles
  <2>4. ListingCall(n)'
    BY <1>1, <1>5, <1>6, <2>2, <2>3 DEF ListingCall
  <2>5. QED
    BY <1>3, <2>1, <2>2, <2>4 DEF MediaCall, MediaCallShape, ForListing, ForProfile, ForAll
<1>11. CallsInv'
  BY <1>7, <1>8, <1>10, QuietCalls, CallsStay
<1>12. RowsInv'
  BY <1>8, QuietRows DEF MediaInv
<1>13. QED
  BY <1>7, <1>9, <1>11, <1>12 DEF MediaInv

\* A step of a call c on the listing: with the listing whole, nobody else is
\* at work on it.
LEMMA AloneOnListing ==
  ASSUME MediaInv, NEW c \in Pair, calls[c] # Media!Idle, ~ForProfile(calls[c]),
         NEW d \in Pair, d # c, "listing" \notin torn
  PROVE  calls[d] = Media!Idle \/ ForProfile(calls[d])
  BY DEF MediaInv, PairsInv, Overlap

LEMMA AloneOnProfile ==
  ASSUME MediaInv, NEW c \in Pair, calls[c] # Media!Idle, ~ForListing(calls[c]),
         NEW d \in Pair, d # c, "profile" \notin torn
  PROVE  calls[d] = Media!Idle \/ ForListing(calls[d])
  BY DEF MediaInv, PairsInv, Overlap

LEMMA ReadImagesInv ==
  ASSUME MediaInv, NEW c \in Pair, Media!ReadImages(c)
  PROVE  MediaInv'
<1>1. PICK m : m = calls[c]
  OBVIOUS
<1>2. /\ m.parts = {"listing"} /\ m.step = "read" /\ m.new \in SUBSET Couple /\ m.old = {}
      /\ m = [parts |-> m.parts, step |-> m.step, new |-> m.new, old |-> m.old]
  BY <1>1 DEF Media!ReadImages, calls
<1>3. PICK n : n = [parts |-> {"listing"}, step |-> "delete", new |-> m.new,
                    old |-> Media!Shown \ m.new]
  OBVIOUS
<1>4. /\ calls' = [calls EXCEPT ![c] = n]
      /\ UNCHANGED <<clock, uploaded, stored, used, member, listing, images, avatar, sweep, torn>>
  <2>1. PICK S : S = Media!Shown \ m.new
    OBVIOUS
  <2>2. calls' = [calls EXCEPT ![c].step = "delete", ![c].old = S]
    BY <1>1, <2>1 DEF Media!ReadImages, calls
  <2>3. calls' = [calls EXCEPT ![c] = [m EXCEPT !.step = "delete", !.old = S]]
    <3>1. calls = [d \in Pair |-> calls[d]]
      BY DEF MediaInv, MediaShape
    <3>2. calls' = [d \in Pair |-> IF d = c THEN [m EXCEPT !.step = "delete", !.old = S]
                                   ELSE calls[d]]
      BY <1>1, <1>2, <2>2, <3>1
    <3>3. QED
      BY <3>1, <3>2
  <2>4. [m EXCEPT !.step = "delete", !.old = S] = n
    <3>1. n = [parts |-> {"listing"}, step |-> "delete", new |-> m.new, old |-> S]
      BY <1>3, <2>1, Zenon
    <3>2. PICK k : k = [m EXCEPT !.step = "delete", !.old = S]
      OBVIOUS
    <3>3. PICK p, s, w, o : /\ m = [parts |-> p, step |-> s, new |-> w, old |-> o]
                            /\ p = {"listing"} /\ w = m.new
      BY <1>2
    <3>4. k = [parts |-> p, step |-> "delete", new |-> w, old |-> S]
      BY <3>2, <3>3
    <3>5. QED
      BY <3>1, <3>2, <3>3, <3>4, Zenon
  <2>5. QED
    BY <2>3, <2>4 DEF Media!ReadImages, Media!disk, Media!rows, clock, used, member,
       listing, images, avatar, sweep, torn, uploaded, stored
<1>5. ForListing(m) /\ ForListing(n) /\ ~ForProfile(n) /\ ~ForAll(n)
  BY <1>2, <1>3 DEF ForListing, ForProfile, ForAll, Media!Idle
<1>6. \A f \in Couple : f \in n.old <=> IsShown(f) /\ f \notin m.new
  BY <1>3 DEF Media!Shown, IsShown, images
<1>7. \A f \in Couple : Takes(n, f) => Takes(m, f) \/ IsShown(f)
  BY <1>3, <1>6 DEF Takes
<1>8. PairsInv'
  BY <1>1, <1>2, <1>3, <1>4, <1>5, <1>7, PairsStay
<1>9. Quiet
  BY <1>4, SameAge DEF Quiet
<1>10. MediaShape'
  BY <1>4 DEF MediaInv, MediaShape
<1>11. MediaCall(n)'
  <2>1. ListingCall(m)
    BY <1>1, <1>5 DEF MediaInv, CallsInv, MediaCall
  <2>2. MediaCallShape(n)
    <3>1. Media!Shown \in SUBSET Couple
      BY DEF Media!Shown
    <3>2. QED
      BY <1>2, <1>3, <3>1 DEF MediaCallShape
  <2>3. \A f \in Couple : (IsShown(f) <=> IsShown(f)') /\ (Young(f) => Young(f)')
    BY <1>4, SameAge DEF IsShown
  <2>4. \A f \in Couple : IsShown(f) => f \notin avatar /\ f \in used
    BY DEF MediaInv, RowsInv
  <2>5. "listing" \notin torn' =>
          \A f \in Couple : f \in n.new => f \in stored' /\ (IsShown(f)' \/ Young(f)')
    BY <1>2, <1>3, <1>4, <2>1, <2>3 DEF ListingCall
  <2>6. \A f \in Couple : Takes(n, f) => f \notin avatar'
    BY <1>4, <1>7, <2>1, <2>4 DEF ListingCall
  <2>7. ListingCall(n)'
    BY <1>3, <1>4, <1>6, <2>1, <2>5, <2>6 DEF ListingCall
  <2>8. QED
    BY <1>4, <1>5, <1>6, <2>2, <2>4, <2>7 DEF MediaCall, MediaCallShape, ForListing, ForProfile, ForAll
<1>12. CallsInv'
  BY <1>4, <1>9, <1>11, QuietCalls, CallsStay
<1>13. RowsInv'
  BY <1>9, QuietRows DEF MediaInv
<1>14. QED
  BY <1>8, <1>10, <1>12, <1>13 DEF MediaInv

\* The next step of a call is the call with another step.
LEMMA NextStep ==
  ASSUME MediaInv, NEW c \in Pair, calls[c] # Media!Idle, NEW step, Media!Go(c, step)
  PROVE  calls' = [calls EXCEPT ![c] = [parts |-> calls[c].parts, step |-> step,
                                        new |-> calls[c].new, old |-> calls[c].old]]
<1>1. calls[c] = [parts |-> calls[c].parts, step |-> calls[c].step,
                  new |-> calls[c].new, old |-> calls[c].old]
  BY DEF MediaInv, CallsInv, MediaCall, MediaCallShape
<1>2. calls' = [calls EXCEPT ![c] = [calls[c] EXCEPT !.step = step]]
  BY DEF Media!Go, calls
<1>3. [calls[c] EXCEPT !.step = step] = [parts |-> calls[c].parts, step |-> step,
                                         new |-> calls[c].new, old |-> calls[c].old]
  BY <1>1
<1>4. QED
  BY <1>2, <1>3

LEMMA DeleteRowsInv ==
  ASSUME MediaInv, NEW c \in Pair, Media!DeleteRows(c)
  PROVE  MediaInv'
<1>1. PICK m : m = calls[c]
  OBVIOUS
<1>2. m.step = "delete"
  BY <1>1 DEF Media!DeleteRows, calls
<1>3. MediaCall(m)
  BY <1>1 DEF MediaInv, CallsInv
<1>4. /\ ForListing(m) /\ m.parts = {"listing"} /\ m # Media!Idle /\ ~ForProfile(m)
      /\ m.new \in SUBSET Couple /\ m.old \in SUBSET Couple
  <2>1. m # Media!Idle
    BY <1>2 DEF Media!Idle
  <2>2. m \in [parts : {{"listing"}}, step : {"read", "delete", "write", "clean", "remove"},
               new : SUBSET Couple, old : SUBSET Couple]
    BY <1>2, <1>3, <2>1 DEF MediaCall, MediaCallShape
  <2>3. QED
    BY <2>1, <2>2 DEF ForListing, ForProfile
<1>5. PICK n : n = [parts |-> m.parts, step |-> "write", new |-> m.new, old |-> m.old]
  OBVIOUS
<1>6. /\ calls' = [calls EXCEPT ![c] = n]
      /\ images' = [f \in Couple |-> 0]
      /\ UNCHANGED <<clock, uploaded, stored, used, member, listing, avatar, sweep, torn>>
  BY <1>1, <1>4, <1>5, NextStep DEF Media!DeleteRows, Media!NoImages, Media!disk, clock, used,
     member, listing, images, avatar, sweep, torn, uploaded, stored
<1>7. ForListing(n) /\ ~ForProfile(n) /\ ~ForAll(n)
  BY <1>4, <1>5 DEF ForListing, ForProfile, ForAll, Media!Idle
<1>8. \A f \in Couple : ~IsShown(f)' /\ (Young(f) <=> Young(f)') /\ (Spared(f) <=> Spared(f)')
  <2>1. \A f \in Couple : ~IsShown(f)'
    BY <1>6 DEF IsShown
  <2>2. \A f \in Couple : Young(f) <=> Young(f)'
    BY <1>6, SameAge
  <2>3. QED
    BY <1>6, <2>1, <2>2 DEF Spared
<1>9. PairsInv'
  BY <1>1, <1>4, <1>5, <1>6, PairsStay DEF Takes
<1>10. MediaShape'
  BY <1>6 DEF MediaInv, MediaShape
<1>11. RowsInv'
  <2>1. \A f \in Couple : images'[f] <= 1
    BY <1>6
  <2>2. QED
    BY <1>6, <1>8, <2>1 DEF MediaInv, RowsInv
<1>12. MediaCall(n)'
  <2>1. ListingCall(m)
    BY <1>3, <1>4 DEF MediaCall
  <2>2. MediaCallShape(n)
    BY <1>4, <1>5 DEF MediaCallShape
  <2>3. n.step = "write" /\ n.new = m.new /\ n.old = m.old /\ \A f \in Couple : Takes(n, f) => Takes(m, f)
    BY <1>5 DEF Takes
  <2>4. "listing" \notin torn' => \A f \in Couple : f \in n.new => f \in stored' /\ Spared(f)'
    <3>1. "listing" \notin torn => \A f \in Couple : IsShown(f) => Spared(f)
      BY DEF MediaInv, RowsInv
    <3>2. \A f \in Couple : Young(f) => Spared(f)
      BY DEF Spared
    <3>3. QED
      BY <1>2, <1>6, <1>8, <2>1, <2>3, <3>1, <3>2 DEF ListingCall
  <2>5. ListingCall(n)'
    BY <1>6, <1>8, <2>1, <2>3, <2>4 DEF ListingCall
  <2>6. QED
    BY <1>3, <1>4, <1>6, <1>7, <2>2, <2>3, <2>5 DEF MediaCall, MediaCallShape, ForListing, ForProfile, ForAll
<1>13. ASSUME NEW d \in Pair, d # c PROVE Undisturbed(calls[d])
  <2>1. ForListing(calls[d]) => "listing" \in torn
    BY <1>1, <1>4, <1>13, AloneOnListing DEF ForListing, ForProfile
  <2>2. QED
    BY <1>6, <1>8, <2>1 DEF Undisturbed
<1>14. CallsInv'
  BY <1>6, <1>12, <1>13, CallsStay
<1>15. QED
  BY <1>9, <1>10, <1>11, <1>14 DEF MediaInv

LEMMA IdleCall == MediaCall(Media!Idle)'
  BY DEF MediaCall, MediaCallShape, ForListing, ForProfile, ForAll

\* A call that ends, well or not, without a row or a file.
LEMMA EndsQuietly ==
  ASSUME MediaInv, NEW c \in Pair, Media!End(c),
         UNCHANGED <<clock, uploaded, stored, used, member, listing, images, avatar, sweep, torn>>
  PROVE  MediaInv'
<1>1. calls' = [calls EXCEPT ![c] = Media!Idle]
  BY DEF Media!End, calls
<1>2. Quiet
  BY SameAge DEF Quiet
<1>3. MediaShape'
  BY <1>1 DEF MediaInv, MediaShape
<1>4. PairsInv'
  BY <1>1, PairsStay
<1>5. CallsInv'
  BY <1>1, <1>2, IdleCall, QuietCalls, CallsStay
<1>6. QED
  BY <1>2, <1>3, <1>4, <1>5, QuietRows DEF MediaInv

LEMMA FailInv ==
  ASSUME MediaInv, NEW c \in Pair, Media!Fail(c)
  PROVE  MediaInv'
  BY EndsQuietly DEF Media!Fail, Media!disk, Media!rows, clock, used, member,
     listing, images, avatar, sweep, torn, uploaded, stored

LEMMA WriteRowsInv ==
  ASSUME MediaInv, NEW c \in Pair, Media!WriteRows(c)
  PROVE  MediaInv'
<1>1. PICK m : m = calls[c]
  OBVIOUS
<1>2. m.step = "write" /\ m.parts = {"listing"}
  BY <1>1 DEF Media!WriteRows, calls
<1>3. MediaCall(m)
  BY <1>1 DEF MediaInv, CallsInv
<1>4. /\ ForListing(m) /\ m # Media!Idle /\ ~ForProfile(m)
      /\ m.new \in SUBSET Couple /\ m.old \in SUBSET Couple
  <2>1. m # Media!Idle
    BY <1>2 DEF Media!Idle
  <2>2. m \in [parts : {{"listing"}}, step : {"read", "delete", "write", "clean", "remove"},
               new : SUBSET Couple, old : SUBSET Couple]
    BY <1>2, <1>3, <2>1 DEF MediaCall, MediaCallShape
  <2>3. QED
    BY <2>1, <2>2 DEF ForListing, ForProfile
<1>5. CASE listing # "live"
  BY <1>5, EndsQuietly DEF Media!WriteRows, Media!disk, clock, used, member,
     listing, images, avatar, sweep, torn, uploaded, stored
<1>6. CASE listing = "live"
  <2>1. PICK n : n = [parts |-> m.parts, step |-> "clean", new |-> m.new, old |-> m.old]
    OBVIOUS
  <2>2. /\ calls' = [calls EXCEPT ![c] = n]
        /\ images' = [f \in Couple |-> images[f] + IF f \in m.new THEN 1 ELSE 0]
        /\ used' = used \cup m.new
        /\ UNCHANGED <<clock, uploaded, stored, member, listing, avatar, sweep, torn>>
    BY <1>1, <1>4, <1>6, <2>1, NextStep DEF Media!WriteRows, Media!disk, clock, used,
       member, listing, images, avatar, sweep, torn, uploaded, stored, calls
  <2>3. ForListing(n) /\ ~ForProfile(n) /\ ~ForAll(n)
    BY <1>2, <2>1 DEF ForListing, ForProfile, ForAll, Media!Idle
  <2>4. ListingCall(m)
    BY <1>3, <1>4 DEF MediaCall
  <2>5. /\ \A f \in Couple : IsShown(f)' <=> IsShown(f) \/ f \in m.new
        /\ \A f \in Couple : (Young(f) <=> Young(f)') /\ (Spared(f) <=> Spared(f)')
    <3>1. \A f \in Couple : images[f] \in Nat
      BY DEF MediaInv, MediaShape
    <3>2. \A f \in Couple : IsShown(f)' <=> IsShown(f) \/ f \in m.new
      BY <2>2, <3>1 DEF IsShown
    <3>3. \A f \in Couple : Young(f) <=> Young(f)'
      BY <2>2, SameAge
    <3>4. QED
      BY <2>2, <3>2, <3>3 DEF Spared
  <2>6. \A f \in Couple : f \in m.new => f \notin avatar
    BY <2>4 DEF ListingCall, Takes
  <2>7. PairsInv'
    BY <1>1, <1>4, <2>1, <2>2, PairsStay DEF Takes
  <2>8. MediaShape'
    BY <2>2 DEF MediaInv, MediaShape
  <2>9. RowsInv'
    <3>1. /\ \A f \in Couple : IsShown(f) => f \notin avatar /\ f \in used
          /\ \A f \in Couple : f \in avatar => f \in used
          /\ ~member => avatar = {}
          /\ "profile" \notin torn => \A f \in Couple : f \in avatar => f \in stored /\ Spared(f)
      BY DEF MediaInv, RowsInv
    <3>2. ASSUME "listing" \notin torn
          PROVE  \A f \in Couple : images'[f] <= 1 /\ (IsShown(f)' => f \in stored /\ Spared(f))
      <4>1. /\ \A f \in Couple : ~IsShown(f)
            /\ \A f \in Couple : f \in m.new => f \in stored /\ Spared(f)
        BY <1>2, <2>4, <3>2 DEF ListingCall
      <4>2. \A f \in Couple : images[f] \in Nat /\ ~(images[f] > 0)
        BY <4>1 DEF MediaInv, MediaShape, IsShown
      <4>3. \A f \in Couple : images'[f] <= 1
        BY <2>2, <4>2
      <4>4. QED
        BY <2>5, <4>1, <4>3
    <3>3. QED
      BY <1>6, <2>2, <2>5, <2>6, <3>1, <3>2 DEF RowsInv
  <2>10. MediaCall(n)'
    <3>1. MediaCallShape(n)
      BY <1>2, <1>4, <2>1 DEF MediaCallShape
    <3>2. n.step = "clean" /\ n.new = m.new /\ n.old = m.old
          /\ \A f \in Couple : Takes(n, f) => Takes(m, f)
      BY <2>1 DEF Takes
    <3>3. "listing" \notin torn' => \A f \in Couple : f \in n.old => ~IsShown(f)'
      BY <1>2, <2>2, <2>4, <2>5, <3>2 DEF ListingCall
    <3>4. ListingCall(n)'
      BY <2>2, <2>4, <3>2, <3>3 DEF ListingCall
    <3>5. \A f \in Couple : f \in n.old => f \in used'
      BY <1>3, <1>4, <2>2, <3>2 DEF MediaCall
    <3>6. QED
      BY <2>3, <3>1, <3>4, <3>5 DEF MediaCall, MediaCallShape, ForListing, ForProfile, ForAll
  <2>11. ASSUME NEW d \in Pair, d # c PROVE Undisturbed(calls[d])
    <3>1. ForListing(calls[d]) => "listing" \in torn
      BY <1>1, <1>4, <2>11, AloneOnListing DEF ForListing, ForProfile
    <3>2. ForProfile(calls[d]) => \A f \in Couple : Takes(calls[d], f) => f \notin m.new
      BY <1>1, <1>4 DEF MediaInv, PairsInv, Apart, Takes
    <3>3. ~(ForListing(calls[d]) /\ ForProfile(calls[d]))
      BY DEF ForListing, ForProfile
    <3>4. QED
      BY <1>6, <2>2, <2>5, <3>1, <3>2, <3>3 DEF Undisturbed
  <2>12. CallsInv'
    BY <2>2, <2>10, <2>11, CallsStay
  <2>13. QED
    BY <2>7, <2>8, <2>9, <2>12 DEF MediaInv
<1>7. QED
  BY <1>5, <1>6

LEMMA StartProfileInv ==
  ASSUME MediaInv, NEW c \in Pair, Media!StartProfile(c)
  PROVE  MediaInv'
<1>1. PICK new \in {avatar, {}} \cup {{f} : f \in Media!Fresh} :
        /\ member
        /\ Media!Start(c, {"profile"}, "write", new, avatar \ new)
        /\ UNCHANGED <<clock, uploaded, stored, used, member, listing, images, avatar, sweep>>
  BY DEF Media!StartProfile, Media!disk, Media!rows, clock, used, member,
     listing, images, avatar, sweep, uploaded, stored
<1>2. PICK n : n = [parts |-> {"profile"}, step |-> "write", new |-> new, old |-> avatar \ new]
  OBVIOUS
<1>3. ForProfile(n) /\ ~ForListing(n) /\ ~ForAll(n)
  BY <1>2 DEF ForListing, ForProfile, ForAll, Media!Idle
<1>4. /\ \A f \in new : f \in avatar \/ f \in Media!Fresh
      /\ \A f \in n.old : f \in avatar /\ f \notin new
      /\ n.new = new /\ n.step = "write" /\ n.parts = {"profile"}
  BY <1>1, <1>2
<1>5. avatar \subseteq Couple
  BY DEF MediaInv, MediaShape
<1>6. \A f \in Couple : f \in avatar =>
        /\ ~IsShown(f) /\ f \in used
        /\ \A d \in Pair : ForListing(calls[d]) => ~Takes(calls[d], f)
  BY DEF MediaInv, RowsInv, CallsInv, MediaCall, ListingCall
<1>7. \A f \in Couple : Takes(n, f) =>
        /\ ~IsShown(f)
        /\ \A d \in Pair : ForListing(calls[d]) => ~Takes(calls[d], f)
  BY <1>4, <1>6, FreshFiles DEF Takes, ForListing
<1>8. /\ calls' = [calls EXCEPT ![c] = n]
      /\ torn \subseteq torn' /\ PairsInv'
  <2>1. Media!Start(c, n.parts, n.step, n.new, n.old)
    BY <1>1, <1>2
  <2>2. n = [parts |-> n.parts, step |-> n.step, new |-> n.new, old |-> n.old]
    BY <1>2
  <2>3. QED
    BY <1>3, <1>4, <1>7, <2>1, <2>2, Started
<1>9. Quiet
  BY <1>1, <1>8, SameAge DEF Quiet
<1>10. MediaShape'
  BY <1>1, <1>8 DEF MediaInv, MediaShape
<1>11. MediaCall(n)'
  <2>1. n.new \in SUBSET Couple /\ n.old \in SUBSET Couple
    BY <1>4, <1>5, FreshFiles
  <2>2. MediaCallShape(n)
    <3>1. n = [parts |-> {"profile"}, step |-> "write", new |-> n.new, old |-> n.old]
      BY <1>2
    <3>2. QED
      BY <2>1, <3>1 DEF MediaCallShape
  <2>3. \A f \in Couple : (IsShown(f) <=> IsShown(f)') /\ (Young(f) => Young(f)')
    BY <1>1, SameAge DEF IsShown
  <2>4. "profile" \notin torn' =>
          \A f \in Couple : f \in n.new => f \in stored' /\ (f \in avatar' \/ Young(f)')
    <3>1. "profile" \notin torn => \A f \in Couple : f \in avatar => f \in stored
      BY DEF MediaInv, RowsInv
    <3>2. QED
      BY <1>1, <1>4, <1>8, <2>3, <3>1, FreshFiles
  <2>5. ProfileCall(n)'
    BY <1>4, <1>7, <2>3, <2>4 DEF ProfileCall
  <2>6. \A f \in Couple : f \in n.old => f \in used'
    BY <1>1, <1>4, <1>6
  <2>7. QED
    BY <1>3, <2>2, <2>5, <2>6 DEF MediaCall, MediaCallShape, ForListing, ForProfile, ForAll
<1>12. CallsInv'
  BY <1>8, <1>9, <1>11, QuietCalls, CallsStay
<1>13. RowsInv'
  BY <1>9, QuietRows DEF MediaInv
<1>14. QED
  BY <1>8, <1>10, <1>12, <1>13 DEF MediaInv

LEMMA WriteProfileInv ==
  ASSUME MediaInv, NEW c \in Pair, Media!WriteProfile(c)
  PROVE  MediaInv'
<1>1. PICK m : m = calls[c]
  OBVIOUS
<1>2. m.step = "write" /\ m.parts = {"profile"}
  BY <1>1 DEF Media!WriteProfile, calls
<1>3. MediaCall(m)
  BY <1>1 DEF MediaInv, CallsInv
<1>4. /\ ForProfile(m) /\ m # Media!Idle /\ ~ForListing(m)
      /\ m.new \in SUBSET Couple /\ m.old \in SUBSET Couple
  <2>1. m # Media!Idle
    BY <1>2 DEF Media!Idle
  <2>2. m \in [parts : {{"profile"}}, step : {"write", "clean"},
               new : SUBSET Couple, old : SUBSET Couple]
    BY <1>2, <1>3, <2>1 DEF MediaCall, MediaCallShape
  <2>3. QED
    BY <2>1, <2>2 DEF ForListing, ForProfile
<1>5. CASE ~member
  BY <1>5, EndsQuietly DEF Media!WriteProfile, Media!disk, clock, used, member,
     listing, images, avatar, sweep, torn, uploaded, stored
<1>6. CASE member
  <2>1. PICK n : n = [parts |-> m.parts, step |-> "clean", new |-> m.new, old |-> m.old]
    OBVIOUS
  <2>2. /\ calls' = [calls EXCEPT ![c] = n]
        /\ avatar' = m.new
        /\ used' = used \cup m.new
        /\ UNCHANGED <<clock, uploaded, stored, member, listing, images, sweep, torn>>
    BY <1>1, <1>4, <1>6, <2>1, NextStep DEF Media!WriteProfile, Media!disk, clock, used,
       member, listing, images, avatar, sweep, torn, uploaded, stored, calls
  <2>3. ForProfile(n) /\ ~ForListing(n) /\ ~ForAll(n)
    BY <1>2, <2>1 DEF ForListing, ForProfile, ForAll, Media!Idle
  <2>4. ProfileCall(m)
    BY <1>3, <1>4 DEF MediaCall
  <2>5. \A f \in Couple : (IsShown(f) <=> IsShown(f)') /\ (Young(f) <=> Young(f)')
                          /\ (Spared(f) <=> Spared(f)')
    BY <2>2, SameAge DEF Spared, IsShown
  <2>6. \A f \in Couple : f \in m.new => ~IsShown(f)
    BY <2>4 DEF ProfileCall, Takes
  <2>7. PairsInv'
    BY <1>1, <1>4, <2>1, <2>2, PairsStay DEF Takes
  <2>8. MediaShape'
    BY <1>4, <2>2 DEF MediaInv, MediaShape
  <2>9. RowsInv'
    <3>1. /\ \A f \in Couple : IsShown(f) => f \in used
          /\ listing # "live" => \A f \in Couple : ~IsShown(f)
          /\ "listing" \notin torn =>
               \A f \in Couple : images[f] <= 1 /\ (IsShown(f) => f \in stored /\ Spared(f))
      BY DEF MediaInv, RowsInv
    <3>2. ASSUME "profile" \notin torn
          PROVE  \A f \in Couple : f \in m.new => f \in stored /\ Spared(f)
      <4>1. \A f \in Couple : f \in m.new => f \in stored /\ (f \in avatar \/ Young(f))
        BY <1>2, <2>4, <3>2 DEF ProfileCall
      <4>2. \A f \in Couple : f \in avatar => Spared(f)
        BY <3>2 DEF MediaInv, RowsInv
      <4>3. QED
        BY <4>1, <4>2 DEF Spared
    <3>3. QED
      BY <1>6, <2>2, <2>5, <2>6, <3>1, <3>2 DEF RowsInv
  <2>10. MediaCall(n)'
    <3>1. MediaCallShape(n)
      BY <1>2, <1>4, <2>1 DEF MediaCallShape
    <3>2. n.step = "clean" /\ n.new = m.new /\ n.old = m.old
          /\ \A f \in Couple : Takes(n, f) => Takes(m, f)
      BY <2>1 DEF Takes
    <3>3. ProfileCall(n)'
      BY <2>2, <2>4, <2>5, <3>2 DEF ProfileCall
    <3>4. \A f \in Couple : f \in n.old => f \in used'
      BY <1>3, <1>4, <2>2, <3>2 DEF MediaCall
    <3>5. QED
      BY <2>3, <3>1, <3>3, <3>4 DEF MediaCall, MediaCallShape, ForListing, ForProfile, ForAll
  <2>11. ASSUME NEW d \in Pair, d # c PROVE Undisturbed(calls[d])
    <3>1. ForProfile(calls[d]) => "profile" \in torn
      BY <1>1, <1>4, <2>11, AloneOnProfile DEF ForListing, ForProfile
    <3>2. ForListing(calls[d]) => \A f \in Couple : Takes(calls[d], f) => f \notin m.new
      BY <1>1, <1>4 DEF MediaInv, PairsInv, Apart, Takes
    <3>3. ~(ForListing(calls[d]) /\ ForProfile(calls[d]))
      BY DEF ForListing, ForProfile
    <3>4. QED
      BY <1>6, <2>2, <2>5, <3>1, <3>2, <3>3 DEF Undisturbed
  <2>12. CallsInv'
    BY <2>2, <2>10, <2>11, CallsStay
  <2>13. QED
    BY <2>7, <2>8, <2>9, <2>12 DEF MediaInv
<1>7. QED
  BY <1>5, <1>6

LEMMA StartRemoveInv ==
  ASSUME MediaInv, NEW c \in Pair, Media!StartRemove(c)
  PROVE  MediaInv'
<1>1. PICK n : /\ \/ n = [parts |-> {"listing"}, step |-> "remove", new |-> {},
                          old |-> Media!Shown] /\ listing = "live"
                  \/ n = [parts |-> {"listing", "profile"}, step |-> "leave", new |-> {},
                          old |-> Media!Shown \cup avatar]
               /\ Media!Start(c, n.parts, n.step, n.new, n.old)
  <2>1. CASE listing = "live" /\ Media!Start(c, {"listing"}, "remove", {}, Media!Shown)
    <3>1. PICK n : n = [parts |-> {"listing"}, step |-> "remove", new |-> {},
                        old |-> Media!Shown]
      OBVIOUS
    <3>2. n.parts = {"listing"} /\ n.step = "remove" /\ n.new = {} /\ n.old = Media!Shown
      BY <3>1
    <3>3. Media!Start(c, n.parts, n.step, n.new, n.old)
      BY <2>1, <3>2, Zenon
    <3>4. QED
      BY <2>1, <3>1, <3>3, Zenon
  <2>2. CASE Media!Start(c, {"listing", "profile"}, "leave", {}, Media!Shown \cup avatar)
    <3>1. PICK n : n = [parts |-> {"listing", "profile"}, step |-> "leave", new |-> {},
                        old |-> Media!Shown \cup avatar]
      OBVIOUS
    <3>2. /\ n.parts = {"listing", "profile"} /\ n.step = "leave" /\ n.new = {}
          /\ n.old = Media!Shown \cup avatar
      BY <3>1
    <3>3. Media!Start(c, n.parts, n.step, n.new, n.old)
      BY <2>2, <3>2, Zenon
    <3>4. QED
      BY <2>2, <3>1, <3>3, Zenon
  <2>3. QED
    BY <2>1, <2>2 DEF Media!StartRemove, Media!Parts, listing, avatar
<1>2. UNCHANGED <<clock, uploaded, stored, used, member, listing, images, avatar, sweep>>
  BY DEF Media!StartRemove, Media!disk, Media!rows, clock, used, member,
     listing, images, avatar, sweep, uploaded, stored
<1>3. /\ n = [parts |-> n.parts, step |-> n.step, new |-> n.new, old |-> n.old]
      /\ n.new = {} /\ n.step \in {"remove", "leave"}
      /\ \A f \in Couple : f \in n.old => IsShown(f) \/ f \in avatar
      /\ n.old \subseteq Couple
      /\ n.parts \in SUBSET {"listing", "profile"}
  <2>1. /\ n = [parts |-> n.parts, step |-> n.step, new |-> n.new, old |-> n.old]
        /\ n.new = {} /\ n.step \in {"remove", "leave"}
        /\ n.old = Media!Shown \/ n.old = Media!Shown \cup avatar
        /\ n.parts = {"listing"} \/ n.parts = {"listing", "profile"}
    BY <1>1
  <2>2. avatar \subseteq Couple /\ Media!Shown \subseteq Couple
    BY DEF MediaInv, MediaShape, Media!Shown
  <2>3. \A f \in Couple : f \in Media!Shown => IsShown(f)
    BY DEF Media!Shown, IsShown, images
  <2>4. QED
    BY <2>1, <2>2, <2>3
<1>4. \/ /\ ForListing(n) /\ ~ForProfile(n) /\ ~ForAll(n) /\ n.parts = {"listing"}
         /\ listing = "live"
         /\ n.step = "remove" /\ \A f \in Couple : f \in n.old => IsShown(f)
      \/ /\ ForAll(n) /\ ~ForListing(n) /\ ~ForProfile(n) /\ n.parts = {"listing", "profile"}
         /\ n.step = "leave"
  BY <1>1 DEF ForListing, ForProfile, ForAll, Media!Idle, Media!Shown, IsShown, images
<1>5. \A f \in Couple : IsShown(f) =>
        /\ f \notin avatar
        /\ \A d \in Pair : ForProfile(calls[d]) => ~Takes(calls[d], f)
  BY DEF MediaInv, RowsInv, CallsInv, MediaCall, ProfileCall
<1>6. /\ calls' = [calls EXCEPT ![c] = n]
      /\ torn \subseteq torn' /\ PairsInv'
  <2>1. \A f \in Couple : Takes(n, f) /\ ForListing(n) => IsShown(f)
    BY <1>3, <1>4 DEF Takes
  <2>2. ForListing(n) \/ ForProfile(n) \/ ForAll(n)
    BY <1>4
  <2>3. ~ForProfile(n)
    BY <1>4
  <2>4. QED
    BY <1>1, <1>3, <1>5, <2>1, <2>2, <2>3, Started
<1>7. Quiet
  BY <1>2, <1>6, SameAge DEF Quiet
<1>8. MediaShape'
  BY <1>2, <1>6 DEF MediaInv, MediaShape
<1>9. MediaCall(n)'
  <2>1. MediaCallShape(n)
    <3>1. n = [parts |-> n.parts, step |-> n.step, new |-> {}, old |-> n.old]
      BY <1>3
    <3>2. QED
      BY <1>3, <1>4, <3>1 DEF MediaCallShape
  <2>2. \A f \in Couple : f \in n.old => f \in used'
    BY <1>2, <1>3 DEF MediaInv, RowsInv
  <2>3. ForListing(n) => ListingCall(n)'
    BY <1>2, <1>3, <1>4, <1>5 DEF ListingCall, Takes
  <2>4. QED
    BY <1>4, <2>1, <2>2, <2>3 DEF MediaCall, MediaCallShape, ForListing, ForProfile, ForAll
<1>10. CallsInv'
  BY <1>6, <1>7, <1>9, QuietCalls, CallsStay
<1>11. RowsInv'
  BY <1>7, QuietRows DEF MediaInv
<1>12. QED
  BY <1>6, <1>8, <1>10, <1>11 DEF MediaInv

LEMMA RemoveRowsInv ==
  ASSUME MediaInv, NEW c \in Pair, Media!RemoveRows(c)
  PROVE  MediaInv'
<1>1. PICK m : m = calls[c]
  OBVIOUS
<1>2. /\ m.step \in {"remove", "leave"}
      /\ m.step = "remove" => UNCHANGED <<member, avatar>>
      /\ m.step = "leave" => member' = FALSE /\ avatar' = {}
  BY <1>1 DEF Media!RemoveRows, calls, member, avatar
<1>3. MediaCall(m)
  BY <1>1 DEF MediaInv, CallsInv
<1>4. m # Media!Idle
  BY <1>2 DEF Media!Idle
<1>5. /\ m.new \in SUBSET Couple /\ m.old \in SUBSET Couple
      /\ \/ m.step = "remove" /\ m.parts = {"listing"}
         \/ m.step = "leave" /\ m.parts = {"listing", "profile"} /\ m.new = {}
  BY <1>2, <1>3, <1>4 DEF MediaCall, MediaCallShape
<1>6. PICK n : n = [parts |-> m.parts, step |-> "clean", new |-> m.new, old |-> m.old]
  OBVIOUS
<1>7. /\ calls' = [calls EXCEPT ![c] = n]
      /\ listing' = "gone" /\ images' = [f \in Couple |-> 0]
      /\ UNCHANGED <<clock, uploaded, stored, used, sweep, torn>>
  BY <1>1, <1>4, <1>6, NextStep DEF Media!RemoveRows, Media!NoImages, Media!disk, clock, used,
     listing, images, sweep, torn, uploaded, stored
<1>8. \/ ForListing(m) /\ ~ForProfile(m) /\ ForListing(n) /\ ~ForProfile(n) /\ ~ForAll(n)
         /\ m.step = "remove"
      \/ ForAll(n) /\ ~ForProfile(m) /\ ~ForListing(m) /\ ~ForProfile(n) /\ ~ForListing(n)
         /\ m.step = "leave"
  <2>1. n # Media!Idle
    BY <1>6 DEF Media!Idle
  <2>2. n.parts = m.parts
    BY <1>6
  <2>3. QED
    BY <1>4, <1>5, <2>1, <2>2 DEF ForListing, ForProfile, ForAll
<1>9. avatar' \subseteq avatar /\ (member' => member) /\ member' \in BOOLEAN
  <2>1. member \in BOOLEAN
    BY DEF MediaInv, MediaShape
  <2>2. CASE member' = member /\ avatar' = avatar
    BY <2>1, <2>2
  <2>3. CASE member' = FALSE /\ avatar' = {}
    BY <2>3
  <2>4. QED
    BY <1>2, <2>2, <2>3
<1>10. \A f \in Couple : ~IsShown(f)' /\ (Young(f) <=> Young(f)') /\ (Spared(f) <=> Spared(f)')
  <2>1. \A f \in Couple : ~IsShown(f)'
    BY <1>7 DEF IsShown
  <2>2. \A f \in Couple : Young(f) <=> Young(f)'
    BY <1>7, SameAge
  <2>3. QED
    BY <1>7, <2>1, <2>2 DEF Spared
<1>11. PairsInv'
  BY <1>1, <1>4, <1>6, <1>7, PairsStay DEF Takes
<1>12. MediaShape'
  BY <1>7, <1>9 DEF MediaInv, MediaShape
<1>13. RowsInv'
  <2>1. \A f \in Couple : images'[f] <= 1
    BY <1>7
  <2>2. /\ \A f \in Couple : f \in avatar => f \in used
        /\ "profile" \notin torn => \A f \in Couple : f \in avatar => f \in stored /\ Spared(f)
    BY DEF MediaInv, RowsInv
  <2>3. ~member' => avatar' = {}
    BY <1>2 DEF MediaInv, RowsInv
  <2>4. QED
    BY <1>7, <1>9, <1>10, <2>1, <2>2, <2>3 DEF RowsInv
<1>14. MediaCall(n)'
  <2>1. MediaCallShape(n)
    BY <1>5, <1>6 DEF MediaCallShape
  <2>2. n.step = "clean" /\ n.new = m.new /\ n.old = m.old
        /\ \A f \in Couple : Takes(n, f) => Takes(m, f)
    BY <1>6 DEF Takes
  <2>3. \A f \in Couple : f \in n.old => f \in used'
    BY <1>3, <1>4, <1>7, <2>2 DEF MediaCall
  <2>4. ASSUME ForListing(n) PROVE ListingCall(n)'
    <3>1. ListingCall(m)
      BY <1>3, <1>8, <2>4 DEF MediaCall
    <3>2. QED
      BY <1>7, <1>9, <1>10, <2>2, <3>1 DEF ListingCall
  <2>5. ForAll(n) => listing' = "gone" /\ ~member'
    BY <1>2, <1>7, <1>8 DEF ForAll, ForListing
  <2>6. QED
    BY <1>8, <2>1, <2>3, <2>4, <2>5 DEF MediaCall, MediaCallShape, ForListing, ForProfile, ForAll
<1>15. ASSUME NEW d \in Pair, d # c PROVE Undisturbed(calls[d])
  <2>1. ForListing(calls[d]) => "listing" \in torn
    BY <1>1, <1>4, <1>8, <1>15, AloneOnListing DEF ForListing, ForProfile
  <2>2. ForProfile(calls[d]) => "profile" \in torn \/ avatar' = avatar
    BY <1>1, <1>2, <1>4, <1>8, <1>15, AloneOnProfile DEF ForListing, ForProfile
  <2>3. QED
    BY <1>7, <1>9, <1>10, <2>1, <2>2 DEF Undisturbed
<1>16. CallsInv'
  BY <1>7, <1>14, <1>15, CallsStay
<1>17. QED
  BY <1>11, <1>12, <1>13, <1>16 DEF MediaInv

LEMMA AdminDeleteImageInv ==
  ASSUME MediaInv, NEW c \in Pair, Media!AdminDeleteImage(c)
  PROVE  MediaInv'
<1>1. PICK f \in Couple :
        /\ IsShown(f)
        /\ Media!Start(c, {"listing"}, "clean", {}, {f})
        /\ images' = [images EXCEPT ![f] = @ - 1]
        /\ UNCHANGED <<clock, uploaded, stored, used, member, listing, avatar, sweep>>
  BY DEF Media!AdminDeleteImage, Media!Shown, IsShown, Media!disk, clock, used, member,
     listing, images, avatar, sweep, uploaded, stored
<1>2. PICK n : n = [parts |-> {"listing"}, step |-> "clean", new |-> {}, old |-> {f}]
  OBVIOUS
<1>3. ForListing(n) /\ ~ForProfile(n) /\ ~ForAll(n)
  BY <1>2 DEF ForListing, ForProfile, ForAll, Media!Idle
<1>4. \A g \in Couple : Takes(n, g) <=> g = f
  BY <1>2 DEF Takes
<1>5. /\ f \notin avatar /\ f \in used /\ listing = "live"
      /\ \A d \in Pair : ForProfile(calls[d]) => ~Takes(calls[d], f)
  BY <1>1 DEF MediaInv, RowsInv, CallsInv, MediaCall, ProfileCall
<1>6. /\ calls' = [calls EXCEPT ![c] = n]
      /\ torn \subseteq torn' /\ PairsInv'
      /\ \A d \in Pair : "listing" \notin torn' => calls[d] = Media!Idle \/ ForProfile(calls[d])
  <2>1. n.parts = {"listing"} /\ n.step = "clean" /\ n.new = {} /\ n.old = {f}
    BY <1>2
  <2>2. n = [parts |-> n.parts, step |-> n.step, new |-> n.new, old |-> n.old]
    BY <1>2
  <2>3. Media!Start(c, n.parts, n.step, n.new, n.old)
    BY <1>1, <2>1
  <2>4. n.parts \in SUBSET {"listing", "profile"} /\ "listing" \in n.parts
    BY <2>1
  <2>5. \A g \in Couple : Takes(n, g) =>
          g \notin avatar /\ \A d \in Pair : ForProfile(calls[d]) => ~Takes(calls[d], g)
    BY <1>4, <1>5
  <2>6. QED
    BY <1>3, <2>2, <2>3, <2>4, <2>5, Started
<1>7. /\ \A g \in Couple : images'[g] \in Nat /\ images'[g] <= images[g]
      /\ images'[f] = images[f] - 1
  BY <1>1 DEF MediaInv, MediaShape, IsShown
<1>8. /\ \A g \in Couple : (IsShown(g)' => IsShown(g)) /\ (Young(g) <=> Young(g)')
                           /\ (Spared(g) <=> Spared(g)')
  <2>1. \A g \in Couple : IsShown(g)' => IsShown(g)
    BY <1>7 DEF IsShown, MediaInv, MediaShape
  <2>2. \A g \in Couple : Young(g) <=> Young(g)'
    BY <1>1, SameAge
  <2>3. QED
    BY <1>1, <2>1, <2>2 DEF Spared
<1>9. MediaShape'
  <2>1. images' = [g \in Couple |-> images'[g]]
    BY <1>1 DEF MediaInv, MediaShape
  <2>2. calls' = [d \in Pair |-> calls'[d]]
    BY <1>6 DEF MediaInv, MediaShape
  <2>3. QED
    BY <1>1, <1>7, <2>1, <2>2 DEF MediaInv, MediaShape
<1>10. RowsInv'
  <2>1. "listing" \notin torn => \A g \in Couple : images'[g] <= 1
    BY <1>7 DEF MediaInv, MediaShape, RowsInv
  <2>2. QED
    BY <1>1, <1>6, <1>8, <2>1 DEF MediaInv, RowsInv
<1>11. MediaCall(n)'
  <2>1. MediaCallShape(n)
    BY <1>2 DEF MediaCallShape
  <2>2. n.step = "clean" /\ n.new = {} /\ n.old = {f}
    BY <1>2
  <2>3. "listing" \notin torn' => ~IsShown(f)'
    <3>1. "listing" \notin torn => images[f] <= 1 /\ images[f] \in Nat
      BY DEF MediaInv, MediaShape, RowsInv
    <3>2. QED
      BY <1>6, <1>7, <3>1 DEF IsShown
  <2>4. ListingCall(n)'
    BY <1>1, <1>4, <1>5, <2>2, <2>3 DEF ListingCall
  <2>5. QED
    BY <1>1, <1>3, <1>5, <2>1, <2>2, <2>4 DEF MediaCall, MediaCallShape, ForListing, ForProfile, ForAll
<1>12. ASSUME NEW d \in Pair, d # c PROVE Undisturbed(calls[d])
  <2>1. ForListing(calls[d]) => "listing" \in torn'
    BY <1>6 DEF ForListing, ForProfile
  <2>2. QED
    BY <1>1, <1>6, <1>8, <2>1 DEF Undisturbed
<1>13. CallsInv'
  BY <1>6, <1>11, <1>12, CallsStay
<1>14. QED
  BY <1>6, <1>9, <1>10, <1>13 DEF MediaInv

LEMMA DeleteFilesInv ==
  ASSUME MediaInv, NEW c \in Pair, Media!DeleteFiles(c)
  PROVE  MediaInv'
<1>1. PICK m : m = calls[c]
  OBVIOUS
<1>2. /\ m.step = "clean"
      /\ stored' \subseteq stored
      /\ \A f \in Couple : f \in stored /\ f \notin m.old => f \in stored'
      /\ calls' = [calls EXCEPT ![c] = Media!Idle]
      /\ UNCHANGED <<clock, uploaded, used, member, listing, images, avatar, sweep, torn>>
  BY <1>1 DEF Media!DeleteFiles, Media!End, Media!rows, clock, used, member,
     listing, images, avatar, sweep, uploaded, stored, calls, torn
<1>3. MediaCall(m)
  BY <1>1 DEF MediaInv, CallsInv
<1>4. /\ m # Media!Idle
      /\ \/ ForListing(m) /\ ~ForProfile(m)
         \/ ForProfile(m) /\ ~ForListing(m)
         \/ ForAll(m) /\ ~ForListing(m) /\ ~ForProfile(m)
  <2>1. m # Media!Idle
    BY <1>2 DEF Media!Idle
  <2>2. QED
    BY <1>3, <2>1 DEF MediaCall, MediaCallShape, ForListing, ForProfile, ForAll
<1>5. \A f \in Couple : (IsShown(f) <=> IsShown(f)') /\ (Young(f) <=> Young(f)')
                        /\ (Spared(f) <=> Spared(f)')
  BY <1>2, SameAge DEF Spared, IsShown
<1>6. "listing" \notin torn => \A f \in Couple : f \in m.old => ~IsShown(f)
  <2>1. CASE ForListing(m)
    BY <1>2, <1>3, <2>1 DEF MediaCall, ListingCall
  <2>2. CASE ForProfile(m)
    BY <1>3, <2>2 DEF MediaCall, ProfileCall, Takes
  <2>3. CASE ForAll(m)
    BY <1>2, <1>3, <2>3 DEF MediaCall, MediaInv, RowsInv
  <2>4. QED
    BY <1>4, <2>1, <2>2, <2>3
<1>7. "profile" \notin torn => \A f \in Couple : f \in m.old => f \notin avatar
  <2>1. CASE ForListing(m)
    BY <1>3, <2>1 DEF MediaCall, ListingCall, Takes
  <2>2. CASE ForProfile(m)
    BY <1>2, <1>3, <2>2 DEF MediaCall, ProfileCall
  <2>3. CASE ForAll(m)
    BY <1>2, <1>3, <2>3 DEF MediaCall, MediaInv, RowsInv
  <2>4. QED
    BY <1>4, <2>1, <2>2, <2>3
<1>8. MediaShape'
  BY <1>2 DEF MediaInv, MediaShape
<1>9. RowsInv'
  BY <1>2, <1>5, <1>6, <1>7 DEF MediaInv, RowsInv
<1>10. PairsInv'
  BY <1>2, PairsStay
<1>11. ASSUME NEW d \in Pair, d # c PROVE Undisturbed(calls[d])
  <2>1. ForListing(calls[d]) /\ "listing" \notin torn =>
          \A f \in Couple : f \in calls[d].new => f \notin m.old
    <3>1. SUFFICES ASSUME ForListing(calls[d]), "listing" \notin torn
                   PROVE  \A f \in Couple : f \in calls[d].new => f \notin m.old
      OBVIOUS
    <3>2. ForProfile(m)
      BY <1>1, <1>4, <1>11, <3>1, AloneOnListing DEF ForListing, ForProfile
    <3>3. QED
      BY <1>1, <3>1, <3>2 DEF MediaInv, PairsInv, Apart, Takes
  <2>2. ForProfile(calls[d]) /\ "profile" \notin torn =>
          \A f \in Couple : f \in calls[d].new => f \notin m.old
    <3>1. SUFFICES ASSUME ForProfile(calls[d]), "profile" \notin torn
                   PROVE  \A f \in Couple : f \in calls[d].new => f \notin m.old
      OBVIOUS
    <3>2. ForListing(m)
      BY <1>1, <1>4, <1>11, <3>1, AloneOnProfile DEF ForListing, ForProfile
    <3>3. QED
      BY <1>1, <3>1, <3>2 DEF MediaInv, PairsInv, Apart, Takes
  <2>3. QED
    BY <1>2, <1>5, <2>1, <2>2 DEF Undisturbed
<1>12. CallsInv'
  BY <1>2, <1>11, IdleCall, CallsStay
<1>13. QED
  BY <1>8, <1>9, <1>10, <1>12 DEF MediaInv

\* A sweep that starts between the delete and the write of an update takes
\* no account of the images that the listing keeps.
LEMMA CollectInv ==
  ASSUME MediaInv, Media!CollectReferenced
  PROVE  MediaInv'
<1>1. /\ sweep' = [running |-> TRUE, refs |-> Media!Shown \cup avatar]
      /\ torn' = torn \cup {"listing" : c \in {d \in Media!Running :
                   calls[d].step = "write" /\ calls[d].parts = {"listing"}}}
      /\ UNCHANGED <<clock, uploaded, stored, used, member, listing, images, avatar, calls>>
  BY DEF Media!CollectReferenced, Media!disk, Media!rows, clock, used, member,
     listing, images, avatar, sweep, uploaded, stored, calls, torn
<1>2. torn \subseteq torn' /\ ("profile" \notin torn => "profile" \notin torn')
  BY <1>1
<1>3. \A f \in Couple : IsShown(f) \/ f \in avatar => Spared(f)'
  BY <1>1 DEF Spared, IsShown, Media!Shown, images
<1>4. \A f \in Couple : (IsShown(f) <=> IsShown(f)') /\ (Young(f) <=> Young(f)')
  BY <1>1, SameAge DEF IsShown
<1>5. MediaShape'
  BY <1>1 DEF MediaInv, MediaShape
<1>6. RowsInv'
  BY <1>1, <1>2, <1>3, <1>4 DEF MediaInv, RowsInv
<1>7. ASSUME NEW d \in Pair PROVE Undisturbed(calls[d])
  <2>1. ForListing(calls[d]) /\ calls[d].step = "write" => "listing" \in torn'
    BY <1>1 DEF ForListing, Media!Running, calls
  <2>2. QED
    BY <1>1, <1>2, <1>4, <2>1 DEF Undisturbed
<1>8. CallsInv' /\ PairsInv'
  BY <1>1, <1>2, <1>7, CallsSame
<1>9. QED
  BY <1>5, <1>6, <1>8 DEF MediaInv

LEMMA CleanSpacesInv ==
  ASSUME CatalogueAssumption, MediaInv, Media!CleanSpaces
  PROVE  MediaInv'
<1>1. /\ sweep # Media!NoSweep /\ sweep' = Media!NoSweep
      /\ stored' \subseteq stored
      /\ \A f \in Couple : f \in stored /\ (f \notin Media!Old \/ f \in sweep.refs) => f \in stored'
      /\ UNCHANGED <<clock, uploaded, used, member, listing, images, avatar, calls, torn>>
  BY DEF Media!CleanSpaces, Media!Old, Media!rows, clock, used, member,
     listing, images, avatar, sweep, uploaded, stored, calls, torn
<1>2. \A f \in Couple : f \in stored /\ Spared(f) => f \in stored'
  <2>1. ASSUME NEW f \in Couple, Young(f) PROVE f \notin Media!Old
    <3>1. uploaded[f] + MIN_AGE \in Int /\ clock \in Int
      BY DEF CatalogueAssumption, Media!MediaAssumption, MediaInv, MediaShape
    <3>2. uploaded[f] + MIN_AGE >= clock
      BY <2>1 DEF Young
    <3>3. ~(uploaded[f] + MIN_AGE < clock)
      BY <3>1, <3>2
    <3>4. QED
      BY <3>3 DEF Media!Old, uploaded, clock
  <2>2. QED
    BY <1>1, <2>1 DEF Spared
<1>3. \A f \in Couple : /\ (IsShown(f) <=> IsShown(f)') /\ (Young(f) <=> Young(f)')
                        /\ Spared(f)'
  BY <1>1, SameAge DEF IsShown, Spared
<1>4. MediaShape'
  BY <1>1 DEF MediaInv, MediaShape
<1>5. RowsInv'
  BY <1>1, <1>2, <1>3 DEF MediaInv, RowsInv
<1>6. ASSUME NEW d \in Pair PROVE Undisturbed(calls[d])
  <2>1. ForListing(calls[d]) /\ "listing" \notin torn /\ calls[d].step \in {"read", "delete", "write"}
          => \A f \in Couple : f \in calls[d].new => f \in stored'
    <3>1. SUFFICES ASSUME ForListing(calls[d]), "listing" \notin torn,
                          calls[d].step \in {"read", "delete", "write"}
                   PROVE  \A f \in Couple : f \in calls[d].new => f \in stored'
      OBVIOUS
    <3>2. ListingCall(calls[d])
      BY <3>1 DEF MediaInv, CallsInv, MediaCall
    <3>3. \A f \in Couple : f \in calls[d].new => f \in stored /\ (IsShown(f) \/ Spared(f))
      BY <3>1, <3>2 DEF ListingCall, Spared
    <3>4. \A f \in Couple : IsShown(f) => Spared(f)
      BY <3>1 DEF MediaInv, RowsInv
    <3>5. QED
      BY <1>2, <3>3, <3>4
  <2>2. ForProfile(calls[d]) /\ "profile" \notin torn /\ calls[d].step = "write"
          => \A f \in Couple : f \in calls[d].new => f \in stored'
    <3>1. SUFFICES ASSUME ForProfile(calls[d]), "profile" \notin torn, calls[d].step = "write"
                   PROVE  \A f \in Couple : f \in calls[d].new => f \in stored'
      OBVIOUS
    <3>2. ProfileCall(calls[d])
      BY <3>1 DEF MediaInv, CallsInv, MediaCall
    <3>3. \A f \in Couple : f \in calls[d].new => f \in stored /\ (f \in avatar \/ Spared(f))
      BY <3>1, <3>2 DEF ProfileCall, Spared
    <3>4. \A f \in Couple : f \in avatar => Spared(f)
      BY <3>1 DEF MediaInv, RowsInv
    <3>5. QED
      BY <1>2, <3>3, <3>4
  <2>3. QED
    BY <1>1, <1>3, <2>1, <2>2 DEF Undisturbed
<1>7. CallsInv' /\ PairsInv'
  BY <1>1, <1>6, CallsSame
<1>8. QED
  BY <1>4, <1>5, <1>7 DEF MediaInv

LEMMA MediaTickInv ==
  ASSUME MediaInv, Media!Tick
  PROVE  MediaInv'
<1>1. /\ \A d \in Pair : calls[d] = Media!Idle
      /\ sweep = Media!NoSweep /\ clock' = clock + 1
      /\ UNCHANGED <<uploaded, stored, used, member, listing, images, avatar, calls, sweep, torn>>
  BY DEF Media!Tick, Media!Running, Media!disk, Media!rows, clock, used, member,
     listing, images, avatar, sweep, uploaded, stored, calls, torn
<1>2. MediaShape'
  BY <1>1 DEF MediaInv, MediaShape
<1>3. \A f \in Couple : (IsShown(f) <=> IsShown(f)') /\ Spared(f)'
  BY <1>1 DEF IsShown, Spared
<1>4. RowsInv'
  BY <1>1, <1>3 DEF MediaInv, RowsInv
<1>5. CallsInv' /\ PairsInv'
  BY <1>1 DEF CallsInv, MediaCall, MediaCallShape, PairsInv, Apart, Overlap,
     ForListing, ForProfile, ForAll
<1>6. QED
  BY <1>2, <1>4, <1>5 DEF MediaInv

LEMMA MediaNext ==
  ASSUME CatalogueAssumption, MediaInv, Media!Next
  PROVE  MediaInv'
  BY UploadInv, PublishInv, RequestVerificationInv, StartUpdateInv, ReadImagesInv,
     DeleteRowsInv, WriteRowsInv, StartProfileInv, WriteProfileInv, StartRemoveInv,
     RemoveRowsInv, AdminDeleteImageInv, DeleteFilesInv, FailInv, CollectInv,
     CleanSpacesInv, MediaTickInv DEF Media!Next

-----------------------------------------------------------------------------
(***************************************************************************)
(* Media: the rows that an update is about to write count as written.      *)
(***************************************************************************)
ImageRows == {r \in Couple \X (Nat \ {0}) : r[2] <= images[r[1]]}
Writing == {c \in Pair : calls[c].step = "write" /\ calls[c].parts = {"listing"}}

ImagesInv ==
  /\ IsFiniteSet(ImageRows)
  /\ Cardinality(ImageRows) + MaxImages * Cardinality(Writing)
       <= MaxImages * Cardinality(Pair)
  /\ \A c \in Pair : calls[c].step \in {"read", "delete", "write"} =>
       /\ IsFiniteSet(calls[c].new)
       /\ calls[c].parts = {"listing"} => Cardinality(calls[c].new) <= MaxImages

LEMMA MediaSizes ==
  ASSUME CatalogueAssumption
  PROVE  /\ MaxImages \in Nat /\ IsFiniteSet(Pair) /\ Pair # {} /\ IsFiniteSet(Couple)
         /\ Cardinality(Pair) \in Nat /\ Cardinality(Pair) >= 1
<1>1. MaxImages \in Nat /\ IsFiniteSet(Pair) /\ Pair # {} /\ IsFiniteSet(Couple)
  BY SameCounts DEF CatalogueAssumption, Media!MediaAssumption
<1>2. Cardinality(Pair) \in Nat /\ Cardinality(Pair) # 0
  BY <1>1, FS_CardinalityType, FS_EmptySet
<1>3. QED
  BY <1>1, <1>2

\* What the model counts.
LEMMA CountedRows ==
  ASSUME \A f \in Couple : images[f] \in Nat
  PROVE  UNION {{f} \X (1..images[f]) : f \in Couple} = ImageRows
  BY DEF ImageRows

LEMMA ImagesMean ==
  ASSUME CatalogueAssumption, MediaInv, ImagesInv
  PROVE  Media!ImagesBounded
<1>1. UNION {{f} \X (1..images[f]) : f \in Couple} = ImageRows
  BY CountedRows DEF MediaInv, MediaShape
<1>2. Media!ImagesBounded <=> Cardinality(ImageRows) <= MaxImages * Cardinality(Pair)
  BY <1>1, SameCounts, Zenon DEF Media!ImagesBounded, images
<1>3. PICK i \in Nat, w \in Nat, p \in Nat : i = Cardinality(ImageRows) /\ w = Cardinality(Writing) /\ p = Cardinality(Pair)
  <2>1. Writing \in SUBSET Pair
    BY DEF Writing
  <2>2. Cardinality(Writing) \in Nat /\ Cardinality(Pair) \in Nat
    BY <2>1, MediaSizes, Counts
  <2>3. Cardinality(ImageRows) \in Nat
    BY FS_CardinalityType DEF ImagesInv
  <2>4. QED
    BY <2>2, <2>3
<1>4. i + MaxImages * w <= MaxImages * p
  BY <1>3, Zenon DEF ImagesInv
<1>5. MaxImages * w \in Nat /\ MaxImages * p \in Nat
  BY MediaSizes
<1>6. i <= MaxImages * p
  BY <1>4, <1>5
<1>7. QED
  BY <1>2, <1>3, <1>6, Zenon

LEMMA ImagesInit == ASSUME CatalogueAssumption, Media!Init PROVE ImagesInv
<1>1. ImageRows = {} /\ Writing = {}
  BY DEF Media!Init, ImageRows, Writing, images, calls, Media!Idle
<1>2. \A c \in Pair : calls[c].step = "idle"
  BY DEF Media!Init, calls, Media!Idle
<1>3. IsFiniteSet({}) /\ Cardinality({}) = 0
  BY FS_EmptySet
<1>4. 0 + MaxImages * 0 <= MaxImages * Cardinality(Pair)
  BY MediaSizes
<1>5. IsFiniteSet(ImageRows) /\ Cardinality(ImageRows) + MaxImages * Cardinality(Writing)
       <= MaxImages * Cardinality(Pair)
  BY <1>1, <1>3, <1>4
<1>6. QED
  BY <1>2, <1>5 DEF ImagesInv

\* Fewer rows and no more writers, or no rows, or the rows of a writer.
LEMMA FewerRows ==
  ASSUME CatalogueAssumption, ImagesInv, ImageRows' \subseteq ImageRows, Writing' \subseteq Writing
  PROVE  IsFiniteSet(ImageRows)' /\ (Cardinality(ImageRows) + MaxImages * Cardinality(Writing)
            <= MaxImages * Cardinality(Pair))'
<1>1. /\ IsFiniteSet(ImageRows') /\ Cardinality(ImageRows') \in Nat /\ Cardinality(ImageRows) \in Nat
      /\ Cardinality(ImageRows') <= Cardinality(ImageRows)
  BY Counts DEF ImagesInv
<1>2. Writing \in SUBSET Pair
  BY DEF Writing
<1>3. /\ Cardinality(Writing) \in Nat /\ Cardinality(Writing') \in Nat
      /\ Cardinality(Writing') <= Cardinality(Writing)
  BY <1>2, Counts, MediaSizes
<1>4. PICK i \in Nat, j \in Nat, v \in Nat, w \in Nat, p \in Nat :
         /\ i = Cardinality(ImageRows) /\ j = Cardinality(ImageRows')
         /\ v = Cardinality(Writing) /\ w = Cardinality(Writing') /\ p = Cardinality(Pair)
  BY <1>1, <1>3, MediaSizes
<1>5. j <= i /\ w <= v /\ i + MaxImages * v <= MaxImages * p
  BY <1>1, <1>3, <1>4 DEF ImagesInv
<1>6. j + MaxImages * w <= MaxImages * p
  <2>1. PICK k \in Nat : v = w + k
    BY <1>5
  <2>2. MaxImages * (w + k) = MaxImages * w + MaxImages * k
    BY MediaSizes
  <2>3. PICK a \in Nat, b \in Nat, q \in Nat : a = MaxImages * w /\ b = MaxImages * k /\ q = MaxImages * p
    BY MediaSizes
  <2>4. i + (a + b) <= q
    BY <1>5, <2>1, <2>2, <2>3
  <2>5. j + a <= q
    BY <1>5, <2>4
  <2>6. QED
    BY <2>3, <2>5
<1>7. Cardinality(Pair)' = Cardinality(Pair) /\ MaxImages' = MaxImages
  OBVIOUS
<1>8. QED
  BY <1>1, <1>4, <1>6, <1>7

LEMMA NoRows ==
  ASSUME CatalogueAssumption, ImageRows' = {}
  PROVE  IsFiniteSet(ImageRows)' /\ (Cardinality(ImageRows) + MaxImages * Cardinality(Writing)
            <= MaxImages * Cardinality(Pair))'
<1>1. IsFiniteSet(ImageRows') /\ Cardinality(ImageRows') = 0
  BY FS_EmptySet
<1>2. Writing' \in SUBSET Pair
  BY DEF Writing
<1>3. /\ Cardinality(Writing') \in Nat /\ Cardinality(Writing') <= Cardinality(Pair)
  BY <1>2, Counts, MediaSizes
<1>4. PICK w \in Nat, k \in Nat : w = Cardinality(Writing') /\ Cardinality(Pair) = w + k
  BY <1>3, MediaSizes
<1>5. 0 + MaxImages * w <= MaxImages * (w + k)
  <2>1. MaxImages * (w + k) = MaxImages * w + MaxImages * k
    BY MediaSizes
  <2>2. MaxImages * w \in Nat /\ MaxImages * k \in Nat
    BY MediaSizes
  <2>3. QED
    BY <2>1, <2>2
<1>6. Cardinality(Pair)' = Cardinality(Pair) /\ MaxImages' = MaxImages
  OBVIOUS
<1>7. QED
  BY <1>1, <1>4, <1>5, <1>6

\* A set of files brings a row for each.
LEMMA NewRows ==
  ASSUME NEW new, IsFiniteSet(new), new \subseteq Couple, IsFiniteSet(ImageRows),
         \A f \in Couple : images[f] \in Nat,
         \A f \in Couple : images'[f] = images[f] + IF f \in new THEN 1 ELSE 0
  PROVE  /\ IsFiniteSet(ImageRows') /\ Cardinality(ImageRows') \in Nat
         /\ Cardinality(ImageRows') <= Cardinality(ImageRows) + Cardinality(new)
<1> DEFINE g == [f \in new |-> <<f, images[f] + 1>>]
           added == {g[f] : f \in new}
<1>1. IsFiniteSet(added) /\ Cardinality(added) <= Cardinality(new)
  BY Images
<1>2. ImageRows' \subseteq ImageRows \cup added
  <2>1. ASSUME NEW r \in ImageRows' PROVE r \in ImageRows \cup added
    <3>1. r \in Couple \X (Nat \ {0}) /\ r[2] <= images'[r[1]]
      BY <2>1 DEF ImageRows
    <3>2. PICK f \in Couple, n \in Nat : n # 0 /\ r = <<f, n>> /\ n <= images'[f]
      BY <3>1
    <3>3. CASE n <= images[f]
      BY <3>2, <3>3 DEF ImageRows
    <3>4. CASE ~(n <= images[f])
      <4>1. f \in new /\ n = images[f] + 1
        BY <3>2, <3>4
      <4>2. r = g[f]
        BY <3>2, <4>1
      <4>3. QED
        BY <4>1, <4>2
    <3>5. QED
      BY <3>3, <3>4
  <2>2. QED
    BY <2>1
<1> HIDE DEF added
<1>3. IsFiniteSet(ImageRows \cup added)
      /\ Cardinality(ImageRows \cup added)
           = Cardinality(ImageRows) + Cardinality(added) - Cardinality(ImageRows \cap added)
  BY <1>1, FS_Union
<1>4. IsFiniteSet(ImageRows \cap added)
  BY FS_Intersection
<1>5. /\ Cardinality(ImageRows) \in Nat /\ Cardinality(added) \in Nat /\ Cardinality(new) \in Nat
      /\ Cardinality(ImageRows \cap added) \in Nat
  BY <1>1, <1>4, FS_CardinalityType
<1>6. /\ IsFiniteSet(ImageRows') /\ Cardinality(ImageRows') \in Nat
      /\ Cardinality(ImageRows') <= Cardinality(ImageRows \cup added)
  BY <1>2, <1>3, Counts
<1>7. QED
  BY <1>1, <1>3, <1>5, <1>6

\* One call changes.
WellSized(m) ==
  m.step \in {"read", "delete", "write"} =>
    /\ IsFiniteSet(m.new)
    /\ m.parts = {"listing"} => Cardinality(m.new) <= MaxImages

LEMMA OneCall ==
  ASSUME MediaInv, ImagesInv, NEW c \in Pair, NEW m, calls' = [calls EXCEPT ![c] = m],
         WellSized(m)
  PROVE  /\ \A d \in Pair : WellSized(calls'[d])
         /\ ~(m.step = "write" /\ m.parts = {"listing"}) => Writing' = Writing \ {c}
         /\ Writing' \subseteq Writing \cup {c}
<1>1. \A d \in Pair : calls'[d] = IF d = c THEN m ELSE calls[d]
  BY DEF MediaInv, MediaShape
<1>2. \A d \in Pair : WellSized(calls[d])
  BY DEF ImagesInv, WellSized
<1>3. \A d \in Pair : WellSized(calls'[d])
  BY <1>1, <1>2
<1>4. ~(m.step = "write" /\ m.parts = {"listing"}) => Writing' = Writing \ {c}
  BY <1>1 DEF Writing
<1>5. Writing' \subseteq Writing \cup {c}
  BY <1>1 DEF Writing
<1>6. QED
  BY <1>3, <1>4, <1>5

LEMMA AsSized ==
  ASSUME IsFiniteSet(ImageRows)' /\ (Cardinality(ImageRows) + MaxImages * Cardinality(Writing)
            <= MaxImages * Cardinality(Pair))',
         \A d \in Pair : WellSized(calls'[d])
  PROVE  ImagesInv'
  BY DEF ImagesInv, WellSized

LEMMA CallRecords ==
  ASSUME MediaInv, NEW c \in Pair, calls[c].step # "idle"
  PROVE  /\ calls[c] \in [parts : SUBSET Media!Parts, step : Media!Steps, new : SUBSET Couple,
                          old : SUBSET Couple]
         /\ calls[c].parts = {"listing"} => listing # "none"
<1>1. MediaCallShape(calls[c]) /\ (ForListing(calls[c]) => ListingCall(calls[c]))
  BY DEF MediaInv, CallsInv, MediaCall
<1>2. calls[c] # Media!Idle
  BY DEF Media!Idle
<1>3. calls[c] \in [parts : SUBSET Media!Parts, step : Media!Steps, new : SUBSET Couple,
                          old : SUBSET Couple]
  BY <1>1, <1>2 DEF MediaCallShape, Media!Parts, Media!Steps
<1>4. QED
  BY <1>1, <1>2, <1>3 DEF ForListing, ListingCall

LEMMA StepOnly ==
  ASSUME MediaInv, ImagesInv, NEW c \in Pair, NEW step, calls[c].step # "idle", Media!Go(c, step),
         step \notin {"read", "delete"}, step = "write" => calls[c].step = "delete"
  PROVE  /\ \A d \in Pair : WellSized(calls'[d])
         /\ step # "write" => Writing' \subseteq Writing \ {c}
<1> DEFINE m == [calls[c] EXCEPT !.step = step]
<1>1. calls' = [calls EXCEPT ![c] = m]
  BY DEF Media!Go, calls
<1>2. m.step = step /\ m.new = calls[c].new /\ m.parts = calls[c].parts
  BY CallRecords
<1>3. WellSized(calls[c])
  BY DEF ImagesInv, WellSized
<1>4. WellSized(m)
  BY <1>2, <1>3 DEF WellSized
<1>5. QED
  BY <1>1, <1>2, <1>4, OneCall

LEMMA EndOnly ==
  ASSUME MediaInv, ImagesInv, NEW c \in Pair, calls' = [calls EXCEPT ![c] = Media!Idle]
  PROVE  (\A d \in Pair : WellSized(calls'[d])) /\ Writing' = Writing \ {c}
<1>1. PICK m : m = Media!Idle
  OBVIOUS
<1>2. m.step = "idle" /\ calls' = [calls EXCEPT ![c] = m]
  BY <1>1 DEF Media!Idle
<1>3. WellSized(m)
  BY <1>2 DEF WellSized
<1>4. QED
  BY <1>2, <1>3, OneCall

LEMMA PublishImages ==
  ASSUME CatalogueAssumption, MediaInv, ImagesInv, Media!Publish PROVE ImagesInv'
<1>1. PICK new \in SUBSET Couple :
        /\ Media!Cardinality(new) \in 1..MaxImages /\ listing = "none" /\ calls' = calls
        /\ images' = [f \in Couple |-> IF f \in new THEN 1 ELSE 0]
  <2>1. Media!Fresh \subseteq Couple
    BY DEF Media!Fresh, stored, MediaInv, MediaShape
  <2>2. QED
    BY <2>1 DEF Media!Publish, Media!Photos, listing, calls, images
<1>2. IsFiniteSet(new) /\ Cardinality(new) \in Nat /\ Cardinality(new) <= MaxImages
  BY <1>1, MediaSizes, SameCounts, Counts
<1>3. Writing' = {}
  <2>1. \A c \in Pair : calls[c].step = "write" => calls[c].parts # {"listing"}
    BY <1>1, CallRecords
  <2>2. QED
    BY <1>1, <2>1 DEF Writing
<1>4. ImageRows' = {r \in Couple \X (Nat \ {0}) : r[1] \in new /\ r[2] = 1}
  BY <1>1 DEF ImageRows
<1> DEFINE g == [f \in new |-> <<f, 1>>]
<1>5. ImageRows' \subseteq {g[f] : f \in new}
  BY <1>4
<1>6. IsFiniteSet({g[f] : f \in new}) /\ Cardinality({g[f] : f \in new}) <= Cardinality(new)
  BY <1>2, Images
<1> HIDE DEF g
<1>7. /\ IsFiniteSet(ImageRows') /\ Cardinality(ImageRows') \in Nat
      /\ Cardinality(ImageRows') <= Cardinality({g[f] : f \in new})
  BY <1>5, <1>6, Counts
<1>8. Cardinality(Writing') = 0
  BY <1>3, FS_EmptySet
<1>9. PICK i \in Nat, p \in Nat : i = Cardinality(ImageRows') /\ Cardinality(Pair) = p + 1 /\ i <= MaxImages
  <2>1. Cardinality({g[f] : f \in new}) \in Nat
    BY <1>6, FS_CardinalityType
  <2>2. Cardinality(ImageRows') <= MaxImages
    BY <1>2, <1>6, <1>7, <2>1, MediaSizes
  <2>3. Cardinality(Pair) - 1 \in Nat /\ Cardinality(Pair) = (Cardinality(Pair) - 1) + 1
    BY MediaSizes
  <2>4. QED
    BY <1>7, <2>2, <2>3
<1>10. i + MaxImages * 0 <= MaxImages * (p + 1)
  <2>1. MaxImages * (p + 1) = MaxImages * p + MaxImages /\ MaxImages * p \in Nat /\ MaxImages * 0 = 0
    BY MediaSizes
  <2>2. QED
    BY <1>9, <2>1, MediaSizes
<1>11. (Cardinality(ImageRows) + MaxImages * Cardinality(Writing) <= MaxImages * Cardinality(Pair))'
  <2>1. Cardinality(Pair)' = Cardinality(Pair) /\ MaxImages' = MaxImages
    OBVIOUS
  <2>2. QED
    BY <1>8, <1>9, <1>10, <2>1
<1>12. \A d \in Pair : WellSized(calls'[d])
  BY <1>1 DEF ImagesInv, WellSized
<1>13. QED
  BY <1>7, <1>11, <1>12, AsSized

LEMMA WriteRowsImages ==
  ASSUME CatalogueAssumption, MediaInv, ImagesInv, NEW c \in Pair, Media!WriteRows(c)
  PROVE  ImagesInv'
<1>1. calls[c].step = "write" /\ calls[c].parts = {"listing"} /\ c \in Writing
  BY DEF Media!WriteRows, calls, Writing
<1>2. CASE listing # "live"
  <2>1. images' = images /\ calls' = [calls EXCEPT ![c] = Media!Idle]
    BY <1>2 DEF Media!WriteRows, Media!End, images, calls, listing
  <2>2. (\A d \in Pair : WellSized(calls'[d])) /\ Writing' = Writing \ {c}
    BY <2>1, EndOnly
  <2>3. ImageRows' = ImageRows
    BY <2>1 DEF ImageRows
  <2>4. QED
    BY <2>2, <2>3, FewerRows, AsSized
<1>3. CASE listing = "live"
  <2> DEFINE new == calls[c].new
  <2>1. /\ images' = [f \in Couple |-> images[f] + IF f \in new THEN 1 ELSE 0]
        /\ Media!Go(c, "clean")
    BY <1>3 DEF Media!WriteRows, images, calls, listing
  <2>2. \A d \in Pair : WellSized(calls'[d])
    BY <1>1, <2>1, StepOnly
  <2>3. Writing' \subseteq Writing \ {c}
    BY <1>1, <2>1, StepOnly
  <2>4. IsFiniteSet(new) /\ Cardinality(new) <= MaxImages /\ new \subseteq Couple
    BY <1>1, CallRecords DEF ImagesInv
  <2> HIDE DEF new
  <2>5. IsFiniteSet(ImageRows) /\ \A f \in Couple : images[f] \in Nat
    BY DEF ImagesInv, MediaInv, MediaShape
  <2>6. \A f \in Couple : images'[f] = images[f] + IF f \in new THEN 1 ELSE 0
    BY <2>1
  <2>7. /\ IsFiniteSet(ImageRows') /\ Cardinality(ImageRows') \in Nat
        /\ Cardinality(ImageRows') <= Cardinality(ImageRows) + Cardinality(new)
    BY <2>4, <2>5, <2>6, NewRows
  <2>8. Writing \in SUBSET Pair /\ Writing \ {c} \in SUBSET Pair
    BY DEF Writing
  <2>9. /\ Cardinality(Writing) \in Nat /\ Cardinality(Writing \ {c}) = Cardinality(Writing) - 1
        /\ Cardinality(Writing') <= Cardinality(Writing \ {c}) /\ Cardinality(Writing') \in Nat
    <3>1. /\ Cardinality(Writing) \in Nat /\ Cardinality(Writing \ {c}) = Cardinality(Writing) - 1
          /\ IsFiniteSet(Writing \ {c})
      BY <1>1, <2>8, Counts, MediaSizes
    <3>2. Cardinality(Writing') <= Cardinality(Writing \ {c}) /\ Cardinality(Writing') \in Nat
      BY <2>3, <3>1, Counts
    <3>3. QED
      BY <3>1, <3>2
  <2>10. PICK i \in Nat, j \in Nat, k \in Nat, v \in Nat, w \in Nat, p \in Nat :
           /\ i = Cardinality(ImageRows) /\ j = Cardinality(ImageRows') /\ k = Cardinality(new)
           /\ v = Cardinality(Writing) /\ w = Cardinality(Writing') /\ p = Cardinality(Pair)
    BY <2>4, <2>5, <2>7, <2>9, FS_CardinalityType, MediaSizes
  <2>11. j <= i + k /\ k <= MaxImages /\ w <= v - 1 /\ i + MaxImages * v <= MaxImages * p
    BY <2>4, <2>7, <2>9, <2>10 DEF ImagesInv
  <2>12. j + MaxImages * w <= MaxImages * p
    <3>1. PICK e \in Nat : v = w + 1 + e
      BY <2>11
    <3>2. MaxImages * (w + 1 + e) = MaxImages * w + MaxImages + MaxImages * e
      BY MediaSizes
    <3>3. PICK a \in Nat, b \in Nat, q \in Nat :
            a = MaxImages * w /\ b = MaxImages * e /\ q = MaxImages * p
      BY MediaSizes
    <3>4. i + (a + MaxImages + b) <= q
      BY <2>11, <3>1, <3>2, <3>3
    <3>5. j + a <= q
      BY <2>11, <3>4, MediaSizes
    <3>6. QED
      BY <3>3, <3>5
  <2>13. (Cardinality(ImageRows) + MaxImages * Cardinality(Writing) <= MaxImages * Cardinality(Pair))'
    <3>1. Cardinality(Pair)' = Cardinality(Pair) /\ MaxImages' = MaxImages
      OBVIOUS
    <3>2. QED
      BY <2>10, <2>12, <3>1
  <2>14. QED
    BY <2>2, <2>7, <2>13, AsSized
<1>4. QED
  BY <1>2, <1>3

LEMMA ImagesNext ==
  ASSUME CatalogueAssumption, MediaInv, ImagesInv, Media!Next
  PROVE  ImagesInv'
<1>1. CASE images' = images /\ calls' = calls
  BY <1>1 DEF ImagesInv, ImageRows, Writing
<1>2. CASE Media!Publish
  BY <1>2, PublishImages
<1>3. ASSUME NEW c \in Pair, Media!StartUpdate(c) PROVE ImagesInv'
  <2>1. Media!Fresh \subseteq Couple /\ Media!Shown \subseteq Couple
    BY DEF Media!Fresh, Media!Shown, stored, MediaInv, MediaShape
  <2>2. PICK new \in SUBSET Couple :
          /\ Media!Cardinality(new) \in 1..MaxImages
          /\ calls' = [calls EXCEPT ![c] =
               [parts |-> {"listing"}, step |-> "read", new |-> new, old |-> {}]]
          /\ images' = images
    BY <1>3, <2>1 DEF Media!StartUpdate, Media!Photos, Media!Start, calls, images, Media!rows
  <2>3. IsFiniteSet(new) /\ Cardinality(new) <= MaxImages
    BY <2>2, MediaSizes, SameCounts, Counts
  <2> DEFINE m == [parts |-> {"listing"}, step |-> "read", new |-> new, old |-> {}]
  <2>4. WellSized(m) /\ m.step # "write"
    BY <2>3 DEF WellSized
  <2> HIDE DEF m
  <2>5. calls' = [calls EXCEPT ![c] = m]
    BY <2>2 DEF m
  <2>6. (\A d \in Pair : WellSized(calls'[d])) /\ Writing' = Writing \ {c}
    BY <2>4, <2>5, OneCall
  <2>7. ImageRows' = ImageRows
    BY <2>2 DEF ImageRows
  <2>8. QED
    BY <2>6, <2>7, FewerRows, AsSized
<1>4. ASSUME NEW c \in Pair, Media!ReadImages(c) PROVE ImagesInv'
  <2> DEFINE m == [calls[c] EXCEPT !.step = "delete", !.old = Media!Shown \ calls[c].new]
  <2>1. calls[c].step = "read" /\ calls' = [calls EXCEPT ![c] = m] /\ images' = images
    BY <1>4 DEF Media!ReadImages, calls, images, Media!rows
  <2>2. m.step = "delete" /\ m.new = calls[c].new /\ m.parts = calls[c].parts
    BY <2>1, CallRecords
  <2>3. WellSized(calls[c])
    BY DEF ImagesInv, WellSized
  <2>4. WellSized(m)
    BY <2>1, <2>2, <2>3 DEF WellSized
  <2> HIDE DEF m
  <2>5. (\A d \in Pair : WellSized(calls'[d])) /\ Writing' = Writing \ {c}
    BY <2>1, <2>2, <2>4, OneCall
  <2>6. ImageRows' = ImageRows
    BY <2>1 DEF ImageRows
  <2>7. QED
    BY <2>5, <2>6, FewerRows, AsSized
<1>5. ASSUME NEW c \in Pair, Media!DeleteRows(c) PROVE ImagesInv'
  <2>1. /\ calls[c].step = "delete" /\ Media!Go(c, "write")
        /\ images' = [f \in Couple |-> 0]
    BY <1>5 DEF Media!DeleteRows, calls, images, Media!NoImages
  <2>2. \A d \in Pair : WellSized(calls'[d])
    BY <2>1, StepOnly
  <2>3. ImageRows' = {}
    BY <2>1 DEF ImageRows
  <2>4. QED
    BY <2>2, <2>3, NoRows, AsSized
<1>6. ASSUME NEW c \in Pair, Media!WriteRows(c) PROVE ImagesInv'
  BY <1>6, WriteRowsImages
<1>7. ASSUME NEW c \in Pair, Media!StartProfile(c) PROVE ImagesInv'
  <2>1. Media!Fresh \subseteq Couple /\ avatar \subseteq Couple
    BY DEF Media!Fresh, stored, MediaInv, MediaShape
  <2>2. PICK new \in SUBSET Couple :
          /\ calls' = [calls EXCEPT ![c] =
               [parts |-> {"profile"}, step |-> "write", new |-> new, old |-> avatar \ new]]
          /\ images' = images
    <3>1. PICK new \in {avatar, {}} \cup {{f} : f \in Media!Fresh} :
            /\ Media!Start(c, {"profile"}, "write", new, avatar \ new)
            /\ images' = images
      BY <1>7 DEF Media!StartProfile, images, avatar, Media!rows
    <3>2. new \in SUBSET Couple
      BY <2>1, <3>1
    <3>3. calls' = [calls EXCEPT ![c] =
               [parts |-> {"profile"}, step |-> "write", new |-> new, old |-> avatar \ new]]
      BY <3>1 DEF Media!Start, calls
    <3>4. QED
      BY <3>1, <3>2, <3>3
  <2>3. IsFiniteSet(new)
    BY MediaSizes, Counts
  <2> DEFINE m == [parts |-> {"profile"}, step |-> "write", new |-> new, old |-> avatar \ new]
  <2>4. WellSized(m) /\ m.parts # {"listing"}
    <3>1. m.new = new /\ m.parts = {"profile"} /\ m.parts # {"listing"}
      OBVIOUS
    <3>2. QED
      BY <2>3, <3>1 DEF WellSized
  <2> HIDE DEF m
  <2>5. calls' = [calls EXCEPT ![c] = m]
    BY <2>2 DEF m
  <2>6. (\A d \in Pair : WellSized(calls'[d])) /\ Writing' = Writing \ {c}
    BY <2>4, <2>5, OneCall
  <2>7. ImageRows' = ImageRows
    BY <2>2 DEF ImageRows
  <2>8. QED
    BY <2>6, <2>7, FewerRows, AsSized
<1>8. ASSUME NEW c \in Pair, Media!WriteProfile(c) PROVE ImagesInv'
  <2>1. calls[c].step = "write" /\ images' = images
    BY <1>8 DEF Media!WriteProfile, calls, images
  <2>2. Media!Go(c, "clean") \/ calls' = [calls EXCEPT ![c] = Media!Idle]
    BY <1>8 DEF Media!WriteProfile, Media!End, calls
  <2>3. (\A d \in Pair : WellSized(calls'[d])) /\ Writing' \subseteq Writing
    <3>1. CASE Media!Go(c, "clean")
      BY <2>1, <3>1, StepOnly
    <3>2. CASE calls' = [calls EXCEPT ![c] = Media!Idle]
      BY <3>2, EndOnly
    <3>3. QED
      BY <2>2, <3>1, <3>2
  <2>4. ImageRows' = ImageRows
    BY <2>1 DEF ImageRows
  <2>5. QED
    BY <2>3, <2>4, FewerRows, AsSized
<1>9. ASSUME NEW c \in Pair, Media!StartRemove(c) PROVE ImagesInv'
  <2>1. PICK parts, step, old :
          /\ step \in {"remove", "leave"} /\ images' = images
          /\ calls' = [calls EXCEPT ![c] =
               [parts |-> parts, step |-> step, new |-> {}, old |-> old]]
    BY <1>9 DEF Media!StartRemove, Media!Start, calls, images, Media!rows
  <2> DEFINE m == [parts |-> parts, step |-> step, new |-> {}, old |-> old]
  <2>2. WellSized(m) /\ m.step # "write"
    BY <2>1 DEF WellSized
  <2> HIDE DEF m
  <2>3. calls' = [calls EXCEPT ![c] = m]
    BY <2>1 DEF m
  <2>4. (\A d \in Pair : WellSized(calls'[d])) /\ Writing' = Writing \ {c}
    BY <2>2, <2>3, OneCall
  <2>5. ImageRows' = ImageRows
    BY <2>1 DEF ImageRows
  <2>6. QED
    BY <2>4, <2>5, FewerRows, AsSized
<1>10. ASSUME NEW c \in Pair, Media!RemoveRows(c) PROVE ImagesInv'
  <2>1. /\ calls[c].step \in {"remove", "leave"} /\ Media!Go(c, "clean")
        /\ images' = [f \in Couple |-> 0]
    BY <1>10 DEF Media!RemoveRows, calls, images, Media!NoImages
  <2>2. \A d \in Pair : WellSized(calls'[d])
    BY <2>1, StepOnly
  <2>3. ImageRows' = {}
    BY <2>1 DEF ImageRows
  <2>4. QED
    BY <2>2, <2>3, NoRows, AsSized
<1>11. ASSUME NEW c \in Pair, Media!AdminDeleteImage(c) PROVE ImagesInv'
  <2>1. PICK f \in Couple :
          /\ images' = [images EXCEPT ![f] = @ - 1]
          /\ calls' = [calls EXCEPT ![c] =
               [parts |-> {"listing"}, step |-> "clean", new |-> {}, old |-> {f}]]
    BY <1>11 DEF Media!AdminDeleteImage, Media!Start, Media!Shown, calls, images
  <2> DEFINE m == [parts |-> {"listing"}, step |-> "clean", new |-> {}, old |-> {f}]
  <2>2. WellSized(m) /\ m.step # "write"
    BY DEF WellSized
  <2> HIDE DEF m
  <2>3. calls' = [calls EXCEPT ![c] = m]
    BY <2>1 DEF m
  <2>4. (\A d \in Pair : WellSized(calls'[d])) /\ Writing' = Writing \ {c}
    BY <2>2, <2>3, OneCall
  <2>5. \A g \in Couple : images'[g] <= images[g]
    <3>1. images = [g \in Couple |-> images[g]] /\ \A g \in Couple : images[g] \in Nat
      BY DEF MediaInv, MediaShape
    <3>2. QED
      BY <2>1, <3>1
  <2>6. ImageRows' \subseteq ImageRows
    <3>1. \A g \in Couple : images[g] \in Nat /\ images'[g] \in Int
      BY <2>1 DEF MediaInv, MediaShape
    <3>2. QED
      BY <2>5, <3>1 DEF ImageRows
  <2>7. QED
    BY <2>4, <2>6, FewerRows, AsSized
<1>12. ASSUME NEW c \in Pair, Media!DeleteFiles(c) \/ Media!Fail(c) PROVE ImagesInv'
  <2>1. images' = images /\ calls' = [calls EXCEPT ![c] = Media!Idle]
    BY <1>12 DEF Media!DeleteFiles, Media!Fail, Media!End, images, calls, Media!rows
  <2>2. (\A d \in Pair : WellSized(calls'[d])) /\ Writing' = Writing \ {c}
    BY <2>1, EndOnly
  <2>3. ImageRows' = ImageRows
    BY <2>1 DEF ImageRows
  <2>4. QED
    BY <2>2, <2>3, FewerRows, AsSized
<1>13. \/ images' = images /\ calls' = calls
       \/ Media!Publish
       \/ \E c \in Pair :
            \/ Media!StartUpdate(c) \/ Media!ReadImages(c) \/ Media!DeleteRows(c)
            \/ Media!WriteRows(c) \/ Media!StartProfile(c) \/ Media!WriteProfile(c)
            \/ Media!StartRemove(c) \/ Media!RemoveRows(c) \/ Media!AdminDeleteImage(c)
            \/ Media!DeleteFiles(c) \/ Media!Fail(c)
  BY DEF Media!Next, Media!Upload, Media!RequestVerification, Media!CollectReferenced,
     Media!CleanSpaces, Media!Tick, images, calls, Media!rows
<1>14. QED
  BY <1>1, <1>2, <1>3, <1>4, <1>5, <1>6, <1>7, <1>8, <1>9, <1>10, <1>11, <1>12, <1>13

-----------------------------------------------------------------------------
(***************************************************************************)
(* Media: types.  A profile has one picture, so a handler writes one.      *)
(***************************************************************************)
docs == s9

OneAtMost(S) == S = {} \/ \E f : S = {f}
MediaTyped ==
  /\ clock \in 0..MediaTime
  /\ uploaded \in [Couple -> Media!Never..MediaTime]
  /\ used \subseteq Couple /\ docs \subseteq Couple
  /\ listing \in {"none", "live", "gone"}
  /\ torn \subseteq Media!Parts
  /\ sweep # Media!NoSweep => sweep.refs \subseteq Couple
  /\ OneAtMost(avatar)
  /\ \A c \in Pair : ForProfile(calls[c]) => OneAtMost(calls[c].new)

LEMMA MediaTypedInit == ASSUME CatalogueAssumption, Media!Init PROVE MediaTyped
<1> USE DEF clock, uploaded, used, docs, listing, avatar, calls, sweep, torn
<1>1. MediaTime \in Nat
  BY DEF CatalogueAssumption, Media!MediaAssumption
<1>2. clock \in 0..MediaTime /\ -1 \in (-1)..MediaTime /\ uploaded = [f \in Couple |-> -1]
  BY <1>1 DEF Media!Init, Media!Never
<1>3. uploaded \in [Couple -> Media!Never..MediaTime]
  BY <1>2 DEF Media!Never
<1>4. \A c \in Pair : ~ForProfile(calls[c])
  BY DEF Media!Init, ForProfile
<1>5. QED
  BY <1>2, <1>3, <1>4 DEF Media!Init, MediaTyped, OneAtMost

\* A step of handlers, with the clock and the uploads as they were.
LEMMA MediaTypedStep ==
  ASSUME MediaTyped, UNCHANGED <<clock, uploaded>>,
         used' \subseteq Couple, docs' \subseteq Couple,
         listing' \in {"none", "live", "gone"}, torn' \subseteq Media!Parts,
         sweep' # Media!NoSweep => sweep'.refs \subseteq Couple,
         OneAtMost(avatar'),
         \A c \in Pair : ForProfile(calls'[c]) => OneAtMost(calls'[c].new)
  PROVE  MediaTyped'
  BY DEF MediaTyped, OneAtMost, ForProfile

\* Calls that start, go on and end.
LEMMA StartTyped ==
  ASSUME MediaInv, MediaTyped, NEW c \in Pair, NEW parts \in SUBSET Media!Parts,
         NEW step, NEW new, NEW old, Media!Start(c, parts, step, new, old),
         parts = {"profile"} => OneAtMost(new)
  PROVE  /\ torn' \subseteq Media!Parts
         /\ \A d \in Pair : ForProfile(calls'[d]) => OneAtMost(calls'[d].new)
<1>1. /\ calls = [d \in Pair |-> calls[d]]
      /\ calls' = [calls EXCEPT ![c] = [parts |-> parts, step |-> step, new |-> new, old |-> old]]
      /\ torn' \subseteq torn \cup parts
  BY DEF MediaInv, MediaShape, Media!Start, calls, torn
<1>2. torn' \subseteq Media!Parts
  BY <1>1 DEF MediaTyped
<1>3. ASSUME NEW d \in Pair, ForProfile(calls'[d]) PROVE OneAtMost(calls'[d].new)
  <2>1. CASE d = c
    <3>1. calls'[d] = [parts |-> parts, step |-> step, new |-> new, old |-> old]
      BY <1>1, <2>1
    <3>2. QED
      BY <1>3, <3>1 DEF ForProfile
  <2>2. CASE d # c
    <3>1. calls'[d] = calls[d]
      BY <1>1, <2>2
    <3>2. QED
      BY <1>3, <3>1 DEF MediaTyped, ForProfile
  <2>3. QED
    BY <2>1, <2>2
<1>4. QED
  BY <1>2, <1>3

LEMMA GoTyped ==
  ASSUME MediaInv, MediaTyped, NEW c \in Pair, calls[c] # Media!Idle,
         NEW step, Media!Go(c, step)
  PROVE  \A d \in Pair : ForProfile(calls'[d]) => OneAtMost(calls'[d].new)
<1>1. PICK m : m = calls[c]
  OBVIOUS
<1>2. /\ calls = [d \in Pair |-> calls[d]]
      /\ calls' = [calls EXCEPT ![c] = [parts |-> m.parts, step |-> step,
                                        new |-> m.new, old |-> m.old]]
  BY <1>1, NextStep DEF MediaInv, MediaShape
<1>3. ASSUME NEW d \in Pair, ForProfile(calls'[d]) PROVE OneAtMost(calls'[d].new)
  <2>1. CASE d = c
    <3>1. calls'[d] = [parts |-> m.parts, step |-> step, new |-> m.new, old |-> m.old]
      BY <1>2, <2>1
    <3>2. ForProfile(m)
      BY <1>1, <1>3, <3>1 DEF ForProfile
    <3>3. QED
      BY <1>1, <3>1, <3>2 DEF MediaTyped
  <2>2. CASE d # c
    <3>1. calls'[d] = calls[d]
      BY <1>2, <2>2
    <3>2. QED
      BY <1>3, <3>1 DEF MediaTyped, ForProfile
  <2>3. QED
    BY <2>1, <2>2
<1>4. QED
  BY <1>3

LEMMA EndTyped ==
  ASSUME MediaInv, MediaTyped, NEW c \in Pair, Media!End(c)
  PROVE  \A d \in Pair : ForProfile(calls'[d]) => OneAtMost(calls'[d].new)
<1>1. /\ calls = [d \in Pair |-> calls[d]] /\ calls' = [calls EXCEPT ![c] = Media!Idle]
  BY DEF MediaInv, MediaShape, Media!End, calls
<1>2. ASSUME NEW d \in Pair, ForProfile(calls'[d]) PROVE OneAtMost(calls'[d].new)
  <2>1. d # c
    BY <1>1, <1>2 DEF ForProfile
  <2>2. calls'[d] = calls[d]
    BY <1>1, <2>1
  <2>3. QED
    BY <1>2, <2>2 DEF MediaTyped, ForProfile
<1>3. QED
  BY <1>2

\* What a call is about.
LEMMA CallTyped ==
  ASSUME MediaInv, NEW c \in Pair, calls[c] # Media!Idle
  PROVE  calls[c].new \subseteq Couple /\ calls[c].old \subseteq Couple
  BY DEF MediaInv, CallsInv, MediaCall, MediaCallShape

LEMMA MediaTypedNext ==
  ASSUME CatalogueAssumption, MediaInv, MediaTyped, Media!Next
  PROVE  MediaTyped'
<1>1. /\ Media!Shown \subseteq Couple /\ Media!Fresh \subseteq Couple /\ stored \subseteq Couple
      /\ avatar \subseteq Couple
  BY DEF Media!Shown, Media!Fresh, MediaInv, MediaShape, stored
<1>2. /\ clock \in 0..MediaTime /\ uploaded \in [Couple -> Media!Never..MediaTime]
      /\ used \subseteq Couple /\ docs \subseteq Couple
      /\ listing \in {"none", "live", "gone"} /\ torn \subseteq Media!Parts
      /\ sweep # Media!NoSweep => sweep.refs \subseteq Couple
      /\ OneAtMost(avatar) /\ OneAtMost({}) /\ \A f : OneAtMost({f})
      /\ \A c \in Pair : ForProfile(calls[c]) => OneAtMost(calls[c].new)
  BY DEF MediaTyped, OneAtMost
<1>3. ASSUME NEW f \in Couple, Media!Upload(f) PROVE MediaTyped'
  <2>1. /\ uploaded' = [uploaded EXCEPT ![f] = clock]
        /\ UNCHANGED <<clock, used, docs, listing, torn, sweep, avatar, calls>>
    BY <1>3 DEF Media!Upload, Media!rows, clock, uploaded, used, docs, listing, torn, sweep,
       avatar, calls
  <2>2. clock \in Media!Never..MediaTime
    BY <1>2 DEF Media!Never
  <2>3. uploaded' \in [Couple -> Media!Never..MediaTime]
    BY <1>2, <2>1, <2>2
  <2>4. QED
    BY <1>2, <2>1, <2>3 DEF MediaTyped, OneAtMost, ForProfile
<1>4. CASE Media!Publish
  <2>1. PICK new \in Media!Photos(Media!Fresh) : used' = used \cup new
    BY <1>4 DEF Media!Publish, used
  <2>2. new \subseteq Couple
    BY <1>1 DEF Media!Photos
  <2>3. /\ UNCHANGED <<clock, uploaded, docs, torn, sweep, avatar, calls>>
        /\ listing' = "live"
    BY <1>4 DEF Media!Publish, Media!disk, clock, uploaded, docs, listing, torn, sweep,
       avatar, calls
  <2>4. QED
    BY <1>2, <2>1, <2>2, <2>3, MediaTypedStep
<1>5. CASE Media!RequestVerification
  <2>1. PICK new \in SUBSET Media!Fresh : used' = used \cup new /\ docs' = new
    BY <1>5 DEF Media!RequestVerification, used, docs
  <2>2. /\ UNCHANGED <<clock, uploaded, torn, sweep, avatar, calls, listing>>
    BY <1>5 DEF Media!RequestVerification, Media!disk, clock, uploaded, listing, torn, sweep,
       avatar, calls
  <2>3. used' \subseteq Couple /\ docs' \subseteq Couple
    BY <1>1, <1>2, <2>1
  <2>4. QED
    BY <1>2, <2>2, <2>3, MediaTypedStep
<1>6. ASSUME NEW c \in Pair, Media!StartUpdate(c) PROVE MediaTyped'
  <2>1. PICK new : Media!Start(c, {"listing"}, "read", new, {})
    BY <1>6 DEF Media!StartUpdate
  <2>2. UNCHANGED <<clock, uploaded, used, docs, listing, avatar, sweep>>
    BY <1>6 DEF Media!StartUpdate, Media!disk, Media!rows, clock, uploaded, used, docs,
       listing, avatar, sweep
  <2>3. {"listing"} \in SUBSET Media!Parts /\ {"listing"} # {"profile"}
    BY DEF Media!Parts
  <2>4. /\ torn' \subseteq Media!Parts
        /\ \A d \in Pair : ForProfile(calls'[d]) => OneAtMost(calls'[d].new)
    BY <2>1, <2>3, StartTyped
  <2>5. QED
    BY <1>2, <2>2, <2>4, MediaTypedStep
<1>7. ASSUME NEW c \in Pair, Media!ReadImages(c) PROVE MediaTyped'
  <2>1. PICK S : calls' = [calls EXCEPT ![c].step = "delete", ![c].old = S]
    BY <1>7 DEF Media!ReadImages, calls
  <2>2. calls[c].parts = {"listing"}
    BY <1>7 DEF Media!ReadImages, calls
  <2>3. calls = [d \in Pair |-> calls[d]]
    BY DEF MediaInv, MediaShape
  <2>4. ASSUME NEW d \in Pair, ForProfile(calls'[d]) PROVE OneAtMost(calls'[d].new)
    <3>1. CASE d = c
      <4>1. calls[c] \in [parts : {{"listing"}}, step : {"read"}, new : SUBSET Couple, old : {{}}]
        BY <1>7 DEF Media!ReadImages, calls
      <4>2. calls'[d] = [calls[c] EXCEPT !.step = "delete", !.old = S]
        BY <2>1, <2>3, <3>1
      <4>3. calls'[d].parts = {"listing"}
        BY <4>1, <4>2
      <4>4. QED
        BY <2>4, <4>3 DEF ForProfile
    <3>2. CASE d # c
      <4>1. calls'[d] = calls[d]
        BY <2>1, <2>3, <3>2
      <4>2. QED
        BY <1>2, <2>4, <4>1 DEF ForProfile
    <3>3. QED
      BY <3>1, <3>2
  <2>5. UNCHANGED <<clock, uploaded, used, docs, listing, avatar, sweep, torn>>
    BY <1>7 DEF Media!ReadImages, Media!disk, Media!rows, clock, uploaded, used, docs,
       listing, avatar, sweep, torn
  <2>6. QED
    BY <1>2, <2>4, <2>5, MediaTypedStep
<1>8. ASSUME NEW c \in Pair, Media!DeleteRows(c) PROVE MediaTyped'
  <2>1. calls[c] # Media!Idle /\ Media!Go(c, "write")
    BY <1>8 DEF Media!DeleteRows, Media!Idle, calls
  <2>2. UNCHANGED <<clock, uploaded, used, docs, listing, avatar, sweep, torn>>
    BY <1>8 DEF Media!DeleteRows, Media!disk, clock, uploaded, used, docs,
       listing, avatar, sweep, torn
  <2>3. QED
    BY <1>2, <2>1, <2>2, GoTyped, MediaTypedStep
<1>9. ASSUME NEW c \in Pair, Media!WriteRows(c) PROVE MediaTyped'
  <2>1. calls[c] # Media!Idle /\ (Media!Go(c, "clean") \/ Media!End(c))
    BY <1>9 DEF Media!WriteRows, Media!Idle, calls
  <2>2. UNCHANGED <<clock, uploaded, docs, listing, avatar, sweep, torn>>
    BY <1>9 DEF Media!WriteRows, Media!disk, clock, uploaded, docs, listing, avatar, sweep, torn
  <2>3. used' \subseteq used \cup calls[c].new
    BY <1>9 DEF Media!WriteRows, used, calls
  <2>4. used' \subseteq Couple
    BY <1>2, <2>1, <2>3, CallTyped
  <2>5. \A d \in Pair : ForProfile(calls'[d]) => OneAtMost(calls'[d].new)
    BY <2>1, GoTyped, EndTyped
  <2>6. QED
    BY <1>2, <2>2, <2>4, <2>5, MediaTypedStep
<1>10. ASSUME NEW c \in Pair, Media!StartProfile(c) PROVE MediaTyped'
  <2>1. PICK new \in {avatar, {}} \cup {{f} : f \in Media!Fresh} :
          Media!Start(c, {"profile"}, "write", new, avatar \ new)
    BY <1>10 DEF Media!StartProfile, avatar
  <2>2. UNCHANGED <<clock, uploaded, used, docs, listing, avatar, sweep>>
    BY <1>10 DEF Media!StartProfile, Media!disk, Media!rows, clock, uploaded, used, docs,
       listing, avatar, sweep
  <2>3. {"profile"} \in SUBSET Media!Parts /\ OneAtMost(new)
    BY <1>2, <2>1 DEF Media!Parts
  <2>4. /\ torn' \subseteq Media!Parts
        /\ \A d \in Pair : ForProfile(calls'[d]) => OneAtMost(calls'[d].new)
    BY <2>1, <2>3, StartTyped
  <2>5. QED
    BY <1>2, <2>2, <2>4, MediaTypedStep
<1>11. ASSUME NEW c \in Pair, Media!WriteProfile(c) PROVE MediaTyped'
  <2>1. /\ calls[c] # Media!Idle /\ (Media!Go(c, "clean") \/ Media!End(c))
        /\ calls[c].parts = {"profile"}
    BY <1>11 DEF Media!WriteProfile, Media!Idle, calls
  <2>2. UNCHANGED <<clock, uploaded, docs, listing, sweep, torn>>
    BY <1>11 DEF Media!WriteProfile, Media!disk, clock, uploaded, docs, listing, sweep, torn
  <2>3. /\ used' \subseteq used \cup calls[c].new
        /\ avatar' = calls[c].new \/ avatar' = avatar
    BY <1>11 DEF Media!WriteProfile, used, calls, avatar
  <2>4. used' \subseteq Couple
    BY <1>2, <2>1, <2>3, CallTyped
  <2>5. OneAtMost(avatar')
    <3>1. OneAtMost(calls[c].new)
      BY <1>2, <2>1 DEF ForProfile
    <3>2. QED
      BY <1>2, <2>3, <3>1
  <2>6. \A d \in Pair : ForProfile(calls'[d]) => OneAtMost(calls'[d].new)
    BY <2>1, GoTyped, EndTyped
  <2>7. QED
    BY <1>2, <2>2, <2>4, <2>5, <2>6, MediaTypedStep
<1>12. ASSUME NEW c \in Pair, Media!StartRemove(c) PROVE MediaTyped'
  <2>1. PICK parts, step, old :
          /\ parts \in {{"listing"}, Media!Parts} /\ Media!Start(c, parts, step, {}, old)
    BY <1>12 DEF Media!StartRemove
  <2>2. UNCHANGED <<clock, uploaded, used, docs, listing, avatar, sweep>>
    BY <1>12 DEF Media!StartRemove, Media!disk, Media!rows, clock, uploaded, used, docs,
       listing, avatar, sweep
  <2>3. parts \in SUBSET Media!Parts /\ OneAtMost({})
    BY <1>2, <2>1 DEF Media!Parts
  <2>4. /\ torn' \subseteq Media!Parts
        /\ \A d \in Pair : ForProfile(calls'[d]) => OneAtMost(calls'[d].new)
    BY <2>1, <2>3, StartTyped
  <2>5. QED
    BY <1>2, <2>2, <2>4, MediaTypedStep
<1>13. ASSUME NEW c \in Pair, Media!RemoveRows(c) PROVE MediaTyped'
  <2>1. calls[c] # Media!Idle /\ Media!Go(c, "clean")
    BY <1>13 DEF Media!RemoveRows, Media!Idle, calls
  <2>2. UNCHANGED <<clock, uploaded, used, sweep, torn>> /\ listing' = "gone"
    BY <1>13 DEF Media!RemoveRows, Media!disk, clock, uploaded, used, listing, sweep, torn
  <2>3. docs' \in {docs, {}} /\ avatar' \in {avatar, {}}
    BY <1>13 DEF Media!RemoveRows, docs, avatar
  <2>4. docs' \subseteq Couple /\ OneAtMost(avatar')
    BY <1>2, <2>3
  <2>5. \A d \in Pair : ForProfile(calls'[d]) => OneAtMost(calls'[d].new)
    BY <2>1, GoTyped
  <2>6. QED
    BY <1>2, <2>2, <2>4, <2>5, MediaTypedStep
<1>14. ASSUME NEW c \in Pair, Media!AdminDeleteImage(c) PROVE MediaTyped'
  <2>1. PICK f : Media!Start(c, {"listing"}, "clean", {}, {f})
    BY <1>14 DEF Media!AdminDeleteImage
  <2>2. UNCHANGED <<clock, uploaded, used, docs, listing, avatar, sweep>>
    BY <1>14 DEF Media!AdminDeleteImage, Media!disk, clock, uploaded, used, docs,
       listing, avatar, sweep
  <2>3. {"listing"} \in SUBSET Media!Parts /\ OneAtMost({})
    BY <1>2 DEF Media!Parts
  <2>4. /\ torn' \subseteq Media!Parts
        /\ \A d \in Pair : ForProfile(calls'[d]) => OneAtMost(calls'[d].new)
    BY <2>1, <2>3, StartTyped
  <2>5. QED
    BY <1>2, <2>2, <2>4, MediaTypedStep
<1>15. ASSUME NEW c \in Pair, Media!DeleteFiles(c) \/ Media!Fail(c) PROVE MediaTyped'
  <2>1. Media!End(c)
    BY <1>15 DEF Media!DeleteFiles, Media!Fail
  <2>2. UNCHANGED <<clock, uploaded, used, docs, listing, avatar, sweep, torn>>
    BY <1>15 DEF Media!DeleteFiles, Media!Fail, Media!disk, Media!rows, clock, uploaded, used,
       docs, listing, avatar, sweep, torn
  <2>3. QED
    BY <1>2, <2>1, <2>2, EndTyped, MediaTypedStep
<1>16. CASE Media!CollectReferenced
  <2>1. /\ sweep' = [running |-> TRUE, refs |-> Media!Shown \cup avatar]
        /\ torn' \subseteq torn \cup {"listing"}
        /\ UNCHANGED <<clock, uploaded, used, docs, listing, avatar, calls>>
    BY <1>16 DEF Media!CollectReferenced, Media!disk, Media!rows, clock, uploaded, used,
       docs, listing, avatar, sweep, torn, calls
  <2>2. torn' \subseteq Media!Parts /\ sweep'.refs \subseteq Couple
    BY <1>1, <1>2, <2>1 DEF Media!Parts
  <2>3. QED
    BY <1>2, <2>1, <2>2, MediaTypedStep
<1>17. CASE Media!CleanSpaces
  <2>1. /\ sweep' = Media!NoSweep
        /\ UNCHANGED <<clock, uploaded, used, docs, listing, avatar, torn, calls>>
    BY <1>17 DEF Media!CleanSpaces, Media!rows, clock, uploaded, used,
       docs, listing, avatar, sweep, torn, calls
  <2>2. QED
    BY <1>2, <2>1, MediaTypedStep
<1>18. CASE Media!Tick
  <2>1. /\ clock < MediaTime /\ clock' = clock + 1
        /\ UNCHANGED <<uploaded, used, docs, listing, avatar, torn, calls, sweep>>
    BY <1>18 DEF Media!Tick, Media!disk, Media!rows, clock, uploaded, used,
       docs, listing, avatar, sweep, torn, calls
  <2>2. clock' \in 0..MediaTime
    <3>1. MediaTime \in Nat
      BY DEF CatalogueAssumption, Media!MediaAssumption
    <3>2. QED
      BY <1>2, <2>1, <3>1
  <2>3. QED
    BY <1>2, <2>1, <2>2 DEF MediaTyped, OneAtMost, ForProfile
<1>19. QED
  BY <1>3, <1>4, <1>5, <1>6, <1>7, <1>8, <1>9, <1>10, <1>11, <1>12, <1>13, <1>14, <1>15, <1>16,
     <1>17, <1>18, Zenon DEF Media!Next

LEMMA MediaTypes ==
  ASSUME CatalogueAssumption, MediaInv, MediaTyped
  PROVE  Media!TypeOK
<1>1. /\ images \in [Couple -> Nat] /\ stored \subseteq Couple /\ avatar \in SUBSET Couple
      /\ member \in BOOLEAN
  BY DEF MediaInv, MediaShape
<1>2. Media!Cardinality(avatar) <= 1
  <2>1. CASE avatar = {}
    BY <2>1, FS_EmptySet, SameCounts
  <2>2. CASE avatar # {}
    <3>1. PICK f : avatar = {f}
      BY <2>2 DEF MediaTyped, OneAtMost
    <3>2. Cardinality({f}) = 1
      BY FS_Singleton
    <3>3. QED
      BY <3>1, <3>2, SameCounts
  <2>3. QED
    BY <2>1, <2>2
<1> DEFINE Shape == {Media!Idle} \cup
       [parts : SUBSET Media!Parts, step : Media!Steps, new : SUBSET Couple, old : SUBSET Couple]
<1>3. calls \in [Pair -> Shape]
  <2>1. ASSUME NEW c \in Pair PROVE calls[c] \in Shape
    <3>1. MediaCallShape(calls[c])
      BY DEF MediaInv, CallsInv, MediaCall
    <3>2. PICK m : m = calls[c]
      OBVIOUS
    <3>3. m = Media!Idle \/ m \in [parts : {{"listing"}, {"profile"}, {"listing", "profile"}},
            step : Media!Steps, new : SUBSET Couple, old : SUBSET Couple]
      BY <3>1, <3>2 DEF MediaCallShape, Media!Steps
    <3>4. {{"listing"}, {"profile"}, {"listing", "profile"}} \subseteq SUBSET Media!Parts
      BY DEF Media!Parts
    <3>5. QED
      BY <3>2, <3>3, <3>4
  <2>2. calls = [c \in Pair |-> calls[c]]
    BY DEF MediaInv, MediaShape
  <2> HIDE DEF Shape
  <2>3. QED
    BY <2>1, <2>2
<1>4. sweep \in {Media!NoSweep} \cup [running : {TRUE}, refs : SUBSET Couple]
  <2>1. CASE sweep = Media!NoSweep
    BY <2>1
  <2>2. CASE sweep # Media!NoSweep
    <3>1. PICK refs : refs = sweep.refs
      OBVIOUS
    <3>2. sweep = [running |-> TRUE, refs |-> refs]
      BY <2>2, <3>1 DEF MediaInv, MediaShape
    <3>3. refs \in SUBSET Couple
      BY <2>2, <3>1 DEF MediaTyped
    <3>4. QED
      BY <3>2, <3>3
  <2>3. QED
    BY <2>1, <2>2
<1>5. QED
  BY <1>1, <1>2, <1>3, <1>4, Zenon DEF Media!TypeOK, MediaTyped, clock, uploaded, stored, used, member,
     listing, images, avatar, docs, calls, sweep, torn

-----------------------------------------------------------------------------
(***************************************************************************)
(* The lists that sellers keep, and the job: a slot always has a cadence.  *)
(***************************************************************************)
listTopic == s5
listCalls == s9

PinsTyped ==
  /\ Pins!TypeOK
  /\ \A c \in Pair : listCalls[c] # Pins!Idle /\ listTopic = "slots" =>
       listCalls[c].cadence \in {"WEEKLY", "DAILY"}

PinsSaving(topic) ==
  [step : {"owned", "snapshot", "commit"}, list : Pins!Lists, cadence : Pins!Cadence,
   mine : SUBSET (IF topic = "pins" THEN Pins!PinRow ELSE Pins!SlotRow)]

LEMMA PinsLimits ==
  ASSUME CatalogueAssumption, NEW p \in SavePlans, NEW m \in SavePromos
  PROVE  /\ Pins!effectiveLimits(p, m).autoBumpSlots \in
              {PlanTable[p].autoBumpSlots, PlanTable[m.grantedPlan].autoBumpSlots}
         /\ Pins!effectiveLimits(p, m).autoBumpCadence \in Pins!Cadence
         /\ p \in Pins!UserPlan /\ m.grantedPlan \in Pins!UserPlan
<1>1. /\ PlanTable \in [Pins!UserPlan -> Pins!PlanLimitsRecord]
      /\ p \in Pins!UserPlan /\ m \in Pins!PromoState
  BY DEF CatalogueAssumption, Pins!ListsAssumption
<1>2. m.grantedPlan \in Pins!UserPlan
  BY <1>1 DEF Pins!PromoState
<1>3. PlanTable[p] \in Pins!PlanLimitsRecord /\ PlanTable[m.grantedPlan] \in Pins!PlanLimitsRecord
  BY <1>1, <1>2
<1>4. /\ PlanTable[p].autoBumpCadence \in Pins!Cadence
      /\ PlanTable[m.grantedPlan].autoBumpCadence \in Pins!Cadence
  BY <1>3 DEF Pins!PlanLimitsRecord
<1>5. CASE ~m.active
  BY <1>1, <1>2, <1>4, <1>5 DEF Pins!effectiveLimits
<1>6. CASE m.active
  <2>1. Pins!effectiveLimits(p, m).autoBumpSlots =
          Pins!Widened(m.unlockAutoBump, PlanTable[p].autoBumpSlots,
                    PlanTable[m.grantedPlan].autoBumpSlots)
    BY <1>6 DEF Pins!effectiveLimits
  <2>2. Pins!effectiveLimits(p, m).autoBumpCadence =
          IF m.unlockAutoBump
          THEN Pins!bestCadence(PlanTable[p].autoBumpCadence, PlanTable[m.grantedPlan].autoBumpCadence)
          ELSE PlanTable[p].autoBumpCadence
    BY <1>6 DEF Pins!effectiveLimits
  <2>3. \A a, b \in Pins!Cadence : Pins!bestCadence(a, b) \in Pins!Cadence
    BY DEF Pins!bestCadence, Pins!Cadence
  <2>4. QED
    BY <1>1, <1>2, <1>4, <2>1, <2>2, <2>3 DEF Pins!Widened, Pins!Better
<1>7. QED
  BY <1>5, <1>6

LEMMA PinsTypedInit == ASSUME CatalogueAssumption, Pins!Init PROVE PinsTyped
<1>1. 0 \in Nat /\ 1 \in Nat /\ MaxSaves \in Nat
  BY DEF CatalogueAssumption, Pins!ListsAssumption, Pool!ListsAssumption, Job!ListsAssumption, Job!PeriodAssumption
<1>2. 0 \in Pins!Times /\ Pins!Never \in Pins!Times /\ 0 \in 0..MaxSaves /\ 0 \in 0..0
  BY <1>1 DEF Pins!Times, Pins!Never
<1>3. QED
  BY <1>2 DEF Pins!Init, PinsTyped, Pins!TypeOK, Pins!Idle, listCalls

\* What moves listings up and what changes their status keeps their type.
LEMMA PinsBumped ==
  ASSUME CatalogueAssumption, Pins!TypeOK, NEW ps, Pins!Bump(ps)
  PROVE  s4' \in [Couple -> [status : {"active", "hide", "gone"}, bumpedAt : Pins!Times]]
<1>1. 0 \in Nat /\ 1 \in Nat
  BY DEF CatalogueAssumption, Pins!ListsAssumption, Pool!ListsAssumption, Job!ListsAssumption, Job!PeriodAssumption
<1>2. s1 \in Pins!Times
  BY <1>1 DEF Pins!TypeOK, Pins!Times, Pins!Never
<1>3. s4 \in [Couple -> [status : {"active", "hide", "gone"}, bumpedAt : Pins!Times]]
  BY DEF Pins!TypeOK
<1>4. QED
  BY <1>2, <1>3 DEF Pins!Bump

\* A call that takes a step.
LEMMA PinsCalls ==
  ASSUME PinsTyped, NEW c \in Pair, NEW m \in {Pins!Idle} \cup PinsSaving(s5),
         m # Pins!Idle /\ s5 = "slots" => m.cadence \in {"WEEKLY", "DAILY"},
         s9' = [s9 EXCEPT ![c] = m], s5' = s5
  PROVE  /\ s9' \in [Pair -> {Pins!Idle} \cup PinsSaving(s5')]
         /\ \A d \in Pair : s9'[d] # Pins!Idle /\ s5' = "slots" =>
              s9'[d].cadence \in {"WEEKLY", "DAILY"}
<1>1. s9 \in [Pair -> {Pins!Idle} \cup PinsSaving(s5)]
  BY DEF PinsTyped, Pins!TypeOK, PinsSaving
<1>2. \A d \in Pair : s9[d] # Pins!Idle /\ s5 = "slots" => s9[d].cadence \in {"WEEKLY", "DAILY"}
  BY DEF PinsTyped, listCalls, listTopic
<1>3. QED
  BY <1>1, <1>2

LEMMA PinsCall ==
  ASSUME PinsTyped, NEW c \in Pair, s9[c].step # "idle"
  PROVE  /\ s9[c] # Pins!Idle
         /\ s9[c] \in PinsSaving(s5)
         /\ s5 = "slots" => s9[c].cadence \in {"WEEKLY", "DAILY"}
<1>1. Pins!Idle.step = "idle"
  BY DEF Pins!Idle
<1>2. s9[c] \in {Pins!Idle} \cup PinsSaving(s5)
  BY DEF PinsTyped, Pins!TypeOK, PinsSaving
<1>3. QED
  BY <1>1, <1>2 DEF PinsTyped, listCalls, listTopic

LEMMA PinsList ==
  ASSUME NEW list \in Pins!Lists
  PROVE  /\ Pins!Named(list) \subseteq Couple
         /\ Len(list) \in {0, 1, 2} /\ DOMAIN list = 1..Len(list)
         /\ \A i \in DOMAIN list : list[i] \in Couple /\ i - 1 \in {0, 1} /\ i \in Nat
<1>1. CASE list = <<>>
  BY <1>1 DEF Pins!Named
<1>2. CASE \E p \in Couple : list = <<p>>
  BY <1>2 DEF Pins!Named
<1>3. CASE \E p, q \in Couple : list = <<p, q>>
  BY <1>3 DEF Pins!Named
<1>4. QED
  BY <1>1, <1>2, <1>3 DEF Pins!Lists

LEMMA PinsTypedNext == ASSUME CatalogueAssumption, PinsTyped, Pins!Next PROVE PinsTyped'
<1>0. 0 \in Nat /\ 1 \in Nat /\ MaxSaves \in Nat
  BY DEF CatalogueAssumption, Pins!ListsAssumption, Pool!ListsAssumption, Job!ListsAssumption, Job!PeriodAssumption
<1>t. Pins!TypeOK
  BY DEF PinsTyped
<1>i. Pins!Idle.step = "idle" /\ Pins!Idle' = Pins!Idle
  BY DEF Pins!Idle
<1>k. /\ Pins!Times' = Pins!Times /\ Pins!SlotRow' = Pins!SlotRow /\ Pins!PinRow' = Pins!PinRow
      /\ Pins!Lists' = Pins!Lists /\ Pins!Cadence' = Pins!Cadence
  BY DEF Pins!Times, Pins!SlotRow, Pins!PinRow, Pins!Lists, Pins!Cadence, Pins!Saves, Pins!Never
<1>a. ASSUME NEW c \in Pair, Pins!AdmitSlots(c) PROVE PinsTyped'
  <2>1. PICK list \in Pins!Lists :
          /\ s5 = "slots" /\ Pins!effectiveLimits(s2, s3).autoBumpCadence # "none"
          /\ s9' = [s9 EXCEPT ![c] = [step |-> "owned", list |-> list, mine |-> {},
                                      cadence |-> Pins!effectiveLimits(s2, s3).autoBumpCadence]]
          /\ UNCHANGED <<s1, s2, s3, s4, s5, s6, s7, s8, s10, s11, s12>>
    BY <1>a DEF Pins!AdmitSlots, Pins!seller
  <2>2. Pins!effectiveLimits(s2, s3).autoBumpCadence \in Pins!Cadence
    BY <1>t, PinsLimits DEF Pins!TypeOK
  <2>3. PICK cad : cad = Pins!effectiveLimits(s2, s3).autoBumpCadence
    OBVIOUS
  <2>4. cad \in Pins!Cadence /\ cad \in {"WEEKLY", "DAILY"}
    BY <2>1, <2>2, <2>3 DEF Pins!Cadence
  <2> DEFINE m == [step |-> "owned", list |-> list, mine |-> {}, cadence |-> cad]
  <2>5. /\ m \in {Pins!Idle} \cup PinsSaving(s5)
        /\ s5 = "slots" => m.cadence \in {"WEEKLY", "DAILY"}
    BY <2>4 DEF PinsSaving
  <2>6. s9' = [s9 EXCEPT ![c] = m]
    BY <2>1, <2>3
  <2> HIDE DEF m
  <2>7. /\ s9' \in [Pair -> {Pins!Idle} \cup
              PinsSaving(s5')]
         /\ \A d \in Pair : s9'[d] # Pins!Idle /\ s5' = "slots" =>
              s9'[d].cadence \in {"WEEKLY", "DAILY"}
    BY <2>1, <2>5, <2>6, PinsCalls
  <2>8. QED
    BY <1>t, <1>k, <1>i, <2>1, <2>7 DEF PinsTyped, Pins!TypeOK, PinsSaving, listCalls, listTopic
<1>b. ASSUME NEW c \in Pair, Pins!AdmitPins(c) PROVE PinsTyped'
  <2>1. PICK list \in Pins!Lists :
          /\ s5 = "pins"
          /\ s9' = [s9 EXCEPT ![c] = [step |-> "owned", list |-> list, mine |-> {},
                                      cadence |-> "none"]]
          /\ UNCHANGED <<s1, s2, s3, s4, s5, s6, s7, s8, s10, s11, s12>>
    BY <1>b DEF Pins!AdmitPins, Pins!seller
  <2> DEFINE m == [step |-> "owned", list |-> list, mine |-> {}, cadence |-> "none"]
  <2>5. /\ m \in {Pins!Idle} \cup PinsSaving(s5)
        /\ s5 = "slots" => m.cadence \in {"WEEKLY", "DAILY"}
    BY <2>1 DEF Pins!Cadence, PinsSaving
  <2>6. s9' = [s9 EXCEPT ![c] = m]
    BY <2>1
  <2> HIDE DEF m
  <2>7. /\ s9' \in [Pair -> {Pins!Idle} \cup
              PinsSaving(s5')]
         /\ \A d \in Pair : s9'[d] # Pins!Idle /\ s5' = "slots" =>
              s9'[d].cadence \in {"WEEKLY", "DAILY"}
    BY <2>1, <2>5, <2>6, PinsCalls
  <2>8. QED
    BY <1>t, <1>k, <1>i, <2>1, <2>7 DEF PinsTyped, Pins!TypeOK, PinsSaving, listCalls, listTopic
<1>c. ASSUME NEW c \in Pair, Pins!CheckOwned(c) \/ Pins!Snapshot(c) PROVE PinsTyped'
  <2>1. /\ s9[c].step \in {"owned", "snapshot"}
        /\ UNCHANGED <<s1, s2, s3, s4, s5, s6, s7, s8, s10, s11, s12>>
    BY <1>c DEF Pins!CheckOwned, Pins!Snapshot, Pins!seller
  <2>2. PICK m : /\ s9' = [s9 EXCEPT ![c] = m]
                 /\ \/ m = Pins!Idle
                    \/ m = [s9[c] EXCEPT !.step = "snapshot"]
                    \/ m = [s9[c] EXCEPT !.step = "commit",
                                         !.mine = IF s5 = "pins" THEN s7 ELSE s6]
    BY <1>c DEF Pins!CheckOwned, Pins!Snapshot, Pins!Go, Pins!End
  <2>3. /\ s9[c] \in PinsSaving(s5)
        /\ s5 = "slots" => s9[c].cadence \in {"WEEKLY", "DAILY"}
    BY <2>1, PinsCall
  <2>4. s6 \subseteq Pins!SlotRow /\ s7 \subseteq Pins!PinRow
    BY <1>t DEF Pins!TypeOK
  <2>5. /\ m \in {Pins!Idle} \cup PinsSaving(s5)
        /\ m # Pins!Idle /\ s5 = "slots" => m.cadence \in {"WEEKLY", "DAILY"}
    <3>1. [s9[c] EXCEPT !.step = "snapshot"] \in PinsSaving(s5)
      BY <2>3 DEF PinsSaving
    <3>2. [s9[c] EXCEPT !.step = "commit", !.mine = IF s5 = "pins" THEN s7 ELSE s6] \in PinsSaving(s5)
      BY <2>3, <2>4 DEF PinsSaving
    <3>3. s5 = "slots" /\ m # Pins!Idle => m.cadence = s9[c].cadence
      BY <2>2, <2>3 DEF PinsSaving
    <3>4. QED
      BY <2>2, <2>3, <3>1, <3>2, <3>3
  <2>7. /\ s9' \in [Pair -> {Pins!Idle} \cup
              PinsSaving(s5')]
         /\ \A d \in Pair : s9'[d] # Pins!Idle /\ s5' = "slots" =>
              s9'[d].cadence \in {"WEEKLY", "DAILY"}
    BY <2>1, <2>2, <2>5, PinsCalls
  <2>8. QED
    BY <1>t, <1>k, <1>i, <2>1, <2>7 DEF PinsTyped, Pins!TypeOK, PinsSaving, listCalls, listTopic
<1>d. ASSUME NEW c \in Pair, Pins!CommitSlots(c) PROVE PinsTyped'
  <2>1. /\ s9[c].step = "commit" /\ s5 = "slots"
        /\ s9' = [s9 EXCEPT ![c] = Pins!Idle]
        /\ UNCHANGED <<s1, s2, s3, s5, s7, s10, s11, s12>>
    BY <1>d DEF Pins!CommitSlots, Pins!seller, Pins!End
  <2>2. /\ s9' \in [Pair -> {Pins!Idle} \cup
              PinsSaving(s5')]
         /\ \A d \in Pair : s9'[d] # Pins!Idle /\ s5' = "slots" =>
              s9'[d].cadence \in {"WEEKLY", "DAILY"}
    BY <2>1, PinsCalls
  <2>3. CASE UNCHANGED <<s8, s6, s4>>
    BY <1>t, <1>k, <1>i, <2>1, <2>2, <2>3 DEF PinsTyped, Pins!TypeOK, PinsSaving, listCalls, listTopic
  <2>4. CASE /\ s8 < MaxSaves /\ s8' = s8 + 1
             /\ s6' = (s6 \ s9[c].mine) \cup
                   [product : Pins!Named(s9[c].list), cadence : {s9[c].cadence}, save : {s8 + 1}]
             /\ \E ps : Pins!Bump(ps)
    <3>1. s9[c].list \in Pins!Lists /\ s9[c].cadence \in {"WEEKLY", "DAILY"}
      BY <2>1, PinsCall DEF PinsSaving
    <3>2. s8 + 1 \in Pins!Saves /\ s8' \in 0..MaxSaves
      BY <1>0, <1>t, <2>4 DEF Pins!Saves, Pins!TypeOK
    <3>3. [product : Pins!Named(s9[c].list), cadence : {s9[c].cadence}, save : {s8 + 1}]
            \subseteq Pins!SlotRow
      BY <3>1, <3>2, PinsList DEF Pins!SlotRow
    <3>4. s6' \subseteq Pins!SlotRow
      BY <1>t, <2>4, <3>3 DEF Pins!TypeOK
    <3>5. s4' \in [Couple -> [status : {"active", "hide", "gone"}, bumpedAt : Pins!Times]]
      BY <1>t, <2>4, PinsBumped
    <3>6. QED
      BY <1>t, <1>k, <1>i, <2>1, <2>2, <3>2, <3>4, <3>5 DEF PinsTyped, Pins!TypeOK, PinsSaving, listCalls, listTopic
  <2>5. QED
    BY <1>d, <2>3, <2>4, Zenon DEF Pins!CommitSlots
<1>e. ASSUME NEW c \in Pair, Pins!CommitPins(c) PROVE PinsTyped'
  <2>1. /\ s9[c].step = "commit" /\ s5 = "pins"
        /\ s9' = [s9 EXCEPT ![c] = Pins!Idle]
        /\ UNCHANGED <<s1, s2, s3, s4, s5, s6, s10, s11, s12>>
    BY <1>e DEF Pins!CommitPins, Pins!seller, Pins!End
  <2>2. /\ s9' \in [Pair -> {Pins!Idle} \cup
              PinsSaving(s5')]
         /\ \A d \in Pair : s9'[d] # Pins!Idle /\ s5' = "slots" =>
              s9'[d].cadence \in {"WEEKLY", "DAILY"}
    BY <2>1, PinsCalls
  <2>3. CASE UNCHANGED <<s8, s7>>
    BY <1>t, <1>k, <1>i, <2>1, <2>2, <2>3 DEF PinsTyped, Pins!TypeOK, PinsSaving, listCalls, listTopic
  <2>4. CASE /\ s8 < MaxSaves /\ s8' = s8 + 1
             /\ s7' = (s7 \ s9[c].mine) \cup
                   {[product |-> s9[c].list[i], position |-> i - 1, save |-> s8 + 1] :
                      i \in DOMAIN s9[c].list}
    <3>1. s9[c].list \in Pins!Lists
      BY <2>1, PinsCall DEF PinsSaving
    <3>2. s8 + 1 \in Pins!Saves /\ s8' \in 0..MaxSaves
      BY <1>0, <1>t, <2>4 DEF Pins!Saves, Pins!TypeOK
    <3>3. \A i \in DOMAIN s9[c].list :
            [product |-> s9[c].list[i], position |-> i - 1, save |-> s8 + 1] \in Pins!PinRow
      BY <3>1, <3>2, PinsList DEF Pins!PinRow
    <3>4. s7' \subseteq Pins!PinRow
      BY <1>t, <2>4, <3>3 DEF Pins!TypeOK
    <3>6. QED
      BY <1>t, <1>k, <1>i, <2>1, <2>2, <3>2, <3>4 DEF PinsTyped, Pins!TypeOK, PinsSaving, listCalls, listTopic
  <2>5. QED
    BY <1>e, <2>3, <2>4, Zenon DEF Pins!CommitPins
<1>f. CASE Pins!PassStarts \/ Pins!FindSlots
  <2>1. UNCHANGED <<s1, s2, s3, s4, s5, s6, s7, s8, s9, s11, s12>>
    BY <1>f DEF Pins!PassStarts, Pins!FindSlots, Pins!seller
  <2>2. s10' \in [step : {"find", "update"}, cadence : {"WEEKLY", "DAILY"}, found : SUBSET Couple]
    <3>1. CASE Pins!PassStarts
      BY <3>1 DEF Pins!PassStarts
    <3>2. CASE Pins!FindSlots
      <4>1. PICK sub : sub \subseteq s6 /\ s10' = [s10 EXCEPT !.step = "update", !.found = {r.product : r \in sub}]
        BY <3>2 DEF Pins!FindSlots
      <4>2. {r.product : r \in sub} \subseteq Couple
        BY <1>t, <4>1 DEF Pins!TypeOK, Pins!SlotRow
      <4>3. s10 \in [step : {"find", "update"}, cadence : {"WEEKLY", "DAILY"}, found : SUBSET Couple]
        BY <1>t, <1>i, <3>2 DEF Pins!TypeOK, Pins!FindSlots
      <4>4. QED
        BY <4>1, <4>2, <4>3
    <3>3. QED
      BY <1>f, <3>1, <3>2
  <2>3. QED
    BY <1>t, <1>k, <1>i, <2>1, <2>2 DEF PinsTyped, Pins!TypeOK, PinsSaving, listCalls, listTopic
<1>g. CASE Pins!BumpSlots \/ Pins!BumpBoosted
  <2>1. /\ UNCHANGED <<s1, s2, s3, s5, s6, s7, s8, s9, s12>>
        /\ \E ps : Pins!Bump(ps)
        /\ \/ s10' = Pins!Idle \/ s10' = [step |-> "boosted"]
           \/ s10' = [step |-> "find", cadence |-> "WEEKLY", found |-> {}]
        /\ \/ s11' = s11
           \/ \E up : s11' = [p \in Couple |-> IF p \in up THEN s1 ELSE s11[p]]
    BY <1>g DEF Pins!BumpSlots, Pins!BumpBoosted, Pins!seller
  <2>2. s4' \in [Couple -> [status : {"active", "hide", "gone"}, bumpedAt : Pins!Times]]
    BY <1>t, <2>1, PinsBumped
  <2>3. s1 \in Pins!Times
    BY <1>0, <1>t DEF Pins!TypeOK, Pins!Times, Pins!Never
  <2>4. s11' \in [Couple -> Pins!Times]
    BY <1>t, <2>1, <2>3 DEF Pins!TypeOK
  <2>5. s10' \in {Pins!Idle} \cup [step : {"find", "update"}, cadence : {"WEEKLY", "DAILY"},
                           found : SUBSET Couple] \cup [step : {"boosted"}]
    BY <2>1
  <2>6. QED
    BY <1>t, <1>k, <1>i, <2>1, <2>2, <2>4, <2>5 DEF PinsTyped, Pins!TypeOK, PinsSaving, listCalls, listTopic
<1>h. ASSUME NEW p \in Couple, Pins!HideOrShow(p) \/ Pins!BumpProduct(p) PROVE PinsTyped'
  <2>1. UNCHANGED <<s1, s2, s3, s5, s6, s7, s8, s9, s10, s11, s12>>
    BY <1>h DEF Pins!HideOrShow, Pins!BumpProduct, Pins!seller
  <2>2. s4' \in [Couple -> [status : {"active", "hide", "gone"}, bumpedAt : Pins!Times]]
    <3>1. CASE Pins!HideOrShow(p)
      BY <1>t, <3>1 DEF Pins!HideOrShow, Pins!TypeOK
    <3>2. CASE Pins!BumpProduct(p)
      BY <1>t, <3>2, PinsBumped DEF Pins!BumpProduct
    <3>3. QED
      BY <1>h, <3>1, <3>2
  <2>3. QED
    BY <1>t, <1>k, <1>i, <2>1, <2>2 DEF PinsTyped, Pins!TypeOK, PinsSaving, listCalls, listTopic
<1>j. ASSUME NEW p \in Couple, Pins!RemoveProduct(p) PROVE PinsTyped'
  <2>1. /\ UNCHANGED <<s1, s2, s3, s5, s8, s9, s10, s11>>
        /\ s4' = [s4 EXCEPT ![p].status = "gone"]
        /\ s6' \subseteq s6 /\ s7' \subseteq s7 /\ s12' \in BOOLEAN
    <3>1. s12 \in BOOLEAN
      BY <1>t DEF Pins!TypeOK
    <3>2. s12' = (s12 \/ s7' # s7)
      BY <1>j DEF Pins!RemoveProduct
    <3>3. s12' \in BOOLEAN
      BY <3>1, <3>2, Zenon
    <3>4. QED
      BY <1>j, <3>3 DEF Pins!RemoveProduct, Pins!seller
  <2>2. s4' \in [Couple -> [status : {"active", "hide", "gone"}, bumpedAt : Pins!Times]]
    BY <1>t, <2>1 DEF Pins!TypeOK
  <2>3. QED
    BY <1>t, <1>k, <1>i, <2>1, <2>2 DEF PinsTyped, Pins!TypeOK, PinsSaving, listCalls, listTopic
<1>l. CASE Pins!ChangePlan
  <2>1. /\ s2' \in SavePlans /\ s3' \in SavePromos
        /\ UNCHANGED <<s1, s4, s5, s6, s7, s8, s9, s10, s11, s12>>
    BY <1>l DEF Pins!ChangePlan
  <2>2. QED
    BY <1>t, <1>k, <1>i, <2>1 DEF PinsTyped, Pins!TypeOK, PinsSaving, listCalls, listTopic
<1>m. CASE Pins!Tick
  <2>1. /\ s1 < 0 /\ s1' = s1 + 1
        /\ UNCHANGED <<s2, s3, s4, s5, s6, s7, s8, s9, s10, s11, s12>>
    BY <1>m DEF Pins!Tick, Pins!seller
  <2>2. s1' \in 0..0
    BY <1>0, <1>t, <2>1 DEF Pins!TypeOK
  <2>3. QED
    BY <1>t, <1>k, <1>i, <2>1, <2>2 DEF PinsTyped, Pins!TypeOK, PinsSaving, listCalls, listTopic
<1>n. QED
  BY <1>a, <1>b, <1>c, <1>d, <1>e, <1>f, <1>g, <1>h, <1>j, <1>l, <1>m DEF Pins!Next

PoolTyped ==
  /\ Pool!TypeOK
  /\ \A c \in Pair : listCalls[c] # Pool!Idle /\ listTopic = "slots" =>
       listCalls[c].cadence \in {"WEEKLY", "DAILY"}

PoolSaving(topic) ==
  [step : {"owned", "snapshot", "commit"}, list : Pool!Lists, cadence : Pool!Cadence,
   mine : SUBSET (IF topic = "pins" THEN Pool!PinRow ELSE Pool!SlotRow)]

LEMMA PoolLimits ==
  ASSUME CatalogueAssumption, NEW p \in SavePlans, NEW m \in SavePromos
  PROVE  /\ Pool!effectiveLimits(p, m).autoBumpSlots \in
              {PlanTable[p].autoBumpSlots, PlanTable[m.grantedPlan].autoBumpSlots}
         /\ Pool!effectiveLimits(p, m).autoBumpCadence \in Pool!Cadence
         /\ p \in Pool!UserPlan /\ m.grantedPlan \in Pool!UserPlan
<1>1. /\ PlanTable \in [Pool!UserPlan -> Pool!PlanLimitsRecord]
      /\ p \in Pool!UserPlan /\ m \in Pool!PromoState
  BY DEF CatalogueAssumption, Pool!ListsAssumption
<1>2. m.grantedPlan \in Pool!UserPlan
  BY <1>1 DEF Pool!PromoState
<1>3. PlanTable[p] \in Pool!PlanLimitsRecord /\ PlanTable[m.grantedPlan] \in Pool!PlanLimitsRecord
  BY <1>1, <1>2
<1>4. /\ PlanTable[p].autoBumpCadence \in Pool!Cadence
      /\ PlanTable[m.grantedPlan].autoBumpCadence \in Pool!Cadence
  BY <1>3 DEF Pool!PlanLimitsRecord
<1>5. CASE ~m.active
  BY <1>1, <1>2, <1>4, <1>5 DEF Pool!effectiveLimits
<1>6. CASE m.active
  <2>1. Pool!effectiveLimits(p, m).autoBumpSlots =
          Pool!Widened(m.unlockAutoBump, PlanTable[p].autoBumpSlots,
                    PlanTable[m.grantedPlan].autoBumpSlots)
    BY <1>6 DEF Pool!effectiveLimits
  <2>2. Pool!effectiveLimits(p, m).autoBumpCadence =
          IF m.unlockAutoBump
          THEN Pool!bestCadence(PlanTable[p].autoBumpCadence, PlanTable[m.grantedPlan].autoBumpCadence)
          ELSE PlanTable[p].autoBumpCadence
    BY <1>6 DEF Pool!effectiveLimits
  <2>3. \A a, b \in Pool!Cadence : Pool!bestCadence(a, b) \in Pool!Cadence
    BY DEF Pool!bestCadence, Pool!Cadence
  <2>4. QED
    BY <1>1, <1>2, <1>4, <2>1, <2>2, <2>3 DEF Pool!Widened, Pool!Better
<1>7. QED
  BY <1>5, <1>6

LEMMA PoolTypedInit == ASSUME CatalogueAssumption, Pool!Init PROVE PoolTyped
<1>1. 0 \in Nat /\ 1 \in Nat /\ MaxSaves \in Nat
  BY DEF CatalogueAssumption, Pins!ListsAssumption, Pool!ListsAssumption, Job!ListsAssumption, Job!PeriodAssumption
<1>2. 0 \in Pool!Times /\ Pool!Never \in Pool!Times /\ 0 \in 0..MaxSaves /\ 0 \in 0..0
  BY <1>1 DEF Pool!Times, Pool!Never
<1>3. QED
  BY <1>2 DEF Pool!Init, PoolTyped, Pool!TypeOK, Pool!Idle, listCalls

\* What moves listings up and what changes their status keeps their type.
LEMMA PoolBumped ==
  ASSUME CatalogueAssumption, Pool!TypeOK, NEW ps, Pool!Bump(ps)
  PROVE  s4' \in [(Couple \cup {One}) -> [status : {"active", "hide", "gone"}, bumpedAt : Pool!Times]]
<1>1. 0 \in Nat /\ 1 \in Nat
  BY DEF CatalogueAssumption, Pins!ListsAssumption, Pool!ListsAssumption, Job!ListsAssumption, Job!PeriodAssumption
<1>2. s1 \in Pool!Times
  BY <1>1 DEF Pool!TypeOK, Pool!Times, Pool!Never
<1>3. s4 \in [(Couple \cup {One}) -> [status : {"active", "hide", "gone"}, bumpedAt : Pool!Times]]
  BY DEF Pool!TypeOK
<1>4. QED
  BY <1>2, <1>3 DEF Pool!Bump

\* A call that takes a step.
LEMMA PoolCalls ==
  ASSUME PoolTyped, NEW c \in Pair, NEW m \in {Pool!Idle} \cup PoolSaving(s5),
         m # Pool!Idle /\ s5 = "slots" => m.cadence \in {"WEEKLY", "DAILY"},
         s9' = [s9 EXCEPT ![c] = m], s5' = s5
  PROVE  /\ s9' \in [Pair -> {Pool!Idle} \cup PoolSaving(s5')]
         /\ \A d \in Pair : s9'[d] # Pool!Idle /\ s5' = "slots" =>
              s9'[d].cadence \in {"WEEKLY", "DAILY"}
<1>1. s9 \in [Pair -> {Pool!Idle} \cup PoolSaving(s5)]
  BY DEF PoolTyped, Pool!TypeOK, PoolSaving
<1>2. \A d \in Pair : s9[d] # Pool!Idle /\ s5 = "slots" => s9[d].cadence \in {"WEEKLY", "DAILY"}
  BY DEF PoolTyped, listCalls, listTopic
<1>3. QED
  BY <1>1, <1>2

LEMMA PoolCall ==
  ASSUME PoolTyped, NEW c \in Pair, s9[c].step # "idle"
  PROVE  /\ s9[c] # Pool!Idle
         /\ s9[c] \in PoolSaving(s5)
         /\ s5 = "slots" => s9[c].cadence \in {"WEEKLY", "DAILY"}
<1>1. Pool!Idle.step = "idle"
  BY DEF Pool!Idle
<1>2. s9[c] \in {Pool!Idle} \cup PoolSaving(s5)
  BY DEF PoolTyped, Pool!TypeOK, PoolSaving
<1>3. QED
  BY <1>1, <1>2 DEF PoolTyped, listCalls, listTopic

LEMMA PoolList ==
  ASSUME NEW list \in Pool!Lists
  PROVE  /\ Pool!Named(list) \subseteq (Couple \cup {One})
         /\ Len(list) \in {0, 1, 2} /\ DOMAIN list = 1..Len(list)
         /\ \A i \in DOMAIN list : list[i] \in (Couple \cup {One}) /\ i - 1 \in {0, 1} /\ i \in Nat
<1>1. CASE list = <<>>
  BY <1>1 DEF Pool!Named
<1>2. CASE \E p \in (Couple \cup {One}) : list = <<p>>
  BY <1>2 DEF Pool!Named
<1>3. CASE \E p, q \in (Couple \cup {One}) : list = <<p, q>>
  BY <1>3 DEF Pool!Named
<1>4. QED
  BY <1>1, <1>2, <1>3 DEF Pool!Lists

LEMMA PoolTypedNext == ASSUME CatalogueAssumption, PoolTyped, Pool!Next PROVE PoolTyped'
<1>0. 0 \in Nat /\ 1 \in Nat /\ MaxSaves \in Nat
  BY DEF CatalogueAssumption, Pins!ListsAssumption, Pool!ListsAssumption, Job!ListsAssumption, Job!PeriodAssumption
<1>t. Pool!TypeOK
  BY DEF PoolTyped
<1>i. Pool!Idle.step = "idle" /\ Pool!Idle' = Pool!Idle
  BY DEF Pool!Idle
<1>k. /\ Pool!Times' = Pool!Times /\ Pool!SlotRow' = Pool!SlotRow /\ Pool!PinRow' = Pool!PinRow
      /\ Pool!Lists' = Pool!Lists /\ Pool!Cadence' = Pool!Cadence
  BY DEF Pool!Times, Pool!SlotRow, Pool!PinRow, Pool!Lists, Pool!Cadence, Pool!Saves, Pool!Never
<1>a. ASSUME NEW c \in Pair, Pool!AdmitSlots(c) PROVE PoolTyped'
  <2>1. PICK list \in Pool!Lists :
          /\ s5 = "slots" /\ Pool!effectiveLimits(s2, s3).autoBumpCadence # "none"
          /\ s9' = [s9 EXCEPT ![c] = [step |-> "owned", list |-> list, mine |-> {},
                                      cadence |-> Pool!effectiveLimits(s2, s3).autoBumpCadence]]
          /\ UNCHANGED <<s1, s2, s3, s4, s5, s6, s7, s8, s10, s11, s12>>
    BY <1>a DEF Pool!AdmitSlots, Pool!seller
  <2>2. Pool!effectiveLimits(s2, s3).autoBumpCadence \in Pool!Cadence
    BY <1>t, PoolLimits DEF Pool!TypeOK
  <2>3. PICK cad : cad = Pool!effectiveLimits(s2, s3).autoBumpCadence
    OBVIOUS
  <2>4. cad \in Pool!Cadence /\ cad \in {"WEEKLY", "DAILY"}
    BY <2>1, <2>2, <2>3 DEF Pool!Cadence
  <2> DEFINE m == [step |-> "owned", list |-> list, mine |-> {}, cadence |-> cad]
  <2>5. /\ m \in {Pool!Idle} \cup PoolSaving(s5)
        /\ s5 = "slots" => m.cadence \in {"WEEKLY", "DAILY"}
    BY <2>4 DEF PoolSaving
  <2>6. s9' = [s9 EXCEPT ![c] = m]
    BY <2>1, <2>3
  <2> HIDE DEF m
  <2>7. /\ s9' \in [Pair -> {Pool!Idle} \cup
              PoolSaving(s5')]
         /\ \A d \in Pair : s9'[d] # Pool!Idle /\ s5' = "slots" =>
              s9'[d].cadence \in {"WEEKLY", "DAILY"}
    BY <2>1, <2>5, <2>6, PoolCalls
  <2>8. QED
    BY <1>t, <1>k, <1>i, <2>1, <2>7 DEF PoolTyped, Pool!TypeOK, PoolSaving, listCalls, listTopic
<1>b. ASSUME NEW c \in Pair, Pool!AdmitPins(c) PROVE PoolTyped'
  <2>1. PICK list \in Pool!Lists :
          /\ s5 = "pins"
          /\ s9' = [s9 EXCEPT ![c] = [step |-> "owned", list |-> list, mine |-> {},
                                      cadence |-> "none"]]
          /\ UNCHANGED <<s1, s2, s3, s4, s5, s6, s7, s8, s10, s11, s12>>
    BY <1>b DEF Pool!AdmitPins, Pool!seller
  <2> DEFINE m == [step |-> "owned", list |-> list, mine |-> {}, cadence |-> "none"]
  <2>5. /\ m \in {Pool!Idle} \cup PoolSaving(s5)
        /\ s5 = "slots" => m.cadence \in {"WEEKLY", "DAILY"}
    BY <2>1 DEF Pool!Cadence, PoolSaving
  <2>6. s9' = [s9 EXCEPT ![c] = m]
    BY <2>1
  <2> HIDE DEF m
  <2>7. /\ s9' \in [Pair -> {Pool!Idle} \cup
              PoolSaving(s5')]
         /\ \A d \in Pair : s9'[d] # Pool!Idle /\ s5' = "slots" =>
              s9'[d].cadence \in {"WEEKLY", "DAILY"}
    BY <2>1, <2>5, <2>6, PoolCalls
  <2>8. QED
    BY <1>t, <1>k, <1>i, <2>1, <2>7 DEF PoolTyped, Pool!TypeOK, PoolSaving, listCalls, listTopic
<1>c. ASSUME NEW c \in Pair, Pool!CheckOwned(c) \/ Pool!Snapshot(c) PROVE PoolTyped'
  <2>1. /\ s9[c].step \in {"owned", "snapshot"}
        /\ UNCHANGED <<s1, s2, s3, s4, s5, s6, s7, s8, s10, s11, s12>>
    BY <1>c DEF Pool!CheckOwned, Pool!Snapshot, Pool!seller
  <2>2. PICK m : /\ s9' = [s9 EXCEPT ![c] = m]
                 /\ \/ m = Pool!Idle
                    \/ m = [s9[c] EXCEPT !.step = "snapshot"]
                    \/ m = [s9[c] EXCEPT !.step = "commit",
                                         !.mine = IF s5 = "pins" THEN s7 ELSE s6]
    BY <1>c DEF Pool!CheckOwned, Pool!Snapshot, Pool!Go, Pool!End
  <2>3. /\ s9[c] \in PoolSaving(s5)
        /\ s5 = "slots" => s9[c].cadence \in {"WEEKLY", "DAILY"}
    BY <2>1, PoolCall
  <2>4. s6 \subseteq Pool!SlotRow /\ s7 \subseteq Pool!PinRow
    BY <1>t DEF Pool!TypeOK
  <2>5. /\ m \in {Pool!Idle} \cup PoolSaving(s5)
        /\ m # Pool!Idle /\ s5 = "slots" => m.cadence \in {"WEEKLY", "DAILY"}
    <3>1. [s9[c] EXCEPT !.step = "snapshot"] \in PoolSaving(s5)
      BY <2>3 DEF PoolSaving
    <3>2. [s9[c] EXCEPT !.step = "commit", !.mine = IF s5 = "pins" THEN s7 ELSE s6] \in PoolSaving(s5)
      BY <2>3, <2>4 DEF PoolSaving
    <3>3. s5 = "slots" /\ m # Pool!Idle => m.cadence = s9[c].cadence
      BY <2>2, <2>3 DEF PoolSaving
    <3>4. QED
      BY <2>2, <2>3, <3>1, <3>2, <3>3
  <2>7. /\ s9' \in [Pair -> {Pool!Idle} \cup
              PoolSaving(s5')]
         /\ \A d \in Pair : s9'[d] # Pool!Idle /\ s5' = "slots" =>
              s9'[d].cadence \in {"WEEKLY", "DAILY"}
    BY <2>1, <2>2, <2>5, PoolCalls
  <2>8. QED
    BY <1>t, <1>k, <1>i, <2>1, <2>7 DEF PoolTyped, Pool!TypeOK, PoolSaving, listCalls, listTopic
<1>d. ASSUME NEW c \in Pair, Pool!CommitSlots(c) PROVE PoolTyped'
  <2>1. /\ s9[c].step = "commit" /\ s5 = "slots"
        /\ s9' = [s9 EXCEPT ![c] = Pool!Idle]
        /\ UNCHANGED <<s1, s2, s3, s5, s7, s10, s11, s12>>
    BY <1>d DEF Pool!CommitSlots, Pool!seller, Pool!End
  <2>2. /\ s9' \in [Pair -> {Pool!Idle} \cup
              PoolSaving(s5')]
         /\ \A d \in Pair : s9'[d] # Pool!Idle /\ s5' = "slots" =>
              s9'[d].cadence \in {"WEEKLY", "DAILY"}
    BY <2>1, PoolCalls
  <2>3. CASE UNCHANGED <<s8, s6, s4>>
    BY <1>t, <1>k, <1>i, <2>1, <2>2, <2>3 DEF PoolTyped, Pool!TypeOK, PoolSaving, listCalls, listTopic
  <2>4. CASE /\ s8 < MaxSaves /\ s8' = s8 + 1
             /\ s6' = (s6 \ s9[c].mine) \cup
                   [product : Pool!Named(s9[c].list), cadence : {s9[c].cadence}, save : {s8 + 1}]
             /\ \E ps : Pool!Bump(ps)
    <3>1. s9[c].list \in Pool!Lists /\ s9[c].cadence \in {"WEEKLY", "DAILY"}
      BY <2>1, PoolCall DEF PoolSaving
    <3>2. s8 + 1 \in Pool!Saves /\ s8' \in 0..MaxSaves
      BY <1>0, <1>t, <2>4 DEF Pool!Saves, Pool!TypeOK
    <3>3. [product : Pool!Named(s9[c].list), cadence : {s9[c].cadence}, save : {s8 + 1}]
            \subseteq Pool!SlotRow
      BY <3>1, <3>2, PoolList DEF Pool!SlotRow
    <3>4. s6' \subseteq Pool!SlotRow
      BY <1>t, <2>4, <3>3 DEF Pool!TypeOK
    <3>5. s4' \in [(Couple \cup {One}) -> [status : {"active", "hide", "gone"}, bumpedAt : Pool!Times]]
      BY <1>t, <2>4, PoolBumped
    <3>6. QED
      BY <1>t, <1>k, <1>i, <2>1, <2>2, <3>2, <3>4, <3>5 DEF PoolTyped, Pool!TypeOK, PoolSaving, listCalls, listTopic
  <2>5. QED
    BY <1>d, <2>3, <2>4, Zenon DEF Pool!CommitSlots
<1>e. ASSUME NEW c \in Pair, Pool!CommitPins(c) PROVE PoolTyped'
  <2>1. /\ s9[c].step = "commit" /\ s5 = "pins"
        /\ s9' = [s9 EXCEPT ![c] = Pool!Idle]
        /\ UNCHANGED <<s1, s2, s3, s4, s5, s6, s10, s11, s12>>
    BY <1>e DEF Pool!CommitPins, Pool!seller, Pool!End
  <2>2. /\ s9' \in [Pair -> {Pool!Idle} \cup
              PoolSaving(s5')]
         /\ \A d \in Pair : s9'[d] # Pool!Idle /\ s5' = "slots" =>
              s9'[d].cadence \in {"WEEKLY", "DAILY"}
    BY <2>1, PoolCalls
  <2>3. CASE UNCHANGED <<s8, s7>>
    BY <1>t, <1>k, <1>i, <2>1, <2>2, <2>3 DEF PoolTyped, Pool!TypeOK, PoolSaving, listCalls, listTopic
  <2>4. CASE /\ s8 < MaxSaves /\ s8' = s8 + 1
             /\ s7' = (s7 \ s9[c].mine) \cup
                   {[product |-> s9[c].list[i], position |-> i - 1, save |-> s8 + 1] :
                      i \in DOMAIN s9[c].list}
    <3>1. s9[c].list \in Pool!Lists
      BY <2>1, PoolCall DEF PoolSaving
    <3>2. s8 + 1 \in Pool!Saves /\ s8' \in 0..MaxSaves
      BY <1>0, <1>t, <2>4 DEF Pool!Saves, Pool!TypeOK
    <3>3. \A i \in DOMAIN s9[c].list :
            [product |-> s9[c].list[i], position |-> i - 1, save |-> s8 + 1] \in Pool!PinRow
      BY <3>1, <3>2, PoolList DEF Pool!PinRow
    <3>4. s7' \subseteq Pool!PinRow
      BY <1>t, <2>4, <3>3 DEF Pool!TypeOK
    <3>6. QED
      BY <1>t, <1>k, <1>i, <2>1, <2>2, <3>2, <3>4 DEF PoolTyped, Pool!TypeOK, PoolSaving, listCalls, listTopic
  <2>5. QED
    BY <1>e, <2>3, <2>4, Zenon DEF Pool!CommitPins
<1>f. CASE Pool!PassStarts \/ Pool!FindSlots
  <2>1. UNCHANGED <<s1, s2, s3, s4, s5, s6, s7, s8, s9, s11, s12>>
    BY <1>f DEF Pool!PassStarts, Pool!FindSlots, Pool!seller
  <2>2. s10' \in [step : {"find", "update"}, cadence : {"WEEKLY", "DAILY"}, found : SUBSET (Couple \cup {One})]
    <3>1. CASE Pool!PassStarts
      BY <3>1 DEF Pool!PassStarts
    <3>2. CASE Pool!FindSlots
      <4>1. PICK sub : sub \subseteq s6 /\ s10' = [s10 EXCEPT !.step = "update", !.found = {r.product : r \in sub}]
        BY <3>2 DEF Pool!FindSlots
      <4>2. {r.product : r \in sub} \subseteq (Couple \cup {One})
        BY <1>t, <4>1 DEF Pool!TypeOK, Pool!SlotRow
      <4>3. s10 \in [step : {"find", "update"}, cadence : {"WEEKLY", "DAILY"}, found : SUBSET (Couple \cup {One})]
        BY <1>t, <1>i, <3>2 DEF Pool!TypeOK, Pool!FindSlots
      <4>4. QED
        BY <4>1, <4>2, <4>3
    <3>3. QED
      BY <1>f, <3>1, <3>2
  <2>3. QED
    BY <1>t, <1>k, <1>i, <2>1, <2>2 DEF PoolTyped, Pool!TypeOK, PoolSaving, listCalls, listTopic
<1>g. CASE Pool!BumpSlots \/ Pool!BumpBoosted
  <2>1. /\ UNCHANGED <<s1, s2, s3, s5, s6, s7, s8, s9, s12>>
        /\ \E ps : Pool!Bump(ps)
        /\ \/ s10' = Pool!Idle \/ s10' = [step |-> "boosted"]
           \/ s10' = [step |-> "find", cadence |-> "WEEKLY", found |-> {}]
        /\ \/ s11' = s11
           \/ \E up : s11' = [p \in (Couple \cup {One}) |-> IF p \in up THEN s1 ELSE s11[p]]
    BY <1>g DEF Pool!BumpSlots, Pool!BumpBoosted, Pool!seller
  <2>2. s4' \in [(Couple \cup {One}) -> [status : {"active", "hide", "gone"}, bumpedAt : Pool!Times]]
    BY <1>t, <2>1, PoolBumped
  <2>3. s1 \in Pool!Times
    BY <1>0, <1>t DEF Pool!TypeOK, Pool!Times, Pool!Never
  <2>4. s11' \in [(Couple \cup {One}) -> Pool!Times]
    BY <1>t, <2>1, <2>3 DEF Pool!TypeOK
  <2>5. s10' \in {Pool!Idle} \cup [step : {"find", "update"}, cadence : {"WEEKLY", "DAILY"},
                           found : SUBSET (Couple \cup {One})] \cup [step : {"boosted"}]
    BY <2>1
  <2>6. QED
    BY <1>t, <1>k, <1>i, <2>1, <2>2, <2>4, <2>5 DEF PoolTyped, Pool!TypeOK, PoolSaving, listCalls, listTopic
<1>h. ASSUME NEW p \in (Couple \cup {One}), Pool!HideOrShow(p) \/ Pool!BumpProduct(p) PROVE PoolTyped'
  <2>1. UNCHANGED <<s1, s2, s3, s5, s6, s7, s8, s9, s10, s11, s12>>
    BY <1>h DEF Pool!HideOrShow, Pool!BumpProduct, Pool!seller
  <2>2. s4' \in [(Couple \cup {One}) -> [status : {"active", "hide", "gone"}, bumpedAt : Pool!Times]]
    <3>1. CASE Pool!HideOrShow(p)
      BY <1>t, <3>1 DEF Pool!HideOrShow, Pool!TypeOK
    <3>2. CASE Pool!BumpProduct(p)
      BY <1>t, <3>2, PoolBumped DEF Pool!BumpProduct
    <3>3. QED
      BY <1>h, <3>1, <3>2
  <2>3. QED
    BY <1>t, <1>k, <1>i, <2>1, <2>2 DEF PoolTyped, Pool!TypeOK, PoolSaving, listCalls, listTopic
<1>j. ASSUME NEW p \in (Couple \cup {One}), Pool!RemoveProduct(p) PROVE PoolTyped'
  <2>1. /\ UNCHANGED <<s1, s2, s3, s5, s8, s9, s10, s11>>
        /\ s4' = [s4 EXCEPT ![p].status = "gone"]
        /\ s6' \subseteq s6 /\ s7' \subseteq s7 /\ s12' \in BOOLEAN
    <3>1. s12 \in BOOLEAN
      BY <1>t DEF Pool!TypeOK
    <3>2. s12' = (s12 \/ s7' # s7)
      BY <1>j DEF Pool!RemoveProduct
    <3>3. s12' \in BOOLEAN
      BY <3>1, <3>2, Zenon
    <3>4. QED
      BY <1>j, <3>3 DEF Pool!RemoveProduct, Pool!seller
  <2>2. s4' \in [(Couple \cup {One}) -> [status : {"active", "hide", "gone"}, bumpedAt : Pool!Times]]
    BY <1>t, <2>1 DEF Pool!TypeOK
  <2>3. QED
    BY <1>t, <1>k, <1>i, <2>1, <2>2 DEF PoolTyped, Pool!TypeOK, PoolSaving, listCalls, listTopic
<1>l. CASE Pool!ChangePlan
  <2>1. /\ s2' \in SavePlans /\ s3' \in SavePromos
        /\ UNCHANGED <<s1, s4, s5, s6, s7, s8, s9, s10, s11, s12>>
    BY <1>l DEF Pool!ChangePlan
  <2>2. QED
    BY <1>t, <1>k, <1>i, <2>1 DEF PoolTyped, Pool!TypeOK, PoolSaving, listCalls, listTopic
<1>m. CASE Pool!Tick
  <2>1. /\ s1 < 0 /\ s1' = s1 + 1
        /\ UNCHANGED <<s2, s3, s4, s5, s6, s7, s8, s9, s10, s11, s12>>
    BY <1>m DEF Pool!Tick, Pool!seller
  <2>2. s1' \in 0..0
    BY <1>0, <1>t, <2>1 DEF Pool!TypeOK
  <2>3. QED
    BY <1>t, <1>k, <1>i, <2>1, <2>2 DEF PoolTyped, Pool!TypeOK, PoolSaving, listCalls, listTopic
<1>n. QED
  BY <1>a, <1>b, <1>c, <1>d, <1>e, <1>f, <1>g, <1>h, <1>j, <1>l, <1>m DEF Pool!Next

JobTyped ==
  /\ Job!TypeOK
  /\ \A c \in Savers : listCalls[c] # Job!Idle /\ listTopic = "slots" =>
       listCalls[c].cadence \in {"WEEKLY", "DAILY"}

JobSaving(topic) ==
  [step : {"owned", "snapshot", "commit"}, list : Job!Lists, cadence : Job!Cadence,
   mine : SUBSET (IF topic = "pins" THEN Job!PinRow ELSE Job!SlotRow)]

LEMMA JobLimits ==
  ASSUME CatalogueAssumption, NEW p \in JobPlans, NEW m \in JobPromos
  PROVE  /\ Job!effectiveLimits(p, m).autoBumpSlots \in
              {PlanTable[p].autoBumpSlots, PlanTable[m.grantedPlan].autoBumpSlots}
         /\ Job!effectiveLimits(p, m).autoBumpCadence \in Job!Cadence
         /\ p \in Job!UserPlan /\ m.grantedPlan \in Job!UserPlan
<1>1. /\ PlanTable \in [Job!UserPlan -> Job!PlanLimitsRecord]
      /\ p \in Job!UserPlan /\ m \in Job!PromoState
  BY DEF CatalogueAssumption, Job!ListsAssumption
<1>2. m.grantedPlan \in Job!UserPlan
  BY <1>1 DEF Job!PromoState
<1>3. PlanTable[p] \in Job!PlanLimitsRecord /\ PlanTable[m.grantedPlan] \in Job!PlanLimitsRecord
  BY <1>1, <1>2
<1>4. /\ PlanTable[p].autoBumpCadence \in Job!Cadence
      /\ PlanTable[m.grantedPlan].autoBumpCadence \in Job!Cadence
  BY <1>3 DEF Job!PlanLimitsRecord
<1>5. CASE ~m.active
  BY <1>1, <1>2, <1>4, <1>5 DEF Job!effectiveLimits
<1>6. CASE m.active
  <2>1. Job!effectiveLimits(p, m).autoBumpSlots =
          Job!Widened(m.unlockAutoBump, PlanTable[p].autoBumpSlots,
                    PlanTable[m.grantedPlan].autoBumpSlots)
    BY <1>6 DEF Job!effectiveLimits
  <2>2. Job!effectiveLimits(p, m).autoBumpCadence =
          IF m.unlockAutoBump
          THEN Job!bestCadence(PlanTable[p].autoBumpCadence, PlanTable[m.grantedPlan].autoBumpCadence)
          ELSE PlanTable[p].autoBumpCadence
    BY <1>6 DEF Job!effectiveLimits
  <2>3. \A a, b \in Job!Cadence : Job!bestCadence(a, b) \in Job!Cadence
    BY DEF Job!bestCadence, Job!Cadence
  <2>4. QED
    BY <1>1, <1>2, <1>4, <2>1, <2>2, <2>3 DEF Job!Widened, Job!Better
<1>7. QED
  BY <1>5, <1>6

LEMMA JobTypedInit == ASSUME CatalogueAssumption, Job!Init PROVE JobTyped
<1>1. JobTime \in Nat /\ WEEK \in Nat /\ JobSaves \in Nat
  BY DEF CatalogueAssumption, Pins!ListsAssumption, Pool!ListsAssumption, Job!ListsAssumption, Job!PeriodAssumption
<1>2. 0 \in Job!Times /\ Job!Never \in Job!Times /\ 0 \in 0..JobSaves /\ 0 \in 0..JobTime
  BY <1>1 DEF Job!Times, Job!Never
<1>3. QED
  BY <1>2 DEF Job!Init, JobTyped, Job!TypeOK, Job!Idle, listCalls

\* What moves listings up and what changes their status keeps their type.
LEMMA JobBumped ==
  ASSUME CatalogueAssumption, Job!TypeOK, NEW ps, Job!Bump(ps)
  PROVE  s4' \in [Pooled -> [status : {"active", "hide", "gone"}, bumpedAt : Job!Times]]
<1>1. JobTime \in Nat /\ WEEK \in Nat
  BY DEF CatalogueAssumption, Pins!ListsAssumption, Pool!ListsAssumption, Job!ListsAssumption, Job!PeriodAssumption
<1>2. s1 \in Job!Times
  BY <1>1 DEF Job!TypeOK, Job!Times, Job!Never
<1>3. s4 \in [Pooled -> [status : {"active", "hide", "gone"}, bumpedAt : Job!Times]]
  BY DEF Job!TypeOK
<1>4. QED
  BY <1>2, <1>3 DEF Job!Bump

\* A call that takes a step.
LEMMA JobCalls ==
  ASSUME JobTyped, NEW c \in Savers, NEW m \in {Job!Idle} \cup JobSaving(s5),
         m # Job!Idle /\ s5 = "slots" => m.cadence \in {"WEEKLY", "DAILY"},
         s9' = [s9 EXCEPT ![c] = m], s5' = s5
  PROVE  /\ s9' \in [Savers -> {Job!Idle} \cup JobSaving(s5')]
         /\ \A d \in Savers : s9'[d] # Job!Idle /\ s5' = "slots" =>
              s9'[d].cadence \in {"WEEKLY", "DAILY"}
<1>1. s9 \in [Savers -> {Job!Idle} \cup JobSaving(s5)]
  BY DEF JobTyped, Job!TypeOK, JobSaving
<1>2. \A d \in Savers : s9[d] # Job!Idle /\ s5 = "slots" => s9[d].cadence \in {"WEEKLY", "DAILY"}
  BY DEF JobTyped, listCalls, listTopic
<1>3. QED
  BY <1>1, <1>2

LEMMA JobCall ==
  ASSUME JobTyped, NEW c \in Savers, s9[c].step # "idle"
  PROVE  /\ s9[c] # Job!Idle
         /\ s9[c] \in JobSaving(s5)
         /\ s5 = "slots" => s9[c].cadence \in {"WEEKLY", "DAILY"}
<1>1. Job!Idle.step = "idle"
  BY DEF Job!Idle
<1>2. s9[c] \in {Job!Idle} \cup JobSaving(s5)
  BY DEF JobTyped, Job!TypeOK, JobSaving
<1>3. QED
  BY <1>1, <1>2 DEF JobTyped, listCalls, listTopic

LEMMA JobList ==
  ASSUME NEW list \in Job!Lists
  PROVE  /\ Job!Named(list) \subseteq Pooled
         /\ Len(list) \in {0, 1, 2} /\ DOMAIN list = 1..Len(list)
         /\ \A i \in DOMAIN list : list[i] \in Pooled /\ i - 1 \in {0, 1} /\ i \in Nat
<1>1. CASE list = <<>>
  BY <1>1 DEF Job!Named
<1>2. CASE \E p \in Pooled : list = <<p>>
  BY <1>2 DEF Job!Named
<1>3. CASE \E p, q \in Pooled : list = <<p, q>>
  BY <1>3 DEF Job!Named
<1>4. QED
  BY <1>1, <1>2, <1>3 DEF Job!Lists

LEMMA JobTypedNext == ASSUME CatalogueAssumption, JobTyped, Job!Next PROVE JobTyped'
<1>0. JobTime \in Nat /\ WEEK \in Nat /\ JobSaves \in Nat
  BY DEF CatalogueAssumption, Pins!ListsAssumption, Pool!ListsAssumption, Job!ListsAssumption, Job!PeriodAssumption
<1>t. Job!TypeOK
  BY DEF JobTyped
<1>i. Job!Idle.step = "idle" /\ Job!Idle' = Job!Idle
  BY DEF Job!Idle
<1>k. /\ Job!Times' = Job!Times /\ Job!SlotRow' = Job!SlotRow /\ Job!PinRow' = Job!PinRow
      /\ Job!Lists' = Job!Lists /\ Job!Cadence' = Job!Cadence
  BY DEF Job!Times, Job!SlotRow, Job!PinRow, Job!Lists, Job!Cadence, Job!Saves, Job!Never
<1>a. ASSUME NEW c \in Savers, Job!AdmitSlots(c) PROVE JobTyped'
  <2>1. PICK list \in Job!Lists :
          /\ s5 = "slots" /\ Job!effectiveLimits(s2, s3).autoBumpCadence # "none"
          /\ s9' = [s9 EXCEPT ![c] = [step |-> "owned", list |-> list, mine |-> {},
                                      cadence |-> Job!effectiveLimits(s2, s3).autoBumpCadence]]
          /\ UNCHANGED <<s1, s2, s3, s4, s5, s6, s7, s8, s10, s11, s12>>
    BY <1>a DEF Job!AdmitSlots, Job!seller
  <2>2. Job!effectiveLimits(s2, s3).autoBumpCadence \in Job!Cadence
    BY <1>t, JobLimits DEF Job!TypeOK
  <2>3. PICK cad : cad = Job!effectiveLimits(s2, s3).autoBumpCadence
    OBVIOUS
  <2>4. cad \in Job!Cadence /\ cad \in {"WEEKLY", "DAILY"}
    BY <2>1, <2>2, <2>3 DEF Job!Cadence
  <2> DEFINE m == [step |-> "owned", list |-> list, mine |-> {}, cadence |-> cad]
  <2>5. /\ m \in {Job!Idle} \cup JobSaving(s5)
        /\ s5 = "slots" => m.cadence \in {"WEEKLY", "DAILY"}
    BY <2>4 DEF JobSaving
  <2>6. s9' = [s9 EXCEPT ![c] = m]
    BY <2>1, <2>3
  <2> HIDE DEF m
  <2>7. /\ s9' \in [Savers -> {Job!Idle} \cup
              JobSaving(s5')]
         /\ \A d \in Savers : s9'[d] # Job!Idle /\ s5' = "slots" =>
              s9'[d].cadence \in {"WEEKLY", "DAILY"}
    BY <2>1, <2>5, <2>6, JobCalls
  <2>8. QED
    BY <1>t, <1>k, <1>i, <2>1, <2>7 DEF JobTyped, Job!TypeOK, JobSaving, listCalls, listTopic
<1>b. ASSUME NEW c \in Savers, Job!AdmitPins(c) PROVE JobTyped'
  <2>1. PICK list \in Job!Lists :
          /\ s5 = "pins"
          /\ s9' = [s9 EXCEPT ![c] = [step |-> "owned", list |-> list, mine |-> {},
                                      cadence |-> "none"]]
          /\ UNCHANGED <<s1, s2, s3, s4, s5, s6, s7, s8, s10, s11, s12>>
    BY <1>b DEF Job!AdmitPins, Job!seller
  <2> DEFINE m == [step |-> "owned", list |-> list, mine |-> {}, cadence |-> "none"]
  <2>5. /\ m \in {Job!Idle} \cup JobSaving(s5)
        /\ s5 = "slots" => m.cadence \in {"WEEKLY", "DAILY"}
    BY <2>1 DEF Job!Cadence, JobSaving
  <2>6. s9' = [s9 EXCEPT ![c] = m]
    BY <2>1
  <2> HIDE DEF m
  <2>7. /\ s9' \in [Savers -> {Job!Idle} \cup
              JobSaving(s5')]
         /\ \A d \in Savers : s9'[d] # Job!Idle /\ s5' = "slots" =>
              s9'[d].cadence \in {"WEEKLY", "DAILY"}
    BY <2>1, <2>5, <2>6, JobCalls
  <2>8. QED
    BY <1>t, <1>k, <1>i, <2>1, <2>7 DEF JobTyped, Job!TypeOK, JobSaving, listCalls, listTopic
<1>c. ASSUME NEW c \in Savers, Job!CheckOwned(c) \/ Job!Snapshot(c) PROVE JobTyped'
  <2>1. /\ s9[c].step \in {"owned", "snapshot"}
        /\ UNCHANGED <<s1, s2, s3, s4, s5, s6, s7, s8, s10, s11, s12>>
    BY <1>c DEF Job!CheckOwned, Job!Snapshot, Job!seller
  <2>2. PICK m : /\ s9' = [s9 EXCEPT ![c] = m]
                 /\ \/ m = Job!Idle
                    \/ m = [s9[c] EXCEPT !.step = "snapshot"]
                    \/ m = [s9[c] EXCEPT !.step = "commit",
                                         !.mine = IF s5 = "pins" THEN s7 ELSE s6]
    BY <1>c DEF Job!CheckOwned, Job!Snapshot, Job!Go, Job!End
  <2>3. /\ s9[c] \in JobSaving(s5)
        /\ s5 = "slots" => s9[c].cadence \in {"WEEKLY", "DAILY"}
    BY <2>1, JobCall
  <2>4. s6 \subseteq Job!SlotRow /\ s7 \subseteq Job!PinRow
    BY <1>t DEF Job!TypeOK
  <2>5. /\ m \in {Job!Idle} \cup JobSaving(s5)
        /\ m # Job!Idle /\ s5 = "slots" => m.cadence \in {"WEEKLY", "DAILY"}
    <3>1. [s9[c] EXCEPT !.step = "snapshot"] \in JobSaving(s5)
      BY <2>3 DEF JobSaving
    <3>2. [s9[c] EXCEPT !.step = "commit", !.mine = IF s5 = "pins" THEN s7 ELSE s6] \in JobSaving(s5)
      BY <2>3, <2>4 DEF JobSaving
    <3>3. s5 = "slots" /\ m # Job!Idle => m.cadence = s9[c].cadence
      BY <2>2, <2>3 DEF JobSaving
    <3>4. QED
      BY <2>2, <2>3, <3>1, <3>2, <3>3
  <2>7. /\ s9' \in [Savers -> {Job!Idle} \cup
              JobSaving(s5')]
         /\ \A d \in Savers : s9'[d] # Job!Idle /\ s5' = "slots" =>
              s9'[d].cadence \in {"WEEKLY", "DAILY"}
    BY <2>1, <2>2, <2>5, JobCalls
  <2>8. QED
    BY <1>t, <1>k, <1>i, <2>1, <2>7 DEF JobTyped, Job!TypeOK, JobSaving, listCalls, listTopic
<1>d. ASSUME NEW c \in Savers, Job!CommitSlots(c) PROVE JobTyped'
  <2>1. /\ s9[c].step = "commit" /\ s5 = "slots"
        /\ s9' = [s9 EXCEPT ![c] = Job!Idle]
        /\ UNCHANGED <<s1, s2, s3, s5, s7, s10, s11, s12>>
    BY <1>d DEF Job!CommitSlots, Job!seller, Job!End
  <2>2. /\ s9' \in [Savers -> {Job!Idle} \cup
              JobSaving(s5')]
         /\ \A d \in Savers : s9'[d] # Job!Idle /\ s5' = "slots" =>
              s9'[d].cadence \in {"WEEKLY", "DAILY"}
    BY <2>1, JobCalls
  <2>3. CASE UNCHANGED <<s8, s6, s4>>
    BY <1>t, <1>k, <1>i, <2>1, <2>2, <2>3 DEF JobTyped, Job!TypeOK, JobSaving, listCalls, listTopic
  <2>4. CASE /\ s8 < JobSaves /\ s8' = s8 + 1
             /\ s6' = (s6 \ s9[c].mine) \cup
                   [product : Job!Named(s9[c].list), cadence : {s9[c].cadence}, save : {s8 + 1}]
             /\ \E ps : Job!Bump(ps)
    <3>1. s9[c].list \in Job!Lists /\ s9[c].cadence \in {"WEEKLY", "DAILY"}
      BY <2>1, JobCall DEF JobSaving
    <3>2. s8 + 1 \in Job!Saves /\ s8' \in 0..JobSaves
      BY <1>0, <1>t, <2>4 DEF Job!Saves, Job!TypeOK
    <3>3. [product : Job!Named(s9[c].list), cadence : {s9[c].cadence}, save : {s8 + 1}]
            \subseteq Job!SlotRow
      BY <3>1, <3>2, JobList DEF Job!SlotRow
    <3>4. s6' \subseteq Job!SlotRow
      BY <1>t, <2>4, <3>3 DEF Job!TypeOK
    <3>5. s4' \in [Pooled -> [status : {"active", "hide", "gone"}, bumpedAt : Job!Times]]
      BY <1>t, <2>4, JobBumped
    <3>6. QED
      BY <1>t, <1>k, <1>i, <2>1, <2>2, <3>2, <3>4, <3>5 DEF JobTyped, Job!TypeOK, JobSaving, listCalls, listTopic
  <2>5. QED
    BY <1>d, <2>3, <2>4, Zenon DEF Job!CommitSlots
<1>e. ASSUME NEW c \in Savers, Job!CommitPins(c) PROVE JobTyped'
  <2>1. /\ s9[c].step = "commit" /\ s5 = "pins"
        /\ s9' = [s9 EXCEPT ![c] = Job!Idle]
        /\ UNCHANGED <<s1, s2, s3, s4, s5, s6, s10, s11, s12>>
    BY <1>e DEF Job!CommitPins, Job!seller, Job!End
  <2>2. /\ s9' \in [Savers -> {Job!Idle} \cup
              JobSaving(s5')]
         /\ \A d \in Savers : s9'[d] # Job!Idle /\ s5' = "slots" =>
              s9'[d].cadence \in {"WEEKLY", "DAILY"}
    BY <2>1, JobCalls
  <2>3. CASE UNCHANGED <<s8, s7>>
    BY <1>t, <1>k, <1>i, <2>1, <2>2, <2>3 DEF JobTyped, Job!TypeOK, JobSaving, listCalls, listTopic
  <2>4. CASE /\ s8 < JobSaves /\ s8' = s8 + 1
             /\ s7' = (s7 \ s9[c].mine) \cup
                   {[product |-> s9[c].list[i], position |-> i - 1, save |-> s8 + 1] :
                      i \in DOMAIN s9[c].list}
    <3>1. s9[c].list \in Job!Lists
      BY <2>1, JobCall DEF JobSaving
    <3>2. s8 + 1 \in Job!Saves /\ s8' \in 0..JobSaves
      BY <1>0, <1>t, <2>4 DEF Job!Saves, Job!TypeOK
    <3>3. \A i \in DOMAIN s9[c].list :
            [product |-> s9[c].list[i], position |-> i - 1, save |-> s8 + 1] \in Job!PinRow
      BY <3>1, <3>2, JobList DEF Job!PinRow
    <3>4. s7' \subseteq Job!PinRow
      BY <1>t, <2>4, <3>3 DEF Job!TypeOK
    <3>6. QED
      BY <1>t, <1>k, <1>i, <2>1, <2>2, <3>2, <3>4 DEF JobTyped, Job!TypeOK, JobSaving, listCalls, listTopic
  <2>5. QED
    BY <1>e, <2>3, <2>4, Zenon DEF Job!CommitPins
<1>f. CASE Job!PassStarts \/ Job!FindSlots
  <2>1. UNCHANGED <<s1, s2, s3, s4, s5, s6, s7, s8, s9, s11, s12>>
    BY <1>f DEF Job!PassStarts, Job!FindSlots, Job!seller
  <2>2. s10' \in [step : {"find", "update"}, cadence : {"WEEKLY", "DAILY"}, found : SUBSET Pooled]
    <3>1. CASE Job!PassStarts
      BY <3>1 DEF Job!PassStarts
    <3>2. CASE Job!FindSlots
      <4>1. PICK sub : sub \subseteq s6 /\ s10' = [s10 EXCEPT !.step = "update", !.found = {r.product : r \in sub}]
        BY <3>2 DEF Job!FindSlots
      <4>2. {r.product : r \in sub} \subseteq Pooled
        BY <1>t, <4>1 DEF Job!TypeOK, Job!SlotRow
      <4>3. s10 \in [step : {"find", "update"}, cadence : {"WEEKLY", "DAILY"}, found : SUBSET Pooled]
        BY <1>t, <1>i, <3>2 DEF Job!TypeOK, Job!FindSlots
      <4>4. QED
        BY <4>1, <4>2, <4>3
    <3>3. QED
      BY <1>f, <3>1, <3>2
  <2>3. QED
    BY <1>t, <1>k, <1>i, <2>1, <2>2 DEF JobTyped, Job!TypeOK, JobSaving, listCalls, listTopic
<1>g. CASE Job!BumpSlots \/ Job!BumpBoosted
  <2>1. /\ UNCHANGED <<s1, s2, s3, s5, s6, s7, s8, s9, s12>>
        /\ \E ps : Job!Bump(ps)
        /\ \/ s10' = Job!Idle \/ s10' = [step |-> "boosted"]
           \/ s10' = [step |-> "find", cadence |-> "WEEKLY", found |-> {}]
        /\ \/ s11' = s11
           \/ \E up : s11' = [p \in Pooled |-> IF p \in up THEN s1 ELSE s11[p]]
    BY <1>g DEF Job!BumpSlots, Job!BumpBoosted, Job!seller
  <2>2. s4' \in [Pooled -> [status : {"active", "hide", "gone"}, bumpedAt : Job!Times]]
    BY <1>t, <2>1, JobBumped
  <2>3. s1 \in Job!Times
    BY <1>0, <1>t DEF Job!TypeOK, Job!Times, Job!Never
  <2>4. s11' \in [Pooled -> Job!Times]
    BY <1>t, <2>1, <2>3 DEF Job!TypeOK
  <2>5. s10' \in {Job!Idle} \cup [step : {"find", "update"}, cadence : {"WEEKLY", "DAILY"},
                           found : SUBSET Pooled] \cup [step : {"boosted"}]
    BY <2>1
  <2>6. QED
    BY <1>t, <1>k, <1>i, <2>1, <2>2, <2>4, <2>5 DEF JobTyped, Job!TypeOK, JobSaving, listCalls, listTopic
<1>h. ASSUME NEW p \in Pooled, Job!HideOrShow(p) \/ Job!BumpProduct(p) PROVE JobTyped'
  <2>1. UNCHANGED <<s1, s2, s3, s5, s6, s7, s8, s9, s10, s11, s12>>
    BY <1>h DEF Job!HideOrShow, Job!BumpProduct, Job!seller
  <2>2. s4' \in [Pooled -> [status : {"active", "hide", "gone"}, bumpedAt : Job!Times]]
    <3>1. CASE Job!HideOrShow(p)
      BY <1>t, <3>1 DEF Job!HideOrShow, Job!TypeOK
    <3>2. CASE Job!BumpProduct(p)
      BY <1>t, <3>2, JobBumped DEF Job!BumpProduct
    <3>3. QED
      BY <1>h, <3>1, <3>2
  <2>3. QED
    BY <1>t, <1>k, <1>i, <2>1, <2>2 DEF JobTyped, Job!TypeOK, JobSaving, listCalls, listTopic
<1>j. ASSUME NEW p \in Pooled, Job!RemoveProduct(p) PROVE JobTyped'
  <2>1. /\ UNCHANGED <<s1, s2, s3, s5, s8, s9, s10, s11>>
        /\ s4' = [s4 EXCEPT ![p].status = "gone"]
        /\ s6' \subseteq s6 /\ s7' \subseteq s7 /\ s12' \in BOOLEAN
    <3>1. s12 \in BOOLEAN
      BY <1>t DEF Job!TypeOK
    <3>2. s12' = (s12 \/ s7' # s7)
      BY <1>j DEF Job!RemoveProduct
    <3>3. s12' \in BOOLEAN
      BY <3>1, <3>2, Zenon
    <3>4. QED
      BY <1>j, <3>3 DEF Job!RemoveProduct, Job!seller
  <2>2. s4' \in [Pooled -> [status : {"active", "hide", "gone"}, bumpedAt : Job!Times]]
    BY <1>t, <2>1 DEF Job!TypeOK
  <2>3. QED
    BY <1>t, <1>k, <1>i, <2>1, <2>2 DEF JobTyped, Job!TypeOK, JobSaving, listCalls, listTopic
<1>l. CASE Job!ChangePlan
  <2>1. /\ s2' \in JobPlans /\ s3' \in JobPromos
        /\ UNCHANGED <<s1, s4, s5, s6, s7, s8, s9, s10, s11, s12>>
    BY <1>l DEF Job!ChangePlan
  <2>2. QED
    BY <1>t, <1>k, <1>i, <2>1 DEF JobTyped, Job!TypeOK, JobSaving, listCalls, listTopic
<1>m. CASE Job!Tick
  <2>1. /\ s1 < JobTime /\ s1' = s1 + 1
        /\ UNCHANGED <<s2, s3, s4, s5, s6, s7, s8, s9, s10, s11, s12>>
    BY <1>m DEF Job!Tick, Job!seller
  <2>2. s1' \in 0..JobTime
    BY <1>0, <1>t, <2>1 DEF Job!TypeOK
  <2>3. QED
    BY <1>t, <1>k, <1>i, <2>1, <2>2 DEF JobTyped, Job!TypeOK, JobSaving, listCalls, listTopic
<1>n. QED
  BY <1>a, <1>b, <1>c, <1>d, <1>e, <1>f, <1>g, <1>h, <1>j, <1>l, <1>m DEF Job!Next

-----------------------------------------------------------------------------
(***************************************************************************)
(* The pool: a save that is about to commit counts as if its list were     *)
(* there, and K says how many lists it has seen committed.                 *)
(***************************************************************************)
pooled == s6
saved == s8

Late(k) == {r \in pooled : r.save > k}
Committing(K, k) == {c \in Pair : listCalls[c].step = "commit" /\ K[c] <= k}

\* What a committing call has read is what its snapshot K[c] showed.
SeenBy(K) ==
  \A c \in Pair : listCalls[c].step = "commit" =>
    /\ K[c] <= saved
    /\ \A r \in pooled : r \in listCalls[c].mine <=> r.save <= K[c]

Room(K) ==
  \A k \in Nat : Cardinality(Late(k)) + Pool!MostSlots * Cardinality(Committing(K, k))
                   <= Pool!MostSlots * Cardinality(Pair)

SlotsInv ==
  /\ PoolTyped
  /\ IsFiniteSet(pooled)
  /\ \A r \in pooled : r.save <= saved
  /\ \A c \in Pair : listCalls[c] # Pool!Idle => Len(listCalls[c].list) <= Pool!MostSlots
  /\ \A c \in Pair : listCalls[c].step = "commit" => \A r \in listCalls[c].mine : r.save <= saved
  /\ \E K \in [Pair -> Nat] : SeenBy(K) /\ Room(K)

LEMMA MostSlotsIsMost ==
  ASSUME CatalogueAssumption, NEW p \in SavePlans, NEW m \in SavePromos
  PROVE  /\ Pool!MostSlots \in Nat
         /\ Pool!effectiveLimits(p, m).autoBumpSlots <= Pool!MostSlots
<1> DEFINE all == {Pool!effectiveLimits(q, n).autoBumpSlots : q \in SavePlans, n \in SavePromos}
           own(q) == PlanTable[q].autoBumpSlots
<1>1. PlanTable \in [Pool!UserPlan -> Pool!PlanLimitsRecord]
  BY DEF CatalogueAssumption, Pool!ListsAssumption
<1>2. PICK a \in Nat, b \in Nat, c \in Nat, d \in Nat :
        a = own("FREE") /\ b = own("BASIC") /\ c = own("STAR") /\ d = own("PREMIUM")
  BY <1>1 DEF Pool!UserPlan, Pool!PlanLimitsRecord
<1>3. ASSUME NEW q \in SavePlans, NEW n \in SavePromos
      PROVE  /\ Pool!effectiveLimits(q, n).autoBumpSlots \in Nat
             /\ Pool!effectiveLimits(q, n).autoBumpSlots <= a + b + c + d
  <2>1. /\ Pool!effectiveLimits(q, n).autoBumpSlots \in {own(q), own(n.grantedPlan)}
        /\ q \in Pool!UserPlan /\ n.grantedPlan \in Pool!UserPlan
    BY PoolLimits
  <2>2. \A u \in Pool!UserPlan : own(u) \in {a, b, c, d}
    BY <1>2 DEF Pool!UserPlan
  <2> HIDE DEF own
  <2>3. Pool!effectiveLimits(q, n).autoBumpSlots \in {a, b, c, d}
    BY <2>1, <2>2
  <2>4. QED
    BY <2>3
<1>4. all \in SUBSET Int /\ (\A x \in all : x <= a + b + c + d) /\ a + b + c + d \in Int
  BY <1>3
<1>5. Pool!effectiveLimits(p, m).autoBumpSlots \in all
  OBVIOUS
<1>6. \E n \in all : \A k \in all : k <= n
  <2> HIDE DEF all
  <2>1. QED
    BY <1>4, <1>5, Greatest
<1>7. Pool!MostSlots = CHOOSE n \in all : \A k \in all : k <= n
  BY DEF Pool!MostSlots
<1>8. all \subseteq Nat
  BY <1>3
<1> HIDE DEF all
<1>9. Pool!MostSlots \in all /\ \A k \in all : k <= Pool!MostSlots
  BY <1>6, <1>7
<1>10. QED
  BY <1>5, <1>8, <1>9

LEMMA SameMost == Pool!MostSlots' = Pool!MostSlots
  OBVIOUS

LEMMA PoolSizes ==
  ASSUME CatalogueAssumption, PoolTyped
  PROVE  /\ Pool!MostSlots \in Nat /\ IsFiniteSet(Pair) /\ Cardinality(Pair) \in Nat
         /\ saved \in Nat
<1>1. s2 \in SavePlans /\ s3 \in SavePromos /\ saved \in 0..MaxSaves
  BY DEF PoolTyped, Pool!TypeOK, saved
<1>2. IsFiniteSet(Pair) /\ MaxSaves \in Nat
  BY SameCounts DEF CatalogueAssumption, Pool!ListsAssumption
<1>3. Cardinality(Pair) \in Nat
  BY <1>2, FS_CardinalityType
<1>4. QED
  BY <1>1, <1>2, <1>3, MostSlotsIsMost

LEMMA SlotsMean == ASSUME CatalogueAssumption, SlotsInv PROVE Pool!PoolBounded
<1>1. PoolTyped
  BY DEF SlotsInv
<1>2. PICK K \in [Pair -> Nat] : SeenBy(K) /\ Room(K)
  BY DEF SlotsInv
<1>3. Late(0) = pooled
  <2>1. \A r \in pooled : r.save \in 1..MaxSaves
    BY <1>1 DEF PoolTyped, Pool!TypeOK, Pool!SlotRow, Pool!Saves, pooled
  <2>2. \A r \in pooled : r.save > 0
    BY <2>1
  <2>3. QED
    BY <2>2 DEF Late
<1>4. Committing(K, 0) \in SUBSET Pair
  BY DEF Committing
<1>5. PICK n \in Nat, p \in Nat, c \in Nat :
        n = Cardinality(pooled) /\ p = Cardinality(Pair) /\ c = Cardinality(Committing(K, 0))
  <2>1. Cardinality(pooled) \in Nat
    BY FS_CardinalityType DEF SlotsInv
  <2>2. Cardinality(Committing(K, 0)) \in Nat
    BY <1>1, <1>4, PoolSizes, Counts
  <2>3. QED
    BY <1>1, <2>1, <2>2, PoolSizes
<1>6. n + Pool!MostSlots * c <= Pool!MostSlots * p
  BY <1>2, <1>3, <1>5 DEF Room
<1>7. Pool!MostSlots * c \in Nat /\ Pool!MostSlots * p \in Nat
  BY <1>1, PoolSizes
<1>8. n <= Pool!MostSlots * p
  BY <1>6, <1>7
<1>9. Pool!PoolBounded <=> Cardinality(pooled) <= Pool!MostSlots * Cardinality(Pair)
  BY SameCounts, Zenon DEF Pool!PoolBounded, pooled
<1>10. QED
  BY <1>5, <1>8, <1>9, Zenon

\* Room in the pool is left when there are fewer late rows and no more calls
\* that commit.
LEMMA RoomFor ==
  ASSUME CatalogueAssumption, PoolTyped,
         NEW r \in Nat, NEW s \in Nat, NEW b \in Nat, NEW c \in Nat,
         r + Pool!MostSlots * b <= Pool!MostSlots * Cardinality(Pair),
         \/ s <= r /\ c <= b
         \/ s <= r + Pool!MostSlots /\ c <= b - 1
  PROVE  s + Pool!MostSlots * c <= Pool!MostSlots * Cardinality(Pair)
<1>1. PICK m \in Nat : m = Pool!MostSlots
  BY PoolSizes
<1>2. PICK q \in Nat : q = m * Cardinality(Pair)
  BY <1>1, PoolSizes
<1>3. PICK y \in Nat : y = m * c
  BY <1>1
<1>4. r + m * b <= q
  BY <1>1, <1>2, Zenon
<1>5. CASE s <= r /\ c <= b
  <2>1. PICK k \in Nat : b = c + k
    BY <1>5
  <2>2. m * (c + k) = m * c + m * k
    OBVIOUS
  <2>3. PICK z \in Nat : z = m * k
    OBVIOUS
  <2>4. r + (y + z) <= q
    BY <1>3, <1>4, <2>1, <2>2, <2>3
  <2>5. s + y <= q
    BY <1>5, <2>4
  <2>6. QED
    BY <1>1, <1>2, <1>3, <2>5, Zenon
<1>6. CASE s <= r + Pool!MostSlots /\ c <= b - 1
  <2>1. PICK k \in Nat : b = c + 1 + k
    BY <1>6
  <2>2. m * (c + 1 + k) = m * c + m + m * k
    OBVIOUS
  <2>3. PICK z \in Nat : z = m * k
    OBVIOUS
  <2>4. r + (y + m + z) <= q
    BY <1>3, <1>4, <2>1, <2>2, <2>3
  <2>5. s + y <= q
    BY <1>1, <1>6, <2>4
  <2>6. QED
    BY <1>1, <1>2, <1>3, <2>5, Zenon
<1>7. QED
  BY <1>5, <1>6, Zenon

LEMMA NoneLate ==
  ASSUME CatalogueAssumption, PoolTyped, NEW C \in SUBSET Pair
  PROVE  0 + Pool!MostSlots * Cardinality(C) <= Pool!MostSlots * Cardinality(Pair)
<1>1. PICK m \in Nat : m = Pool!MostSlots
  BY PoolSizes
<1>2. Cardinality(C) \in Nat /\ Cardinality(C) <= Cardinality(Pair) /\ Cardinality(Pair) \in Nat
  BY PoolSizes, Counts
<1>3. PICK c \in Nat, k \in Nat : c = Cardinality(C) /\ Cardinality(Pair) = c + k
  BY <1>2
<1>4. m * (c + k) = m * c + m * k /\ m * c \in Nat /\ m * k \in Nat
  OBVIOUS
<1>5. 0 + m * c <= m * (c + k)
  BY <1>4
<1>6. QED
  BY <1>1, <1>3, <1>5, Zenon

\* A call has read rows of the past.
LEMMA MineRows ==
  ASSUME SlotsInv, NEW c \in Pair, listCalls[c].step = "commit"
  PROVE  listCalls[c].mine \subseteq {q \in Pool!SlotRow : q.save <= saved}
<1>1. PoolTyped /\ s5 = "slots"
  BY DEF SlotsInv, PoolTyped, Pool!TypeOK
<1>2. listCalls[c] \in PoolSaving(s5)
  BY <1>1, PoolCall DEF listCalls
<1>3. listCalls[c].mine \subseteq Pool!SlotRow
  BY <1>1, <1>2 DEF PoolSaving
<1>4. QED
  BY <1>3 DEF SlotsInv

LEMMA SlotsInit == ASSUME CatalogueAssumption, Pool!Init PROVE SlotsInv
<1>1. PoolTyped
  BY PoolTypedInit
<1>2. pooled = {} /\ \A c \in Pair : listCalls[c] = Pool!Idle
  BY DEF Pool!Init, pooled, listCalls
<1>3. Pool!Idle.step = "idle"
  BY DEF Pool!Idle
<1>4. PICK K \in [Pair -> Nat] : K = [c \in Pair |-> 0]
  OBVIOUS
<1>5. SeenBy(K)
  BY <1>2, <1>3 DEF SeenBy
<1>6. Room(K)
  <2>1. ASSUME NEW k \in Nat
        PROVE  Cardinality(Late(k)) + Pool!MostSlots * Cardinality(Committing(K, k))
                   <= Pool!MostSlots * Cardinality(Pair)
    <3>1. Late(k) = {} /\ Committing(K, k) \in SUBSET Pair
      BY <1>2 DEF Late, Committing
    <3>2. Cardinality(Late(k)) = 0
      BY <3>1, FS_EmptySet
    <3>3. QED
      BY <1>1, <3>1, <3>2, NoneLate
  <2>2. QED
    BY <2>1 DEF Room
<1>7. QED
  BY <1>1, <1>2, <1>3, <1>5, <1>6, FS_EmptySet DEF SlotsInv

\* The step of a call that reads no rows and commits none.
LEMMA NoMoreSlots ==
  ASSUME CatalogueAssumption, SlotsInv, PoolTyped', saved' = saved,
         pooled' \subseteq pooled,
         \A c \in Pair : listCalls'[c] # Pool!Idle => Len(listCalls'[c].list) <= Pool!MostSlots,
         \A c \in Pair : listCalls'[c].step = "commit" =>
           listCalls[c].step = "commit" /\ listCalls'[c].mine = listCalls[c].mine
  PROVE  SlotsInv'
<1>1. PICK K \in [Pair -> Nat] : SeenBy(K) /\ Room(K)
  BY DEF SlotsInv
<1>2. SeenBy(K)'
  BY <1>1 DEF SeenBy
<1>3. PoolTyped /\ IsFiniteSet(pooled) /\ \A r \in pooled : r.save <= saved
  BY DEF SlotsInv
<1>4. IsFiniteSet(pooled')
  BY <1>3, FS_Subset
<1>5. ASSUME NEW k \in Nat
      PROVE  (Cardinality(Late(k)) + Pool!MostSlots * Cardinality(Committing(K, k))
                   <= Pool!MostSlots * Cardinality(Pair))'
  <2>1. /\ Late(k)' \subseteq Late(k) /\ Late(k) \in SUBSET pooled
        /\ Committing(K, k)' \subseteq Committing(K, k)
        /\ Committing(K, k) \in SUBSET Pair
    BY DEF Late, Committing
  <2>2. /\ Cardinality(Late(k)) \in Nat /\ Cardinality(Late(k)') \in Nat
        /\ Cardinality(Late(k)') <= Cardinality(Late(k))
    <3>1. IsFiniteSet(Late(k))
      BY <1>3, <2>1, Counts
    <3>2. QED
      BY <2>1, <3>1, Counts
  <2>3. /\ Cardinality(Committing(K, k)) \in Nat /\ Cardinality(Committing(K, k)') \in Nat
        /\ Cardinality(Committing(K, k)') <= Cardinality(Committing(K, k))
    <3>1. IsFiniteSet(Committing(K, k))
      BY <1>3, <2>1, Counts, PoolSizes
    <3>2. QED
      BY <2>1, <3>1, Counts
  <2>4. Cardinality(Late(k)) + Pool!MostSlots * Cardinality(Committing(K, k))
                   <= Pool!MostSlots * Cardinality(Pair)
    BY <1>1 DEF Room
  <2>5. Cardinality(Late(k)') + Pool!MostSlots * Cardinality(Committing(K, k)')
                   <= Pool!MostSlots * Cardinality(Pair)
    BY <1>3, <2>2, <2>3, <2>4, RoomFor
  <2>6. Pool!MostSlots' = Pool!MostSlots
    BY SameMost
  <2>7. QED
    BY <2>5, <2>6
<1>6. Room(K)'
  BY <1>5 DEF Room
<1>7. Pool!MostSlots' = Pool!MostSlots /\ Pool!Idle' = Pool!Idle
  BY SameMost DEF Pool!Idle
<1>8. \A c \in Pair : listCalls'[c].step = "commit" => \A r \in listCalls'[c].mine : r.save <= saved'
  BY DEF SlotsInv
<1>9. QED
  BY <1>1, <1>2, <1>3, <1>4, <1>6, <1>7, <1>8 DEF SlotsInv

LEMMA SnapshotSlots ==
  ASSUME CatalogueAssumption, SlotsInv, PoolTyped', NEW c \in Pair, Pool!Snapshot(c)
  PROVE  SlotsInv'
<1>1. PICK K \in [Pair -> Nat] : SeenBy(K) /\ Room(K)
  BY DEF SlotsInv
<1>2. PoolTyped /\ IsFiniteSet(pooled) /\ \A r \in pooled : r.save <= saved
  BY DEF SlotsInv
<1>3. /\ listCalls[c].step = "snapshot" /\ pooled' = pooled /\ saved' = saved
      /\ listCalls' = [listCalls EXCEPT ![c].step = "commit", ![c].mine = pooled]
  <2>1. s5 = "slots"
    BY <1>2 DEF PoolTyped, Pool!TypeOK
  <2>2. QED
    BY <2>1 DEF Pool!Snapshot, Pool!seller, listCalls, pooled, saved
<1>4. /\ listCalls = [d \in Pair |-> listCalls[d]]
      /\ listCalls[c] \in PoolSaving(s5) /\ listCalls[c] # Pool!Idle
  BY <1>2, <1>3, PoolCall DEF PoolTyped, Pool!TypeOK, listCalls
<1>5. PICK m : m = [listCalls[c] EXCEPT !.step = "commit", !.mine = pooled]
  OBVIOUS
<1>6. m.step = "commit" /\ m.mine = pooled /\ m.list = listCalls[c].list
  BY <1>4, <1>5 DEF PoolSaving
<1>7. /\ listCalls' = [listCalls EXCEPT ![c] = m]
      /\ \A d \in Pair : listCalls'[d] = IF d = c THEN m ELSE listCalls[d]
  BY <1>3, <1>4, <1>5
<1>8. saved \in Nat
  BY <1>2, PoolSizes
<1>9. PICK L \in [Pair -> Nat] : L = [K EXCEPT ![c] = saved]
  BY <1>8
<1>10. \A d \in Pair : L[d] = IF d = c THEN saved ELSE K[d]
  BY <1>9
<1>11. SeenBy(L)'
  <2>1. ASSUME NEW d \in Pair, listCalls'[d].step = "commit"
        PROVE  /\ L[d] <= saved
               /\ \A r \in pooled : r \in listCalls'[d].mine <=> r.save <= L[d]
    <3>1. CASE d = c
      BY <1>2, <1>6, <1>7, <1>8, <1>10, <3>1
    <3>2. CASE d # c
      BY <1>1, <1>7, <1>10, <2>1, <3>2 DEF SeenBy
    <3>3. QED
      BY <3>1, <3>2
  <2>2. QED
    BY <1>3, <2>1 DEF SeenBy
<1>12. ASSUME NEW k \in Nat
       PROVE  (Cardinality(Late(k)) + Pool!MostSlots * Cardinality(Committing(L, k))
                   <= Pool!MostSlots * Cardinality(Pair))'
  <2>1. Late(k)' = Late(k)
    BY <1>3 DEF Late
  <2>2. CASE k < saved
    <3>1. Committing(L, k)' \subseteq Committing(K, k)
      <4>1. ASSUME NEW d \in Pair, listCalls'[d].step = "commit", L[d] <= k
            PROVE  listCalls[d].step = "commit" /\ K[d] <= k
        <5>1. d # c
          BY <1>8, <1>10, <2>2, <4>1
        <5>2. QED
          BY <1>7, <1>10, <4>1, <5>1
      <4>2. QED
        BY <4>1 DEF Committing
    <3>2. Late(k) \in SUBSET pooled /\ Committing(K, k) \in SUBSET Pair
      BY DEF Late, Committing
    <3>3. Cardinality(Late(k)) \in Nat /\ IsFiniteSet(Committing(K, k))
      BY <1>2, <3>2, Counts, PoolSizes
    <3>4. /\ Cardinality(Committing(K, k)) \in Nat /\ Cardinality(Committing(L, k)') \in Nat
          /\ Cardinality(Committing(L, k)') <= Cardinality(Committing(K, k))
      BY <3>1, <3>3, Counts
    <3>5. Cardinality(Late(k)) + Pool!MostSlots * Cardinality(Committing(K, k))
                   <= Pool!MostSlots * Cardinality(Pair)
      BY <1>1 DEF Room
    <3>6. Cardinality(Late(k)) + Pool!MostSlots * Cardinality(Committing(L, k)')
                   <= Pool!MostSlots * Cardinality(Pair)
      <4>1. PICK i \in Nat, u \in Nat, v \in Nat :
              /\ i = Cardinality(Late(k)) /\ u = Cardinality(Committing(K, k))
              /\ v = Cardinality(Committing(L, k)') /\ v <= u
        BY <3>3, <3>4
      <4>2. i + Pool!MostSlots * u <= Pool!MostSlots * Cardinality(Pair) /\ i <= i
        BY <3>5, <4>1
      <4>3. i + Pool!MostSlots * v <= Pool!MostSlots * Cardinality(Pair)
        BY <1>2, <4>1, <4>2, RoomFor
      <4>4. QED
        BY <4>1, <4>3
    <3>7. QED
      BY <2>1, <3>6, SameMost
  <2>3. CASE k >= saved
    <3>1. \A r \in pooled : r.save \in Nat
      BY <1>2 DEF PoolTyped, Pool!TypeOK, Pool!SlotRow, Pool!Saves, pooled
    <3>2. Late(k) = {}
      BY <1>2, <1>8, <2>3, <3>1 DEF Late
    <3>3. Cardinality(Late(k)) = 0
      BY <3>2, FS_EmptySet
    <3>4. Committing(L, k)' \in SUBSET Pair
      BY DEF Committing
    <3>5. 0 + Pool!MostSlots * Cardinality(Committing(L, k)') <= Pool!MostSlots * Cardinality(Pair)
      BY <1>2, <3>4, NoneLate
    <3>6. QED
      BY <2>1, <3>3, <3>5, SameMost
  <2>4. QED
    BY <1>8, <2>2, <2>3
<1>13. Room(L)'
  BY <1>12 DEF Room
<1>14. \A d \in Pair : listCalls'[d] # Pool!Idle => Len(listCalls'[d].list) <= Pool!MostSlots
  BY <1>4, <1>6, <1>7 DEF SlotsInv
<1>15. /\ Pool!MostSlots' = Pool!MostSlots /\ Pool!Idle' = Pool!Idle
       /\ IsFiniteSet(pooled') /\ \A r \in pooled' : r.save <= saved'
  BY <1>2, <1>3, SameMost DEF Pool!Idle
<1>16. \A d \in Pair : listCalls'[d].step = "commit" => \A r \in listCalls'[d].mine : r.save <= saved'
  BY <1>2, <1>3, <1>6, <1>7 DEF SlotsInv
<1>17. QED
  BY <1>11, <1>13, <1>14, <1>15, <1>16 DEF SlotsInv

\* The rows of a list, one per listing.
LEMMA ListRows ==
  ASSUME CatalogueAssumption, NEW list \in Pool!Lists, NEW cad, NEW n
  PROVE  LET rows == [product : Pool!Named(list), cadence : {cad}, save : {n}]
         IN  IsFiniteSet(rows) /\ Cardinality(rows) <= Len(list) /\ Cardinality(rows) \in Nat
<1> DEFINE rows == [product : Pool!Named(list), cadence : {cad}, save : {n}]
           g == [i \in 1..Len(list) |-> [product |-> list[i], cadence |-> cad, save |-> n]]
<1>1. Len(list) \in Nat /\ DOMAIN list = 1..Len(list)
  BY PoolList
<1>2. IsFiniteSet(1..Len(list)) /\ Cardinality(1..Len(list)) = Len(list)
  BY <1>1, UpTo
<1>3. rows = {g[i] : i \in 1..Len(list)}
  <2>1. ASSUME NEW r \in rows PROVE r \in {g[i] : i \in 1..Len(list)}
    <3>1. PICK i \in 1..Len(list) : r.product = list[i]
      BY <1>1 DEF Pool!Named
    <3>2. r = g[i]
      BY <3>1
    <3>3. QED
      BY <3>2
  <2>2. ASSUME NEW i \in 1..Len(list) PROVE g[i] \in rows
    <3>1. list[i] \in Pool!Named(list)
      BY <1>1 DEF Pool!Named
    <3>2. QED
      BY <3>1
  <2>3. QED
    BY <2>1, <2>2
<1> HIDE DEF g, rows
<1>4. /\ IsFiniteSet({g[i] : i \in 1..Len(list)})
      /\ Cardinality({g[i] : i \in 1..Len(list)}) <= Cardinality(1..Len(list))
  BY <1>2, Images
<1>5. Cardinality(rows) \in Nat
  BY <1>3, <1>4, FS_CardinalityType
<1>6. IsFiniteSet(rows) /\ Cardinality(rows) <= Len(list) /\ Cardinality(rows) \in Nat
  BY <1>2, <1>3, <1>4, <1>5, Zenon
<1>7. QED
  BY <1>6 DEF rows

LEMMA CommitSlotsInv ==
  ASSUME CatalogueAssumption, SlotsInv, PoolTyped', NEW c \in Pair, Pool!CommitSlots(c)
  PROVE  SlotsInv'
<1>1. PICK K \in [Pair -> Nat] : SeenBy(K) /\ Room(K)
  BY DEF SlotsInv
<1>2. PoolTyped /\ IsFiniteSet(pooled) /\ \A r \in pooled : r.save <= saved
  BY DEF SlotsInv
<1>3. /\ listCalls[c].step = "commit"
      /\ listCalls' = [listCalls EXCEPT ![c] = Pool!Idle]
  BY DEF Pool!CommitSlots, Pool!End, listCalls
<1>i. Pool!Idle.step = "idle" /\ Pool!Idle' = Pool!Idle
  BY DEF Pool!Idle
<1>4. \A d \in Pair : listCalls'[d] = IF d = c THEN Pool!Idle ELSE listCalls[d]
  BY <1>2, <1>3 DEF PoolTyped, Pool!TypeOK, listCalls
<1>5. \A d \in Pair : listCalls'[d] # Pool!Idle => Len(listCalls'[d].list) <= Pool!MostSlots
  BY <1>4 DEF SlotsInv
<1>6. CASE pooled' = pooled /\ saved' = saved
  <2>1. \A d \in Pair : listCalls'[d].step = "commit" =>
           listCalls[d].step = "commit" /\ listCalls'[d].mine = listCalls[d].mine
    BY <1>4, <1>i
  <2>2. QED
    BY <1>5, <1>6, <2>1, NoMoreSlots
<1>7. CASE /\ saved' = saved + 1
           /\ pooled' = (pooled \ listCalls[c].mine) \cup
                [product : Pool!Named(listCalls[c].list), cadence : {listCalls[c].cadence},
                 save : {saved + 1}]
  <2> DEFINE rows == [product : Pool!Named(listCalls[c].list), cadence : {listCalls[c].cadence},
                 save : {saved + 1}]
  <2>1. saved \in Nat /\ saved + 1 \in Nat
    BY <1>2, PoolSizes
  <2>2. listCalls[c].list \in Pool!Lists /\ listCalls[c] # Pool!Idle
    BY <1>2, <1>3, PoolCall DEF PoolSaving, listCalls
  <2>3. Len(listCalls[c].list) <= Pool!MostSlots /\ Len(listCalls[c].list) \in Nat
    BY <2>2, PoolList DEF SlotsInv
  <2>4. /\ IsFiniteSet(rows) /\ Cardinality(rows) \in Nat
        /\ Cardinality(rows) <= Len(listCalls[c].list)
    BY <2>2, ListRows
  <2>5. Cardinality(rows) <= Pool!MostSlots /\ Pool!MostSlots \in Nat
    <3>1. Pool!MostSlots \in Nat
      BY <1>2, PoolSizes
    <3>2. QED
      BY <2>3, <2>4, <3>1
  <2>6. \A r \in rows : r.save = saved + 1
    OBVIOUS
  <2>7. pooled' = (pooled \ listCalls[c].mine) \cup rows
    BY <1>7
  <2> HIDE DEF rows
  <2>8. K[c] \in Nat /\ K[c] <= saved
    BY <1>1, <1>3 DEF SeenBy
  <2>9. pooled \ listCalls[c].mine = Late(K[c])
    <3>1. \A r \in pooled : r.save \in Nat
      BY <1>2 DEF PoolTyped, Pool!TypeOK, Pool!SlotRow, Pool!Saves, pooled
    <3>2. \A r \in pooled : r \in listCalls[c].mine <=> r.save <= K[c]
      BY <1>1, <1>3 DEF SeenBy
    <3>3. \A r \in pooled : r \notin listCalls[c].mine <=> r.save > K[c]
      BY <2>8, <3>1, <3>2
    <3>4. QED
      BY <3>3 DEF Late
  <2>10. SeenBy(K)'
    <3>1. ASSUME NEW d \in Pair, listCalls'[d].step = "commit"
          PROVE  /\ K[d] <= saved'
                 /\ \A r \in pooled' : r \in listCalls'[d].mine <=> r.save <= K[d]
      <4>1. d # c /\ listCalls'[d] = listCalls[d]
        BY <1>4, <1>i, <3>1
      <4>2. K[d] <= saved /\ K[d] \in Nat /\ \A r \in pooled : r \in listCalls[d].mine <=> r.save <= K[d]
        BY <1>1, <3>1, <4>1 DEF SeenBy
      <4>3. ASSUME NEW r \in rows PROVE r \in listCalls[d].mine <=> r.save <= K[d]
        <5>1. ~(r.save <= K[d])
          BY <2>1, <2>6, <4>2
        <5>2. listCalls[d].mine \subseteq {q \in Pool!SlotRow : q.save <= saved}
          BY <3>1, <4>1, MineRows
        <5>3. r \notin listCalls[d].mine
          BY <2>1, <2>6, <5>2
        <5>4. QED
          BY <5>1, <5>3
      <4>4. K[d] <= saved'
        BY <1>7, <2>1, <4>2
      <4>5. QED
        BY <2>7, <4>1, <4>2, <4>3, <4>4
    <3>2. QED
      BY <3>1 DEF SeenBy
  <2>11. ASSUME NEW k \in Nat
         PROVE  (Cardinality(Late(k)) + Pool!MostSlots * Cardinality(Committing(K, k))
                   <= Pool!MostSlots * Cardinality(Pair))'
    <3>1. /\ Late(k) \in SUBSET pooled /\ Late(K[c]) \in SUBSET pooled
          /\ Committing(K, k) \in SUBSET Pair /\ Committing(K, K[c]) \in SUBSET Pair
          /\ Committing(K, k)' = Committing(K, k) \ {c}
      BY <1>4, <1>i DEF Late, Committing
    <3>2. c \in Committing(K, K[c]) /\ (k >= K[c] => c \in Committing(K, k))
      BY <1>3, <2>8 DEF Committing
    <3>3. /\ IsFiniteSet(Late(k)) /\ Cardinality(Late(k)) \in Nat
          /\ IsFiniteSet(Late(K[c])) /\ Cardinality(Late(K[c])) \in Nat
          /\ IsFiniteSet(Committing(K, k)) /\ Cardinality(Committing(K, k)) \in Nat
          /\ IsFiniteSet(Committing(K, K[c])) /\ Cardinality(Committing(K, K[c])) \in Nat
      BY <1>2, <3>1, Counts, PoolSizes
    <3>4. Late(k)' \subseteq Late(k) \cup rows /\ Late(k)' \subseteq Late(K[c]) \cup rows
      BY <2>7, <2>9 DEF Late
    <3>5. ASSUME NEW A, IsFiniteSet(A), Late(k)' \subseteq A \cup rows
          PROVE  /\ Cardinality(Late(k)') \in Nat
                 /\ Cardinality(Late(k)') <= Cardinality(A) + Pool!MostSlots
      <4>1. /\ IsFiniteSet(A \cup rows)
            /\ Cardinality(A \cup rows) = Cardinality(A) + Cardinality(rows) - Cardinality(A \cap rows)
        BY <2>4, <3>5, FS_Union
      <4>2. Cardinality(A) \in Nat /\ Cardinality(A \cap rows) \in Nat /\ A \cap rows \in SUBSET rows
        BY <2>4, <3>5, FS_CardinalityType, FS_Intersection
      <4>3. Cardinality(Late(k)') \in Nat /\ Cardinality(Late(k)') <= Cardinality(A \cup rows)
        BY <3>5, <4>1, Counts
      <4>4. QED
        BY <2>4, <2>5, <4>1, <4>2, <4>3
    <3>6. Cardinality(Late(k)') \in Nat
      BY <3>3, <3>4, <3>5
    <3>7. Cardinality(Committing(K, k)') \in Nat
      BY <3>1, <3>3, Counts
    <3>8. PICK s \in Nat, v \in Nat : s = Cardinality(Late(k)') /\ v = Cardinality(Committing(K, k)')
      BY <3>6, <3>7
    <3>9. s + Pool!MostSlots * v <= Pool!MostSlots * Cardinality(Pair)
      <4>1. CASE k >= K[c]
        <5>1. PICK i \in Nat, u \in Nat : i = Cardinality(Late(k)) /\ u = Cardinality(Committing(K, k))
          BY <3>3
        <5>2. v = u - 1
          BY <3>1, <3>2, <3>3, <3>8, <4>1, <5>1, Counts
        <5>3. s <= i + Pool!MostSlots
          BY <3>3, <3>4, <3>5, <3>8, <5>1
        <5>4. i + Pool!MostSlots * u <= Pool!MostSlots * Cardinality(Pair)
          BY <1>1, <5>1 DEF Room
        <5>5. QED
          BY <1>2, <5>2, <5>3, <5>4, RoomFor
      <4>2. CASE k < K[c]
        <5>1. PICK i \in Nat, u \in Nat : i = Cardinality(Late(K[c])) /\ u = Cardinality(Committing(K, K[c]))
          BY <3>3
        <5>2. Committing(K, k)' \subseteq Committing(K, K[c]) \ {c}
          BY <2>8, <3>1, <4>2 DEF Committing
        <5>3. /\ Cardinality(Committing(K, K[c]) \ {c}) = u - 1
              /\ IsFiniteSet(Committing(K, K[c]) \ {c})
          BY <3>2, <3>3, <5>1, Counts, FS_RemoveElement
        <5>4. v <= u - 1
          <6>1. Cardinality(Committing(K, k)') <= Cardinality(Committing(K, K[c]) \ {c})
            BY <5>2, <5>3, Counts
          <6>2. QED
            BY <3>8, <5>3, <6>1
        <5>5. s <= i + Pool!MostSlots
          BY <3>3, <3>4, <3>5, <3>8, <5>1
        <5>6. i + Pool!MostSlots * u <= Pool!MostSlots * Cardinality(Pair)
          BY <1>1, <2>8, <5>1 DEF Room
        <5>7. QED
          BY <1>2, <5>4, <5>5, <5>6, RoomFor
      <4>3. QED
        BY <2>8, <4>1, <4>2
    <3>10. QED
      BY <3>8, <3>9, SameMost
  <2>12. Room(K)'
    BY <2>11 DEF Room
  <2>13. IsFiniteSet(pooled')
    <3>1. IsFiniteSet(pooled \ listCalls[c].mine)
      BY <1>2, FS_Subset
    <3>2. QED
      BY <2>4, <2>7, <3>1, FS_Union
  <2>14. \A r \in pooled' : r.save <= saved'
    <3>1. \A r \in pooled : r.save \in Nat
      BY <1>2 DEF PoolTyped, Pool!TypeOK, Pool!SlotRow, Pool!Saves, pooled
    <3>2. QED
      BY <1>2, <1>7, <2>1, <2>6, <2>7, <3>1
  <2>15. \A d \in Pair : listCalls'[d].step = "commit" => \A r \in listCalls'[d].mine : r.save <= saved'
    <3>1. ASSUME NEW d \in Pair, listCalls'[d].step = "commit", NEW r \in listCalls'[d].mine
          PROVE  r.save <= saved'
      <4>1. d # c /\ listCalls'[d] = listCalls[d]
        BY <1>4, <1>i, <3>1
      <4>2. listCalls[d].mine \subseteq {q \in Pool!SlotRow : q.save <= saved}
        BY <3>1, <4>1, MineRows
      <4>3. r.save \in Nat /\ r.save <= saved
        BY <3>1, <4>1, <4>2 DEF Pool!SlotRow, Pool!Saves
      <4>4. QED
        BY <1>7, <2>1, <4>3
    <3>2. QED
      BY <3>1
  <2>16. QED
    BY <1>5, <1>i, <2>10, <2>12, <2>13, <2>14, <2>15, SameMost DEF SlotsInv
<1>8. QED
  <2>1. (pooled' = pooled /\ saved' = saved) \/
        (/\ saved' = saved + 1
         /\ pooled' = (pooled \ listCalls[c].mine) \cup
                [product : Pool!Named(listCalls[c].list), cadence : {listCalls[c].cadence},
                 save : {saved + 1}])
    BY DEF Pool!CommitSlots, pooled, saved, listCalls
  <2>2. QED
    BY <1>6, <1>7, <2>1

LEMMA SlotsNext == ASSUME CatalogueAssumption, SlotsInv, Pool!Next PROVE SlotsInv'
<1>1. PoolTyped /\ PoolTyped' /\ s5 = "slots"
  <2>1. PoolTyped
    BY DEF SlotsInv
  <2>2. QED
    BY <2>1, PoolTypedNext DEF PoolTyped, Pool!TypeOK
<1>i. Pool!Idle.step = "idle" /\ Pool!Idle' = Pool!Idle
  BY DEF Pool!Idle
<1>c. listCalls = [d \in Pair |-> listCalls[d]]
  BY <1>1 DEF PoolTyped, Pool!TypeOK, listCalls
<1>2. ASSUME NEW c \in Pair, Pool!AdmitSlots(c) PROVE SlotsInv'
  <2>1. PICK list \in Pool!Lists :
          /\ Len(list) <= Pool!effectiveLimits(s2, s3).autoBumpSlots
          /\ listCalls' = [listCalls EXCEPT ![c] = [step |-> "owned", list |-> list, mine |-> {},
                                      cadence |-> Pool!effectiveLimits(s2, s3).autoBumpCadence]]
          /\ saved' = saved /\ pooled' = pooled
    BY <1>2 DEF Pool!AdmitSlots, listCalls, saved, pooled
  <2>2. s2 \in SavePlans /\ s3 \in SavePromos
    BY <1>1 DEF PoolTyped, Pool!TypeOK
  <2>3. /\ Pool!effectiveLimits(s2, s3).autoBumpSlots \in Nat
        /\ Pool!effectiveLimits(s2, s3).autoBumpSlots <= Pool!MostSlots
        /\ Pool!MostSlots \in Nat
    <3>1. PlanTable \in [Pool!UserPlan -> Pool!PlanLimitsRecord]
      BY DEF CatalogueAssumption, Pool!ListsAssumption
    <3>2. \A q \in Pool!UserPlan : PlanTable[q].autoBumpSlots \in Nat
      BY <3>1 DEF Pool!PlanLimitsRecord
    <3>3. Pool!effectiveLimits(s2, s3).autoBumpSlots \in Nat
      BY <2>2, <3>2, PoolLimits
    <3>4. QED
      BY <2>2, <3>3, MostSlotsIsMost
  <2>4. Len(list) <= Pool!MostSlots
    <3>1. Len(list) \in Nat
      BY PoolList
    <3>2. QED
      BY <2>1, <2>3, <3>1
  <2>5. PICK m : /\ m.step = "owned" /\ m.list = list
                 /\ listCalls' = [listCalls EXCEPT ![c] = m]
    BY <2>1
  <2>6. \A d \in Pair : listCalls'[d] = IF d = c THEN m ELSE listCalls[d]
    BY <1>c, <2>5
  <2>7. \A d \in Pair : listCalls'[d] # Pool!Idle => Len(listCalls'[d].list) <= Pool!MostSlots
    BY <2>4, <2>5, <2>6 DEF SlotsInv
  <2>8. \A d \in Pair : listCalls'[d].step = "commit" =>
           listCalls[d].step = "commit" /\ listCalls'[d].mine = listCalls[d].mine
    BY <2>5, <2>6
  <2>9. QED
    BY <1>1, <2>1, <2>7, <2>8, NoMoreSlots
<1>3. ASSUME NEW c \in Pair, Pool!CheckOwned(c) PROVE SlotsInv'
  <2>1. /\ listCalls[c].step = "owned" /\ saved' = saved /\ pooled' = pooled
    BY <1>3 DEF Pool!CheckOwned, listCalls, saved, pooled
  <2>2. listCalls[c] \in PoolSaving(s5) /\ listCalls[c] # Pool!Idle
    BY <1>1, <2>1, PoolCall DEF listCalls
  <2>3. PICK m : /\ m = Pool!Idle \/ (m.step = "snapshot" /\ m.list = listCalls[c].list)
                 /\ listCalls' = [listCalls EXCEPT ![c] = m]
    <3>1. CASE listCalls' = [listCalls EXCEPT ![c] = Pool!Idle]
      BY <3>1
    <3>2. CASE listCalls' = [listCalls EXCEPT ![c].step = "snapshot"]
      <4>1. PICK m : m = [listCalls[c] EXCEPT !.step = "snapshot"]
        OBVIOUS
      <4>2. m.step = "snapshot" /\ m.list = listCalls[c].list
        BY <2>2, <4>1 DEF PoolSaving
      <4>3. QED
        BY <3>2, <4>1, <4>2
    <3>3. QED
      BY <1>3, <3>1, <3>2 DEF Pool!CheckOwned, Pool!Go, Pool!End, listCalls
  <2>4. \A d \in Pair : listCalls'[d] = IF d = c THEN m ELSE listCalls[d]
    BY <1>c, <2>3
  <2>5. \A d \in Pair : listCalls'[d] # Pool!Idle => Len(listCalls'[d].list) <= Pool!MostSlots
    BY <2>2, <2>3, <2>4 DEF SlotsInv
  <2>6. \A d \in Pair : listCalls'[d].step = "commit" =>
           listCalls[d].step = "commit" /\ listCalls'[d].mine = listCalls[d].mine
    BY <1>i, <2>3, <2>4
  <2>7. QED
    BY <1>1, <2>1, <2>5, <2>6, NoMoreSlots
<1>4. CASE /\ listCalls' = listCalls /\ saved' = saved /\ pooled' \subseteq pooled
  <2>1. \A d \in Pair : listCalls'[d] # Pool!Idle => Len(listCalls'[d].list) <= Pool!MostSlots
    BY <1>4 DEF SlotsInv
  <2>2. QED
    BY <1>1, <1>4, <2>1, NoMoreSlots
<1>5. CASE \E c \in Pair : Pool!AdmitPins(c) \/ Pool!CommitPins(c)
  BY <1>1, <1>5 DEF Pool!AdmitPins, Pool!CommitPins
<1>6. CASE Pool!PassStarts \/ Pool!FindSlots \/ Pool!BumpSlots \/ Pool!BumpBoosted
  BY <1>4, <1>6 DEF Pool!PassStarts, Pool!FindSlots, Pool!BumpSlots, Pool!BumpBoosted,
     listCalls, saved, pooled
<1>7. CASE \/ \E p \in Couple \cup {One} :
                Pool!HideOrShow(p) \/ Pool!BumpProduct(p) \/ Pool!RemoveProduct(p)
           \/ Pool!ChangePlan \/ Pool!Tick
  BY <1>4, <1>7 DEF Pool!HideOrShow, Pool!BumpProduct, Pool!RemoveProduct, Pool!ChangePlan, Pool!Tick,
     listCalls, saved, pooled
<1>8. ASSUME NEW c \in Pair, Pool!Snapshot(c) PROVE SlotsInv'
  BY <1>1, <1>8, SnapshotSlots
<1>9. ASSUME NEW c \in Pair, Pool!CommitSlots(c) PROVE SlotsInv'
  BY <1>1, <1>9, CommitSlotsInv
<1>10. QED
  BY <1>2, <1>3, <1>5, <1>6, <1>7, <1>8, <1>9, Zenon DEF Pool!Next

-----------------------------------------------------------------------------
(***************************************************************************)
(* The pins: as long as none is deleted they are of one save, the first of *)
(* them at position 0, and a call that is about to commit has seen all of  *)
(* them or none.                                                           *)
(***************************************************************************)
pinned == s7
unpinned == s12  \* a pinned listing was deleted

PinsInv ==
  /\ PinsTyped
  /\ \A r \in pinned : r.save <= saved
  /\ \A c \in Pair : listCalls[c].step = "commit" => \A r \in listCalls[c].mine : r.save <= saved
  /\ ~unpinned =>
       /\ \A r, q \in pinned : r.save = q.save
       /\ pinned # {} => \E r \in pinned : r.position = 0
       /\ \A c \in Pair : listCalls[c].step = "commit" =>
            \/ pinned \subseteq listCalls[c].mine
            \/ pinned \cap listCalls[c].mine = {}

LEMMA PinsMean == ASSUME PinsInv PROVE Pins!PinsFromOneSave
  BY DEF PinsInv, Pins!PinsFromOneSave, pinned, unpinned

LEMMA PinsInit == ASSUME CatalogueAssumption, Pins!Init PROVE PinsInv
<1>1. PinsTyped
  BY PinsTypedInit
<1>2. pinned = {} /\ \A c \in Pair : listCalls[c].step = "idle"
  BY DEF Pins!Init, pinned, listCalls, Pins!Idle
<1>3. QED
  BY <1>1, <1>2 DEF PinsInv

\* The pins stay or one is deleted, and no other call is about to commit.
LEMMA SamePins ==
  ASSUME CatalogueAssumption, PinsInv, PinsTyped', saved' = saved,
         \/ pinned' = pinned /\ unpinned' = unpinned
         \/ pinned' \subseteq pinned /\ unpinned',
         \A c \in Pair : listCalls'[c].step = "commit" =>
           \/ listCalls[c].step = "commit" /\ listCalls'[c].mine = listCalls[c].mine
           \/ pinned' = pinned /\ listCalls'[c].mine = pinned
  PROVE  PinsInv'
<1>1. \A r \in pinned' : r.save <= saved'
  BY DEF PinsInv
<1>2. \A c \in Pair : listCalls'[c].step = "commit" => \A r \in listCalls'[c].mine : r.save <= saved'
  BY DEF PinsInv
<1>3. ASSUME ~unpinned'
      PROVE  /\ \A r, q \in pinned' : r.save = q.save
             /\ pinned' # {} => \E r \in pinned' : r.position = 0
             /\ \A c \in Pair : listCalls'[c].step = "commit" =>
                  \/ pinned' \subseteq listCalls'[c].mine
                  \/ pinned' \cap listCalls'[c].mine = {}
  <2>0. pinned' = pinned /\ unpinned' = unpinned
    BY <1>3
  <2>1. pinned' = pinned /\ ~unpinned
    BY <1>3, <2>0, Zenon
  <2>2. \A r, q \in pinned' : r.save = q.save
    BY <2>1 DEF PinsInv
  <2>3. pinned' # {} => \E r \in pinned' : r.position = 0
    BY <2>1 DEF PinsInv
  <2>4. \A c \in Pair : listCalls'[c].step = "commit" =>
                  \/ pinned' \subseteq listCalls'[c].mine
                  \/ pinned' \cap listCalls'[c].mine = {}
    BY <2>1 DEF PinsInv
  <2>5. QED
    BY <2>2, <2>3, <2>4
<1>4. QED
  BY <1>1, <1>2, <1>3 DEF PinsInv

LEMMA CommitPinsInv ==
  ASSUME CatalogueAssumption, PinsInv, PinsTyped', NEW c \in Pair, Pins!CommitPins(c)
  PROVE  PinsInv'
<1>1. PinsTyped /\ s5 = "pins"
  BY DEF PinsInv, PinsTyped, Pins!TypeOK
<1>2. /\ listCalls[c].step = "commit"
      /\ listCalls' = [listCalls EXCEPT ![c] = Pins!Idle] /\ unpinned' = unpinned
  BY DEF Pins!CommitPins, Pins!End, listCalls, unpinned
<1>3. \A d \in Pair : listCalls'[d] = IF d = c THEN Pins!Idle ELSE listCalls[d]
  BY <1>1, <1>2 DEF PinsTyped, Pins!TypeOK, listCalls
<1>4. \A d \in Pair : listCalls'[d].step = "commit" =>
        d # c /\ listCalls[d].step = "commit" /\ listCalls'[d].mine = listCalls[d].mine
  BY <1>3 DEF Pins!Idle
<1>5. CASE pinned' = pinned /\ saved' = saved
  BY <1>2, <1>4, <1>5, SamePins
<1> DEFINE list == listCalls[c].list
           kept == pinned \ listCalls[c].mine
           rows == {[product |-> list[i], position |-> i - 1, save |-> saved + 1] :
                      i \in DOMAIN list}
<1>6. CASE /\ saved' = saved + 1 /\ pinned' = kept \cup rows
           /\ \A r \in kept : ~(r.position < Len(list))
  <2>1. list \in Pins!Lists
    BY <1>1, <1>2, PinsCall DEF PinsSaving, listCalls
  <2>2. /\ Len(list) \in {0, 1, 2} /\ DOMAIN list = 1..Len(list)
        /\ \A i \in DOMAIN list : i \in Nat
    BY <2>1, PinsList
  <2>3. saved \in Nat
    <3>1. MaxSaves \in Nat /\ saved \in 0..MaxSaves
      BY <1>1 DEF CatalogueAssumption, Pins!ListsAssumption, PinsTyped, Pins!TypeOK, saved
    <3>2. QED
      BY <3>1
  <2>4. \A r \in pinned : r.save \in Nat /\ r.save <= saved
    BY <1>1 DEF PinsInv, PinsTyped, Pins!TypeOK, Pins!PinRow, Pins!Saves, pinned
  <2>5. \A r \in rows : r.save = saved + 1
    OBVIOUS
  <2>6. rows # {} => \E r \in rows : r.position = 0
    <3>1. ASSUME rows # {} PROVE \E r \in rows : r.position = 0
      <4>1. 1 \in DOMAIN list
        BY <2>2, <3>1
      <4>2. PICK r \in rows : r = [product |-> list[1], position |-> 1 - 1, save |-> saved + 1]
        BY <4>1
      <4>3. r.position = 0
        BY <4>2
      <4>4. QED
        BY <4>3
    <3>2. QED
      BY <3>1
  <2>7. Len(list) = 0 => rows = {}
    BY <2>2
  <2>8. Len(list) # 0 => 0 < Len(list)
    BY <2>2
  <2>9. pinned' = kept \cup rows /\ \A r \in kept : ~(r.position < Len(list))
    BY <1>6
  <2> HIDE DEF rows
  <2>10. ASSUME NEW d \in Pair, listCalls'[d].step = "commit"
         PROVE  /\ listCalls[d].step = "commit" /\ listCalls'[d].mine = listCalls[d].mine
                /\ \A r \in listCalls[d].mine : r.save \in Nat /\ r.save <= saved
                /\ rows \cap listCalls[d].mine = {}
    <3>1. listCalls[d].step = "commit" /\ listCalls'[d].mine = listCalls[d].mine
      BY <1>4, <2>10
    <3>2. listCalls[d].mine \subseteq Pins!PinRow
      BY <1>1, <3>1, PinsCall DEF PinsSaving, listCalls
    <3>3. \A r \in listCalls[d].mine : r.save \in Nat
      BY <3>2 DEF Pins!PinRow, Pins!Saves
    <3>4. \A r \in listCalls[d].mine : r.save <= saved
      BY <3>1 DEF PinsInv
    <3>5. rows \cap listCalls[d].mine = {}
      BY <2>3, <2>5, <3>3, <3>4
    <3>6. QED
      BY <3>1, <3>3, <3>4, <3>5
  <2>11. \A d \in Pair : listCalls'[d].step = "commit" => \A r \in listCalls'[d].mine : r.save <= saved'
    BY <1>6, <2>3, <2>10
  <2>12. \A r \in pinned' : r.save <= saved'
    BY <1>6, <2>3, <2>4, <2>5, <2>9
  <2>13. ASSUME ~unpinned'
         PROVE  /\ \A r, q \in pinned' : r.save = q.save
                /\ pinned' # {} => \E r \in pinned' : r.position = 0
                /\ \A d \in Pair : listCalls'[d].step = "commit" =>
                     \/ pinned' \subseteq listCalls'[d].mine
                     \/ pinned' \cap listCalls'[d].mine = {}
    <3>0. ~unpinned
      BY <1>2, <2>13, Zenon
    <3>1. pinned \subseteq listCalls[c].mine \/ pinned \cap listCalls[c].mine = {}
      BY <1>2, <3>0 DEF PinsInv
    <3>2. kept = {} \/ kept = pinned
      BY <3>1
    <3>3. kept = pinned /\ pinned # {} => rows = {}
      <4>1. ASSUME kept = pinned, pinned # {} PROVE rows = {}
        <5>1. PICK r \in pinned : r.position = 0
          BY <3>0, <4>1 DEF PinsInv
        <5>2. ~(0 < Len(list))
          BY <2>9, <4>1, <5>1
        <5>3. QED
          BY <2>7, <2>8, <5>2
      <4>2. QED
        BY <4>1
    <3> HIDE DEF kept
    <3>4. CASE pinned' = rows
      BY <2>5, <2>6, <2>10, <3>4
    <3>5. CASE pinned' = pinned
      <4>1. \A r, q \in pinned' : r.save = q.save
        BY <3>0, <3>5 DEF PinsInv
      <4>2. pinned' # {} => \E r \in pinned' : r.position = 0
        BY <3>0, <3>5 DEF PinsInv
      <4>3. \A d \in Pair : listCalls'[d].step = "commit" =>
                     \/ pinned' \subseteq listCalls'[d].mine
                     \/ pinned' \cap listCalls'[d].mine = {}
        BY <1>4, <3>0, <3>5 DEF PinsInv
      <4>4. QED
        BY <4>1, <4>2, <4>3
    <3>6. pinned' = rows \/ pinned' = pinned
      BY <2>9, <3>2, <3>3
    <3>7. QED
      BY <3>4, <3>5, <3>6
  <2>14. QED
    BY <2>11, <2>12, <2>13 DEF PinsInv
<1>7. QED
  <2>1. \/ pinned' = pinned /\ saved' = saved
        \/ /\ saved' = saved + 1 /\ pinned' = kept \cup rows
           /\ \A r \in kept : ~(r.position < Len(list))
    BY DEF Pins!CommitPins, pinned, saved, listCalls
  <2>2. QED
    BY <1>5, <1>6, <2>1

LEMMA PinsNext == ASSUME CatalogueAssumption, PinsInv, Pins!Next PROVE PinsInv'
<1>1. PinsTyped /\ PinsTyped' /\ s5 = "pins"
  <2>1. PinsTyped
    BY DEF PinsInv
  <2>2. QED
    BY <2>1, PinsTypedNext DEF PinsTyped, Pins!TypeOK
<1>c. listCalls = [d \in Pair |-> listCalls[d]]
  BY <1>1 DEF PinsTyped, Pins!TypeOK, listCalls
<1>2. ASSUME NEW c \in Pair, Pins!AdmitPins(c) \/ Pins!CheckOwned(c) PROVE PinsInv'
  <2>1. /\ saved' = saved /\ pinned' = pinned /\ unpinned' = unpinned
    BY <1>2 DEF Pins!AdmitPins, Pins!CheckOwned, listCalls, saved, pinned, unpinned
  <2>3. PICK m : m.step # "commit" /\ listCalls' = [listCalls EXCEPT ![c] = m]
    <3>1. CASE listCalls' = [listCalls EXCEPT ![c] = Pins!Idle]
      BY <3>1 DEF Pins!Idle
    <3>2. CASE listCalls[c].step = "owned" /\ listCalls' = [listCalls EXCEPT ![c].step = "snapshot"]
      <4>1. PICK m : m = [listCalls[c] EXCEPT !.step = "snapshot"]
        OBVIOUS
      <4>2. listCalls[c] \in PinsSaving(s5)
        BY <1>1, <3>2, PinsCall DEF listCalls
      <4>3. m.step = "snapshot"
        BY <4>1, <4>2 DEF PinsSaving
      <4>4. QED
        BY <3>2, <4>1, <4>3
    <3>3. CASE \E list : listCalls' = [listCalls EXCEPT ![c] = [step |-> "owned", list |-> list,
                                          mine |-> {}, cadence |-> "none"]]
      <4>1. PICK list : listCalls' = [listCalls EXCEPT ![c] = [step |-> "owned", list |-> list,
                                          mine |-> {}, cadence |-> "none"]]
        BY <3>3
      <4>2. QED
        BY <4>1
    <3>4. QED
      BY <1>2, <3>1, <3>2, <3>3 DEF Pins!AdmitPins, Pins!CheckOwned, Pins!Go, Pins!End, listCalls
  <2>4. \A d \in Pair : listCalls'[d] = IF d = c THEN m ELSE listCalls[d]
    BY <1>c, <2>3
  <2>5. \A d \in Pair : listCalls'[d].step = "commit" =>
           listCalls[d].step = "commit" /\ listCalls'[d].mine = listCalls[d].mine
    BY <2>3, <2>4
  <2>6. QED
    BY <1>1, <2>1, <2>5, SamePins
<1>3. ASSUME NEW c \in Pair, Pins!Snapshot(c) PROVE PinsInv'
  <2>1. /\ listCalls[c].step = "snapshot"
        /\ listCalls' = [listCalls EXCEPT ![c].step = "commit", ![c].mine = pinned]
        /\ saved' = saved /\ pinned' = pinned /\ unpinned' = unpinned
    BY <1>1, <1>3 DEF Pins!Snapshot, listCalls, saved, pinned, unpinned
  <2>2. listCalls[c] \in PinsSaving(s5)
    BY <1>1, <2>1, PinsCall DEF listCalls
  <2>3. PICK m : m = [listCalls[c] EXCEPT !.step = "commit", !.mine = pinned]
    OBVIOUS
  <2>4. m.mine = pinned
    BY <2>2, <2>3 DEF PinsSaving
  <2>5. \A d \in Pair : listCalls'[d] = IF d = c THEN m ELSE listCalls[d]
    BY <1>c, <2>1, <2>3
  <2>6. \A d \in Pair : listCalls'[d].step = "commit" =>
           \/ listCalls[d].step = "commit" /\ listCalls'[d].mine = listCalls[d].mine
           \/ pinned' = pinned /\ listCalls'[d].mine = pinned
    BY <2>1, <2>4, <2>5
  <2>7. QED
    BY <1>1, <2>1, <2>6, SamePins
<1>4. ASSUME NEW p \in Couple, Pins!RemoveProduct(p) PROVE PinsInv'
  <2>1. /\ listCalls' = listCalls /\ saved' = saved
        /\ pinned' = {r \in pinned : r.product # p}
        /\ unpinned' = (unpinned \/ pinned' # pinned)
    BY <1>4 DEF Pins!RemoveProduct, listCalls, saved, pinned, unpinned
  <2>2. (pinned' = pinned /\ unpinned' = unpinned) \/ (pinned' \subseteq pinned /\ unpinned')
    <3>1. pinned' \subseteq pinned
      BY <2>1
    <3>2. CASE pinned' # pinned
      <4>1. unpinned'
        BY <2>1, <3>2, Zenon
      <4>2. QED
        BY <3>1, <4>1
    <3>3. CASE pinned' = pinned
      <4>1. unpinned \in BOOLEAN
        BY <1>1 DEF PinsTyped, Pins!TypeOK, unpinned
      <4>2. unpinned' = unpinned
        BY <2>1, <3>3, <4>1, Zenon
      <4>3. QED
        BY <3>3, <4>2
    <3>4. QED
      BY <3>2, <3>3
  <2>3. QED
    BY <1>1, <2>1, <2>2, SamePins
<1>5. CASE \E c \in Pair : Pins!AdmitSlots(c) \/ Pins!CommitSlots(c)
  BY <1>1, <1>5 DEF Pins!AdmitSlots, Pins!CommitSlots
<1>6. CASE listCalls' = listCalls /\ saved' = saved /\ pinned' = pinned /\ unpinned' = unpinned
  BY <1>1, <1>6, SamePins
<1>7. CASE Pins!PassStarts \/ Pins!FindSlots \/ Pins!BumpSlots \/ Pins!BumpBoosted
  BY <1>6, <1>7 DEF Pins!PassStarts, Pins!FindSlots, Pins!BumpSlots, Pins!BumpBoosted,
     listCalls, saved, pinned, unpinned
<1>8. CASE \/ \E p \in Couple : Pins!HideOrShow(p) \/ Pins!BumpProduct(p)
           \/ Pins!ChangePlan \/ Pins!Tick
  BY <1>6, <1>8 DEF Pins!HideOrShow, Pins!BumpProduct, Pins!ChangePlan, Pins!Tick,
     listCalls, saved, pinned, unpinned
<1>9. ASSUME NEW c \in Pair, Pins!CommitPins(c) PROVE PinsInv'
  BY <1>1, <1>9, CommitPinsInv
<1>10. QED
  BY <1>2, <1>3, <1>4, <1>5, <1>7, <1>8, <1>9, Zenon DEF Pins!Next

-----------------------------------------------------------------------------
(***************************************************************************)
(* The catalogue: whichever part a behaviour is about.                     *)
(***************************************************************************)
IInv ==
  /\ part = "media" => MediaInv /\ ImagesInv /\ MediaTyped
  /\ part = "pins" => PinsInv
  /\ part = "pool" => SlotsInv
  /\ part = "job" => JobInv /\ JobTyped
  /\ part = "promo" => PromoInv /\ PromoTyped
  /\ part = "carousel" => TurnsInv /\ FairInv
  /\ part = "showcase" => FrontInv
  /\ part = "feed" => FeedInv
  /\ part = "sections" => SectionsInv
  /\ part = "search" => FinderInv
  /\ part = "prices" => PriceInv /\ PriceTyped

LEMMA InitIInv == ASSUME CatalogueAssumption, Init PROVE IInv
  BY MediaInit, ImagesInit, MediaTypedInit, PinsInit, SlotsInit, JobInit, JobTypedInit,
     PromoInit, PromoTypedInit, TurnsInit, FairInit, FrontInit, FeedInit, SectionsInit,
     FinderInit, PriceInit, PriceTypedInit DEF Init, IInv

\* The invariants are about the variables.
LEMMA SameInvs ==
  ASSUME UNCHANGED vars
  PROVE  /\ MediaInv => MediaInv'
         /\ ImagesInv => ImagesInv'
         /\ MediaTyped => MediaTyped'
         /\ PinsInv => PinsInv'
         /\ SlotsInv => SlotsInv'
         /\ JobInv => JobInv'
         /\ JobTyped => JobTyped'
         /\ PromoInv => PromoInv'
         /\ PromoTyped => PromoTyped'
         /\ TurnsInv => TurnsInv'
         /\ FairInv => FairInv'
         /\ FrontInv => FrontInv'
         /\ FeedInv => FeedInv'
         /\ SectionsInv => SectionsInv'
         /\ FinderInv => FinderInv'
         /\ PriceInv => PriceInv'
         /\ PriceTyped => PriceTyped'
<1>1. MediaInv => MediaInv'
  BY DEF vars, MediaInv, MediaShape, RowsInv, CallsInv, PairsInv, MediaCall, ListingCall,
     ProfileCall, Overlap, IsShown, Spared, Young, clock, uploaded, stored, used, member,
     listing, images, avatar, calls, sweep, torn
<1>2. ImagesInv => ImagesInv'
  BY DEF vars, ImagesInv, ImageRows, Writing, images, calls
<1>3. PinsInv => PinsInv'
  BY DEF vars, PinsInv, PinsTyped, Pins!TypeOK, listCalls, listTopic, pinned, unpinned, saved
<1>4. SlotsInv => SlotsInv'
  BY DEF vars, SlotsInv, PoolTyped, Pool!TypeOK, SeenBy, Room, Late, Committing,
     listCalls, listTopic, pooled, saved
<1>5. JobInv => JobInv'
  BY DEF vars, JobInv, JobShape, jobNow, jobProducts, jobPass, jobSlotBump
<1>6. PromoInv => PromoInv'
  BY DEF vars, PromoInv, Backed, CurrentSince, promoNow, promoRow, promoPast, promoCache,
     promoLookup
<1>7. TurnsInv => TurnsInv'
  BY DEF vars, TurnsInv, turnRows
<1>8. FairInv => FairInv'
  BY DEF vars, FairInv, Fair, Turns!TypeOK, turnRows, stock, settledDays, passes
<1>9. FrontInv => FrontInv'
  BY DEF vars, FrontInv, Front!TypeOK, reading, paidLately
<1>10. FeedInv => FeedInv'
  BY DEF vars, FeedInv, onOffer, homeRows, opened, screen, wasOnShow
<1>11. SectionsInv => SectionsInv'
  BY DEF vars, SectionsInv, Sections!Made, Sections!Pending, Automatic, Inserting, Suggesting,
     homeSections, suggestions, adminCalls
<1>12. PriceInv => PriceInv'
  BY DEF vars, PriceInv, PriceCall, priceRow, priceCalls, Prices!ToldIffCheaper
<1>13. MediaTyped => MediaTyped'
  BY DEF vars, MediaTyped, ForProfile, clock, uploaded, used, docs, listing, torn, sweep,
     avatar, calls
<1>14. JobTyped => JobTyped'
  BY DEF vars, JobTyped, Job!TypeOK, listCalls, listTopic, saved
<1>15. PromoTyped => PromoTyped'
  BY DEF vars, PromoTyped, promoNow, promoRow, promoWrites, promoPast, promoCache, promoLookup,
     promoUpdate
<1>16. FinderInv => FinderInv'
  <2>1. /\ offers' = offers /\ sorting' = sorting /\ worded' = worded
        /\ leafed' = leafed /\ skipped' = skipped
    BY DEF vars, offers, sorting, worded, leafed, skipped
  <2>2. \A p, n :
                 /\ FinderTyped => FinderTyped'
                 /\ Candidates(p) => Candidates(p)'
                 /\ InOrder(p) => InOrder(p)'
                 /\ Total' => Total
                 /\ ShowsPlaces(p, n) => ShowsPlaces(p, n)'
    BY <2>1, SameSearch
  <2>3. QED
    BY <2>1, <2>2 DEF FinderInv
<1>17. PriceTyped => PriceTyped'
  BY DEF vars, PriceTyped, priceRow, priceReduced, priceCalls, priceEnded
<1>18. QED
  BY <1>1, <1>2, <1>3, <1>4, <1>5, <1>6, <1>7, <1>8, <1>9, <1>10, <1>11, <1>12, <1>13, <1>14,
     <1>15, <1>16, <1>17

LEMMA NextIInv == ASSUME CatalogueAssumption, IInv, [Next]_vars PROVE IInv'
<1>1. CASE UNCHANGED vars
  <2>1. part' = part
    BY <1>1 DEF vars
  <2>2. QED
    BY <1>1, <2>1, SameInvs DEF IInv
<1>2. CASE ~UNCHANGED vars
  BY <1>2, PartSteps, MediaNext, ImagesNext, MediaTypedNext, PinsNext, SlotsNext, JobNext,
     JobTypedNext, PromoNext, PromoTypedNext, TurnsNext, FairNext, FrontNext, FeedNext,
     SectionsNext, FinderNext, PriceNext, PriceTypedNext DEF IInv
<1>3. QED
  BY <1>1, <1>2

\* Every part keeps its inductive invariant, because a step of the catalogue is
\* one step of the part at work.
THEOREM Invariance == Spec => []IInv
<1>1. Init => IInv
  BY InitIInv, CatalogueAssumption
<1>2. IInv /\ [Next]_vars => IInv'
  BY NextIInv, CatalogueAssumption
<1>3. QED
  BY <1>1, <1>2, PTL DEF Spec

\* Every part is what its types say.
THEOREM Typing == Spec => []TypeOK
<1>1. ASSUME IInv PROVE TypeOK
  <2>1. part = "media" => Media!TypeOK
    BY <1>1, MediaTypes, CatalogueAssumption DEF IInv
  <2>2. /\ part = "pins" => Pins!TypeOK
        /\ part = "pool" => Pool!TypeOK
        /\ part = "job" => Job!TypeOK
    BY <1>1 DEF IInv, PinsInv, PinsTyped, SlotsInv, PoolTyped, JobTyped
  <2>3. /\ part = "promo" => Promo!TypeOK
        /\ part = "prices" => Prices!TypeOK
    BY <1>1, PromoTypes, PriceTypes DEF IInv
  <2>4. /\ part = "carousel" => Turns!TypeOK
        /\ part = "showcase" => Front!TypeOK
    BY <1>1 DEF IInv, FairInv, FrontInv
  <2>5. /\ part = "feed" => Feed!TypeOK
        /\ part = "sections" => Sections!TypeOK
        /\ part = "search" => Finder!TypeOK
    BY <1>1, FeedMeans, SectionsTyped, FinderMeans, CatalogueAssumption DEF IInv
  <2>6. QED
    BY <2>1, <2>2, <2>3, <2>4, <2>5 DEF TypeOK
<1>2. QED
  BY Invariance, <1>1, PTL

\* However handlers and the nightly sweep interleave, and whatever fails, a
\* row of the listing or the profile whose handlers did not overlap has its
\* file.
THEOREM RowsHaveFilesThm == Spec => []RowsHaveFiles
<1>1. IInv => RowsHaveFiles
  BY MediaMeans DEF IInv, RowsHaveFiles
<1>2. QED
  BY Invariance, <1>1, PTL

\* Every handler that runs at once adds at most what a plan allows: to the
\* images of a listing and to the pool of a seller; and the pins of a
\* profile are of one save.
THEOREM ListsBoundedThm == Spec => []ListsBounded
<1>1. IInv => ListsBounded
  BY ImagesMean, SlotsMean, PinsMean, CatalogueAssumption DEF IInv, ListsBounded
<1>2. QED
  BY Invariance, <1>1, PTL

\* What a process says of the promo was true a cache lifetime ago at most.
THEOREM AnswerThm == Spec => []AnswerWasTrueLately
<1>1. IInv => AnswerWasTrueLately
  BY PromoMeans, CatalogueAssumption DEF IInv, AnswerWasTrueLately
<1>2. QED
  BY Invariance, <1>1, PTL

\* Once the stock has stayed the same for a window, whoever is in it was
\* picked within the window or there was no room; and the carousel that is
\* read shows sellers who pay, in turns, unless some of it went meanwhile.
THEOREM FrontPageThm == Spec => []FrontPageFair
<1>1. IInv => FrontPageFair
  BY FairMeans, FrontMeans, CatalogueAssumption DEF IInv, FrontPageFair
<1>2. QED
  BY Invariance, <1>1, PTL

\* Titles and places are taken twice by calls that overlap only, and a home
\* screen is what its rows ask for, of what was on show.
THEOREM SectionsThm == Spec => []SectionsSound
<1>1. IInv => SectionsSound
  BY SectionsMean, FeedMeans, CatalogueAssumption DEF IInv, SectionsSound
<1>2. QED
  BY Invariance, <1>1, PTL

\* A page keeps to the order that was asked for, boosted listings first, and
\* holds nothing twice; leafing through a search without text, in an order
\* without ties, shows every match once, whatever the sizes.
THEOREM SearchThm == Spec => []SearchSound
<1>1. IInv => SearchSound
  BY FinderMeans, CatalogueAssumption DEF IInv, SearchSound
<1>2. QED
  BY Invariance, <1>1, PTL

\* A drop is announced exactly if the buyer pays less, whatever the prices
\* and discounts, to the hundredth.
THEOREM ToldThm == Spec => []ToldIffCheaper
<1>1. IInv => ToldIffCheaper
  BY DEF IInv, PriceInv, ToldIffCheaper
<1>2. QED
  BY Invariance, <1>1, PTL

\* No listing is moved up by the job twice in a period of its slot, and the
\* row of a day is written once.
THEOREM PaceThm == Spec => JobsKeepPace
<1>1. ASSUME IInv, [Next]_vars
      PROVE  [/\ part = "job" => Job!PaceStep
              /\ part = "carousel" => Turns!PickStep]_vars
  BY <1>1, PartSteps, JobNext, TurnsNext, CatalogueAssumption DEF IInv
<1>2. IInv /\ [Next]_vars => [/\ part = "job" => Job!PaceStep
                              /\ part = "carousel" => Turns!PickStep]_vars
  BY <1>1
<1>3. QED
  BY Invariance, <1>2, PTL DEF Spec, JobsKeepPace
=============================================================================
