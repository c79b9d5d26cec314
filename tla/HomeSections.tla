---------------------------- MODULE HomeSections ----------------------------
(***************************************************************************)
(* The sections of the home screen and the suggestions they are made from. *)
(* Several admins and the analyzer work at once; each reads what it        *)
(* decides on in calls of its own.                                         *)
(* Source: home-sections.service.ts, stats-analyzer.service.ts.            *)
(*                                                                         *)
(* What the analyzer finds worth suggesting is open.  Events, previews and *)
(* the notification of a new section (see Notifications) are left out.     *)
(***************************************************************************)
EXTENDS Integers, FiniteSets

CONSTANTS
  Calls,           \* how many calls run at once at most
  Titles,          \* what a section can be about
  Ids,             \* ids of sections; an id may be used again
  MaxSuggestions   \* bound on the suggestions of one title

SectionsAssumption == IsFiniteSet(Calls) /\ IsFiniteSet(Ids) /\ MaxSuggestions \in Nat

VARIABLES
  sections,     \* home_sections by id; auto says nobody placed it by hand
  suggestions,  \* home_suggestions: how many there are of each title and status
  calls

vars == <<sections, suggestions, calls>>

-----------------------------------------------------------------------------
Places == 0..Cardinality(Ids)
Idle == [step |-> "idle"]
Gone == [title |-> "none", place |-> 0, auto |-> FALSE]
Status == {"pending", "accepted", "dismissed"}

TypeOK ==
  /\ sections \in [Ids -> {Gone} \cup [title : Titles, place : Places, auto : BOOLEAN]]
  /\ suggestions \in [Titles -> [Status -> 0..MaxSuggestions]]
  /\ calls \in [Calls -> {Idle} \cup [step : {"last"}, title : Titles]
                  \cup [step : {"insert"}, title : Titles, place : Places]
                  \cup [step : {"titles", "suggest"}, fresh : SUBSET Titles]]

Init ==
  /\ sections = [i \in Ids |-> Gone]
  /\ suggestions = [t \in Titles |-> [s \in Status |-> 0]]
  /\ calls = [c \in Calls |-> Idle]

Live == {i \in Ids : sections[i] # Gone}
Pending(t) == suggestions[t]["pending"]
Made(t) == Pending(t) + suggestions[t]["accepted"] + suggestions[t]["dismissed"]
Put(c, call) == calls' = [calls EXCEPT ![c] = call]

-----------------------------------------------------------------------------
(***************************************************************************)
(* create and acceptSuggestion: the last place, then the row after it.     *)
(* The status of an accepted suggestion is not looked at.                  *)
(***************************************************************************)
StartCreate(c, t) ==
  /\ calls[c] = Idle
  /\ Put(c, [step |-> "last", title |-> t])
  /\ UNCHANGED <<sections, suggestions>>

Becomes(t, from, to) ==
  /\ suggestions[t][from] > 0
  /\ suggestions' = [suggestions EXCEPT ![t] = [s \in Status |->
       suggestions[t][s] + (IF s = to THEN 1 ELSE 0) - (IF s = from THEN 1 ELSE 0)]]

Accept(c, t, from) ==
  /\ calls[c] = Idle
  /\ Becomes(t, from, "accepted")
  /\ Put(c, [step |-> "last", title |-> t])
  /\ UNCHANGED sections

NextPlace ==
  IF Live = {} THEN 1
  ELSE 1 + CHOOSE n \in Places : /\ \E i \in Live : sections[i].place = n
                                 /\ \A i \in Live : sections[i].place <= n

FindLast(c) ==
  /\ calls[c].step = "last"
  /\ NextPlace \in Places
  /\ Put(c, [step |-> "insert", title |-> calls[c].title, place |-> NextPlace])
  /\ UNCHANGED <<sections, suggestions>>

Insert(c, i) ==
  /\ calls[c].step = "insert"
  /\ i \notin Live
  /\ sections' = [sections EXCEPT ![i] =
       [title |-> calls[c].title, place |-> calls[c].place, auto |-> TRUE]]
  /\ Put(c, Idle)
  /\ UNCHANGED suggestions

\* A place given with the input, at creation or later, is taken as it is.
CreateAt(i, t, place) ==
  /\ i \notin Live
  /\ place > 0
  /\ sections' = [sections EXCEPT ![i] = [title |-> t, place |-> place, auto |-> FALSE]]
  /\ UNCHANGED <<suggestions, calls>>

Update(i, t, place) ==
  /\ i \in Live
  /\ \/ sections' = [sections EXCEPT ![i].title = t]
     \/ sections' = [sections EXCEPT ![i].title = t, ![i].place = place, ![i].auto = FALSE]
  /\ UNCHANGED <<suggestions, calls>>

Delete(i) ==
  /\ i \in Live
  /\ sections' = [sections EXCEPT ![i] = Gone]
  /\ UNCHANGED <<suggestions, calls>>

\* reorder: one transaction over the ids of the list, here all of them.
Reorder(rank) ==
  /\ {rank[i] : i \in Live} = 0..(Cardinality(Live) - 1)
  /\ sections' = [i \in Ids |->
       IF i \in Live THEN [sections[i] EXCEPT !.place = rank[i], !.auto = FALSE] ELSE Gone]
  /\ UNCHANGED <<suggestions, calls>>

Dismiss(t, from) ==
  /\ Becomes(t, from, "dismissed")
  /\ UNCHANGED <<sections, calls>>

-----------------------------------------------------------------------------
(***************************************************************************)
(* generateSuggestions: the candidates, the pending suggestions, the       *)
(* sections, and one insert of what is in neither.                         *)
(***************************************************************************)
Detect(c, found) ==
  /\ calls[c] = Idle
  /\ Put(c, [step |-> "titles", fresh |-> {t \in found : Pending(t) = 0}])
  /\ UNCHANGED <<sections, suggestions>>

ReadTitles(c) ==
  LET fresh == calls[c].fresh \ {sections[i].title : i \in Live}
  IN  /\ calls[c].step = "titles"
      /\ IF fresh = {} THEN Put(c, Idle)
         ELSE Put(c, [step |-> "suggest", fresh |-> fresh])
      /\ UNCHANGED <<sections, suggestions>>

Suggest(c) ==
  /\ calls[c].step = "suggest"
  /\ \A t \in calls[c].fresh : Made(t) < MaxSuggestions
  /\ suggestions' = [t \in Titles |->
       IF t \in calls[c].fresh THEN [suggestions[t] EXCEPT !["pending"] = @ + 1]
       ELSE suggestions[t]]
  /\ Put(c, Idle)
  /\ UNCHANGED sections

Fail(c) ==
  /\ calls[c] # Idle
  /\ Put(c, Idle)
  /\ UNCHANGED <<sections, suggestions>>

Next ==
  \/ \E c \in Calls :
       \/ FindLast(c) \/ ReadTitles(c) \/ Suggest(c) \/ Fail(c)
       \/ \E t \in Titles : StartCreate(c, t)
       \/ \E t \in Titles, from \in Status : Accept(c, t, from)
       \/ \E i \in Ids : Insert(c, i)
       \/ \E found \in SUBSET Titles : Detect(c, found)
  \/ \E i \in Ids : \/ Delete(i)
                    \/ \E t \in Titles, n \in Places : CreateAt(i, t, n) \/ Update(i, t, n)
  \/ \E rank \in [Ids -> 0..(Cardinality(Ids) - 1)] : Reorder(rank)
  \/ \E t \in Titles, from \in Status : Dismiss(t, from)

Spec == Init /\ [][Next]_vars

-----------------------------------------------------------------------------
\* A title waits for review once, or once per analyzer run that had looked
\* before the first of them wrote, however often the analyzer runs and
\* whatever the admins accept or dismiss meanwhile (generateSuggestions).
WaitingBounded ==
  \A t \in Titles :
    Pending(t)
      + Cardinality({c \in Calls : calls[c].step \in {"titles", "suggest"} /\ t \in calls[c].fresh})
      <= Cardinality(Calls)

\* Two sections that nobody placed by hand share a place only if their calls
\* read the last place at once (create, acceptSuggestion).
PlacesShared ==
  \A n \in Places :
    Cardinality({i \in Live : sections[i].auto /\ sections[i].place = n})
      <= Cardinality(Calls)

=============================================================================
