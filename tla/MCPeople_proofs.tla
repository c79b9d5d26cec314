------------------------- MODULE MCPeople_proofs -------------------------
(***************************************************************************)
(* Properties of what users do and get, for every value of the constants.  *)
(* Each part has an inductive invariant of its own; a step is one of the   *)
(* part's, or leaves its variables alone.                                  *)
(***************************************************************************)
EXTENDS MCPeople, FiniteSetTheorems, WellFoundedInduction, TLAPS

\* A behaviour stays in its part.
LEMMA PartSteps ==
  ASSUME [Next]_vars
  PROVE  /\ part' = part
         /\ \/ UNCHANGED vars
            \/ /\ part = "codes" => Codes!Next
               /\ part = "cases" => Cases!Next
               /\ part = "reports" => Complaints!Next
               /\ part = "signIn" => Sessions!Next
               /\ part = "favorites" => Hearts!Next
               /\ part = "visits" => Views!Next
               /\ part = "reviews" => Ratings!Next
               /\ part = "export" => Download!Next
               /\ part = "notices" => Notices!Next
               /\ part = "campaigns" => Letters!Next
               /\ part = "followers" => Announce!Next
  BY DEF Next, vars, CodesStep, CasesStep, ComplaintsStep, SessionsStep, HeartsStep,
     ViewsStep, RatingsStep, DownloadStep, NoticesStep, LettersStep, AnnounceStep

-----------------------------------------------------------------------------
(***************************************************************************)
(* Sets of calls and of numbers.                                           *)
(***************************************************************************)
\* A counter that goes up is still a counter.
LEMMA OneMore ==
  ASSUME NEW S, NEW f \in [S -> Nat], NEW i
  PROVE  [f EXCEPT ![i] = @ + 1] \in [S -> Nat]
<1>1. \A n \in Nat : n + 1 \in Nat
  OBVIOUS
<1>2. f[i] + 1 \in Nat \/ i \notin S
  BY <1>1
<1>3. QED
  BY <1>2

\* What taking an element out or putting one in does to a set of calls.
LEMMA Counts ==
  ASSUME NEW C, IsFiniteSet(C), NEW S \in SUBSET C
  PROVE  /\ IsFiniteSet(S) /\ Cardinality(C) \in Nat /\ Cardinality(S) \in Nat
         /\ Cardinality(S) <= Cardinality(C)
         /\ S # C => Cardinality(S) < Cardinality(C)
         /\ \A T \in SUBSET S : Cardinality(T) <= Cardinality(S)
         /\ \A x \in S : Cardinality(S \ {x}) = Cardinality(S) - 1
         /\ \A x \in C \ S : Cardinality(S \cup {x}) = Cardinality(S) + 1
<1>1. IsFiniteSet(S) /\ Cardinality(C) \in Nat /\ Cardinality(S) \in Nat
  BY FS_Subset, FS_CardinalityType
<1>2. /\ Cardinality(S) <= Cardinality(C)
      /\ S # C => Cardinality(S) < Cardinality(C)
  BY <1>1, FS_Subset
<1>3. \A T \in SUBSET S : Cardinality(T) <= Cardinality(S)
  BY <1>1, FS_Subset
<1>4. \A x \in S : Cardinality(S \ {x}) = Cardinality(S) - 1
  BY <1>1, FS_RemoveElement
<1>5. \A x \in C \ S : Cardinality(S \cup {x}) = Cardinality(S) + 1
  BY <1>1, FS_AddElement
<1>6. QED
  BY <1>1, <1>2, <1>3, <1>4, <1>5

\* What is known when one element comes or goes.
LEMMA OneMoves ==
  ASSUME NEW C, IsFiniteSet(C), NEW A \in SUBSET C, NEW B \in SUBSET C, NEW x \in C,
         \A y \in C \ {x} : y \in A <=> y \in B
  PROVE  /\ Cardinality(A) \in Nat /\ Cardinality(B) \in Nat
         /\ x \in A /\ x \in B => Cardinality(B) = Cardinality(A)
         /\ x \notin A /\ x \notin B => Cardinality(B) = Cardinality(A)
         /\ x \in A /\ x \notin B => Cardinality(B) = Cardinality(A) - 1
         /\ x \notin A /\ x \in B => Cardinality(B) = Cardinality(A) + 1
<1>1. Cardinality(A) \in Nat /\ Cardinality(B) \in Nat
  BY Counts
<1>2. CASE (x \in A) <=> (x \in B)
  BY <1>1, <1>2
<1>3. CASE x \in A /\ x \notin B
  BY <1>1, <1>3, Counts
<1>4. CASE x \notin A /\ x \in B
  BY <1>1, <1>4, Counts
<1>5. QED
  BY <1>2, <1>3, <1>4

\* Sets without a common element.
LEMMA Apart ==
  ASSUME NEW S, NEW T, IsFiniteSet(S), IsFiniteSet(T), S \cap T = {}
  PROVE  IsFiniteSet(S \cup T) /\ Cardinality(S \cup T) = Cardinality(S) + Cardinality(T)
<1>1. /\ IsFiniteSet(S \cup T)
      /\ Cardinality(S \cup T) = Cardinality(S) + Cardinality(T) - Cardinality(S \cap T)
  BY FS_Union
<1>2. Cardinality(S) \in Nat /\ Cardinality(T) \in Nat /\ Cardinality(S \cap T) = 0
  BY FS_CardinalityType, FS_EmptySet
<1>3. QED
  BY <1>1, <1>2

\* A set of numbers has a least one ...
LEMMA Least ==
  ASSUME NEW S \in SUBSET Nat, S # {}
  PROVE  \E m \in S : \A x \in S : m <= x
<1>1. \A m \in S : 0..m \in FiniteSubsetsOf(Nat)
  BY FS_Interval DEF FiniteSubsetsOf
<1>2. {0..m : m \in S} \subseteq FiniteSubsetsOf(Nat) /\ {0..m : m \in S} # {}
  BY <1>1, Zenon
<1>3. \E U \in {0..m : m \in S} : \A V \in {0..m : m \in S} :
        ~(<<V, U>> \in StrictSubsetOrdering(Nat))
  BY <1>2, FS_StrictSubsetOrderingWellFounded, WFMin
<1>4. PICK m \in S : \A x \in S : ~(<<0..x, 0..m>> \in StrictSubsetOrdering(Nat))
  BY <1>3
<1>5. ASSUME NEW x \in S, x < m PROVE FALSE
  <2>1. 0..x \subseteq 0..m /\ m \in 0..m /\ m \notin 0..x
    BY <1>5
  <2>2. <<0..x, 0..m>> \in StrictSubsetOrdering(Nat)
    BY <2>1 DEF StrictSubsetOrdering
  <2>3. QED
    BY <1>4, <2>2
<1>6. QED
  BY <1>5

\* ... and if it is bounded a greatest.
LEMMA Greatest ==
  ASSUME NEW h \in Int, NEW S \in SUBSET Int, S # {}, \A x \in S : x <= h
  PROVE  \E m \in S : \A x \in S : x <= m
<1>1. PICK s \in S : s <= h
  OBVIOUS
<1>2. h - s \in {n \in Nat : h - n \in S}
  BY <1>1
<1>3. PICK k \in Nat : h - k \in S /\ \A y \in {n \in Nat : h - n \in S} : k <= y
  BY <1>2, Least
<1>4. ASSUME NEW x \in S PROVE x <= h - k
  BY <1>3
<1>5. QED
  BY <1>3, <1>4

\* Days and weeks.
LEMMA DivMod ==
  ASSUME NEW t \in Int, NEW w \in Int, w > 0
  PROVE  w * (t \div w) + (t % w) = t /\ t % w \in 0..w-1 /\ t \div w \in Int
<1>1. w * (t \div w) + (t % w) = t
  OBVIOUS
<1>2. t % w \in 0..w-1 /\ t \div w \in Int
  OBVIOUS
<1>3. QED
  BY <1>1, <1>2

LEMMA Later ==
  ASSUME NEW w \in Nat \ {0}, NEW a \in Int, NEW b \in Int, a < b
  PROVE  w * a + w <= w * b
<1>1. PICK d \in Nat : b = a + 1 + d
  OBVIOUS
<1>2. w * (a + 1 + d) = w * a + w + w * d
  OBVIOUS
<1>3. w * d \in Nat /\ w * a \in Int
  OBVIOUS
<1>4. QED
  BY <1>1, <1>2, <1>3

LEMMA DaysOrdered ==
  ASSUME NEW w \in Nat \ {0}, NEW a \in Nat, NEW b \in Nat, a <= b
  PROVE  a \div w <= b \div w
<1>1. PICK p \in Int, q \in Int : p = a \div w /\ q = b \div w
  OBVIOUS
<1>2. w * p + (a % w) = a /\ a % w \in 0..w-1
  BY <1>1, DivMod
<1>3. w * q + (b % w) = b /\ b % w \in 0..w-1
  BY <1>1, DivMod
<1>4. CASE q < p
  BY <1>2, <1>3, <1>4, Later
<1>5. QED
  BY <1>1, <1>4

\* Every part counts alike.
LEMMA SameCounts ==
  ASSUME NEW S
  PROVE  /\ Complaints!IsFiniteSet(S) <=> IsFiniteSet(S)
         /\ Cases!IsFiniteSet(S) <=> IsFiniteSet(S)
         /\ Codes!IsFiniteSet(S) <=> IsFiniteSet(S)
         /\ Notices!IsFiniteSet(S) <=> IsFiniteSet(S)
         /\ Ratings!IsFiniteSet(S) <=> IsFiniteSet(S)
         /\ Hearts!IsFiniteSet(S) <=> IsFiniteSet(S)
         /\ Views!IsFiniteSet(S) <=> IsFiniteSet(S)
         /\ Complaints!Cardinality(S) = Cardinality(S)
         /\ Cases!Cardinality(S) = Cardinality(S)
         /\ Codes!Cardinality(S) = Cardinality(S)
         /\ Notices!Cardinality(S) = Cardinality(S)
         /\ Letters!Cardinality(S) = Cardinality(S)
         /\ Ratings!Cardinality(S) = Cardinality(S)
         /\ Download!Cardinality(S) = Cardinality(S)
         /\ Hearts!Cardinality(S) = Cardinality(S)
         /\ Views!Cardinality(S) = Cardinality(S)
<1>1. Complaints!IsFiniteSet(S) <=> IsFiniteSet(S)
  BY Zenon DEF Complaints!IsFiniteSet, IsFiniteSet
<1>2. Cases!IsFiniteSet(S) <=> IsFiniteSet(S)
  BY Zenon DEF Cases!IsFiniteSet, IsFiniteSet
<1>3. Codes!IsFiniteSet(S) <=> IsFiniteSet(S)
  BY Zenon DEF Codes!IsFiniteSet, IsFiniteSet
<1>4. Notices!IsFiniteSet(S) <=> IsFiniteSet(S)
  BY Zenon DEF Notices!IsFiniteSet, IsFiniteSet
<1>5. Ratings!IsFiniteSet(S) <=> IsFiniteSet(S)
  BY Zenon DEF Ratings!IsFiniteSet, IsFiniteSet
<1>6. Complaints!Cardinality(S) = Cardinality(S)
  BY Zenon DEF Complaints!Cardinality, Cardinality
<1>7. Cases!Cardinality(S) = Cardinality(S)
  BY Zenon DEF Cases!Cardinality, Cardinality
<1>8. Codes!Cardinality(S) = Cardinality(S)
  BY Zenon DEF Codes!Cardinality, Cardinality
<1>9. Notices!Cardinality(S) = Cardinality(S)
  BY Zenon DEF Notices!Cardinality, Cardinality
<1>10. Letters!Cardinality(S) = Cardinality(S)
  BY Zenon DEF Letters!Cardinality, Cardinality
<1>11. Ratings!Cardinality(S) = Cardinality(S)
  BY Zenon DEF Ratings!Cardinality, Cardinality
<1>12. Download!Cardinality(S) = Cardinality(S)
  BY Zenon DEF Download!Cardinality, Cardinality
<1>13. Hearts!IsFiniteSet(S) <=> IsFiniteSet(S)
  BY Zenon DEF Hearts!IsFiniteSet, IsFiniteSet
<1>14. Views!IsFiniteSet(S) <=> IsFiniteSet(S)
  BY Zenon DEF Views!IsFiniteSet, IsFiniteSet
<1>15. Hearts!Cardinality(S) = Cardinality(S)
  BY Zenon DEF Hearts!Cardinality, Cardinality
<1>16. Views!Cardinality(S) = Cardinality(S)
  BY Zenon DEF Views!Cardinality, Cardinality
<1>17. QED
  BY <1>1, <1>2, <1>3, <1>4, <1>5, <1>6, <1>7, <1>8, <1>9, <1>10, <1>11, <1>12, <1>13, <1>14,
     <1>15, <1>16

-----------------------------------------------------------------------------
(***************************************************************************)
(* One-time codes.                                                         *)
(***************************************************************************)
codeNow == s1
purpose == s2
codes == s3
codeCalls == s4
pinTokens == s5
storedCode == s6
guesses == s7
wins == s8

\* A call holds a code that was live when it found it, which is now, since
\* the clock stands still; a token was signed while its code was.
CodeInv ==
  /\ Codes!TypeOK
  /\ \A c \in Pair : codeCalls[c].step \in {"attempt", "redeem", "effect"} =>
       /\ codeCalls[c].code \in DOMAIN codes
       /\ codes[codeCalls[c].code].at + OTP_EXPIRY >= codeNow
  /\ \A t \in pinTokens :
       /\ t.code \in DOMAIN codes
       /\ codes[t.code].at + OTP_EXPIRY >= t.at
       /\ codeNow < t.at + TokenLife

CodeCall == {Codes!Idle}
              \cup [step : {"window", "invalidate", "create", "prune"}]
              \cup [step : {"attempt", "redeem", "effect"}, code : Codes!Ids]

LEMMA CodeFacts ==
  ASSUME PeopleAssumption, Codes!TypeOK
  PROVE  /\ {OTP_EXPIRY, MaxCodes, OtpTime, TokenLife} \subseteq Nat /\ TokenLife > 0
         /\ codeNow \in 0..OtpTime
         /\ \E n \in 0..MaxCodes : codes \in [1..n -> Codes!Row]
         /\ codeCalls \in [Pair -> CodeCall]
         /\ pinTokens \subseteq [code : Codes!Ids, at : 0..OtpTime]
         /\ storedCode \in 0..MaxCodes
         /\ guesses \in [Codes!Ids -> Nat] /\ wins \in [Codes!Ids -> Nat]
<1>1. {OTP_EXPIRY, MaxCodes, OtpTime, TokenLife} \subseteq Nat /\ TokenLife > 0
  BY DEF PeopleAssumption, Codes!OtpAssumption
<1>2. /\ codeNow \in 0..OtpTime
      /\ \E n \in 0..MaxCodes : codes \in [1..n -> Codes!Row]
      /\ codeCalls \in [Pair -> CodeCall]
  BY DEF Codes!TypeOK, CodeCall, codeNow, codes, codeCalls
<1>3. /\ pinTokens \subseteq [code : Codes!Ids, at : 0..OtpTime]
      /\ storedCode \in 0..MaxCodes
      /\ guesses \in [Codes!Ids -> Nat] /\ wins \in [Codes!Ids -> Nat]
  BY DEF Codes!TypeOK, pinTokens, storedCode, guesses, wins
<1>4. QED
  BY <1>1, <1>2, <1>3

LEMMA CodeInit == ASSUME PeopleAssumption, Codes!Init PROVE CodeInv
<1> USE DEF Codes!Init, Codes!Idle, codeNow, purpose, codes, codeCalls, pinTokens,
      storedCode, guesses, wins
<1>1. {MaxCodes, OtpTime} \subseteq Nat
  BY DEF PeopleAssumption, Codes!OtpAssumption
<1>2. codes \in [1..0 -> Codes!Row] /\ 0 \in 0..MaxCodes /\ 0 \in 0..OtpTime
  BY <1>1
<1>3. codeCalls \in [Pair -> {Codes!Idle}]
  OBVIOUS
<1>4. Codes!TypeOK
  BY <1>1, <1>2, <1>3 DEF Codes!TypeOK
<1>5. \A c \in Pair : codeCalls[c].step = "idle"
  OBVIOUS
<1>6. QED
  BY <1>4, <1>5 DEF CodeInv

\* What a code rests on stays: rows keep their time and are never forgotten.
CodesKept ==
  /\ \E n \in 0..MaxCodes : codes' \in [1..n -> Codes!Row]
  /\ \A i \in DOMAIN codes : i \in DOMAIN codes' /\ codes'[i].at = codes[i].at

LEMMA CodeRows == ASSUME PeopleAssumption, Codes!TypeOK, Codes!Next PROVE CodesKept
<1> USE DEF Codes!Row, codeNow, codes, codeCalls
<1>0. PICK n \in 0..MaxCodes : codes \in [1..n -> Codes!Row]
  BY CodeFacts
<1>1. MaxCodes \in Nat /\ OtpTime \in Nat /\ codeNow \in 0..OtpTime
      /\ codeCalls \in [Pair -> CodeCall]
  BY CodeFacts
<1>2. CASE codes' = codes
  BY <1>0, <1>2 DEF CodesKept
<1>3. CASE \E c \in Pair : Codes!Invalidate(c)
  <2>1. codes' = [i \in DOMAIN codes |-> [codes[i] EXCEPT !.used = TRUE]]
    BY <1>3 DEF Codes!Invalidate
  <2>2. codes' \in [1..n -> Codes!Row]
    BY <1>0, <2>1
  <2>3. \A i \in 1..n : codes'[i].at = codes[i].at
    BY <1>0, <2>1
  <2>4. QED
    BY <1>0, <2>2, <2>3 DEF CodesKept
<1>4. CASE \E c \in Pair : Codes!Create(c)
  <2>1. Codes!Cardinality(DOMAIN codes) = n
    BY <1>0, <1>1, FS_Interval, SameCounts
  <2> DEFINE new == [at |-> codeNow, attempts |-> 0, used |-> FALSE, kept |-> TRUE]
  <2>2. /\ n + 1 \in Codes!Ids
        /\ codes' = [k \in 1..(n + 1) |-> IF k < n + 1 THEN codes[k] ELSE new]
    BY <1>4, <2>1 DEF Codes!Create
  <2>3. new \in Codes!Row
    BY <1>1
  <2>4. n + 1 \in 0..MaxCodes
    BY <1>0, <1>1, <2>2 DEF Codes!Ids
  <2>5. codes' \in [1..(n + 1) -> Codes!Row]
    <3>1. \A k \in 1..(n + 1) : k < n + 1 => k \in 1..n
      BY <1>0, <1>1
    <3>2. \A k \in 1..(n + 1) : (IF k < n + 1 THEN codes[k] ELSE new) \in Codes!Row
      BY <1>0, <2>3, <3>1
    <3> HIDE DEF new, Codes!Row
    <3>3. QED
      BY <2>2, <3>2
  <2>6. \A i \in 1..n : i \in 1..(n + 1) /\ codes'[i] = codes[i]
    BY <1>0, <1>1, <2>2
  <2>7. QED
    BY <1>0, <2>4, <2>5, <2>6 DEF CodesKept
<1>5. CASE \E c \in Pair : Codes!Prune(c)
  <2>1. codes' = [i \in DOMAIN codes |-> [codes[i] EXCEPT !.kept =
                    @ /\ codes[i].at + OTP_EXPIRY + PRUNE >= codeNow]]
    BY <1>5 DEF Codes!Prune
  <2>2. codes' \in [1..n -> Codes!Row]
    BY <1>0, <2>1
  <2>3. \A i \in 1..n : codes'[i].at = codes[i].at
    BY <1>0, <2>1
  <2>4. QED
    BY <1>0, <2>2, <2>3 DEF CodesKept
<1>6. CASE \E c \in Pair : Codes!Attempt(c) \/ Codes!Redeem(c)
  <2>1. PICK i : codes' = [codes EXCEPT ![i].attempts = @ + 1]
                   \/ codes' = [codes EXCEPT ![i].used = TRUE]
    BY <1>6 DEF Codes!Attempt, Codes!Redeem
  <2>2. codes' \in [1..n -> Codes!Row]
    <3>1. \A k \in 1..n : codes[k] \in Codes!Row
      BY <1>0
    <3>2. \A k \in 1..n : [codes[k] EXCEPT !.attempts = @ + 1] \in Codes!Row
      <4>1. ASSUME NEW k \in 1..n PROVE [codes[k] EXCEPT !.attempts = @ + 1] \in Codes!Row
        BY <3>1
      <4>2. QED
        BY <4>1
    <3>3. \A k \in 1..n : [codes[k] EXCEPT !.used = TRUE] \in Codes!Row
      BY <3>1
    <3> HIDE DEF Codes!Row
    <3>4. CASE codes' = [codes EXCEPT ![i].attempts = @ + 1]
      BY <1>0, <3>1, <3>2, <3>4
    <3>5. CASE codes' = [codes EXCEPT ![i].used = TRUE]
      BY <1>0, <3>1, <3>3, <3>5
    <3>6. QED
      BY <2>1, <3>4, <3>5
  <2>3. \A k \in 1..n : codes'[k].at = codes[k].at
    <3>1. CASE codes' = [codes EXCEPT ![i].attempts = @ + 1]
      BY <1>0, <3>1
    <3>2. CASE codes' = [codes EXCEPT ![i].used = TRUE]
      BY <1>0, <3>2
    <3>3. QED
      BY <2>1, <3>1, <3>2
  <2>4. QED
    BY <1>0, <2>2, <2>3 DEF CodesKept
<1>7. QED
  BY <1>2, <1>3, <1>4, <1>5, <1>6 DEF Codes!Next, Codes!Request, Codes!CountWindow,
     Codes!Find, Codes!Effect, Codes!Fail, Codes!ChangePin, Codes!Tick

\* What a step of a call does to the calls.
OnlyCodeCall(c) == \A d \in Pair \ {c} : codeCalls'[d] = codeCalls[d]

LEMMA CodePut ==
  ASSUME codeCalls \in [Pair -> CodeCall], NEW c \in Pair, NEW h \in CodeCall,
         codeCalls' = [codeCalls EXCEPT ![c] = h]
  PROVE  OnlyCodeCall(c) /\ codeCalls'[c] = h /\ codeCalls' \in [Pair -> CodeCall]
  BY DEF OnlyCodeCall

\* A call goes on with the code it has, or with one that it found live.
MoveOn(c, h) ==
  /\ codeCalls' = [codeCalls EXCEPT ![c] = h]
  /\ codeNow' = codeNow
  /\ h.step \in {"attempt", "redeem", "effect"} =>
       /\ h.code \in DOMAIN codes
       /\ codes[h.code].at + OTP_EXPIRY >= codeNow

LEMMA CodeMoves ==
  ASSUME PeopleAssumption, CodeInv, Codes!Next
  PROVE  \/ \E c \in Pair, h \in CodeCall : MoveOn(c, h)
         \/ codeCalls' = codeCalls /\ codeNow' = codeNow
         \/ codeCalls' = codeCalls /\ \A c \in Pair : codeCalls[c] = Codes!Idle
<1> USE DEF codeNow, codes, codeCalls
<1>0. codeCalls \in [Pair -> CodeCall] /\ \E n \in 0..MaxCodes : codes \in [1..n -> Codes!Row]
      /\ MaxCodes \in Nat /\ Codes!Idle \in CodeCall
  BY CodeFacts DEF CodeInv, CodeCall
<1>1. CASE Codes!ChangePin
  BY <1>1 DEF Codes!ChangePin
<1>2. CASE Codes!Tick
  BY <1>2 DEF Codes!Tick
<1>3. ASSUME NEW c \in Pair,
             \/ Codes!Request(c) \/ Codes!CountWindow(c) \/ Codes!Invalidate(c) \/ Codes!Create(c)
             \/ Codes!Prune(c) \/ Codes!Find(c) \/ Codes!Attempt(c) \/ Codes!Redeem(c)
             \/ Codes!Effect(c) \/ Codes!Fail(c)
      PROVE  \E h \in CodeCall : MoveOn(c, h)
  <2>0. codeCalls[c] \in CodeCall
    BY <1>0
  <2>1. CASE Codes!End(c) /\ codeNow' = codeNow
    BY <1>0, <2>1 DEF Codes!End, MoveOn, Codes!Idle
  <2>2. CASE Codes!Request(c)
    <3>1. [step |-> "window"] \in CodeCall /\ MoveOn(c, [step |-> "window"])
      BY <2>2 DEF Codes!Request, MoveOn, CodeCall
    <3>2. QED
      BY <3>1
  <2>3. ASSUME NEW s \in {"invalidate", "create", "prune"}, Codes!Go(c, s), codeNow' = codeNow,
               codeCalls[c].step \in {"window", "invalidate", "create"}
        PROVE  \E h \in CodeCall : MoveOn(c, h)
    <3>1. codeCalls[c] = [step |-> codeCalls[c].step]
      BY <2>0, <2>3 DEF CodeCall, Codes!Idle
    <3>2. [codeCalls[c] EXCEPT !.step = s] = [step |-> s]
      BY <3>1
    <3>3. codeCalls' = [codeCalls EXCEPT ![c] = [step |-> s]]
      BY <2>3, <3>2 DEF Codes!Go
    <3>4. [step |-> s] \in CodeCall /\ MoveOn(c, [step |-> s])
      BY <2>3, <3>3 DEF MoveOn, CodeCall
    <3>5. QED
      BY <3>4
  <2>4. ASSUME NEW s \in {"redeem", "effect"}, Codes!Go(c, s), codeNow' = codeNow,
               codeCalls[c].step \in {"attempt", "redeem"}
        PROVE  \E h \in CodeCall : MoveOn(c, h)
    <3>1. PICK i \in Codes!Ids : codeCalls[c] = [step |-> codeCalls[c].step, code |-> i]
      BY <2>0, <2>4 DEF CodeCall, Codes!Idle
    <3>2. [codeCalls[c] EXCEPT !.step = s] = [step |-> s, code |-> i]
      BY <3>1
    <3>3. codeCalls' = [codeCalls EXCEPT ![c] = [step |-> s, code |-> i]]
      BY <2>4, <3>2 DEF Codes!Go
    <3>4. codeCalls[c].code = i
      BY <3>1
    <3>5. i \in DOMAIN codes /\ codes[i].at + OTP_EXPIRY >= codeNow
      BY <2>4, <3>4 DEF CodeInv
    <3>6. [step |-> s, code |-> i] \in CodeCall
      BY <2>4 DEF CodeCall
    <3>7. MoveOn(c, [step |-> s, code |-> i])
      BY <2>4, <3>3, <3>5 DEF MoveOn
    <3>8. QED
      BY <3>6, <3>7
  <2>5. CASE Codes!Find(c)
    <3>1. PICK i \in Codes!Unused : /\ codes[i].at + OTP_EXPIRY >= codeNow
            /\ codeCalls' = [codeCalls EXCEPT ![c] = [step |-> "attempt", code |-> i]]
            /\ codeNow' = codeNow
      BY <2>5 DEF Codes!Find
    <3>2. i \in DOMAIN codes /\ i \in Codes!Ids
      BY <1>0 DEF Codes!Unused, Codes!Rows, Codes!Ids
    <3>3. [step |-> "attempt", code |-> i] \in CodeCall
      BY <3>2 DEF CodeCall
    <3>4. MoveOn(c, [step |-> "attempt", code |-> i])
      BY <3>1, <3>2 DEF MoveOn
    <3>5. QED
      BY <3>3, <3>4
  <2>6. CASE Codes!CountWindow(c)
    BY <2>1, <2>3, <2>6 DEF Codes!CountWindow
  <2>7. CASE Codes!Invalidate(c) \/ Codes!Create(c)
    BY <2>3, <2>7 DEF Codes!Invalidate, Codes!Create
  <2>8. CASE Codes!Prune(c) \/ Codes!Effect(c) \/ Codes!Fail(c)
    BY <2>1, <2>8 DEF Codes!Prune, Codes!Effect, Codes!Fail
  <2>9. CASE Codes!Attempt(c) \/ Codes!Redeem(c)
    BY <2>1, <2>4, <2>9 DEF Codes!Attempt, Codes!Redeem
  <2>10. QED
    BY <1>3, <2>2, <2>5, <2>6, <2>7, <2>8, <2>9
<1>4. QED
  BY <1>1, <1>2, <1>3 DEF Codes!Next

LEMMA CodeCallSteps ==
  ASSUME PeopleAssumption, CodeInv, Codes!Next
  PROVE  /\ codeCalls' \in [Pair -> CodeCall]
         /\ \A c \in Pair : codeCalls'[c].step \in {"attempt", "redeem", "effect"} =>
              /\ codeCalls'[c].code \in DOMAIN codes'
              /\ codes'[codeCalls'[c].code].at + OTP_EXPIRY >= codeNow'
<1>1. codeCalls \in [Pair -> CodeCall] /\ CodesKept
  BY CodeFacts, CodeRows DEF CodeInv
<1>2. CASE \E c \in Pair, h \in CodeCall : MoveOn(c, h)
  <2>1. PICK c \in Pair, h \in CodeCall : MoveOn(c, h)
    BY <1>2
  <2>2. OnlyCodeCall(c) /\ codeCalls'[c] = h /\ codeCalls' \in [Pair -> CodeCall]
    BY <1>1, <2>1, CodePut DEF MoveOn
  <2>3. QED
    BY <1>1, <2>1, <2>2 DEF MoveOn, OnlyCodeCall, CodesKept, CodeInv
<1>3. CASE codeCalls' = codeCalls /\ codeNow' = codeNow
  BY <1>1, <1>3 DEF CodesKept, CodeInv
<1>4. CASE codeCalls' = codeCalls /\ \A c \in Pair : codeCalls[c] = Codes!Idle
  BY <1>1, <1>4 DEF Codes!Idle
<1>5. QED
  BY <1>2, <1>3, <1>4, CodeMoves

LEMMA CodeNext ==
  ASSUME PeopleAssumption, CodeInv, Codes!Next
  PROVE  CodeInv' /\ Codes!BackedStep
<1> USE DEF codeNow, purpose, codes, codeCalls, pinTokens, storedCode, guesses, wins
<1>0. /\ {OTP_EXPIRY, MaxCodes, OtpTime, TokenLife} \subseteq Nat /\ TokenLife > 0
      /\ codeNow \in 0..OtpTime
      /\ \E n \in 0..MaxCodes : codes \in [1..n -> Codes!Row]
      /\ codeCalls \in [Pair -> CodeCall]
      /\ pinTokens \subseteq [code : Codes!Ids, at : 0..OtpTime]
      /\ storedCode \in 0..MaxCodes
      /\ guesses \in [Codes!Ids -> Nat] /\ wins \in [Codes!Ids -> Nat]
      /\ CodesKept
  BY CodeFacts, CodeRows DEF CodeInv
<1>1. \A i \in DOMAIN codes : i \in Codes!Ids /\ codes[i].at \in Nat
  BY <1>0 DEF Codes!Ids, Codes!Row
<1>2. \A c \in Pair : codeCalls[c].step \in {"attempt", "redeem", "effect"} =>
        codeCalls[c].code \in DOMAIN codes
  BY DEF CodeInv
<1>3. /\ \A t \in pinTokens' :
           /\ t.code \in DOMAIN codes'
           /\ codes'[t.code].at + OTP_EXPIRY >= t.at
           /\ codeNow' < t.at + TokenLife
      /\ pinTokens' \subseteq [code : Codes!Ids, at : 0..OtpTime]
      /\ storedCode' \in 0..MaxCodes
      /\ Codes!BackedStep
  <2>1. CASE \E c \in Pair : Codes!Effect(c)
    <3>1. PICK c \in Pair : Codes!Effect(c)
      BY <2>1
    <3>2. PICK i \in DOMAIN codes : codeCalls[c].code = i
      BY <1>2, <3>1 DEF Codes!Effect
    <3>3. codes[i].at + OTP_EXPIRY >= codeNow /\ codeNow' = codeNow /\ codes' = codes
      BY <3>1, <3>2 DEF Codes!Effect, CodeInv
    <3>4. \/ storedCode' = i /\ pinTokens' = pinTokens
          \/ pinTokens' = pinTokens \cup {[code |-> i, at |-> codeNow]} /\ storedCode' = storedCode
      BY <3>1, <3>2 DEF Codes!Effect
    <3>5. /\ \A t \in pinTokens' :
               /\ t.code \in DOMAIN codes
               /\ codes[t.code].at + OTP_EXPIRY >= t.at
               /\ codeNow < t.at + TokenLife
          /\ pinTokens' \subseteq [code : Codes!Ids, at : 0..OtpTime]
      <4>1. [code |-> i, at |-> codeNow] \in [code : Codes!Ids, at : 0..OtpTime]
        BY <1>0, <1>1
      <4>2. codeNow < codeNow + TokenLife
        BY <1>0
      <4>3. QED
        BY <1>0, <3>2, <3>3, <3>4, <4>1, <4>2 DEF CodeInv
    <3>6. storedCode' # storedCode => codeNow < codes[storedCode'].at + OTP_EXPIRY + TokenLife
      BY <1>0, <1>1, <3>3, <3>4
    <3>7. storedCode' \in 0..MaxCodes
      BY <1>0, <1>1, <3>4 DEF Codes!Ids
    <3>8. QED
      BY <3>3, <3>5, <3>6, <3>7 DEF Codes!BackedStep
  <2>2. CASE Codes!ChangePin
    <3>1. PICK t \in pinTokens : storedCode' = t.code
      BY <2>2 DEF Codes!ChangePin
    <3>2. codeNow' = codeNow /\ codes' = codes /\ pinTokens' = pinTokens
      BY <2>2 DEF Codes!ChangePin
    <3>3. /\ t.code \in DOMAIN codes /\ codes[t.code].at + OTP_EXPIRY >= t.at
          /\ codeNow < t.at + TokenLife /\ t.at \in Nat
      BY <1>0 DEF CodeInv
    <3>4. codeNow < codes[t.code].at + OTP_EXPIRY + TokenLife
      <4>1. codes[t.code].at \in Nat /\ {codeNow, OTP_EXPIRY, TokenLife} \subseteq Nat
        BY <1>0, <1>1, <3>3
      <4>2. QED
        BY <3>3, <4>1
    <3>5. storedCode' \in 0..MaxCodes
      BY <1>0, <1>1, <3>1, <3>3 DEF Codes!Ids
    <3>6. QED
      BY <1>0, <3>1, <3>2, <3>4, <3>5 DEF Codes!BackedStep, CodeInv
  <2>3. CASE Codes!Tick
    BY <1>0, <2>3 DEF Codes!Tick, Codes!BackedStep, CodeInv
  <2>4. CASE UNCHANGED <<codeNow, pinTokens, storedCode>>
    BY <1>0, <2>4 DEF Codes!BackedStep, CodeInv, CodesKept
  <2>5. QED
    BY <2>1, <2>2, <2>3, <2>4 DEF Codes!Next, Codes!Request, Codes!CountWindow, Codes!Invalidate,
       Codes!Create, Codes!Prune, Codes!Find, Codes!Attempt, Codes!Redeem, Codes!Fail,
       Codes!effects
<1>4. Codes!TypeOK'
  <2>1. /\ codeNow' = codeNow \/ (codeNow' = codeNow + 1 /\ codeNow < OtpTime)
        /\ purpose' = purpose
    BY DEF Codes!Next, Codes!Request, Codes!CountWindow, Codes!Invalidate,
       Codes!Create, Codes!Prune, Codes!Find, Codes!Attempt, Codes!Redeem, Codes!Effect,
       Codes!ChangePin, Codes!Tick, Codes!Fail, Codes!effects
  <2>2. codeNow' \in 0..OtpTime
    BY <1>0, <2>1
  <2>3. purpose' \in {"phone_verify", "pin_change"}
    BY <2>1 DEF CodeInv, Codes!TypeOK
  <2>4. /\ guesses' = guesses \/ \E i : guesses' = [guesses EXCEPT ![i] = @ + 1]
        /\ wins' = wins \/ \E i : wins' = [wins EXCEPT ![i] = @ + 1]
    BY DEF Codes!Next, Codes!Request, Codes!CountWindow, Codes!Invalidate,
       Codes!Create, Codes!Prune, Codes!Find, Codes!Attempt, Codes!Redeem, Codes!Effect,
       Codes!ChangePin, Codes!Tick, Codes!Fail, Codes!effects, Codes!history
  <2>5. guesses' \in [Codes!Ids -> Nat] /\ wins' \in [Codes!Ids -> Nat]
    <3>1. guesses \in [Codes!Ids -> Nat] /\ wins \in [Codes!Ids -> Nat]
      BY <1>0
    <3>2. guesses' \in [Codes!Ids -> Nat]
      BY <2>4, <3>1, OneMore
    <3>3. wins' \in [Codes!Ids -> Nat]
      BY <2>4, <3>1, OneMore
    <3>4. QED
      BY <3>2, <3>3
  <2>6. codeCalls' \in [Pair -> CodeCall]
    BY CodeCallSteps
  <2>7. QED
    BY <1>0, <1>3, <2>2, <2>3, <2>5, <2>6 DEF Codes!TypeOK, CodesKept, CodeCall
<1>5. QED
  BY <1>3, <1>4, CodeCallSteps DEF CodeInv


(***************************************************************************)
(* The limits on codes, guesses and redemptions.                           *)
(***************************************************************************)
Asking == {c \in Pair : codeCalls[c].step \in {"window", "invalidate", "create"}}
Coming == {c \in Pair : codeCalls[c].step \in {"invalidate", "create"}}
Making == {c \in Pair : codeCalls[c].step = "create"}
Guessing(i) == {c \in Pair : codeCalls[c].step = "attempt" /\ codeCalls[c].code = i}
Winning(i) == {c \in Pair : codeCalls[c].step \in {"attempt", "redeem"} /\ codeCalls[c].code = i}

Fresh(w) == {i \in DOMAIN codes : codes[i].at + w >= codeNow}
Unspent == {i \in DOMAIN codes : codes[i].kept /\ ~codes[i].used}

\* A row that is gone is older than any window; calls that have passed a
\* check are counted with the rows they are about to add.
RateInv ==
  /\ \A i \in DOMAIN codes : ~codes[i].kept => codes[i].at + OTP_EXPIRY + PRUNE < codeNow
  /\ Cardinality(Fresh(COOLDOWN)) + Cardinality(Asking) <= Cardinality(Pair)
  /\ Cardinality(Fresh(WINDOW)) + Cardinality(Coming)
       <= MAX_CODES_PER_15MIN - 1 + Cardinality(Pair)
  /\ Cardinality(Unspent) + Cardinality(Making) <= Cardinality(Pair)

\* A code counts the guesses made, and a redeemed one is used.
TryInv ==
  /\ \A i \in Codes!Ids :
       /\ i \in DOMAIN codes => guesses[i] = codes[i].attempts /\ (wins[i] > 0 => codes[i].used)
       /\ i \notin DOMAIN codes => guesses[i] = 0 /\ wins[i] = 0
  /\ \A i \in DOMAIN codes :
       /\ guesses[i] + Cardinality(Guessing(i)) <= MAX_ATTEMPTS - 1 + Cardinality(Pair)
       /\ wins[i] > 0 => wins[i] + Cardinality(Winning(i)) <= Cardinality(Pair)

CodesInv == CodeInv /\ RateInv /\ TryInv

LEMMA CodeSets ==
  ASSUME PeopleAssumption, CodeInv
  PROVE  /\ {COOLDOWN, WINDOW, OTP_EXPIRY, PRUNE, MaxCodes, OtpTime} \subseteq Nat
         /\ {MAX_CODES_PER_15MIN, MAX_ATTEMPTS, TokenLife} \subseteq Nat \ {0}
         /\ COOLDOWN <= WINDOW /\ WINDOW <= OTP_EXPIRY + PRUNE
         /\ IsFiniteSet(Pair) /\ Cardinality(Pair) \in Nat
         /\ codeNow \in 0..OtpTime /\ codeCalls \in [Pair -> CodeCall]
         /\ guesses \in [Codes!Ids -> Nat] /\ wins \in [Codes!Ids -> Nat]
         /\ Asking \in SUBSET Pair /\ Coming \in SUBSET Pair /\ Making \in SUBSET Pair
         /\ \A i : Guessing(i) \in SUBSET Pair /\ Winning(i) \in SUBSET Pair
         /\ Codes!Ids = 1..MaxCodes
         /\ \E n \in 0..MaxCodes :
              /\ codes \in [1..n -> Codes!Row] /\ DOMAIN codes = 1..n
              /\ Codes!Cardinality(DOMAIN codes) = n
              /\ IsFiniteSet(DOMAIN codes) /\ DOMAIN codes \subseteq Codes!Ids
<1>1. /\ {COOLDOWN, WINDOW, OTP_EXPIRY, PRUNE, MaxCodes, OtpTime} \subseteq Nat
      /\ {MAX_CODES_PER_15MIN, MAX_ATTEMPTS, TokenLife} \subseteq Nat \ {0}
      /\ COOLDOWN <= WINDOW /\ WINDOW <= OTP_EXPIRY + PRUNE
      /\ IsFiniteSet(Pair) /\ Cardinality(Pair) \in Nat
  BY SameCounts, Counts DEF PeopleAssumption, Codes!OtpAssumption
<1>2. PICK n \in 0..MaxCodes : codes \in [1..n -> Codes!Row]
  BY CodeFacts DEF CodeInv
<1>3. Cardinality(1..n) = n /\ IsFiniteSet(1..n) /\ DOMAIN codes = 1..n
  <2>1. n \in Nat /\ 1 \in Int /\ n \in Int
    BY <1>1, <1>2
  <2>2. Cardinality(1..n) = n /\ IsFiniteSet(1..n)
    BY <2>1, FS_Interval
  <2>3. QED
    BY <1>2, <2>2
<1>4. Codes!Cardinality(DOMAIN codes) = n
  BY <1>3, SameCounts
<1>5. Codes!Ids = 1..MaxCodes /\ 1..n \subseteq 1..MaxCodes
  BY <1>1, <1>2 DEF Codes!Ids
<1>6. /\ Asking \in SUBSET Pair /\ Coming \in SUBSET Pair /\ Making \in SUBSET Pair
      /\ \A i : Guessing(i) \in SUBSET Pair /\ Winning(i) \in SUBSET Pair
  BY DEF Asking, Coming, Making, Guessing, Winning
<1>7. /\ codeNow \in 0..OtpTime /\ codeCalls \in [Pair -> CodeCall]
      /\ guesses \in [Codes!Ids -> Nat] /\ wins \in [Codes!Ids -> Nat]
  BY CodeFacts DEF CodeInv
<1>8. QED
  BY <1>1, <1>2, <1>3, <1>4, <1>5, <1>6, <1>7

\* A call goes on as h.
CodeMove(c, h) ==
  codeCalls' = [codeCalls EXCEPT ![c] = h]

LEMMA CodeCounts ==
  ASSUME PeopleAssumption, CodeInv, NEW c \in Pair, NEW h \in CodeCall, CodeMove(c, h)
  PROVE  /\ Cardinality(Asking) \in Nat /\ Cardinality(Coming) \in Nat
         /\ Cardinality(Making) \in Nat
         /\ Cardinality(Asking') = Cardinality(Asking)
              + (IF h.step \in {"window", "invalidate", "create"} THEN 1 ELSE 0)
              - (IF codeCalls[c].step \in {"window", "invalidate", "create"} THEN 1 ELSE 0)
         /\ Cardinality(Coming') = Cardinality(Coming)
              + (IF h.step \in {"invalidate", "create"} THEN 1 ELSE 0)
              - (IF codeCalls[c].step \in {"invalidate", "create"} THEN 1 ELSE 0)
         /\ Cardinality(Making') = Cardinality(Making)
              + (IF h.step = "create" THEN 1 ELSE 0)
              - (IF codeCalls[c].step = "create" THEN 1 ELSE 0)
<1>1. IsFiniteSet(Pair) /\ codeCalls \in [Pair -> CodeCall]
  BY CodeSets
<1>2. codeCalls'[c] = h /\ \A d \in Pair \ {c} : codeCalls'[d] = codeCalls[d]
  BY <1>1 DEF CodeMove
<1>3. /\ Cardinality(Asking) \in Nat
      /\ Cardinality(Asking') = Cardinality(Asking)
           + (IF h.step \in {"window", "invalidate", "create"} THEN 1 ELSE 0)
           - (IF codeCalls[c].step \in {"window", "invalidate", "create"} THEN 1 ELSE 0)
  BY <1>1, <1>2, OneMoves DEF Asking
<1>4. /\ Cardinality(Coming) \in Nat
      /\ Cardinality(Coming') = Cardinality(Coming)
           + (IF h.step \in {"invalidate", "create"} THEN 1 ELSE 0)
           - (IF codeCalls[c].step \in {"invalidate", "create"} THEN 1 ELSE 0)
  BY <1>1, <1>2, OneMoves DEF Coming
<1>5. /\ Cardinality(Making) \in Nat
      /\ Cardinality(Making') = Cardinality(Making)
           + (IF h.step = "create" THEN 1 ELSE 0) - (IF codeCalls[c].step = "create" THEN 1 ELSE 0)
  BY <1>1, <1>2, OneMoves DEF Making
<1>6. QED
  BY <1>3, <1>4, <1>5

LEMMA TryCounts ==
  ASSUME PeopleAssumption, CodeInv, NEW c \in Pair, NEW h \in CodeCall, CodeMove(c, h), NEW i
  PROVE  LET isG == h.step = "attempt" /\ h.code = i
             wasG == codeCalls[c].step = "attempt" /\ codeCalls[c].code = i
             isW == h.step \in {"attempt", "redeem"} /\ h.code = i
             wasW == codeCalls[c].step \in {"attempt", "redeem"} /\ codeCalls[c].code = i
         IN  /\ Cardinality(Guessing(i)) \in Nat /\ Cardinality(Winning(i)) \in Nat
             /\ Cardinality(Guessing(i)') = Cardinality(Guessing(i))
                  + (IF isG THEN 1 ELSE 0) - (IF wasG THEN 1 ELSE 0)
             /\ Cardinality(Winning(i)') = Cardinality(Winning(i))
                  + (IF isW THEN 1 ELSE 0) - (IF wasW THEN 1 ELSE 0)
<1> DEFINE isG == h.step = "attempt" /\ h.code = i
           wasG == codeCalls[c].step = "attempt" /\ codeCalls[c].code = i
           isW == h.step \in {"attempt", "redeem"} /\ h.code = i
           wasW == codeCalls[c].step \in {"attempt", "redeem"} /\ codeCalls[c].code = i
<1>1. IsFiniteSet(Pair) /\ codeCalls \in [Pair -> CodeCall]
  BY CodeSets
<1>2. codeCalls'[c] = h /\ \A d \in Pair \ {c} : codeCalls'[d] = codeCalls[d]
  BY <1>1 DEF CodeMove
<1>3. /\ \A d \in Pair \ {c} : d \in Guessing(i) <=> d \in Guessing(i)'
      /\ (c \in Guessing(i) <=> wasG) /\ (c \in Guessing(i)' <=> isG)
      /\ Guessing(i) \in SUBSET Pair /\ Guessing(i)' \in SUBSET Pair
  BY <1>2 DEF Guessing
<1>4. /\ \A d \in Pair \ {c} : d \in Winning(i) <=> d \in Winning(i)'
      /\ (c \in Winning(i) <=> wasW) /\ (c \in Winning(i)' <=> isW)
      /\ Winning(i) \in SUBSET Pair /\ Winning(i)' \in SUBSET Pair
  BY <1>2 DEF Winning
<1> HIDE DEF isG, wasG, isW, wasW
<1>5. /\ Cardinality(Guessing(i)) \in Nat
      /\ Cardinality(Guessing(i)') = Cardinality(Guessing(i))
           + (IF isG THEN 1 ELSE 0) - (IF wasG THEN 1 ELSE 0)
  BY <1>1, <1>3, OneMoves
<1>6. /\ Cardinality(Winning(i)) \in Nat
      /\ Cardinality(Winning(i)') = Cardinality(Winning(i))
           + (IF isW THEN 1 ELSE 0) - (IF wasW THEN 1 ELSE 0)
  BY <1>1, <1>4, OneMoves
<1>7. QED
  BY <1>5, <1>6 DEF isG, wasG, isW, wasW

\* The rows of a step that adds none: they keep their time, used ones stay
\* used, and what is pruned is old.
RowsStay ==
  /\ codeNow' = codeNow
  /\ DOMAIN codes' = DOMAIN codes
  /\ \A i \in DOMAIN codes :
       /\ codes'[i].at = codes[i].at
       /\ codes[i].used => codes'[i].used
       /\ codes'[i].kept => codes[i].kept
       /\ ~codes'[i].kept => ~codes[i].kept \/ codes[i].at + OTP_EXPIRY + PRUNE < codeNow

LEMMA RateStays ==
  ASSUME PeopleAssumption, CodeInv, RateInv, RowsStay,
         Cardinality(Asking') \in Nat, Cardinality(Coming') \in Nat, Cardinality(Making') \in Nat,
         Cardinality(Asking') <= Cardinality(Asking) \/ Fresh(COOLDOWN) = {},
         Cardinality(Coming') <= Cardinality(Coming)
           \/ Cardinality(Fresh(WINDOW)) < MAX_CODES_PER_15MIN,
         Cardinality(Making') <= Cardinality(Making) \/ Unspent' = {},
         Cardinality(Asking') <= Cardinality(Pair), Cardinality(Coming') <= Cardinality(Pair),
         Cardinality(Making') <= Cardinality(Pair)
  PROVE  RateInv'
<1>1. PICK n \in 0..MaxCodes : /\ codes \in [1..n -> Codes!Row] /\ DOMAIN codes = 1..n
                               /\ IsFiniteSet(DOMAIN codes)
  BY CodeSets
<1>2. /\ MAX_CODES_PER_15MIN \in Nat \ {0} /\ Cardinality(Pair) \in Nat
      /\ IsFiniteSet(Pair)
      /\ Cardinality(Asking) \in Nat /\ Cardinality(Coming) \in Nat
      /\ Cardinality(Making) \in Nat
  BY CodeSets, Counts
<1>3. Fresh(COOLDOWN)' = Fresh(COOLDOWN) /\ Fresh(WINDOW)' = Fresh(WINDOW)
      /\ Unspent' \in SUBSET Unspent
  BY DEF Fresh, Unspent, RowsStay
<1>4. /\ Cardinality(Fresh(COOLDOWN)) \in Nat /\ Cardinality(Fresh(WINDOW)) \in Nat
      /\ Cardinality(Unspent) \in Nat /\ Cardinality(Unspent') \in Nat
      /\ Cardinality(Unspent') <= Cardinality(Unspent)
  BY <1>1, <1>3, Counts DEF Fresh, Unspent
<1>5. Cardinality({}) = 0
  BY FS_EmptySet
<1>6. \A i \in DOMAIN codes' : ~codes'[i].kept => codes'[i].at + OTP_EXPIRY + PRUNE < codeNow'
  BY DEF RateInv, RowsStay
<1>7. Cardinality(Fresh(COOLDOWN)') + Cardinality(Asking') <= Cardinality(Pair)
  BY <1>2, <1>3, <1>4, <1>5 DEF RateInv
<1>8. Cardinality(Fresh(WINDOW)') + Cardinality(Coming')
        <= MAX_CODES_PER_15MIN - 1 + Cardinality(Pair)
  BY <1>2, <1>3, <1>4 DEF RateInv
<1>9. Cardinality(Unspent') + Cardinality(Making') <= Cardinality(Pair)
  BY <1>2, <1>4, <1>5 DEF RateInv
<1>10. QED
  BY <1>6, <1>7, <1>8, <1>9 DEF RateInv

LEMMA TryStays ==
  ASSUME PeopleAssumption, CodeInv, TryInv, DOMAIN codes' = DOMAIN codes,
         UNCHANGED <<guesses, wins>>,
         \A i \in DOMAIN codes :
           /\ codes'[i].attempts = codes[i].attempts
           /\ codes[i].used => codes'[i].used
           /\ Cardinality(Guessing(i)') \in Nat /\ Cardinality(Winning(i)') \in Nat
           /\ Cardinality(Guessing(i)') <= Cardinality(Guessing(i))
                \/ codes[i].attempts < MAX_ATTEMPTS
           /\ Cardinality(Winning(i)') <= Cardinality(Winning(i)) \/ ~codes[i].used
           /\ Cardinality(Guessing(i)') <= Cardinality(Pair)
  PROVE  TryInv'
<1>1. /\ MAX_ATTEMPTS \in Nat \ {0} /\ Cardinality(Pair) \in Nat /\ IsFiniteSet(Pair)
      /\ \A i : Guessing(i) \in SUBSET Pair /\ Winning(i) \in SUBSET Pair
      /\ guesses \in [Codes!Ids -> Nat] /\ wins \in [Codes!Ids -> Nat]
      /\ DOMAIN codes \subseteq Codes!Ids
  BY CodeSets
<1>2. \A i : Cardinality(Guessing(i)) \in Nat /\ Cardinality(Winning(i)) \in Nat
  BY <1>1, Counts
<1>3. (Codes!Ids)' = Codes!Ids
  BY DEF Codes!Ids
<1>4. \A i \in Codes!Ids :
        /\ i \in DOMAIN codes' =>
             guesses'[i] = codes'[i].attempts /\ (wins'[i] > 0 => codes'[i].used)
        /\ i \notin DOMAIN codes' => guesses'[i] = 0 /\ wins'[i] = 0
  BY DEF TryInv
<1>5. ASSUME NEW i \in DOMAIN codes
      PROVE  /\ guesses[i] + Cardinality(Guessing(i)') <= MAX_ATTEMPTS - 1 + Cardinality(Pair)
             /\ wins[i] > 0 => wins[i] + Cardinality(Winning(i)') <= Cardinality(Pair)
  BY <1>1, <1>2 DEF TryInv
<1>6. QED
  BY <1>3, <1>4, <1>5 DEF TryInv

\* A call takes its next step, with the code it has.
LEMMA CodeGoes ==
  ASSUME codeCalls \in [Pair -> CodeCall], NEW c \in Pair,
         NEW s \in {"invalidate", "create", "prune", "redeem", "effect"}, Codes!Go(c, s),
         IF s \in {"redeem", "effect"} THEN codeCalls[c].step \in {"attempt", "redeem"}
         ELSE codeCalls[c].step \in {"window", "invalidate", "create"}
  PROVE  \E h \in CodeCall : /\ h.step = s /\ CodeMove(c, h)
                             /\ s \in {"redeem", "effect"} => h.code = codeCalls[c].code
<1> USE DEF codeCalls
<1>0. codeCalls[c] \in CodeCall
  OBVIOUS
<1>1. CASE s \in {"redeem", "effect"}
  <2>1. PICK i \in Codes!Ids : codeCalls[c] = [step |-> codeCalls[c].step, code |-> i]
    BY <1>0, <1>1 DEF CodeCall, Codes!Idle
  <2>2. [codeCalls[c] EXCEPT !.step = s] = [step |-> s, code |-> i]
    BY <2>1
  <2>3. CodeMove(c, [step |-> s, code |-> i])
    BY <2>2 DEF CodeMove, Codes!Go
  <2>4. [step |-> s, code |-> i] \in CodeCall /\ codeCalls[c].code = i
    BY <1>1, <2>1 DEF CodeCall
  <2>5. QED
    BY <2>3, <2>4
<1>2. CASE s \notin {"redeem", "effect"}
  <2>1. codeCalls[c] = [step |-> codeCalls[c].step]
    BY <1>0, <1>2 DEF CodeCall, Codes!Idle
  <2>2. [codeCalls[c] EXCEPT !.step = s] = [step |-> s]
    BY <2>1
  <2>3. CodeMove(c, [step |-> s])
    BY <2>2 DEF CodeMove, Codes!Go
  <2>4. [step |-> s] \in CodeCall
    BY <1>2 DEF CodeCall
  <2>5. QED
    BY <1>2, <2>3, <2>4
<1>3. QED
  BY <1>1, <1>2

\* No row that a window looks at is gone.
LEMMA CodeWindows ==
  ASSUME PeopleAssumption, CodeInv, RateInv
  PROVE  /\ Codes!Since(COOLDOWN) = Fresh(COOLDOWN)
         /\ Codes!Since(WINDOW) = Fresh(WINDOW)
         /\ Codes!Cardinality(Codes!Since(WINDOW)) = Cardinality(Fresh(WINDOW))
         /\ Codes!Unused = Unspent
<1>1. PICK n \in 0..MaxCodes : codes \in [1..n -> Codes!Row] /\ DOMAIN codes = 1..n
  BY CodeSets
<1>2. /\ {COOLDOWN, WINDOW, OTP_EXPIRY, PRUNE} \subseteq Nat /\ COOLDOWN <= WINDOW
      /\ WINDOW <= OTP_EXPIRY + PRUNE /\ codeNow \in Nat
  BY CodeSets
<1>3. \A i \in 1..n : codes[i].at \in Nat
  BY <1>1 DEF Codes!Row
<1>4. ASSUME NEW w \in {COOLDOWN, WINDOW} PROVE Codes!Since(w) = Fresh(w)
  <2>1. w \in Nat /\ w <= OTP_EXPIRY + PRUNE
    BY <1>2, <1>4
  <2>2. ASSUME NEW i \in 1..n, codes[i].at + w >= codeNow PROVE codes[i].kept
    <3>1. ~codes[i].kept => codes[i].at + OTP_EXPIRY + PRUNE < codeNow
      BY <1>1 DEF RateInv
    <3>2. QED
      BY <1>2, <1>3, <2>1, <2>2, <3>1
  <2>3. QED
    BY <1>1, <2>2 DEF Codes!Since, Codes!Rows, Fresh, codes, codeNow
<1>5. Codes!Unused = Unspent
  BY DEF Codes!Unused, Codes!Rows, Unspent, codes
<1>6. Codes!Since(COOLDOWN) = Fresh(COOLDOWN) /\ Codes!Since(WINDOW) = Fresh(WINDOW)
  BY <1>4
<1>7. QED
  BY <1>5, <1>6, SameCounts

\* A step of a call that changes no code.
LEMMA CodeQuiet ==
  ASSUME PeopleAssumption, CodesInv, NEW c \in Pair, NEW h \in CodeCall, CodeMove(c, h),
         UNCHANGED <<codeNow, codes, guesses, wins>>,
         h.step \in {"idle", "window", "invalidate", "attempt"},
         h.step = "window" => Fresh(COOLDOWN) = {},
         h.step = "invalidate" =>
           /\ codeCalls[c].step = "window"
           /\ Cardinality(Fresh(WINDOW)) < MAX_CODES_PER_15MIN,
         h.step = "attempt" =>
           ~codes[h.code].used /\ codes[h.code].attempts < MAX_ATTEMPTS
  PROVE  RateInv' /\ TryInv'
<1>1. /\ Cardinality(Asking) \in Nat /\ Cardinality(Coming) \in Nat
      /\ Cardinality(Making) \in Nat
      /\ Cardinality(Asking') = Cardinality(Asking)
           + (IF h.step \in {"window", "invalidate", "create"} THEN 1 ELSE 0)
           - (IF codeCalls[c].step \in {"window", "invalidate", "create"} THEN 1 ELSE 0)
      /\ Cardinality(Coming') = Cardinality(Coming)
           + (IF h.step \in {"invalidate", "create"} THEN 1 ELSE 0)
           - (IF codeCalls[c].step \in {"invalidate", "create"} THEN 1 ELSE 0)
      /\ Cardinality(Making') = Cardinality(Making)
           + (IF h.step = "create" THEN 1 ELSE 0)
           - (IF codeCalls[c].step = "create" THEN 1 ELSE 0)
  BY CodeCounts DEF CodesInv
<1>2. /\ Cardinality(Asking') \in Nat /\ Cardinality(Coming') \in Nat
      /\ Cardinality(Making') \in Nat
      /\ Cardinality(Asking') <= Cardinality(Pair) /\ Cardinality(Coming') <= Cardinality(Pair)
      /\ Cardinality(Making') <= Cardinality(Pair)
  BY CodeSets, Counts DEF Asking, Coming, Making, CodesInv
<1>3. RateInv'
  BY <1>1, <1>2, RateStays DEF RowsStay, CodesInv
<1>4. ASSUME NEW i \in DOMAIN codes
      PROVE  /\ Cardinality(Guessing(i)') \in Nat /\ Cardinality(Winning(i)') \in Nat
             /\ Cardinality(Guessing(i)') <= Cardinality(Guessing(i))
                  \/ codes[i].attempts < MAX_ATTEMPTS
             /\ Cardinality(Winning(i)') <= Cardinality(Winning(i)) \/ ~codes[i].used
             /\ Cardinality(Guessing(i)') <= Cardinality(Pair)
  <2>1. /\ IsFiniteSet(Pair) /\ Guessing(i)' \in SUBSET Pair /\ Winning(i)' \in SUBSET Pair
    BY CodeSets DEF Guessing, Winning, CodesInv
  <2>2. /\ Cardinality(Guessing(i)') \in Nat /\ Cardinality(Winning(i)') \in Nat
        /\ Cardinality(Guessing(i)') <= Cardinality(Pair)
    BY <2>1, Counts
  <2>3. CASE h.step = "attempt" /\ h.code = i
    BY <2>2, <2>3
  <2>4. CASE ~(h.step = "attempt" /\ h.code = i)
    BY <2>2, <2>4, TryCounts DEF CodesInv
  <2>5. QED
    BY <2>3, <2>4
<1>5. TryInv'
  BY <1>4, TryStays DEF CodesInv
<1>6. QED
  BY <1>3, <1>5

LEMMA CodesCalls ==
  ASSUME PeopleAssumption, CodesInv
  PROVE  /\ Cardinality(Asking') \in Nat /\ Cardinality(Coming') \in Nat
         /\ Cardinality(Making') \in Nat
         /\ Cardinality(Asking') <= Cardinality(Pair) /\ Cardinality(Coming') <= Cardinality(Pair)
         /\ Cardinality(Making') <= Cardinality(Pair)
         /\ \A i : /\ Cardinality(Guessing(i)') \in Nat /\ Cardinality(Winning(i)') \in Nat
                   /\ Cardinality(Guessing(i)') <= Cardinality(Pair)
<1>1. /\ IsFiniteSet(Pair)
      /\ Asking' \in SUBSET Pair /\ Coming' \in SUBSET Pair /\ Making' \in SUBSET Pair
  BY CodeSets DEF Asking, Coming, Making, CodesInv
<1>2. /\ Cardinality(Asking') \in Nat /\ Cardinality(Coming') \in Nat
      /\ Cardinality(Making') \in Nat
      /\ Cardinality(Asking') <= Cardinality(Pair) /\ Cardinality(Coming') <= Cardinality(Pair)
      /\ Cardinality(Making') <= Cardinality(Pair)
  BY <1>1, Counts
<1>3. ASSUME NEW i
      PROVE  /\ Cardinality(Guessing(i)') \in Nat /\ Cardinality(Winning(i)') \in Nat
             /\ Cardinality(Guessing(i)') <= Cardinality(Pair)
  BY <1>1, Counts DEF Guessing, Winning
<1>4. QED
  BY <1>2, <1>3

\* Older codes are spent, or old ones pruned.
LEMMA CodesSwept ==
  ASSUME PeopleAssumption, CodesInv, NEW c \in Pair, NEW h \in CodeCall, CodeMove(c, h),
         UNCHANGED <<codeNow, guesses, wins>>, RowsStay,
         \A i \in DOMAIN codes : codes'[i].attempts = codes[i].attempts,
         h.step \in {"idle", "create"},
         h.step = "create" => codeCalls[c].step = "invalidate" /\ Unspent' = {}
  PROVE  RateInv' /\ TryInv'
<1>1. /\ Cardinality(Asking) \in Nat /\ Cardinality(Coming) \in Nat
      /\ Cardinality(Making) \in Nat
      /\ Cardinality(Asking') <= Cardinality(Asking)
      /\ Cardinality(Coming') <= Cardinality(Coming)
      /\ Cardinality(Making') <= Cardinality(Making) \/ Unspent' = {}
  BY CodeCounts DEF CodesInv
<1>2. RateInv'
  BY <1>1, CodesCalls, RateStays DEF CodesInv
<1>3. ASSUME NEW i \in DOMAIN codes
      PROVE  /\ Cardinality(Guessing(i)') <= Cardinality(Guessing(i))
             /\ Cardinality(Winning(i)') <= Cardinality(Winning(i))
  BY TryCounts DEF CodesInv
<1>4. TryInv'
  BY <1>3, CodesCalls, TryStays DEF CodesInv, RowsStay
<1>5. QED
  BY <1>2, <1>4

\* A guess is counted.
LEMMA CodesAttempt ==
  ASSUME PeopleAssumption, CodesInv, NEW c \in Pair, Codes!Attempt(c)
  PROVE  RateInv' /\ TryInv'
<1> USE DEF codeNow, codes, codeCalls, guesses, wins
<1>1. /\ codeCalls \in [Pair -> CodeCall] /\ Codes!Idle \in CodeCall /\ Codes!Idle.step = "idle"
      /\ guesses \in [Codes!Ids -> Nat] /\ wins \in [Codes!Ids -> Nat]
      /\ MAX_ATTEMPTS \in Nat \ {0} /\ Cardinality(Pair) \in Nat
  BY CodeSets DEF CodesInv, CodeCall, Codes!Idle
<1>2. PICK n \in 0..MaxCodes : /\ codes \in [1..n -> Codes!Row] /\ DOMAIN codes = 1..n
                               /\ DOMAIN codes \subseteq Codes!Ids
  BY CodeSets DEF CodesInv
<1>3. PICK i \in DOMAIN codes : codeCalls[c].code = i
  BY DEF CodesInv, CodeInv, Codes!Attempt
<1>4. /\ codeCalls[c].step = "attempt" /\ UNCHANGED <<codeNow, wins>>
      /\ codes' = [codes EXCEPT ![i].attempts = @ + 1]
      /\ guesses' = [guesses EXCEPT ![i] = @ + 1]
      /\ Codes!Go(c, "redeem") \/ Codes!End(c)
  BY <1>3 DEF Codes!Attempt
<1>5. PICK h \in CodeCall : /\ CodeMove(c, h) /\ h.step \in {"idle", "redeem"}
                            /\ h.step = "redeem" => h.code = i
  <2>1. CASE Codes!Go(c, "redeem")
    BY <1>1, <1>3, <1>4, <2>1, CodeGoes
  <2>2. CASE Codes!End(c)
    BY <1>1, <2>2 DEF Codes!End, CodeMove
  <2>3. QED
    BY <1>4, <2>1, <2>2
<1>6. /\ DOMAIN codes' = DOMAIN codes
      /\ \A k \in DOMAIN codes :
           /\ codes'[k].at = codes[k].at /\ codes'[k].used = codes[k].used
           /\ codes'[k].kept = codes[k].kept
           /\ k # i => codes'[k] = codes[k]
      /\ codes'[i].attempts = codes[i].attempts + 1
  BY <1>2, <1>3, <1>4 DEF Codes!Row
<1>7. RateInv'
  BY <1>4, <1>5, <1>6, CodeCounts, CodesCalls, RateStays DEF RowsStay, CodesInv
<1>8. /\ guesses' \in [Codes!Ids -> Nat] /\ guesses'[i] = guesses[i] + 1
      /\ \A k \in Codes!Ids \ {i} : guesses'[k] = guesses[k]
  BY <1>1, <1>2, <1>4
<1>9. ASSUME NEW k \in DOMAIN codes
      PROVE  /\ guesses'[k] + Cardinality(Guessing(k)') <= MAX_ATTEMPTS - 1 + Cardinality(Pair)
             /\ wins[k] > 0 => wins[k] + Cardinality(Winning(k)') <= Cardinality(Pair)
  <2>1. /\ guesses[k] + Cardinality(Guessing(k)) <= MAX_ATTEMPTS - 1 + Cardinality(Pair)
        /\ wins[k] > 0 => wins[k] + Cardinality(Winning(k)) <= Cardinality(Pair)
        /\ guesses[k] \in Nat /\ wins[k] \in Nat /\ k \in Codes!Ids
    BY <1>1, <1>2 DEF CodesInv, TryInv
  <2>2. /\ Cardinality(Guessing(k)) \in Nat /\ Cardinality(Winning(k)) \in Nat
        /\ Cardinality(Guessing(k)') = Cardinality(Guessing(k)) - (IF k = i THEN 1 ELSE 0)
        /\ Cardinality(Winning(k)') <= Cardinality(Winning(k))
    BY <1>3, <1>4, <1>5, TryCounts DEF CodesInv
  <2>3. Cardinality(Winning(k)') \in Nat
    BY CodesCalls
  <2>4. guesses'[k] = guesses[k] + (IF k = i THEN 1 ELSE 0)
    BY <1>8, <2>1
  <2>5. QED
    BY <1>1, <2>1, <2>2, <2>3, <2>4
<1>10. \A k \in Codes!Ids :
         /\ k \in DOMAIN codes =>
              guesses'[k] = codes'[k].attempts /\ (wins[k] > 0 => codes'[k].used)
         /\ k \notin DOMAIN codes => guesses'[k] = 0 /\ wins[k] = 0
  BY <1>3, <1>6, <1>8 DEF CodesInv, TryInv
<1>11. (Codes!Ids)' = Codes!Ids
  BY DEF Codes!Ids
<1>12. TryInv'
  BY <1>4, <1>6, <1>9, <1>10, <1>11 DEF TryInv
<1>13. QED
  BY <1>7, <1>12

\* A code is redeemed.
LEMMA CodesRedeem ==
  ASSUME PeopleAssumption, CodesInv, NEW c \in Pair, Codes!Redeem(c)
  PROVE  RateInv' /\ TryInv'
<1> USE DEF codeNow, codes, codeCalls, guesses, wins
<1>1. /\ codeCalls \in [Pair -> CodeCall] /\ IsFiniteSet(Pair)
      /\ guesses \in [Codes!Ids -> Nat] /\ wins \in [Codes!Ids -> Nat]
      /\ MAX_ATTEMPTS \in Nat \ {0} /\ Cardinality(Pair) \in Nat
  BY CodeSets DEF CodesInv
<1>2. PICK n \in 0..MaxCodes : /\ codes \in [1..n -> Codes!Row] /\ DOMAIN codes = 1..n
                               /\ DOMAIN codes \subseteq Codes!Ids
  BY CodeSets DEF CodesInv
<1>3. PICK i \in DOMAIN codes : codeCalls[c].code = i
  BY DEF CodesInv, CodeInv, Codes!Redeem
<1>4. /\ codeCalls[c].step = "redeem" /\ UNCHANGED <<codeNow, guesses>>
      /\ codes' = [codes EXCEPT ![i].used = TRUE]
      /\ wins' = [wins EXCEPT ![i] = @ + 1]
      /\ Codes!Go(c, "effect")
  BY <1>3 DEF Codes!Redeem
<1>5. PICK h \in CodeCall : CodeMove(c, h) /\ h.step = "effect"
  BY <1>1, <1>4, CodeGoes
<1>6. /\ DOMAIN codes' = DOMAIN codes
      /\ \A k \in DOMAIN codes :
           /\ codes'[k].at = codes[k].at /\ codes'[k].attempts = codes[k].attempts
           /\ codes'[k].kept = codes[k].kept
           /\ k # i => codes'[k] = codes[k]
      /\ codes'[i].used
  BY <1>2, <1>4 DEF Codes!Row
<1>7. RateInv'
  BY <1>4, <1>5, <1>6, CodeCounts, CodesCalls, RateStays DEF RowsStay, CodesInv
<1>8. /\ wins' \in [Codes!Ids -> Nat] /\ wins'[i] = wins[i] + 1
      /\ \A k \in Codes!Ids \ {i} : wins'[k] = wins[k]
  BY <1>1, <1>2, <1>4
<1>9. ASSUME NEW k \in DOMAIN codes
      PROVE  /\ guesses[k] + Cardinality(Guessing(k)') <= MAX_ATTEMPTS - 1 + Cardinality(Pair)
             /\ wins'[k] > 0 => wins'[k] + Cardinality(Winning(k)') <= Cardinality(Pair)
  <2>1. /\ guesses[k] + Cardinality(Guessing(k)) <= MAX_ATTEMPTS - 1 + Cardinality(Pair)
        /\ wins[k] > 0 => wins[k] + Cardinality(Winning(k)) <= Cardinality(Pair)
        /\ guesses[k] \in Nat /\ wins[k] \in Nat /\ k \in Codes!Ids
    BY <1>1, <1>2 DEF CodesInv, TryInv
  <2>2. /\ Cardinality(Guessing(k)) \in Nat /\ Cardinality(Winning(k)) \in Nat
        /\ Cardinality(Guessing(k)') <= Cardinality(Guessing(k))
        /\ Cardinality(Winning(k)') = Cardinality(Winning(k)) - (IF k = i THEN 1 ELSE 0)
    BY <1>3, <1>4, <1>5, TryCounts DEF CodesInv
  <2>3. Cardinality(Guessing(k)') \in Nat
    BY CodesCalls
  <2>4. Cardinality(Winning(k)) <= Cardinality(Pair)
    BY <1>1, Counts DEF Winning
  <2>5. wins'[k] = wins[k] + (IF k = i THEN 1 ELSE 0)
    BY <1>8, <2>1
  <2>6. QED
    BY <1>1, <2>1, <2>2, <2>3, <2>4, <2>5
<1>10. \A k \in Codes!Ids :
         /\ k \in DOMAIN codes =>
              guesses[k] = codes'[k].attempts /\ (wins'[k] > 0 => codes'[k].used)
         /\ k \notin DOMAIN codes => guesses[k] = 0 /\ wins'[k] = 0
  BY <1>3, <1>6, <1>8 DEF CodesInv, TryInv
<1>11. (Codes!Ids)' = Codes!Ids
  BY DEF Codes!Ids
<1>12. TryInv'
  BY <1>4, <1>6, <1>9, <1>10, <1>11 DEF TryInv
<1>13. QED
  BY <1>7, <1>12

\* A code is stored, of which nobody knows yet.
LEMMA CodesCreate ==
  ASSUME PeopleAssumption, CodesInv, NEW c \in Pair, Codes!Create(c)
  PROVE  RateInv' /\ TryInv'
<1> USE DEF codeNow, codes, codeCalls, guesses, wins
<1>1. /\ {COOLDOWN, WINDOW, OTP_EXPIRY, PRUNE} \subseteq Nat
      /\ MAX_CODES_PER_15MIN \in Nat \ {0}
      /\ codeCalls \in [Pair -> CodeCall] /\ IsFiniteSet(Pair)
      /\ guesses \in [Codes!Ids -> Nat] /\ wins \in [Codes!Ids -> Nat]
      /\ MAX_ATTEMPTS \in Nat \ {0} /\ Cardinality(Pair) \in Nat
      /\ codeNow \in Nat
  BY CodeSets DEF CodesInv
<1>2. PICK n \in 0..MaxCodes : /\ codes \in [1..n -> Codes!Row] /\ DOMAIN codes = 1..n
                               /\ Codes!Cardinality(DOMAIN codes) = n
                               /\ DOMAIN codes \subseteq Codes!Ids
  BY CodeSets DEF CodesInv
<1> DEFINE new == [at |-> codeNow, attempts |-> 0, used |-> FALSE, kept |-> TRUE]
<1>3. /\ codeCalls[c].step = "create" /\ n + 1 \in Codes!Ids
      /\ codes' = [k \in 1..(n + 1) |-> IF k < n + 1 THEN codes[k] ELSE new]
      /\ Codes!Go(c, "prune") /\ UNCHANGED <<codeNow, guesses, wins>>
  BY <1>2 DEF Codes!Create, Codes!history
<1>4. PICK h \in CodeCall : CodeMove(c, h) /\ h.step = "prune"
  BY <1>1, <1>3, CodeGoes
<1>5. /\ \A k \in 1..(n + 1) : k \in 1..n \/ k = n + 1
      /\ \A k \in 1..n : k \in 1..(n + 1) /\ k < n + 1
      /\ n + 1 \in 1..(n + 1) /\ n + 1 \notin 1..n
      /\ DOMAIN codes' = 1..(n + 1)
  BY <1>2, <1>3
<1>6. /\ \A k \in 1..n : codes'[k] = codes[k]
      /\ codes'[n + 1] = new
  BY <1>2, <1>3, <1>5
<1>7. /\ new.at = codeNow /\ new.attempts = 0 /\ ~new.used /\ new.kept
  OBVIOUS
<1> HIDE DEF new
<1>8. /\ IsFiniteSet(1..(n + 1)) /\ Cardinality({n + 1}) = 1
      /\ \A S \in SUBSET (1..n) :
           /\ Cardinality(S) \in Nat /\ Cardinality(S \cup {n + 1}) = Cardinality(S) + 1
           /\ \A T \in SUBSET (S \cup {n + 1}) :
                Cardinality(T) \in Nat /\ Cardinality(T) <= Cardinality(S) + 1
  <2>1. IsFiniteSet(1..(n + 1))
    BY <1>2, FS_Interval
  <2>2. ASSUME NEW S \in SUBSET (1..n)
        PROVE  /\ Cardinality(S) \in Nat /\ Cardinality(S \cup {n + 1}) = Cardinality(S) + 1
               /\ \A T \in SUBSET (S \cup {n + 1}) :
                    Cardinality(T) \in Nat /\ Cardinality(T) <= Cardinality(S) + 1
    <3>1. S \in SUBSET (1..(n + 1)) /\ n + 1 \in (1..(n + 1)) \ S
          /\ S \cup {n + 1} \in SUBSET (1..(n + 1))
      BY <1>5
    <3>2. Cardinality(S) \in Nat /\ Cardinality(S \cup {n + 1}) = Cardinality(S) + 1
      <4>1. \A x \in (1..(n + 1)) \ S : Cardinality(S \cup {x}) = Cardinality(S) + 1
        BY <2>1, <3>1, Counts
      <4>2. Cardinality(S) \in Nat
        BY <2>1, <3>1, Counts
      <4>3. QED
        BY <3>1, <4>1, <4>2
    <3>3. ASSUME NEW T \in SUBSET (S \cup {n + 1})
          PROVE  Cardinality(T) \in Nat /\ Cardinality(T) <= Cardinality(S \cup {n + 1})
      <4>1. Cardinality(T) <= Cardinality(S \cup {n + 1})
        BY <2>1, <3>1, Counts
      <4>2. T \in SUBSET (1..(n + 1))
        BY <3>1
      <4>3. QED
        BY <2>1, <4>1, <4>2, Counts
    <3>4. QED
      BY <3>2, <3>3
  <2>3. QED
    BY <2>1, <2>2, FS_Singleton
<1>9. /\ Cardinality(Asking) \in Nat /\ Cardinality(Coming) \in Nat
      /\ Cardinality(Making) \in Nat
      /\ Cardinality(Asking') = Cardinality(Asking) - 1
      /\ Cardinality(Coming') = Cardinality(Coming) - 1
      /\ Cardinality(Making') = Cardinality(Making) - 1
  <2>1. /\ codeCalls[c].step \in {"window", "invalidate", "create"}
        /\ codeCalls[c].step \in {"invalidate", "create"} /\ codeCalls[c].step = "create"
        /\ h.step \notin {"window", "invalidate", "create"}
        /\ h.step \notin {"invalidate", "create"} /\ h.step # "create"
    BY <1>3, <1>4
  <2>2. /\ Cardinality(Asking) \in Nat /\ Cardinality(Coming) \in Nat
        /\ Cardinality(Making) \in Nat
        /\ Cardinality(Asking') = Cardinality(Asking) + 0 - 1
        /\ Cardinality(Coming') = Cardinality(Coming) + 0 - 1
        /\ Cardinality(Making') = Cardinality(Making) + 0 - 1
    BY <1>4, <2>1, CodeCounts DEF CodesInv
  <2>3. QED
    BY <2>2
<1>10. RateInv'
  <2>1. /\ Fresh(COOLDOWN) \in SUBSET (1..n) /\ Fresh(WINDOW) \in SUBSET (1..n)
        /\ Unspent \in SUBSET (1..n)
    BY <1>2 DEF Fresh, Unspent
  <2>2. /\ Fresh(COOLDOWN)' \in SUBSET (Fresh(COOLDOWN) \cup {n + 1})
        /\ Fresh(WINDOW)' \in SUBSET (Fresh(WINDOW) \cup {n + 1})
        /\ Unspent' \in SUBSET (Unspent \cup {n + 1})
    BY <1>2, <1>3, <1>5, <1>6 DEF Fresh, Unspent
  <2>3. /\ Cardinality(Fresh(COOLDOWN)) \in Nat
        /\ Cardinality(Fresh(COOLDOWN)') \in Nat
        /\ Cardinality(Fresh(COOLDOWN)') <= Cardinality(Fresh(COOLDOWN)) + 1
    BY <1>8, <2>1, <2>2
  <2>4. /\ Cardinality(Fresh(WINDOW)) \in Nat
        /\ Cardinality(Fresh(WINDOW)') \in Nat
        /\ Cardinality(Fresh(WINDOW)') <= Cardinality(Fresh(WINDOW)) + 1
    BY <1>8, <2>1, <2>2
  <2>5. /\ Cardinality(Unspent) \in Nat
        /\ Cardinality(Unspent') \in Nat
        /\ Cardinality(Unspent') <= Cardinality(Unspent) + 1
    BY <1>8, <2>1, <2>2
  <2>6. \A k \in DOMAIN codes' : ~codes'[k].kept => codes'[k].at + OTP_EXPIRY + PRUNE < codeNow'
    BY <1>2, <1>3, <1>5, <1>6, <1>7 DEF CodesInv, RateInv
  <2>7. /\ Cardinality(Fresh(COOLDOWN)) + Cardinality(Asking) <= Cardinality(Pair)
        /\ Cardinality(Fresh(WINDOW)) + Cardinality(Coming)
             <= MAX_CODES_PER_15MIN - 1 + Cardinality(Pair)
        /\ Cardinality(Unspent) + Cardinality(Making) <= Cardinality(Pair)
    BY DEF CodesInv, RateInv
  <2>8. Cardinality(Fresh(COOLDOWN)') + Cardinality(Asking') <= Cardinality(Pair)
    BY <1>1, <1>9, <2>3, <2>7
  <2>9. Cardinality(Fresh(WINDOW)') + Cardinality(Coming')
          <= MAX_CODES_PER_15MIN - 1 + Cardinality(Pair)
    BY <1>1, <1>9, <2>4, <2>7
  <2>10. Cardinality(Unspent') + Cardinality(Making') <= Cardinality(Pair)
    BY <1>1, <1>9, <2>5, <2>7
  <2>11. QED
    BY <2>6, <2>8, <2>9, <2>10 DEF RateInv
<1>11. /\ guesses[n + 1] = 0 /\ wins[n + 1] = 0
  BY <1>2, <1>3, <1>5 DEF CodesInv, TryInv
<1>12. Guessing(n + 1)' = {}
  BY <1>1, <1>2, <1>4, <1>5 DEF Guessing, CodesInv, CodeInv, CodeMove
<1>13. ASSUME NEW k \in 1..n
       PROVE  /\ guesses[k] + Cardinality(Guessing(k)') <= MAX_ATTEMPTS - 1 + Cardinality(Pair)
              /\ wins[k] > 0 => wins[k] + Cardinality(Winning(k)') <= Cardinality(Pair)
  <2>1. /\ guesses[k] + Cardinality(Guessing(k)) <= MAX_ATTEMPTS - 1 + Cardinality(Pair)
        /\ wins[k] > 0 => wins[k] + Cardinality(Winning(k)) <= Cardinality(Pair)
        /\ guesses[k] \in Nat /\ wins[k] \in Nat /\ k \in Codes!Ids
    BY <1>1, <1>2 DEF CodesInv, TryInv
  <2>2. /\ Cardinality(Guessing(k)) \in Nat /\ Cardinality(Winning(k)) \in Nat
        /\ Cardinality(Guessing(k)') = Cardinality(Guessing(k))
        /\ Cardinality(Winning(k)') = Cardinality(Winning(k))
    BY <1>3, <1>4, TryCounts DEF CodesInv
  <2>3. QED
    BY <2>1, <2>2
<1>14. TryInv'
  <2>1. \A k \in Codes!Ids :
          /\ k \in 1..(n + 1) =>
               guesses[k] = codes'[k].attempts /\ (wins[k] > 0 => codes'[k].used)
          /\ k \notin 1..(n + 1) => guesses[k] = 0 /\ wins[k] = 0
    BY <1>2, <1>5, <1>6, <1>7, <1>11 DEF CodesInv, TryInv
  <2>2. /\ guesses[n + 1] + Cardinality(Guessing(n + 1)') <= MAX_ATTEMPTS - 1 + Cardinality(Pair)
        /\ ~(wins[n + 1] > 0)
    BY <1>1, <1>11, <1>12, FS_EmptySet
  <2>3. (Codes!Ids)' = Codes!Ids
    BY DEF Codes!Ids
  <2>4. QED
    BY <1>3, <1>5, <1>13, <2>1, <2>2, <2>3 DEF TryInv
<1>15. QED
  BY <1>10, <1>14

\* Time passes, while no call runs.
LEMMA CodesTick ==
  ASSUME PeopleAssumption, CodesInv, Codes!Tick
  PROVE  RateInv' /\ TryInv'
<1> USE DEF codeNow, codes, codeCalls, guesses, wins
<1>1. /\ codeNow' = codeNow + 1 /\ \A c \in Pair : codeCalls[c] = Codes!Idle
      /\ UNCHANGED <<codes, codeCalls, guesses, wins>>
  BY DEF Codes!Tick, Codes!history
<1>2. /\ {COOLDOWN, WINDOW, OTP_EXPIRY, PRUNE} \subseteq Nat /\ codeNow \in Nat
      /\ MAX_CODES_PER_15MIN \in Nat \ {0} /\ Cardinality(Pair) \in Nat
  BY CodeSets DEF CodesInv
<1>3. PICK n \in 0..MaxCodes : /\ codes \in [1..n -> Codes!Row] /\ DOMAIN codes = 1..n
                               /\ IsFiniteSet(DOMAIN codes)
  BY CodeSets DEF CodesInv
<1>4. \A i \in 1..n : codes[i].at \in Nat
  BY <1>3 DEF Codes!Row
<1>5. /\ Asking' = Asking /\ Coming' = Coming /\ Making' = Making
      /\ \A i : Guessing(i)' = Guessing(i) /\ Winning(i)' = Winning(i)
  BY <1>1 DEF Asking, Coming, Making, Guessing, Winning
<1>6. /\ Fresh(COOLDOWN)' \in SUBSET Fresh(COOLDOWN) /\ Fresh(WINDOW)' \in SUBSET Fresh(WINDOW)
      /\ Unspent' = Unspent
  <2>1. ASSUME NEW w \in {COOLDOWN, WINDOW} PROVE Fresh(w)' \in SUBSET Fresh(w)
    <3>1. ASSUME NEW i \in 1..n, codes[i].at + w >= codeNow + 1
          PROVE  codes[i].at + w >= codeNow
      BY <1>2, <1>4, <3>1
    <3>2. QED
      BY <1>1, <1>3, <3>1 DEF Fresh
  <2>2. Unspent' = Unspent
    BY <1>1 DEF Unspent
  <2>3. QED
    BY <2>1, <2>2
<1>7. /\ Cardinality(Fresh(COOLDOWN)) \in Nat /\ Cardinality(Fresh(COOLDOWN)') \in Nat
      /\ Cardinality(Fresh(WINDOW)) \in Nat /\ Cardinality(Fresh(WINDOW)') \in Nat
      /\ Cardinality(Fresh(COOLDOWN)') <= Cardinality(Fresh(COOLDOWN))
      /\ Cardinality(Fresh(WINDOW)') <= Cardinality(Fresh(WINDOW))
  <2>1. Fresh(COOLDOWN) \in SUBSET (DOMAIN codes) /\ Fresh(WINDOW) \in SUBSET (DOMAIN codes)
    BY DEF Fresh
  <2>2. Fresh(COOLDOWN)' \in SUBSET (DOMAIN codes) /\ Fresh(WINDOW)' \in SUBSET (DOMAIN codes)
    BY <1>6, <2>1
  <2>3. /\ Cardinality(Fresh(COOLDOWN)) \in Nat /\ Cardinality(Fresh(WINDOW)) \in Nat
        /\ Cardinality(Fresh(COOLDOWN)') \in Nat /\ Cardinality(Fresh(WINDOW)') \in Nat
    BY <1>3, <2>1, <2>2, Counts
  <2>4. Cardinality(Fresh(COOLDOWN)') <= Cardinality(Fresh(COOLDOWN))
    BY <1>3, <1>6, <2>1, Counts
  <2>5. Cardinality(Fresh(WINDOW)') <= Cardinality(Fresh(WINDOW))
    BY <1>3, <1>6, <2>1, Counts
  <2>6. QED
    BY <2>3, <2>4, <2>5
<1>8. RateInv'
  <2>1. ASSUME NEW i \in DOMAIN codes', ~codes'[i].kept
        PROVE  codes'[i].at + OTP_EXPIRY + PRUNE < codeNow'
    <3>1. codes'[i] = codes[i] /\ codes[i].at + OTP_EXPIRY + PRUNE < codeNow
      BY <1>1, <2>1 DEF CodesInv, RateInv
    <3>2. codes[i].at \in Nat
      BY <1>1, <1>3, <1>4
    <3>3. QED
      BY <1>1, <1>2, <3>1, <3>2
  <2>2. /\ Cardinality(Fresh(COOLDOWN)) + Cardinality(Asking) <= Cardinality(Pair)
        /\ Cardinality(Fresh(WINDOW)) + Cardinality(Coming)
             <= MAX_CODES_PER_15MIN - 1 + Cardinality(Pair)
        /\ Cardinality(Unspent') + Cardinality(Making') <= Cardinality(Pair)
    BY <1>5, <1>6 DEF CodesInv, RateInv
  <2>3. Cardinality(Asking) \in Nat /\ Cardinality(Coming) \in Nat
    BY CodeSets, Counts DEF CodesInv
  <2>4. /\ Cardinality(Fresh(COOLDOWN)') + Cardinality(Asking) <= Cardinality(Pair)
        /\ Cardinality(Fresh(WINDOW)') + Cardinality(Coming)
             <= MAX_CODES_PER_15MIN - 1 + Cardinality(Pair)
    BY <1>2, <1>7, <2>2, <2>3
  <2>5. QED
    BY <1>5, <2>1, <2>2, <2>4 DEF RateInv
<1>9. TryInv'
  BY <1>1, <1>5, CodesCalls, TryStays DEF CodesInv
<1>10. QED
  BY <1>8, <1>9

LEMMA CodesNext ==
  ASSUME PeopleAssumption, CodesInv, Codes!Next
  PROVE  CodesInv' /\ Codes!BackedStep
<1> USE DEF codeNow, codes, codeCalls, guesses, wins
<1>1. CodeInv' /\ Codes!BackedStep
  BY CodeNext DEF CodesInv
<1>2. /\ codeCalls \in [Pair -> CodeCall] /\ Codes!Idle \in CodeCall /\ Codes!Idle.step = "idle"
      /\ codeNow \in Nat
  BY CodeSets DEF CodesInv, CodeCall, Codes!Idle
<1>3. PICK n \in 0..MaxCodes : /\ codes \in [1..n -> Codes!Row] /\ DOMAIN codes = 1..n
                               /\ DOMAIN codes \subseteq Codes!Ids
  BY CodeSets DEF CodesInv
<1>4. /\ Codes!Since(COOLDOWN) = Fresh(COOLDOWN)
      /\ Codes!Cardinality(Codes!Since(WINDOW)) = Cardinality(Fresh(WINDOW))
      /\ Codes!Unused = Unspent
  BY CodeWindows DEF CodesInv
<1>5. ASSUME NEW c \in Pair, Codes!End(c), UNCHANGED <<codeNow, codes, guesses, wins>>
      PROVE  RateInv' /\ TryInv'
  BY <1>2, <1>5, CodeQuiet DEF Codes!End, CodeMove
<1>6. ASSUME NEW c \in Pair, Codes!Request(c) PROVE RateInv' /\ TryInv'
  <2> DEFINE h == [step |-> "window"]
  <2>1. h \in CodeCall /\ h.step = "window"
    BY DEF CodeCall
  <2>2. CodeMove(c, h) /\ Fresh(COOLDOWN) = {} /\ UNCHANGED <<codeNow, codes, guesses, wins>>
    BY <1>4, <1>6 DEF Codes!Request, Codes!history, CodeMove
  <2> HIDE DEF h
  <2>3. QED
    BY <2>1, <2>2, CodeQuiet
<1>7. ASSUME NEW c \in Pair, Codes!CountWindow(c) PROVE RateInv' /\ TryInv'
  <2>1. codeCalls[c].step = "window" /\ UNCHANGED <<codeNow, codes, guesses, wins>>
    BY <1>7 DEF Codes!CountWindow, Codes!history
  <2>2. CASE Codes!End(c)
    BY <1>5, <2>1, <2>2
  <2>3. CASE ~(Cardinality(Fresh(WINDOW)) >= MAX_CODES_PER_15MIN) /\ Codes!Go(c, "invalidate")
    <3>1. PICK h \in CodeCall : CodeMove(c, h) /\ h.step = "invalidate"
      BY <1>2, <2>1, <2>3, CodeGoes
    <3>2. Cardinality(Fresh(WINDOW)) < MAX_CODES_PER_15MIN
      <4>1. MAX_CODES_PER_15MIN \in Nat
        BY CodeSets DEF CodesInv
      <4>2. Cardinality(Fresh(WINDOW)) \in Nat
        BY CodeSets, Counts DEF CodesInv, Fresh
      <4>3. QED
        BY <2>3, <4>1, <4>2
    <3>3. QED
      BY <2>1, <3>1, <3>2, CodeQuiet
  <2>4. QED
    BY <1>4, <1>7, <2>2, <2>3 DEF Codes!CountWindow
<1>8. ASSUME NEW c \in Pair, Codes!Invalidate(c) PROVE RateInv' /\ TryInv'
  <2>1. /\ codeCalls[c].step = "invalidate" /\ UNCHANGED <<codeNow, guesses, wins>>
        /\ codes' = [i \in 1..n |-> [codes[i] EXCEPT !.used = TRUE]]
        /\ Codes!Go(c, "create")
    BY <1>3, <1>8 DEF Codes!Invalidate, Codes!history
  <2>2. PICK h \in CodeCall : CodeMove(c, h) /\ h.step = "create"
    BY <1>2, <2>1, CodeGoes
  <2>3. /\ DOMAIN codes' = DOMAIN codes
        /\ \A i \in DOMAIN codes :
             /\ codes'[i].at = codes[i].at /\ codes'[i].attempts = codes[i].attempts
             /\ codes'[i].used /\ codes'[i].kept = codes[i].kept
    BY <1>3, <2>1 DEF Codes!Row
  <2>4. RowsStay
    BY <2>1, <2>3 DEF RowsStay
  <2>5. Unspent' = {}
    BY <2>3 DEF Unspent
  <2>6. QED
    BY <2>1, <2>2, <2>3, <2>4, <2>5, CodesSwept
<1>9. ASSUME NEW c \in Pair, Codes!Prune(c) PROVE RateInv' /\ TryInv'
  <2>1. /\ UNCHANGED <<codeNow, guesses, wins>>
        /\ codes' = [i \in 1..n |-> [codes[i] EXCEPT !.kept =
                       codes[i].kept /\ codes[i].at + OTP_EXPIRY + PRUNE >= codeNow]]
        /\ Codes!End(c)
    BY <1>3, <1>9 DEF Codes!Prune, Codes!history
  <2>2. CodeMove(c, Codes!Idle)
    BY <2>1 DEF Codes!End, CodeMove
  <2>3. /\ DOMAIN codes' = DOMAIN codes
        /\ \A i \in DOMAIN codes :
             /\ codes'[i].at = codes[i].at /\ codes'[i].attempts = codes[i].attempts
             /\ codes'[i].used = codes[i].used
             /\ codes'[i].kept <=>
                  codes[i].kept /\ codes[i].at + OTP_EXPIRY + PRUNE >= codeNow
    BY <1>3, <2>1 DEF Codes!Row
  <2>4. RowsStay
    <3>1. \A i \in DOMAIN codes : codes[i].at + OTP_EXPIRY + PRUNE >= codeNow
                                    \/ codes[i].at + OTP_EXPIRY + PRUNE < codeNow
      <4>1. OTP_EXPIRY \in Nat /\ PRUNE \in Nat
        BY CodeSets DEF CodesInv
      <4>2. \A i \in DOMAIN codes : codes[i].at \in Nat
        BY <1>3 DEF Codes!Row
      <4>3. QED
        BY <1>2, <4>1, <4>2
    <3>2. QED
      BY <2>1, <2>3, <3>1 DEF RowsStay
  <2>5. QED
    BY <1>2, <2>1, <2>2, <2>3, <2>4, CodesSwept
<1>10. ASSUME NEW c \in Pair, Codes!Find(c) PROVE RateInv' /\ TryInv'
  <2>1. PICK i \in Unspent :
          /\ codes[i].attempts < MAX_ATTEMPTS
          /\ codeCalls' = [codeCalls EXCEPT ![c] = [step |-> "attempt", code |-> i]]
          /\ UNCHANGED <<codeNow, codes, guesses, wins>>
    BY <1>4, <1>10 DEF Codes!Find, Codes!history
  <2> DEFINE h == [step |-> "attempt", code |-> i]
  <2>2. h \in CodeCall /\ h.step = "attempt" /\ h.code = i /\ ~codes[i].used
    BY <1>3, <2>1 DEF CodeCall, Unspent
  <2>3. CodeMove(c, h)
    BY <2>1 DEF CodeMove
  <2> HIDE DEF h
  <2>4. QED
    BY <2>1, <2>2, <2>3, CodeQuiet
<1>11. ASSUME NEW c \in Pair, Codes!Effect(c) \/ Codes!Fail(c) PROVE RateInv' /\ TryInv'
  BY <1>5, <1>11 DEF Codes!Effect, Codes!Fail, Codes!history
<1>12. ASSUME Codes!ChangePin PROVE RateInv' /\ TryInv'
  <2>1. UNCHANGED <<codeNow, codes, codeCalls, guesses, wins>>
    BY <1>12 DEF Codes!ChangePin, Codes!history
  <2>2. /\ Asking' = Asking /\ Coming' = Coming /\ Making' = Making
        /\ \A i : Guessing(i)' = Guessing(i) /\ Winning(i)' = Winning(i)
    BY <2>1 DEF Asking, Coming, Making, Guessing, Winning
  <2>3. RowsStay
    BY <2>1 DEF RowsStay
  <2>4. /\ Cardinality(Asking') <= Cardinality(Asking)
        /\ Cardinality(Coming') <= Cardinality(Coming)
        /\ Cardinality(Making') <= Cardinality(Making)
    BY <2>2, CodesCalls
  <2>5. RateInv'
    BY <2>3, <2>4, CodesCalls, RateStays DEF CodesInv
  <2>6. \A i : /\ Cardinality(Guessing(i)') \in Nat /\ Cardinality(Winning(i)') \in Nat
               /\ Cardinality(Guessing(i)') = Cardinality(Guessing(i))
               /\ Cardinality(Winning(i)') = Cardinality(Winning(i))
               /\ Cardinality(Guessing(i)') <= Cardinality(Pair)
    BY <2>2, CodesCalls
  <2>7. TryInv'
    BY <2>1, <2>6, TryStays DEF CodesInv
  <2>8. QED
    BY <2>5, <2>7
<1>13. RateInv' /\ TryInv'
  BY <1>6, <1>7, <1>8, <1>9, <1>10, <1>11, <1>12, CodesCreate, CodesAttempt, CodesRedeem,
     CodesTick DEF Codes!Next
<1>14. QED
  BY <1>1, <1>13 DEF CodesInv

LEMMA CodesInit == ASSUME PeopleAssumption, Codes!Init PROVE CodesInv
<1> USE DEF codeNow, codes, codeCalls, guesses, wins
<1>1. CodeInv
  BY CodeInit
<1>2. /\ MAX_CODES_PER_15MIN \in Nat \ {0} /\ Cardinality(Pair) \in Nat
  BY <1>1, CodeSets
<1>3. DOMAIN codes = {} /\ \A c \in Pair : codeCalls[c].step = "idle"
  BY DEF Codes!Init, Codes!Idle
<1>4. /\ Fresh(COOLDOWN) = {} /\ Fresh(WINDOW) = {} /\ Unspent = {}
      /\ Asking = {} /\ Coming = {} /\ Making = {}
  BY <1>3 DEF Fresh, Unspent, Asking, Coming, Making
<1>5. Cardinality({}) = 0
  BY FS_EmptySet
<1>6. RateInv
  BY <1>2, <1>3, <1>4, <1>5 DEF RateInv
<1>7. TryInv
  BY <1>3 DEF TryInv, Codes!Init
<1>8. QED
  BY <1>1, <1>6, <1>7 DEF CodesInv

LEMMA CodesMeans ==
  ASSUME PeopleAssumption, CodesInv
  PROVE  /\ Codes!IssueRateBounded /\ Codes!LiveCodesBounded
         /\ Codes!GuessesBounded /\ Codes!RedeemedOncePerCall
<1>1. /\ Codes!At("create") \cup Codes!At("invalidate") = Coming
      /\ Codes!At("create") = Making
      /\ \A w : Codes!Drawn(w) = Fresh(w)
      /\ \A i : {c \in Codes!At("attempt") : codeCalls[c].code = i} = Guessing(i)
      /\ \A i : {c \in Codes!At("attempt") \cup Codes!At("redeem") : codeCalls[c].code = i}
                  = Winning(i)
  BY DEF Codes!At, Codes!Drawn, Coming, Making, Fresh, Guessing, Winning, codeCalls, codes, codeNow
<1>2. Codes!Unused = Unspent
  BY CodeWindows DEF CodesInv
<1>3. \A S : Codes!Cardinality(S) = Cardinality(S)
  BY SameCounts
<1>4. /\ Cardinality(Asking) \in Nat /\ Cardinality(Coming) \in Nat
      /\ Cardinality(Coming) <= Cardinality(Asking)
  BY CodeSets, Counts DEF CodesInv, Coming, Asking
<1>5. Codes!IssueRateBounded
  <2>1. /\ Cardinality(Fresh(COOLDOWN)) + Cardinality(Asking) <= Cardinality(Pair)
        /\ Cardinality(Fresh(WINDOW)) + Cardinality(Coming)
             <= MAX_CODES_PER_15MIN - 1 + Cardinality(Pair)
    BY DEF CodesInv, RateInv
  <2>2. Cardinality(Fresh(COOLDOWN)) \in Nat /\ Cardinality(Pair) \in Nat
    BY CodeSets, Counts DEF CodesInv, Fresh
  <2>3. Cardinality(Fresh(COOLDOWN)) + Cardinality(Coming) <= Cardinality(Pair)
    BY <1>4, <2>1, <2>2
  <2>4. QED
    BY <1>1, <1>3, <2>1, <2>3 DEF Codes!IssueRateBounded
<1>6. Codes!LiveCodesBounded
  BY <1>1, <1>2, <1>3 DEF CodesInv, RateInv, Codes!LiveCodesBounded
<1>7. Codes!GuessesBounded
  BY <1>1, <1>3 DEF CodesInv, TryInv, Codes!GuessesBounded, codes, guesses, codeCalls
<1>8. Codes!RedeemedOncePerCall
  BY <1>1, <1>3 DEF CodesInv, TryInv, Codes!RedeemedOncePerCall, codes, wins, codeCalls
<1>9. QED
  BY <1>5, <1>6, <1>7, <1>8
(***************************************************************************)
(* Verification: the requests of a user and what became of them.           *)
(***************************************************************************)
today == s1
verified == s2
requests == s3
caseCalls == s4
verdicts == s5

Asked == DOMAIN requests
Waiting == {i \in Asked : requests[i].status = "pending"}
Settled == Asked \ Waiting
Creating == {c \in Pair : caseCalls[c].step = "create"}
OpenOn(i) == {c \in Pair : caseCalls[c].step \in {"decide", "notify"} /\ caseCalls[c].id = i}
ToldOf(i) == {c \in Pair : caseCalls[c].step = "notify" /\ caseCalls[c].id = i}

\* The newest request that is left does not wait for an answer.
MayAsk == \A i \in Waiting : \E j \in Asked : j > i /\ requests[j].status # "deleted"

\* Each settled request lets every call ask once more, and if the way is open
\* none has used the last chance yet.
QueueInv ==
  /\ Cardinality(Waiting) + Cardinality(Creating)
       <= Cardinality(Pair) * (1 + Cardinality(Settled))
  /\ MayAsk => Cardinality(Waiting) <= Cardinality(Pair) * Cardinality(Settled)

\* A request is opened while it waits, so before anyone has told of it.
VerdictInv ==
  \A i \in Cases!Ids :
    /\ verdicts[i] + Cardinality(OpenOn(i)) <= Cardinality(Pair)
    /\ i \notin Settled => verdicts[i] = 0 /\ ToldOf(i) = {}
    /\ OpenOn(i) # {} => i \in Asked

CaseInv == Cases!TypeOK /\ QueueInv /\ VerdictInv

CaseCall == {Cases!Idle} \cup [step : {"lookup", "create"}]
              \cup [step : {"decide", "notify"}, id : Cases!Ids, verdict : Cases!Verdict]

CaseRow == [status : {"pending", "deleted"} \cup Cases!Verdict, on : 0..CaseTime]

LEMMA CaseFacts ==
  ASSUME PeopleAssumption, Cases!TypeOK
  PROVE  /\ IsFiniteSet(Pair) /\ Cardinality(Pair) \in Nat
         /\ MaxRequests \in Nat /\ CaseTime \in Nat
         /\ Asked \in SUBSET Cases!Ids
         /\ Cardinality(Asked) \in 0..MaxRequests /\ Asked = 1..Cardinality(Asked)
         /\ requests \in [Asked -> CaseRow] /\ caseCalls \in [Pair -> CaseCall]
         /\ verdicts \in [Cases!Ids -> Nat]
         /\ IsFiniteSet(Waiting) /\ IsFiniteSet(Settled)
         /\ Cardinality(Waiting) \in Nat /\ Cardinality(Settled) \in Nat
         /\ Creating \in SUBSET Pair /\ Cardinality(Creating) \in Nat
         /\ \A i \in Cases!Ids : /\ OpenOn(i) \in SUBSET Pair /\ ToldOf(i) \in SUBSET OpenOn(i)
                                 /\ Cardinality(OpenOn(i)) \in Nat
<1>1. IsFiniteSet(Pair) /\ MaxRequests \in Nat /\ CaseTime \in Nat
  BY SameCounts DEF PeopleAssumption, Cases!CaseAssumption
<1>2. PICK n \in 0..MaxRequests : requests \in [1..n -> CaseRow]
  BY DEF Cases!TypeOK, CaseRow, requests
<1>3. Asked = 1..n /\ IsFiniteSet(Asked) /\ Cardinality(Asked) = n /\ n \in Nat
  BY <1>1, <1>2, FS_Interval DEF Asked
<1>4. Asked \in SUBSET Cases!Ids
  BY <1>1, <1>2, <1>3 DEF Cases!Ids
<1>5. Waiting \in SUBSET Asked /\ Settled \in SUBSET Asked
  BY DEF Waiting, Settled
<1>6. /\ IsFiniteSet(Waiting) /\ IsFiniteSet(Settled)
      /\ Cardinality(Waiting) \in Nat /\ Cardinality(Settled) \in Nat
  BY <1>3, <1>5, Counts
<1>7. Creating \in SUBSET Pair /\ Cardinality(Creating) \in Nat /\ Cardinality(Pair) \in Nat
  BY <1>1, Counts DEF Creating
<1>8. \A i \in Cases!Ids : OpenOn(i) \in SUBSET Pair /\ ToldOf(i) \in SUBSET OpenOn(i)
  BY DEF OpenOn, ToldOf
<1>9. \A i \in Cases!Ids : Cardinality(OpenOn(i)) \in Nat
  BY <1>1, <1>8, Counts
<1>10. caseCalls \in [Pair -> CaseCall] /\ verdicts \in [Cases!Ids -> Nat]
  BY DEF Cases!TypeOK, CaseCall, caseCalls, verdicts
<1>11. QED
  BY <1>1, <1>2, <1>3, <1>4, <1>6, <1>7, <1>8, <1>9, <1>10

\* The part's own names for all this.
LEMMA CaseMeans ==
  ASSUME PeopleAssumption, CaseInv
  PROVE  Cases!QueueGrowsByDecisions /\ Cases!VerdictsBounded
<1> USE DEF requests, caseCalls, verdicts
<1>1. Cases!Pending = Waiting /\ Cases!CallsAt("create") = Creating
      /\ DOMAIN s3 \ Cases!Pending = Settled
  BY DEF Cases!Pending, Cases!Kept, Waiting, Cases!CallsAt, Creating, Settled, Asked
<1>2. Cases!QueueGrowsByDecisions
  BY <1>1, SameCounts DEF Cases!QueueGrowsByDecisions, CaseInv, QueueInv
<1>3. \A i \in DOMAIN s3 :
        {c \in Cases!CallsAt("decide") \cup Cases!CallsAt("notify") : s4[c].id = i} = OpenOn(i)
  BY DEF OpenOn, Cases!CallsAt
<1>4. \A i \in DOMAIN s3 : i \in Cases!Ids
  BY CaseFacts DEF CaseInv, Asked
<1>5. Cases!VerdictsBounded
  BY <1>3, <1>4, SameCounts DEF Cases!VerdictsBounded, CaseInv, VerdictInv
<1>6. QED
  BY <1>2, <1>5

LEMMA CaseInit == ASSUME PeopleAssumption, Cases!Init PROVE CaseInv
<1> USE DEF Cases!Init, Cases!Idle, today, verified, requests, caseCalls, verdicts
<1>1. IsFiniteSet(Pair) /\ MaxRequests \in Nat /\ CaseTime \in Nat
  BY SameCounts DEF PeopleAssumption, Cases!CaseAssumption
<1>2. Cases!TypeOK
  <2>1. /\ requests \in [1..0 -> CaseRow] /\ 0 \in 0..MaxRequests
        /\ today \in 0..CaseTime
    BY <1>1
  <2>2. caseCalls \in [Pair -> {Cases!Idle}] /\ verdicts \in [Cases!Ids -> Nat]
    OBVIOUS
  <2>3. QED
    BY <2>1, <2>2 DEF Cases!TypeOK, CaseRow
<1>3. Asked = {} /\ Waiting = {} /\ Settled = {} /\ Creating = {}
      /\ \A i \in Cases!Ids : OpenOn(i) = {} /\ ToldOf(i) = {}
  BY DEF Asked, Waiting, Settled, Creating, OpenOn, ToldOf
<1>4. Cardinality({}) = 0 /\ Cardinality(Pair) \in Nat
  BY <1>1, FS_EmptySet, FS_CardinalityType
<1>5. QueueInv
  BY <1>3, <1>4 DEF QueueInv
<1>6. VerdictInv
  <2>1. \A i \in Cases!Ids : verdicts[i] = 0 /\ Cardinality(OpenOn(i)) = 0
    BY <1>3, <1>4
  <2>2. QED
    BY <1>3, <1>4, <2>1 DEF VerdictInv
<1>7. QED
  BY <1>2, <1>5, <1>6 DEF CaseInv

\* What a step of a call does to the calls.
OnlyCaseCall(c) == \A d \in Pair \ {c} : caseCalls'[d] = caseCalls[d]

LEMMA CasePut ==
  ASSUME Cases!TypeOK, NEW c \in Pair, NEW h \in CaseCall,
         caseCalls' = [caseCalls EXCEPT ![c] = h]
  PROVE  OnlyCaseCall(c) /\ caseCalls'[c] = h /\ caseCalls' \in [Pair -> CaseCall]
  BY DEF OnlyCaseCall, Cases!TypeOK, CaseCall, caseCalls

\* What a call does to the sets of calls.
LEMMA CaseSets ==
  ASSUME NEW c \in Pair, OnlyCaseCall(c)
  PROVE  /\ caseCalls'[c].step = "create" => Creating' = Creating \cup {c}
         /\ caseCalls'[c].step # "create" => Creating' = Creating \ {c}
         /\ \A i \in Cases!Ids :
              /\ IF caseCalls'[c].step \in {"decide", "notify"} /\ caseCalls'[c].id = i
                 THEN OpenOn(i)' = OpenOn(i) \cup {c} ELSE OpenOn(i)' = OpenOn(i) \ {c}
              /\ IF caseCalls'[c].step = "notify" /\ caseCalls'[c].id = i
                 THEN ToldOf(i)' = ToldOf(i) \cup {c} ELSE ToldOf(i)' = ToldOf(i) \ {c}
  BY DEF OnlyCaseCall, Creating, OpenOn, ToldOf

LEMMA CaseTypes ==
  ASSUME PeopleAssumption, Cases!TypeOK, Cases!Next
  PROVE  Cases!TypeOK'
<1> USE DEF today, verified, requests, caseCalls, verdicts
<1>0. /\ MaxRequests \in Nat /\ CaseTime \in Nat
      /\ caseCalls \in [Pair -> CaseCall] /\ verdicts \in [Cases!Ids -> Nat]
      /\ requests \in [Asked -> CaseRow]
      /\ Cardinality(Asked) \in 0..MaxRequests /\ Asked = 1..Cardinality(Asked)
      /\ Asked \in SUBSET Cases!Ids /\ today \in 0..CaseTime
  BY CaseFacts DEF Cases!TypeOK
<1>1. /\ verified' \in BOOLEAN
      /\ today' \in 0..CaseTime
  <2>1. today' = today \/ (today < CaseTime /\ today' = today + 1)
    BY DEF Cases!Next, Cases!ReadUser, Cases!Lookup, Cases!Create, Cases!Review,
       Cases!Decide, Cases!Notify, Cases!Fail, Cases!DeleteMany, Cases!ChangePhone, Cases!Tick
  <2>2. verified' = verified \/ verified' = FALSE
          \/ \E v : verified' = (verified \/ v = "approved")
    BY DEF Cases!Next, Cases!ReadUser, Cases!Lookup, Cases!Create, Cases!Review,
       Cases!Decide, Cases!Notify, Cases!Fail, Cases!DeleteMany, Cases!ChangePhone, Cases!Tick
  <2>3. verified \in BOOLEAN
    BY DEF Cases!TypeOK
  <2>4. verified' \in BOOLEAN
    BY <2>2, <2>3
  <2>5. QED
    BY <1>0, <2>1, <2>4
<1>2. verdicts' \in [Cases!Ids -> Nat]
  <2>1. verdicts' = verdicts
          \/ \E i : verdicts' = [verdicts EXCEPT ![i] = @ + 1]
    BY DEF Cases!Next, Cases!ReadUser, Cases!Lookup, Cases!Create, Cases!Review,
       Cases!Decide, Cases!Notify, Cases!Fail, Cases!DeleteMany, Cases!ChangePhone, Cases!Tick
  <2>2. QED
    BY <1>0, <2>1
<1>3. caseCalls' \in [Pair -> CaseCall]
  <2>1. caseCalls' = caseCalls
          \/ \E c \in Pair, h \in CaseCall : caseCalls' = [caseCalls EXCEPT ![c] = h]
    <3>1. CASE caseCalls' = caseCalls
      BY <3>1
    <3>2. ASSUME NEW c \in Pair, Cases!ReadUser(c) \/ Cases!Notify(c) \/ Cases!Fail(c)
          PROVE  \E h \in CaseCall : caseCalls' = [caseCalls EXCEPT ![c] = h]
      BY <3>2 DEF Cases!ReadUser, Cases!Notify, Cases!Fail, Cases!End, CaseCall
    <3>3. ASSUME NEW c \in Pair, Cases!Create(c)
          PROVE  \E h \in CaseCall : caseCalls' = [caseCalls EXCEPT ![c] = h]
      BY <3>3 DEF Cases!Create, Cases!End, CaseCall
    <3>4. ASSUME NEW c \in Pair, Cases!Lookup(c)
          PROVE  \E h \in CaseCall : caseCalls' = [caseCalls EXCEPT ![c] = h]
      BY <1>0, <3>4 DEF Cases!Lookup, CaseCall, Cases!Idle, Cases!End
    <3>5. ASSUME NEW c \in Pair, Cases!Review(c)
          PROVE  \E h \in CaseCall : caseCalls' = [caseCalls EXCEPT ![c] = h]
      BY <1>0, <3>5 DEF Cases!Pending, Cases!Kept, Asked, Cases!Review, CaseCall
    <3>6. ASSUME NEW c \in Pair, Cases!Decide(c)
          PROVE  \E h \in CaseCall : caseCalls' = [caseCalls EXCEPT ![c] = h]
      BY <1>0, <3>6 DEF Cases!Decide, CaseCall, Cases!Idle, Cases!End
    <3>7. CASE (\E i \in Cases!Kept : Cases!DeleteMany({i})) \/ Cases!ChangePhone \/ Cases!Tick
      BY <3>7 DEF Cases!DeleteMany, Cases!ChangePhone, Cases!Tick
    <3>8. QED
      BY <3>2, <3>3, <3>4, <3>5, <3>6, <3>7 DEF Cases!Next
  <2>2. QED
    BY <1>0, <2>1
<1>4. \E n \in 0..MaxRequests : requests' \in [1..n -> CaseRow]
  <2>1. CASE requests' \in [Asked -> CaseRow]
    BY <1>0, <2>1
  <2>2. ASSUME NEW c \in Pair, Cases!Create(c)
        PROVE  \E n \in 0..MaxRequests : requests' \in [1..n -> CaseRow]
    <3>1. PICK n \in Cases!Ids : /\ n = Cardinality(Asked) + 1
            /\ requests' = [i \in 1..n |->
                 IF i < n THEN requests[i] ELSE [status |-> "pending", on |-> 0]]
      BY <2>2, SameCounts DEF Cases!Create, Asked
    <3>2. \A i \in 1..n : i < n => i \in Asked
      BY <1>0, <3>1
    <3>3. n \in 0..MaxRequests /\ requests' \in [1..n -> CaseRow]
      BY <1>0, <3>1, <3>2 DEF CaseRow, Cases!Ids
    <3>4. QED
      BY <3>3
  <2>3. ASSUME NEW c \in Pair, Cases!Decide(c) PROVE requests' \in [Asked -> CaseRow]
    <3>1. caseCalls[c].step = "decide" /\ caseCalls[c] \in CaseCall
      BY <1>0, <2>3 DEF Cases!Decide
    <3>2. caseCalls[c].verdict \in Cases!Verdict
      BY <3>1 DEF CaseCall, Cases!Idle
    <3>3. \/ requests' = requests
          \/ \E i \in Asked : \E on \in 0..CaseTime : requests' =
               [requests EXCEPT ![i] = [status |-> caseCalls[c].verdict, on |-> on]]
      BY <1>0, <2>3 DEF Cases!Decide, Cases!Kept, Asked
    <3>4. \A on \in 0..CaseTime : [status |-> caseCalls[c].verdict, on |-> on] \in CaseRow
      BY <3>2 DEF CaseRow
    <3>5. QED
      BY <1>0, <3>3, <3>4
  <2>4. ASSUME NEW i \in Cases!Kept, Cases!DeleteMany({i}) PROVE requests' \in [Asked -> CaseRow]
    BY <1>0, <2>4 DEF Cases!DeleteMany, CaseRow, Asked
  <2>5. CASE requests' = requests
    BY <1>0, <2>1, <2>5
  <2>6. ASSUME NEW c \in Pair, \/ Cases!ReadUser(c) \/ Cases!Lookup(c) \/ Cases!Review(c)
                               \/ Cases!Notify(c) \/ Cases!Fail(c)
        PROVE  requests' = requests
    BY <2>6 DEF Cases!ReadUser, Cases!Lookup, Cases!Review, Cases!Notify, Cases!Fail
  <2>7. CASE Cases!ChangePhone \/ Cases!Tick
    BY <2>5, <2>7 DEF Cases!ChangePhone, Cases!Tick
  <2>8. QED
    BY <2>1, <2>2, <2>3, <2>4, <2>5, <2>6, <2>7 DEF Cases!Next
<1>5. QED
  BY <1>1, <1>2, <1>3, <1>4 DEF Cases!TypeOK, CaseCall, CaseRow

\* An answer, or a deletion: one request that was left waits no longer.
Answered(i) ==
  /\ i \in Asked /\ Asked' = Asked
  /\ requests[i].status # "deleted" /\ requests'[i].status # "pending"
  /\ \A j \in Asked \ {i} : requests'[j] = requests[j]

LEMMA AnswerCounts ==
  ASSUME PeopleAssumption, CaseInv, NEW i \in Asked, Answered(i)
  PROVE  /\ Waiting' = Waiting \ {i} /\ Settled' = Settled \cup {i}
         /\ \/ /\ Cardinality(Waiting') = Cardinality(Waiting) - 1
               /\ Cardinality(Settled') = Cardinality(Settled) + 1
            \/ /\ Cardinality(Waiting') = Cardinality(Waiting)
               /\ Cardinality(Settled') = Cardinality(Settled)
               /\ MayAsk' => MayAsk
<1>1. Waiting' = Waiting \ {i} /\ Settled' = Settled \cup {i}
  BY DEF Answered, Waiting, Settled
<1>2. IsFiniteSet(Waiting) /\ IsFiniteSet(Settled)
  BY CaseFacts DEF CaseInv
<1>3. CASE i \in Waiting
  <2>1. Cardinality(Waiting \ {i}) = Cardinality(Waiting) - 1
    BY <1>2, <1>3, FS_RemoveElement
  <2>2. i \notin Settled
    BY <1>3 DEF Settled
  <2>3. Cardinality(Settled \cup {i}) = Cardinality(Settled) + 1
    BY <1>2, <2>2, FS_AddElement
  <2>4. QED
    BY <1>1, <2>1, <2>3
<1>4. CASE i \notin Waiting
  <2>1. Waiting' = Waiting /\ Settled' = Settled
    BY <1>1, <1>4 DEF Settled
  <2>2. MayAsk' => MayAsk
    <3>1. ASSUME MayAsk', NEW k \in Waiting
          PROVE  \E j \in Asked : j > k /\ requests[j].status # "deleted"
      <4>1. PICK j \in Asked' : j > k /\ requests'[j].status # "deleted"
        BY <2>1, <3>1 DEF MayAsk
      <4>2. j \in Asked /\ (j = i \/ requests'[j] = requests[j])
        BY <4>1 DEF Answered
      <4>3. requests[j].status # "deleted"
        BY <4>1, <4>2 DEF Answered
      <4>4. QED
        BY <4>1, <4>2, <4>3
    <3>2. QED
      BY <3>1 DEF MayAsk
  <2>3. QED
    BY <1>1, <2>1, <2>2
<1>5. QED
  BY <1>1, <1>3, <1>4

LEMMA AnswerQueue ==
  ASSUME PeopleAssumption, CaseInv, NEW i \in Asked, Answered(i),
         Creating' \subseteq Creating
  PROVE  QueueInv'
<1> DEFINE P == Cardinality(Pair)
           W == Cardinality(Waiting)
           S == Cardinality(Settled)
           C == Cardinality(Creating)
<1>0. /\ P \in Nat /\ W \in Nat /\ S \in Nat /\ C \in Nat
      /\ P * (1 + S) = P * S + P /\ P * (1 + (S + 1)) = P * S + P + P
      /\ P * (S + 1) = P * S + P /\ P * S \in Nat
      /\ IsFiniteSet(Creating)
  <2>1. /\ P \in Nat /\ W \in Nat /\ S \in Nat /\ C \in Nat
        /\ IsFiniteSet(Pair) /\ Creating \in SUBSET Pair
    BY CaseFacts DEF CaseInv
  <2>2. /\ P * (1 + S) = P * S + P /\ P * (1 + (S + 1)) = P * S + P + P
        /\ P * (S + 1) = P * S + P /\ P * S \in Nat
    BY <2>1
  <2>3. QED
    BY <2>1, <2>2, Counts
<1>1. Cardinality(Creating') \in Nat /\ Cardinality(Creating') <= C
  BY <1>0, FS_Subset, FS_CardinalityType
<1>2. W + C <= P * (1 + S) /\ (MayAsk => W <= P * S)
  BY DEF CaseInv, QueueInv
<1>3. CASE Cardinality(Waiting') = W - 1 /\ Cardinality(Settled') = S + 1
  BY <1>0, <1>1, <1>2, <1>3 DEF QueueInv
<1>4. CASE Cardinality(Waiting') = W /\ Cardinality(Settled') = S /\ (MayAsk' => MayAsk)
  BY <1>0, <1>1, <1>2, <1>4 DEF QueueInv
<1>5. QED
  BY <1>3, <1>4, AnswerCounts

\* The queue stays as it is if the requests do and nobody starts to create one.
LEMMA SameQueue ==
  ASSUME PeopleAssumption, CaseInv, requests' = requests, Creating' \subseteq Creating
  PROVE  QueueInv'
<1>1. Waiting' = Waiting /\ Settled' = Settled /\ (MayAsk' <=> MayAsk)
  BY DEF Waiting, Settled, MayAsk, Asked
<1>2. /\ IsFiniteSet(Creating) /\ Cardinality(Creating) \in Nat
      /\ Cardinality(Waiting) \in Nat /\ Cardinality(Settled) \in Nat
      /\ Cardinality(Pair) \in Nat
  BY CaseFacts, Counts DEF CaseInv
<1>3. Cardinality(Creating') \in Nat /\ Cardinality(Creating') <= Cardinality(Creating)
  BY <1>2, FS_Subset, FS_CardinalityType
<1>4. Cardinality(Waiting) + Cardinality(Creating) <= Cardinality(Pair) * (1 + Cardinality(Settled))
  BY DEF CaseInv, QueueInv
<1>5. Cardinality(Waiting) + Cardinality(Creating') <= Cardinality(Pair) * (1 + Cardinality(Settled))
  BY <1>2, <1>3, <1>4
<1>6. QED
  BY <1>1, <1>5 DEF CaseInv, QueueInv

\* Nobody hears more of a request if the calls that have it open only leave,
\* and a request that waits has done so before.
LEMMA SameVerdicts ==
  ASSUME PeopleAssumption, CaseInv, verdicts' = verdicts, Settled \subseteq Settled',
         Asked \subseteq Asked',
         \A i \in Cases!Ids : /\ OpenOn(i)' \subseteq OpenOn(i)
                              /\ i \notin Settled' => ToldOf(i)' \subseteq ToldOf(i)
  PROVE  VerdictInv'
<1>1. ASSUME NEW i \in Cases!Ids
      PROVE  verdicts'[i] + Cardinality(OpenOn(i)') <= Cardinality(Pair)
  <2>1. /\ IsFiniteSet(OpenOn(i)) /\ Cardinality(OpenOn(i)) \in Nat
        /\ Cardinality(Pair) \in Nat /\ verdicts[i] \in Nat
    BY CaseFacts, Counts DEF CaseInv
  <2>2. Cardinality(OpenOn(i)') \in Nat /\ Cardinality(OpenOn(i)') <= Cardinality(OpenOn(i))
    BY <2>1, FS_Subset, FS_CardinalityType
  <2>3. verdicts[i] + Cardinality(OpenOn(i)) <= Cardinality(Pair)
    BY DEF CaseInv, VerdictInv
  <2>4. QED
    BY <2>1, <2>2, <2>3
<1>2. \A i \in Cases!Ids :
        /\ i \notin Settled' => verdicts'[i] = 0 /\ ToldOf(i)' = {}
        /\ OpenOn(i)' # {} => i \in Asked'
  BY DEF CaseInv, VerdictInv
<1>3. QED
  BY <1>1, <1>2 DEF VerdictInv

LEMMA CaseCallSteps ==
  ASSUME PeopleAssumption, CaseInv, NEW c \in Pair,
         \/ Cases!ReadUser(c) \/ Cases!Lookup(c) \/ Cases!Create(c) \/ Cases!Review(c)
         \/ Cases!Notify(c) \/ Cases!Fail(c)
  PROVE  QueueInv' /\ VerdictInv'
<1> USE DEF CaseInv
<1>0. /\ IsFiniteSet(Pair) /\ Cardinality(Pair) \in Nat
      /\ Asked \in SUBSET Cases!Ids
      /\ Cardinality(Asked) \in 0..MaxRequests /\ Asked = 1..Cardinality(Asked)
      /\ caseCalls \in [Pair -> CaseCall] /\ verdicts \in [Cases!Ids -> Nat]
      /\ IsFiniteSet(Waiting) /\ Creating \in SUBSET Pair
      /\ Cardinality(Waiting) \in Nat /\ Cardinality(Settled) \in Nat
      /\ Cardinality(Creating) \in Nat
      /\ Cases!Idle \in CaseCall /\ MaxRequests \in Nat
  BY CaseFacts DEF CaseCall
<1>1. ASSUME caseCalls' = [caseCalls EXCEPT ![c] = Cases!Idle]
      PROVE  /\ Creating' = Creating \ {c}
             /\ \A i \in Cases!Ids : OpenOn(i)' = OpenOn(i) \ {c} /\ ToldOf(i)' = ToldOf(i) \ {c}
  BY <1>0, <1>1, CasePut, CaseSets DEF Cases!Idle
<1>2. CASE Cases!ReadUser(c)
  <2>1. /\ caseCalls' = [caseCalls EXCEPT ![c] = [step |-> "lookup"]]
        /\ requests' = requests /\ verdicts' = verdicts
    BY <1>2 DEF Cases!ReadUser, caseCalls, requests, verdicts
  <2>2. [step |-> "lookup"] \in CaseCall
    BY DEF CaseCall
  <2>3. OnlyCaseCall(c) /\ caseCalls'[c] = [step |-> "lookup"]
    BY <2>1, <2>2, CasePut
  <2>4. /\ Creating' = Creating \ {c}
        /\ \A i \in Cases!Ids : OpenOn(i)' = OpenOn(i) \ {c} /\ ToldOf(i)' = ToldOf(i) \ {c}
    BY <2>3, CaseSets
  <2>5. Settled' = Settled /\ Asked' = Asked
    BY <2>1 DEF Settled, Asked, Waiting
  <2>6. QED
    BY <2>1, <2>4, <2>5, SameQueue, SameVerdicts
<1>3. CASE Cases!Fail(c)
  BY <1>1, <1>3, SameQueue, SameVerdicts DEF Cases!Fail, Cases!End, caseCalls, requests, verdicts,
     Settled, Asked, Waiting
<1>4. CASE Cases!Lookup(c)
  <2>1. /\ caseCalls[c].step = "lookup" /\ caseCalls[c] \in CaseCall
        /\ requests' = requests /\ verdicts' = verdicts
    BY <1>0, <1>4 DEF Cases!Lookup, caseCalls, requests, verdicts
  <2>2. Settled' = Settled /\ Asked' = Asked /\ Waiting' = Waiting
    BY <2>1 DEF Settled, Asked, Waiting
  <2>3. CASE caseCalls' = [caseCalls EXCEPT ![c] = Cases!Idle]
    BY <1>1, <2>1, <2>2, <2>3, SameQueue, SameVerdicts
  <2>4. CASE /\ caseCalls' = [caseCalls EXCEPT ![c].step = "create"]
             /\ ~ \E i \in Cases!Kept : Cases!IsNewest(i) /\ Cases!Refused(i)
    <3>1. caseCalls[c] = [step |-> "lookup"]
      BY <2>1 DEF CaseCall, Cases!Idle
    <3>2. caseCalls' = [caseCalls EXCEPT ![c] = [step |-> "create"]]
      <4>1. [caseCalls[c] EXCEPT !.step = "create"] = [step |-> "create"]
        BY <3>1
      <4>2. QED
        BY <2>4, <4>1
    <3>3. OnlyCaseCall(c) /\ caseCalls'[c] = [step |-> "create"]
      BY <3>2, CasePut DEF CaseCall
    <3>4. /\ Creating' = Creating \cup {c} /\ c \notin Creating
          /\ \A i \in Cases!Ids : OpenOn(i)' = OpenOn(i) \ {c} /\ ToldOf(i)' = ToldOf(i) \ {c}
      BY <2>1, <3>3, CaseSets DEF Creating
    <3>5. VerdictInv'
      BY <2>1, <2>2, <3>4, SameVerdicts
    <3>6. MayAsk
      <4>1. ASSUME NEW k \in Waiting
            PROVE  \E j \in Asked : j > k /\ requests[j].status # "deleted"
        <5>1. k \in Cases!Kept /\ Cases!Kept \in SUBSET Nat /\ Cases!Kept \subseteq Asked
              /\ \A j \in Cases!Kept : j <= MaxRequests
          BY <1>0 DEF Cases!Kept, Waiting, Asked, requests, Cases!Ids
        <5>2. PICK m \in Cases!Kept : \A j \in Cases!Kept : j <= m
          <6>1. Cases!Kept \in SUBSET Int /\ MaxRequests \in Int
            BY <1>0, <5>1
          <6>2. QED
            BY <5>1, <6>1, Greatest
        <5>3. Cases!IsNewest(m)
          BY <5>2 DEF Cases!IsNewest
        <5>4. m # k
          BY <2>4, <5>2, <5>3 DEF Cases!Refused, Waiting, requests
        <5>5. QED
          BY <5>1, <5>2, <5>4 DEF Cases!Kept, requests
      <4>2. QED
        BY <4>1 DEF MayAsk
    <3>7. Cardinality(Creating') <= Cardinality(Pair) /\ Cardinality(Creating') \in Nat
      BY <1>0, <3>4, Counts
    <3>8. Cardinality(Waiting) <= Cardinality(Pair) * Cardinality(Settled)
      BY <3>6 DEF QueueInv
    <3>9. Cardinality(Waiting) + Cardinality(Creating')
            <= Cardinality(Pair) * (1 + Cardinality(Settled))
      BY <1>0, <3>7, <3>8
    <3>10. QED
      BY <2>2, <3>5, <3>8, <3>9 DEF QueueInv
  <2>5. QED
    BY <1>4, <2>3, <2>4 DEF Cases!Lookup, Cases!End, caseCalls
<1>5. CASE Cases!Create(c)
  <2>1. PICK n \in Cases!Ids : /\ n = Cardinality(Asked) + 1
          /\ requests' = [i \in 1..n |->
               IF i < n THEN requests[i] ELSE [status |-> "pending", on |-> 0]]
    BY <1>5, SameCounts DEF Cases!Create, Asked, requests
  <2>2. /\ caseCalls[c].step = "create" /\ verdicts' = verdicts
        /\ caseCalls' = [caseCalls EXCEPT ![c] = Cases!Idle]
    BY <1>5 DEF Cases!Create, Cases!End, caseCalls, verdicts
  <2>3. /\ n \in Nat /\ n \notin Asked /\ Asked' = 1..n /\ Asked' = Asked \cup {n}
        /\ \A i \in Asked : requests'[i] = requests[i]
        /\ requests'[n].status = "pending"
    <3>1. n \in Nat /\ n \notin Asked /\ 1..n = Asked \cup {n}
      BY <1>0, <2>1 DEF Cases!Ids
    <3>2. Asked' = 1..n
      BY <2>1 DEF Asked
    <3>3. \A i \in Asked : requests'[i] = requests[i]
      BY <1>0, <2>1, <3>1
    <3>4. requests'[n].status = "pending"
      BY <2>1, <3>1
    <3>5. QED
      BY <3>1, <3>2, <3>3, <3>4
  <2>4. Waiting' = Waiting \cup {n} /\ n \notin Waiting /\ Settled' = Settled
    BY <2>3 DEF Waiting, Settled
  <2>5. Cardinality(Waiting') = Cardinality(Waiting) + 1
    BY <1>0, <2>4, FS_AddElement
  <2>6. Cardinality(Creating') = Cardinality(Creating) - 1
    BY <1>0, <1>1, <2>2, Counts DEF Creating
  <2>7. ~MayAsk'
    BY <2>3, <2>4 DEF MayAsk
  <2>8. QueueInv'
    BY <1>0, <2>4, <2>5, <2>6, <2>7 DEF QueueInv
  <2>9. VerdictInv'
    BY <1>1, <2>2, <2>3, <2>4, SameVerdicts
  <2>10. QED
    BY <2>8, <2>9
<1>6. CASE Cases!Review(c)
  <2>1. PICK i \in Waiting, v \in Cases!Verdict :
          /\ caseCalls[c] = Cases!Idle
          /\ caseCalls' = [caseCalls EXCEPT ![c] = [step |-> "decide", id |-> i, verdict |-> v]]
          /\ requests' = requests /\ verdicts' = verdicts
    BY <1>6 DEF Cases!Review, Cases!Pending, Cases!Kept, Waiting, Asked, caseCalls, requests, verdicts
  <2>2. i \in Asked /\ i \in Cases!Ids /\ i \notin Settled
    BY <1>0 DEF Waiting, Settled
  <2>3. /\ OnlyCaseCall(c)
        /\ caseCalls'[c] = [step |-> "decide", id |-> i, verdict |-> v]
    BY <2>1, <2>2, CasePut DEF CaseCall
  <2>4. Creating' = Creating \ {c}
    BY <2>2, <2>3, CaseSets
  <2>11. \A k \in Cases!Ids : ToldOf(k)' \subseteq ToldOf(k)
    BY <2>3, CaseSets
  <2>12. \A k \in Cases!Ids : k # i => OpenOn(k)' \subseteq OpenOn(k)
    BY <2>2, <2>3, CaseSets
  <2>5. Settled' = Settled /\ Asked' = Asked
    BY <2>1 DEF Settled, Asked, Waiting
  <2>6. QueueInv'
    BY <2>1, <2>4, SameQueue
  <2>7. verdicts[i] = 0
    BY <2>2 DEF VerdictInv
  <2>8. ASSUME NEW k \in Cases!Ids
        PROVE  verdicts'[k] + Cardinality(OpenOn(k)') <= Cardinality(Pair)
    <3>1. CASE k = i
      BY <1>0, <2>1, <2>7, <3>1, Counts DEF OpenOn
    <3>2. CASE k # i
      <4>1. /\ IsFiniteSet(OpenOn(k)) /\ Cardinality(OpenOn(k)) \in Nat /\ verdicts[k] \in Nat
            /\ verdicts[k] + Cardinality(OpenOn(k)) <= Cardinality(Pair)
        BY <1>0, Counts DEF OpenOn, VerdictInv
      <4>2. Cardinality(OpenOn(k)') \in Nat /\ Cardinality(OpenOn(k)') <= Cardinality(OpenOn(k))
        BY <2>12, <3>2, <4>1, FS_Subset, FS_CardinalityType
      <4>3. QED
        BY <1>0, <2>1, <4>1, <4>2
    <3>3. QED
      BY <3>1, <3>2
  <2>9. \A k \in Cases!Ids :
          /\ k \notin Settled' => verdicts'[k] = 0 /\ ToldOf(k)' = {}
          /\ OpenOn(k)' # {} => k \in Asked'
    <3>1. \A k \in Cases!Ids : k \notin Settled' => verdicts'[k] = 0 /\ ToldOf(k)' = {}
      BY <2>1, <2>5, <2>11 DEF VerdictInv
    <3>2. \A k \in Cases!Ids : OpenOn(k)' # {} => k \in Asked'
      BY <2>2, <2>5, <2>12 DEF VerdictInv
    <3>3. QED
      BY <3>1, <3>2
  <2>10. QED
    BY <2>6, <2>8, <2>9 DEF VerdictInv
<1>7. CASE Cases!Notify(c)
  <2>1. PICK i : /\ i = caseCalls[c].id /\ caseCalls[c].step = "notify"
                 /\ verdicts' = [verdicts EXCEPT ![i] = @ + 1]
                 /\ caseCalls' = [caseCalls EXCEPT ![c] = Cases!Idle]
                 /\ requests' = requests
    BY <1>7 DEF Cases!Notify, Cases!End, caseCalls, requests, verdicts
  <2>2. i \in Cases!Ids /\ c \in OpenOn(i) /\ c \in ToldOf(i)
    BY <1>0, <2>1 DEF CaseCall, Cases!Idle, OpenOn, ToldOf
  <2>3. Settled' = Settled /\ Asked' = Asked
    BY <2>1 DEF Settled, Asked, Waiting
  <2>4. i \in Settled
    BY <2>2 DEF VerdictInv
  <2>5. QueueInv'
    BY <1>1, <2>1, SameQueue
  <2>6. ASSUME NEW k \in Cases!Ids
        PROVE  verdicts'[k] + Cardinality(OpenOn(k)') <= Cardinality(Pair)
    <3>1. /\ IsFiniteSet(OpenOn(k)) /\ Cardinality(OpenOn(k)) \in Nat /\ verdicts[k] \in Nat
          /\ verdicts[k] + Cardinality(OpenOn(k)) <= Cardinality(Pair)
      BY <1>0, CaseFacts, Counts DEF VerdictInv
    <3>2. OpenOn(k)' = OpenOn(k) \ {c}
      BY <1>1, <2>1
    <3>3. /\ Cardinality(OpenOn(k)') \in Nat /\ Cardinality(OpenOn(k)') <= Cardinality(OpenOn(k))
          /\ k = i => Cardinality(OpenOn(k)') = Cardinality(OpenOn(k)) - 1
      BY <2>2, <3>1, <3>2, FS_RemoveElement, FS_CardinalityType
    <3>4. verdicts'[k] = IF k = i THEN verdicts[k] + 1 ELSE verdicts[k]
      BY <1>0, <2>1
    <3>5. QED
      BY <1>0, <3>1, <3>3, <3>4
  <2>7. \A k \in Cases!Ids :
          /\ k \notin Settled' => verdicts'[k] = 0 /\ ToldOf(k)' = {}
          /\ OpenOn(k)' # {} => k \in Asked'
    BY <1>0, <1>1, <2>1, <2>3, <2>4 DEF VerdictInv
  <2>8. QED
    BY <2>5, <2>6, <2>7 DEF VerdictInv
<1>8. QED
  BY <1>2, <1>3, <1>4, <1>5, <1>6, <1>7

LEMMA DecideInv ==
  ASSUME PeopleAssumption, CaseInv, NEW c \in Pair, Cases!Decide(c)
  PROVE  QueueInv' /\ VerdictInv' /\ Cases!BadgeStep
<1> USE DEF CaseInv
<1>0. /\ Asked \in SUBSET Cases!Ids /\ requests \in [Asked -> CaseRow]
      /\ caseCalls \in [Pair -> CaseCall] /\ Cases!Idle \in CaseCall
  BY CaseFacts DEF CaseCall
<1>1. PICK i, v : /\ i = caseCalls[c].id /\ v = caseCalls[c].verdict
                  /\ caseCalls[c].step = "decide" /\ verdicts' = verdicts
  BY DEF Cases!Decide, caseCalls, verdicts
<1>2. caseCalls[c] = [step |-> "decide", id |-> i, verdict |-> v]
      /\ i \in Cases!Ids /\ v \in Cases!Verdict
  BY <1>0, <1>1 DEF CaseCall, Cases!Idle
<1>3. CASE i \notin Cases!Kept
  <2>1. /\ caseCalls' = [caseCalls EXCEPT ![c] = Cases!Idle] /\ requests' = requests
        /\ verified' = verified
    BY <1>1, <1>3 DEF Cases!Decide, Cases!End, caseCalls, requests, verified
  <2>2. OnlyCaseCall(c) /\ caseCalls'[c] = Cases!Idle
    BY <1>0, <2>1, CasePut
  <2>3. /\ Creating' = Creating \ {c}
        /\ \A k \in Cases!Ids : OpenOn(k)' = OpenOn(k) \ {c} /\ ToldOf(k)' = ToldOf(k) \ {c}
    BY <2>2, CaseSets DEF Cases!Idle
  <2>4. Settled' = Settled /\ Asked' = Asked
    BY <2>1 DEF Settled, Asked, Waiting
  <2>5. QED
    BY <1>1, <2>1, <2>3, <2>4, SameQueue, SameVerdicts DEF Cases!BadgeStep, verified
<1>4. CASE i \in Cases!Kept
  <2>1. PICK on : /\ requests' = [requests EXCEPT ![i] = [status |-> v, on |-> on]]
                  /\ caseCalls' = [caseCalls EXCEPT ![c].step = "notify"]
                  /\ verified' = (verified \/ v = "approved")
    BY <1>1, <1>4 DEF Cases!Decide, caseCalls, requests, verified
  <2>2. i \in Asked /\ requests[i].status # "deleted"
    BY <1>4 DEF Cases!Kept, Asked, requests
  <2>3. /\ requests'[i].status = v /\ Asked' = Asked
        /\ \A j \in Asked \ {i} : requests'[j] = requests[j]
    BY <1>0, <2>1, <2>2 DEF Asked
  <2>4. Answered(i)
    BY <1>2, <2>2, <2>3 DEF Answered, Cases!Verdict
  <2>5. OnlyCaseCall(c) /\ caseCalls'[c] = [step |-> "notify", id |-> i, verdict |-> v]
    <3>1. caseCalls' = [caseCalls EXCEPT ![c] = [step |-> "notify", id |-> i, verdict |-> v]]
      <4>1. [caseCalls[c] EXCEPT !.step = "notify"] =
              [step |-> "notify", id |-> i, verdict |-> v]
        BY <1>2
      <4>2. QED
        BY <2>1, <4>1
    <3>2. [step |-> "notify", id |-> i, verdict |-> v] \in CaseCall
      BY <1>2 DEF CaseCall
    <3>3. QED
      BY <3>1, <3>2, CasePut
  <2>6. c \in OpenOn(i) /\ \A k \in Cases!Ids : k # i => c \notin OpenOn(k)
    BY <1>2 DEF OpenOn
  <2>7. /\ Creating' = Creating \ {c}
        /\ \A k \in Cases!Ids : OpenOn(k)' = OpenOn(k)
        /\ \A k \in Cases!Ids : k # i => ToldOf(k)' = ToldOf(k) \ {c}
    <3>1. Creating' = Creating \ {c}
      BY <2>5, CaseSets
    <3>2. \A k \in Cases!Ids :
            /\ k = i => OpenOn(k)' = OpenOn(k) \cup {c}
            /\ k # i => OpenOn(k)' = OpenOn(k) \ {c} /\ ToldOf(k)' = ToldOf(k) \ {c}
      BY <2>5, CaseSets
    <3>3. QED
      BY <2>6, <3>1, <3>2
  <2>8. Settled' = Settled \cup {i}
    BY <2>2, <2>4, AnswerCounts
  <2>9. QueueInv'
    BY <2>2, <2>4, <2>7, AnswerQueue
  <2>10. VerdictInv'
    BY <1>1, <2>3, <2>7, <2>8, SameVerdicts
  <2>11. Cases!BadgeStep
    BY <1>4, <2>1, <2>3 DEF Cases!BadgeStep, verified, requests
  <2>12. QED
    BY <2>9, <2>10, <2>11
<1>5. QED
  BY <1>3, <1>4

LEMMA CaseNext ==
  ASSUME PeopleAssumption, CaseInv, Cases!Next
  PROVE  CaseInv' /\ Cases!BadgeStep
<1>1. Cases!TypeOK'
  BY CaseTypes DEF CaseInv
<1>2. CASE \E c \in Pair : \/ Cases!ReadUser(c) \/ Cases!Lookup(c) \/ Cases!Create(c)
                           \/ Cases!Review(c) \/ Cases!Notify(c) \/ Cases!Fail(c)
  BY <1>1, <1>2, CaseCallSteps DEF Cases!ReadUser, Cases!Lookup, Cases!Create, Cases!Review,
     Cases!Notify, Cases!Fail, verified, CaseInv, Cases!BadgeStep
<1>3. CASE \E c \in Pair : Cases!Decide(c)
  BY <1>1, <1>3, DecideInv DEF CaseInv
<1>4. ASSUME NEW i \in Cases!Kept, Cases!DeleteMany({i}) PROVE QueueInv' /\ VerdictInv'
  <2>1. /\ requests' = [j \in Asked |->
             IF j \in {i} THEN [status |-> "deleted", on |-> 0] ELSE requests[j]]
        /\ UNCHANGED <<verified, caseCalls, verdicts>>
    BY <1>4 DEF Cases!DeleteMany, Asked, requests, verified, caseCalls, verdicts
  <2>2. i \in Asked /\ requests[i].status # "deleted"
    BY DEF Cases!Kept, Asked, requests
  <2>3. Answered(i)
    BY <2>1, <2>2 DEF Answered, Asked
  <2>4. Creating' = Creating /\ Asked' = Asked
        /\ \A k \in Cases!Ids : OpenOn(k)' = OpenOn(k) /\ ToldOf(k)' = ToldOf(k)
    BY <2>1, <2>3 DEF Creating, OpenOn, ToldOf, Answered
  <2>5. Settled' = Settled \cup {i}
    BY <2>2, <2>3, AnswerCounts
  <2>6. QED
    BY <2>1, <2>2, <2>3, <2>4, <2>5, AnswerQueue, SameVerdicts
<1>5. CASE \E i \in Cases!Kept : Cases!DeleteMany({i})
  BY <1>1, <1>4, <1>5 DEF Cases!DeleteMany, verified, CaseInv, Cases!BadgeStep
<1>6. CASE Cases!ChangePhone \/ Cases!Tick
  BY <1>1, <1>6, SameQueue, SameVerdicts DEF Cases!ChangePhone, Cases!Tick, requests, caseCalls,
     verdicts, Creating, OpenOn, ToldOf, Asked, Settled, Waiting, Cases!BadgeStep, CaseInv
<1>7. QED
  BY <1>2, <1>3, <1>5, <1>6 DEF Cases!Next

(***************************************************************************)
(* Reports: one, and the staff who resolve and reopen it.                  *)
(***************************************************************************)
status == s1
stamped == s2
reportCalls == s3
rounds == s4
notices == s5

\* Calls that will tell the reporter if they get that far, and those that have
\* nothing else left to do.
ToTell == {c \in Pair : /\ reportCalls[c].step # "idle"
                        /\ reportCalls[c].seen = "pending"
                        /\ reportCalls[c].to \in Complaints!Resolving}
Telling == {c \in Pair : reportCalls[c].step = "notify"}

\* While the report is open nobody has told of this round: whoever is about to
\* resolved an earlier one.
RoundInv ==
  /\ status = "none" => rounds = 0 /\ ~stamped
  /\ Telling \subseteq ToTell
  /\ notices + Cardinality(ToTell) <= rounds * Cardinality(Pair)
  /\ status = "pending" =>
       notices + Cardinality(Telling) + Cardinality(Pair) <= rounds * Cardinality(Pair)

ReportInv == Complaints!TypeOK /\ RoundInv /\ Complaints!StampMatchesStatus

LEMMA ReportFacts ==
  ASSUME PeopleAssumption, Complaints!TypeOK
  PROVE  /\ IsFiniteSet(Pair) /\ Cardinality(Pair) \in Nat /\ MaxRounds \in Nat \ {0}
         /\ notices \in Nat /\ rounds \in Nat
         /\ ToTell \in SUBSET Pair /\ Telling \in SUBSET Pair
         /\ Cardinality(ToTell) \in Nat /\ Cardinality(Telling) \in Nat
<1>1. MaxRounds \in Nat \ {0} /\ IsFiniteSet(Pair)
  BY SameCounts DEF PeopleAssumption, Complaints!ReportAssumption
<1>2. ToTell \in SUBSET Pair /\ Telling \in SUBSET Pair
  BY DEF ToTell, Telling
<1>3. /\ Cardinality(Pair) \in Nat /\ Cardinality(ToTell) \in Nat
      /\ Cardinality(Telling) \in Nat
  BY <1>1, <1>2, Counts
<1>4. notices \in Nat /\ rounds \in Nat
  BY <1>1 DEF Complaints!TypeOK, notices, rounds
<1>5. QED
  BY <1>1, <1>2, <1>3, <1>4

LEMMA ReportInit == ASSUME PeopleAssumption, Complaints!Init PROVE ReportInv
<1> USE DEF Complaints!Init, Complaints!Idle, status, stamped, reportCalls, rounds, notices
<1>1. MaxRounds \in Nat \ {0} /\ IsFiniteSet(Pair)
  BY SameCounts DEF PeopleAssumption, Complaints!ReportAssumption
<1>2. Complaints!TypeOK
  <2>1. reportCalls \in [Pair -> {Complaints!Idle}]
    OBVIOUS
  <2>2. rounds \in 0..MaxRounds
    BY <1>1
  <2>3. QED
    BY <2>1, <2>2 DEF Complaints!TypeOK
<1>3. Telling = {} /\ ToTell = {}
  BY DEF Telling, ToTell
<1>4. RoundInv
  BY <1>1, <1>3, FS_EmptySet, FS_CardinalityType DEF RoundInv
<1>5. QED
  BY <1>2, <1>4 DEF ReportInv, Complaints!StampMatchesStatus, Complaints!Kept,
     Complaints!ReportStatus

LEMMA ReportMeans ==
  ASSUME ReportInv
  PROVE  Complaints!NoticesBounded /\ Complaints!StampMatchesStatus
  BY SameCounts DEF ReportInv, RoundInv, ToTell, Complaints!NoticesBounded, status,
     reportCalls, rounds, notices

\* What a call does to the two sets.
OnlyReportCall(c) == \A d \in Pair \ {c} : reportCalls'[d] = reportCalls[d]

WillTell(h) == h.step # "idle" /\ h.seen = "pending" /\ h.to \in Complaints!Resolving

LEMMA ReportCall ==
  ASSUME NEW c \in Pair, OnlyReportCall(c)
  PROVE  /\ WillTell(reportCalls'[c]) => ToTell' = ToTell \cup {c}
         /\ ~WillTell(reportCalls'[c]) => ToTell' = ToTell \ {c}
         /\ reportCalls'[c].step = "notify" => Telling' = Telling \cup {c}
         /\ reportCalls'[c].step # "notify" => Telling' = Telling \ {c}
  BY DEF OnlyReportCall, ToTell, Telling, WillTell

LEMMA ReportPut ==
  ASSUME Complaints!TypeOK, NEW c \in Pair, NEW h,
         reportCalls' = [reportCalls EXCEPT ![c] = h]
  PROVE  OnlyReportCall(c) /\ reportCalls'[c] = h
  BY DEF OnlyReportCall, Complaints!TypeOK, reportCalls

LEMMA ReportTypes ==
  ASSUME PeopleAssumption, Complaints!TypeOK, Complaints!Next
  PROVE  Complaints!TypeOK'
<1> USE DEF status, stamped, reportCalls, rounds, notices, Complaints!End
<1>0. MaxRounds \in Nat \ {0}
  BY ReportFacts
<1>1. CASE \E type \in {"product", "user"}, named, self \in BOOLEAN :
             Complaints!Create(type, named, self)
  BY <1>0, <1>1 DEF Complaints!Create, Complaints!TypeOK, Complaints!ReportStatus
<1>2. ASSUME NEW c \in Pair, Complaints!Read(c) PROVE Complaints!TypeOK'
  <2>1. PICK h \in [step : {"write", "notify"}, to : Complaints!ReportStatus,
                    seen : Complaints!ReportStatus] :
          reportCalls' = [reportCalls EXCEPT ![c] = h]
    BY <1>2 DEF Complaints!Read, Complaints!Kept
  <2>2. UNCHANGED <<status, stamped, rounds, notices>>
    BY <1>2 DEF Complaints!Read
  <2>3. QED
    BY <2>1, <2>2 DEF Complaints!TypeOK
<1>3. ASSUME NEW c \in Pair, Complaints!Write(c) PROVE Complaints!TypeOK'
  <2>1. reportCalls[c] \in [step : {"write", "notify"}, to : Complaints!ReportStatus,
                            seen : Complaints!ReportStatus]
    BY <1>3 DEF Complaints!Write, Complaints!TypeOK, Complaints!Idle
  <2>2. PICK h \in {Complaints!Idle}
            \cup [step : {"write", "notify"}, to : Complaints!ReportStatus,
                  seen : Complaints!ReportStatus] :
          reportCalls' = [reportCalls EXCEPT ![c] = h]
    BY <1>3, <2>1 DEF Complaints!Write, Complaints!TypeOK
  <2>3. reportCalls' \in [Pair -> {Complaints!Idle}
            \cup [step : {"write", "notify"}, to : Complaints!ReportStatus,
                  seen : Complaints!ReportStatus]]
    BY <2>2 DEF Complaints!TypeOK
  <2>4. notices' = notices /\ status' \in Complaints!ReportStatus \cup {"none", "deleted"}
    BY <1>3, <2>1 DEF Complaints!Write, Complaints!TypeOK
  <2>7. stamped' \in BOOLEAN
    <3>1. stamped' = stamped \/ stamped' = (reportCalls[c].to \in Complaints!Resolving)
      BY <1>3, Zenon DEF Complaints!Write
    <3>2. stamped \in BOOLEAN
      BY DEF Complaints!TypeOK
    <3>3. (reportCalls[c].to \in Complaints!Resolving) \in BOOLEAN
      OBVIOUS
    <3>4. QED
      BY <3>1, <3>2, <3>3
  <2>5. rounds' \in 0..MaxRounds
    BY <1>0, <1>3 DEF Complaints!Write, Complaints!TypeOK
  <2>6. QED
    BY <2>3, <2>4, <2>5, <2>7 DEF Complaints!TypeOK
<1>4. ASSUME NEW c \in Pair, Complaints!Notify(c) \/ Complaints!Fail(c)
      PROVE  Complaints!TypeOK'
  BY <1>4 DEF Complaints!Notify, Complaints!Fail, Complaints!TypeOK
<1>5. CASE Complaints!DeleteReports
  BY <1>5 DEF Complaints!DeleteReports, Complaints!TypeOK
<1>6. QED
  BY <1>1, <1>2, <1>3, <1>4, <1>5 DEF Complaints!Next

LEMMA ReportNext ==
  ASSUME PeopleAssumption, ReportInv, Complaints!Next
  PROVE  ReportInv'
<1> USE DEF ReportInv
<1>0. /\ IsFiniteSet(Pair) /\ Cardinality(Pair) \in Nat
      /\ notices \in Nat /\ rounds \in Nat
      /\ ToTell \in SUBSET Pair /\ Telling \in SUBSET Pair
      /\ Cardinality(ToTell) \in Nat /\ Cardinality(Telling) \in Nat
      /\ 0 * Cardinality(Pair) = 0 /\ 1 * Cardinality(Pair) = Cardinality(Pair)
      /\ (rounds + 1) * Cardinality(Pair) = rounds * Cardinality(Pair) + Cardinality(Pair)
      /\ rounds * Cardinality(Pair) \in Nat
  BY ReportFacts
<1>1. Complaints!TypeOK'
  BY ReportTypes
<1>2. Complaints!StampMatchesStatus'
  <2> USE DEF Complaints!StampMatchesStatus, Complaints!Kept, Complaints!ReportStatus,
          Complaints!Resolving, status, stamped
  <2>1. CASE \E type \in {"product", "user"}, named, self \in BOOLEAN :
               Complaints!Create(type, named, self)
    BY <2>1 DEF Complaints!Create, RoundInv
  <2>2. CASE \E c \in Pair : Complaints!Write(c)
    BY <2>2 DEF Complaints!Write
  <2>3. CASE Complaints!DeleteReports
    BY <2>3 DEF Complaints!DeleteReports
  <2>4. CASE \E c \in Pair : Complaints!Read(c) \/ Complaints!Notify(c) \/ Complaints!Fail(c)
    BY <2>4 DEF Complaints!Read, Complaints!Notify, Complaints!Fail
  <2>5. QED
    BY <2>1, <2>2, <2>3, <2>4 DEF Complaints!Next
<1>3. RoundInv'
  <2>1. CASE \E type \in {"product", "user"}, named, self \in BOOLEAN :
               Complaints!Create(type, named, self)
    <3>1. /\ status = "none" /\ status' = "pending" /\ rounds' = 1
          /\ UNCHANGED <<reportCalls, notices>>
      BY <2>1 DEF Complaints!Create, status, rounds, reportCalls, notices
    <3>2. ToTell' = ToTell /\ Telling' = Telling
      BY <3>1 DEF ToTell, Telling
    <3>3. notices = 0 /\ Cardinality(ToTell) = 0
      <4>1. rounds = 0 /\ notices + Cardinality(ToTell) <= rounds * Cardinality(Pair)
        BY <3>1 DEF RoundInv
      <4>2. notices + Cardinality(ToTell) <= 0
        BY <1>0, <4>1
      <4>3. QED
        BY <1>0, <4>2
    <3>4. Cardinality(Telling) = 0
      BY <1>0, <3>3, Counts DEF RoundInv
    <3>5. /\ notices' + Cardinality(ToTell') <= rounds' * Cardinality(Pair)
          /\ notices' + Cardinality(Telling') + Cardinality(Pair)
               <= rounds' * Cardinality(Pair)
      BY <1>0, <3>1, <3>2, <3>3, <3>4
    <3>6. QED
      BY <3>1, <3>2, <3>5 DEF RoundInv
  <2>2. ASSUME NEW c \in Pair, Complaints!Read(c) PROVE RoundInv'
    <3>1. PICK to \in Complaints!ReportStatus :
            /\ reportCalls' = [reportCalls EXCEPT ![c] =
                 [step |-> "write", to |-> to, seen |-> status]]
            /\ reportCalls[c] = Complaints!Idle
      BY <2>2 DEF Complaints!Read, reportCalls, status
    <3>2. UNCHANGED <<status, rounds, notices>> /\ status # "none"
      BY <2>2 DEF Complaints!Read, Complaints!Kept, Complaints!ReportStatus, status, rounds,
         notices
    <3>3. c \notin Telling /\ c \notin ToTell
      BY <3>1 DEF Telling, ToTell, Complaints!Idle
    <3>4. /\ Telling' = Telling
          /\ ToTell' = ToTell \/ (status = "pending" /\ ToTell' = ToTell \cup {c})
      <4>1. /\ OnlyReportCall(c)
            /\ reportCalls'[c] = [step |-> "write", to |-> to, seen |-> status]
        BY <3>1, ReportPut
      <4>2. WillTell(reportCalls'[c]) => status = "pending"
        BY <4>1 DEF WillTell
      <4>3. QED
        BY <3>3, <4>1, <4>2, ReportCall
    <3>5. CASE ToTell' = ToTell
      BY <3>2, <3>4, <3>5 DEF RoundInv
    <3>6. CASE status = "pending" /\ ToTell' = ToTell \cup {c}
      BY <1>0, <3>2, <3>4, <3>6, Counts DEF RoundInv
    <3>7. QED
      BY <3>4, <3>5, <3>6
  <2>3. ASSUME NEW c \in Pair, Complaints!Write(c) PROVE RoundInv'
    <3>1. notices' = notices /\ reportCalls[c].step = "write"
      BY <2>3 DEF Complaints!Write, notices, reportCalls
    <3>2. CASE ~Complaints!Kept
      <4>1. /\ reportCalls' = [reportCalls EXCEPT ![c] = Complaints!Idle]
            /\ UNCHANGED <<status, rounds>> /\ status # "pending"
        BY <2>3, <3>2 DEF Complaints!Write, Complaints!End, reportCalls, status, rounds,
           Complaints!Kept, Complaints!ReportStatus
      <4>2. ToTell' = ToTell \ {c} /\ Telling' = Telling \ {c}
        <5>1. OnlyReportCall(c) /\ reportCalls'[c] = Complaints!Idle
          BY <4>1, ReportPut
        <5>2. QED
          BY <5>1, ReportCall DEF Complaints!Idle, WillTell
      <4>3. Cardinality(ToTell') \in Nat /\ Cardinality(ToTell') <= Cardinality(ToTell)
        BY <1>0, <4>2, Counts
      <4>4. notices' + Cardinality(ToTell') <= rounds' * Cardinality(Pair)
        BY <1>0, <3>1, <4>1, <4>3 DEF RoundInv
      <4>5. stamped' = stamped
        BY <2>3, <3>2 DEF Complaints!Write, stamped
      <4>6. QED
        BY <3>1, <4>1, <4>2, <4>4, <4>5 DEF RoundInv
    <3>3. CASE Complaints!Kept
      <4>1. PICK h : /\ reportCalls[c] = h /\ status' = h.to
                     /\ rounds' = IF h.to = "pending" /\ status # "pending"
                                  THEN rounds + 1 ELSE rounds
                     /\ IF h.to \in Complaints!Resolving /\ h.seen = "pending"
                        THEN reportCalls' = [reportCalls EXCEPT ![c].step = "notify"]
                        ELSE reportCalls' = [reportCalls EXCEPT ![c] = Complaints!Idle]
        BY <2>3, <3>3 DEF Complaints!Write, Complaints!End, reportCalls, status, rounds
      <4>2. status # "none" /\ h.to \in Complaints!ReportStatus /\ h.to # "none"
            /\ h \in [step : {"write", "notify"}, to : Complaints!ReportStatus,
                       seen : Complaints!ReportStatus]
        BY <3>1, <3>3, <4>1 DEF Complaints!TypeOK, reportCalls, Complaints!Idle, Complaints!Kept,
           Complaints!ReportStatus, status
      <4>3. c \notin Telling /\ (c \in ToTell <=> h.to \in Complaints!Resolving
                                                  /\ h.seen = "pending")
        BY <3>1, <4>1 DEF Telling, ToTell
      <4>4. CASE h.to \in Complaints!Resolving /\ h.seen = "pending"
        <5>1. reportCalls' = [reportCalls EXCEPT ![c] = [step |-> "notify", to |-> h.to,
                                                          seen |-> h.seen]]
          BY <4>1, <4>2, <4>4 DEF Complaints!TypeOK, reportCalls
        <5>2. ToTell' = ToTell /\ Telling' = Telling \cup {c}
          <6>1. /\ OnlyReportCall(c)
                /\ reportCalls'[c] = [step |-> "notify", to |-> h.to, seen |-> h.seen]
            BY <5>1, ReportPut
          <6>2. WillTell(reportCalls'[c])
            BY <4>4, <6>1 DEF WillTell
          <6>3. QED
            BY <4>3, <4>4, <6>1, <6>2, ReportCall
        <5>3. status' # "pending" /\ status' # "none" /\ rounds' = rounds
          BY <4>1, <4>2, <4>4 DEF Complaints!Resolving
        <5>4. QED
          BY <3>1, <4>3, <4>4, <5>2, <5>3 DEF RoundInv
      <4>5. CASE ~(h.to \in Complaints!Resolving /\ h.seen = "pending")
        <5>1. reportCalls' = [reportCalls EXCEPT ![c] = Complaints!Idle]
          BY <4>1, <4>5
        <5>2. ToTell' = ToTell /\ Telling' = Telling
          <6>1. OnlyReportCall(c) /\ reportCalls'[c] = Complaints!Idle
            BY <5>1, ReportPut
          <6>2. QED
            BY <4>3, <4>5, <6>1, ReportCall DEF Complaints!Idle, WillTell
        <5>3. status' # "none"
          BY <4>1, <4>2
        <5>4. CASE rounds' = rounds
          BY <1>0, <3>1, <4>1, <5>2, <5>3, <5>4 DEF RoundInv
        <5>5. CASE rounds' = rounds + 1
          BY <1>0, <3>1, <5>2, <5>3, <5>5, Counts DEF RoundInv
        <5>6. QED
          BY <4>1, <5>4, <5>5
      <4>6. QED
        BY <4>4, <4>5
    <3>4. QED
      BY <3>2, <3>3
  <2>4. ASSUME NEW c \in Pair, Complaints!Notify(c) \/ Complaints!Fail(c) PROVE RoundInv'
    <3>1. /\ reportCalls' = [reportCalls EXCEPT ![c] = Complaints!Idle]
          /\ UNCHANGED <<status, rounds>>
          /\ \/ notices' = notices
             \/ notices' = notices + 1 /\ c \in Telling
      BY <2>4 DEF Complaints!Notify, Complaints!Fail, Complaints!End, Telling, status, rounds,
         reportCalls, notices
    <3>2. ToTell' = ToTell \ {c} /\ Telling' = Telling \ {c}
      <4>1. OnlyReportCall(c) /\ reportCalls'[c] = Complaints!Idle
        BY <3>1, ReportPut
      <4>2. QED
        BY <4>1, ReportCall DEF Complaints!Idle, WillTell
    <3>3. /\ Cardinality(ToTell') \in Nat /\ Cardinality(Telling') \in Nat
          /\ Cardinality(ToTell') <= Cardinality(ToTell)
          /\ Cardinality(Telling') <= Cardinality(Telling)
          /\ c \in Telling => /\ Cardinality(ToTell') = Cardinality(ToTell) - 1
                              /\ Cardinality(Telling') = Cardinality(Telling) - 1
      BY <1>0, <3>2, Counts DEF RoundInv
    <3>4. /\ notices' \in Nat
          /\ notices' + Cardinality(ToTell') <= notices + Cardinality(ToTell)
          /\ notices' + Cardinality(Telling') <= notices + Cardinality(Telling)
      BY <1>0, <3>1, <3>3
    <3>5. notices' + Cardinality(ToTell') <= rounds' * Cardinality(Pair)
      BY <1>0, <3>1, <3>3, <3>4 DEF RoundInv
    <3>6. status' = "pending" =>
            notices' + Cardinality(Telling') + Cardinality(Pair) <= rounds' * Cardinality(Pair)
      BY <1>0, <3>1, <3>3, <3>4 DEF RoundInv
    <3>7. stamped' = stamped
      BY <2>4 DEF Complaints!Notify, Complaints!Fail, stamped
    <3>8. QED
      BY <3>1, <3>2, <3>5, <3>6, <3>7 DEF RoundInv
  <2>5. CASE Complaints!DeleteReports
    BY <2>5 DEF Complaints!DeleteReports, reportCalls, rounds, notices, status, RoundInv, ToTell,
       Telling
  <2>6. QED
    BY <2>1, <2>2, <2>3, <2>4, <2>5 DEF Complaints!Next
<1>4. QED
  BY <1>1, <1>2, <1>3

(***************************************************************************)
(* Sessions: what each variable of the part is called there.               *)
(***************************************************************************)
signNow == s1
account == s2
made == s3
signCalls == s5
signTokens == s6
cache == s7
touches == s8
welcomes == s9
invited == s10

\* Ids are given out in order, so that what is known of an id that nobody has
\* yet is nothing.
WelcomeInv ==
  /\ \A i \in Sessions!Ids : i > made => welcomes[i] = 0
  /\ \A i \in invited : i <= made
  /\ Sessions!WelcomedOnce

\* Only an account that is not banned gets tokens, and none reaches further
\* than a refresh period.
BanInv ==
  /\ \A t \in signTokens : t.id <= made /\ t.until <= signNow + REFRESH
  /\ Sessions!BannedSessionsRunOut

\* A write on its way is of this instant, since the clock waits for it.
TouchInv ==
  /\ \A w \in touches : w.at = signNow
  /\ \A p \in Procs, i \in Sessions!Ids :
       cache[p][i] <= signNow /\ (i > made => cache[p][i] = Sessions!Never)
  /\ Sessions!TouchNotForgotten

SignInv == Sessions!TypeOK /\ WelcomeInv /\ BanInv /\ TouchInv

LEMMA SignInit == ASSUME PeopleAssumption, Sessions!Init PROVE SignInv
<1> USE DEF Sessions!Init, Sessions!Ids, Sessions!Never, Sessions!Nobody, Sessions!Idle,
        signNow, account, made, signCalls, signTokens, cache, touches, welcomes, invited
<1>0. {SignTime, MaxAccounts, REFRESH} \subseteq Nat
  BY DEF PeopleAssumption, Sessions!TokenAssumption
<1>1. Sessions!TypeOK
  <2>1. account.id = 0 /\ account.id <= made
    BY <1>0
  <2>2. /\ cache \in [Procs -> [Sessions!Ids -> Sessions!Never..SignTime]]
        /\ welcomes \in [Sessions!Ids -> Nat]
    BY <1>0
  <2>3. signCalls \in [Pair -> {Sessions!Idle}]
    OBVIOUS
  <2>4. account = Sessions!Nobody /\ signNow \in 0..SignTime /\ made \in 0..MaxAccounts
    BY <1>0
  <2>5. QED
    BY <2>1, <2>2, <2>3, <2>4 DEF Sessions!TypeOK
<1>2. WelcomeInv
  BY <1>0 DEF WelcomeInv, Sessions!WelcomedOnce
<1>3. BanInv
  BY <1>0 DEF BanInv, Sessions!BannedSessionsRunOut, Sessions!Known
<1>4. TouchInv
  BY <1>0 DEF TouchInv, Sessions!TouchNotForgotten, Sessions!Known
<1>5. QED
  BY <1>1, <1>2, <1>3, <1>4 DEF SignInv

\* What TypeOK says of the account and of ids.
LEMMA SignFacts ==
  ASSUME PeopleAssumption, Sessions!TypeOK
  PROVE  /\ signNow \in Nat /\ made \in Nat /\ made <= MaxAccounts /\ account.id \in Nat
         /\ account.id <= made /\ REFRESH \in Nat /\ ACCESS \in Nat /\ ACCESS <= REFRESH
         /\ MaxAccounts \in Nat /\ SignTime \in Nat /\ signNow <= SignTime
         /\ Sessions!Known => /\ account.id \in Sessions!Ids
                              /\ account.seen \in Int /\ account.bannedAt \in Int
         /\ ~Sessions!Known => account.id = 0
         /\ welcomes \in [Sessions!Ids -> Nat]
         /\ cache \in [Procs -> [Sessions!Ids -> Sessions!Never..SignTime]]
         /\ \A t \in signTokens : t.id \in Sessions!Ids /\ t.until \in Nat
         /\ \A w \in touches : w.proc \in Procs /\ w.id \in Sessions!Ids /\ w.at \in Nat
<1> USE DEF signNow, account, made, signCalls, signTokens, cache, touches, welcomes, invited
<1>1. /\ {SignTime, MaxAccounts, ACCESS, REFRESH} \subseteq Nat /\ ACCESS <= REFRESH
  BY DEF PeopleAssumption, Sessions!TokenAssumption
<1>2. account = Sessions!Nobody \/
      account \in [id : Sessions!Ids, google : BOOLEAN, pin : BOOLEAN, role : BOOLEAN,
                   seen : Sessions!Never..SignTime, permission : {"GRANTED", "DENIED"},
                   bannedAt : Sessions!Never..SignTime]
  BY DEF Sessions!TypeOK
<1>3. Sessions!Known => /\ account.id \in Sessions!Ids
                        /\ account.seen \in Int /\ account.bannedAt \in Int
  BY <1>1, <1>2 DEF Sessions!Known, Sessions!Never
<1>4. ~Sessions!Known => account.id = 0
  BY DEF Sessions!Known, Sessions!Nobody
<1>5. account.id \in Nat
  BY <1>1, <1>3, <1>4 DEF Sessions!Ids
<1>6. QED
  BY <1>1, <1>3, <1>4, <1>5 DEF Sessions!TypeOK


\* What a step does to the account: nothing, its end, a new one, or a change
\* of some fields.
AccountStep ==
  \/ account' = account /\ made' = made
  \/ account' = Sessions!Nobody /\ made' = made
  \/ /\ account' = Sessions!NewAccount(made + 1, account'.google)
     /\ made' = made + 1 /\ made + 1 \in Sessions!Ids
  \/ /\ Sessions!Known /\ account' # Sessions!Nobody
     /\ made' = made /\ account'.id = account.id
     /\ \/ account'.seen = account.seen
        \/ account'.seen = signNow /\ UNCHANGED <<signNow, cache>>
     /\ \/ account'.permission = account.permission /\ account'.bannedAt = account.bannedAt
        \/ account'.permission = "GRANTED"
        \/ Sessions!Granted /\ account'.bannedAt = signNow /\ UNCHANGED <<signNow, signTokens>>

\* Which accounts get tokens: those that are not banned.
TokenStep ==
  \/ signTokens' \subseteq signTokens
  \/ \E id \in Sessions!Ids :
       /\ signTokens' = signTokens \cup {[id |-> id, until |-> signNow + ACCESS],
                                         [id |-> id, until |-> signNow + REFRESH]}
       /\ account' # Sessions!Nobody
       /\ account'.id = id /\ account'.permission = "GRANTED"
       /\ signNow' = signNow

LEMMA AccountSteps ==
  ASSUME PeopleAssumption, SignInv, Sessions!Next
  PROVE  AccountStep
<1> USE DEF signNow, account, made, signCalls, signTokens, cache, touches, welcomes, invited,
        AccountStep
<1>0. /\ Sessions!Known =>
           account \in [id : Sessions!Ids, google : BOOLEAN, pin : BOOLEAN, role : BOOLEAN,
                        seen : Sessions!Never..SignTime, permission : {"GRANTED", "DENIED"},
                        bannedAt : Sessions!Never..SignTime]
      /\ account.id \in Nat /\ (~Sessions!Known => account.id = 0)
      /\ \A w \in touches : w.at = signNow /\ w.id \in Sessions!Ids
  BY SignFacts DEF SignInv, TouchInv, Sessions!TypeOK, Sessions!Known
<1>1. ASSUME NEW c \in Pair, Sessions!Link(c) PROVE AccountStep
  <2>1. CASE account.id = signCalls[c].id
    <3>1. Sessions!Known
      <4>1. signCalls[c] \in {Sessions!Idle} \cup [step : {"byEmail", "role", "create"}]
                              \cup [step : {"link"}, id : Sessions!Ids]
        BY DEF SignInv, Sessions!TypeOK
      <4>2. signCalls[c].id \in Sessions!Ids
        BY <1>1, <4>1 DEF Sessions!Link, Sessions!Idle
      <4>3. QED
        BY <1>0, <2>1, <4>2 DEF Sessions!Ids
    <3>2. account' = [account EXCEPT !.google = TRUE] /\ made' = made
      BY <1>1, <2>1 DEF Sessions!Link
    <3>3. /\ account'.id = account.id /\ account'.seen = account.seen
          /\ account'.permission = account.permission /\ account'.bannedAt = account.bannedAt
      BY <1>0, <3>1, <3>2
    <3>4. account' # Sessions!Nobody
      BY <1>0, <3>1, <3>3 DEF Sessions!Nobody, Sessions!Ids
    <3>5. QED
      BY <3>1, <3>2, <3>3, <3>4
  <2>2. CASE account.id # signCalls[c].id
    BY <1>1, <2>2 DEF Sessions!Link
  <2>3. QED
    BY <2>1, <2>2
<1>2. ASSUME NEW c \in Pair, Sessions!Create(c) PROVE AccountStep
  BY <1>2 DEF Sessions!Create, Sessions!NewAccount
<1>3. CASE Sessions!AdminCreate
  BY <1>3 DEF Sessions!AdminCreate, Sessions!NewAccount
<1>4. ASSUME NEW w \in touches, Sessions!TouchLands(w) PROVE AccountStep
  <2>1. Sessions!Known
    BY <1>0, <1>4 DEF Sessions!TouchLands, Sessions!Ids
  <2>2. account' = [account EXCEPT !.seen = signNow] /\ made' = made
        /\ UNCHANGED <<signNow, cache>>
    BY <1>0, <1>4 DEF Sessions!TouchLands
  <2>3. /\ account'.id = account.id /\ account'.seen = signNow
        /\ account'.permission = account.permission /\ account'.bannedAt = account.bannedAt
    BY <1>0, <2>1, <2>2
  <2>4. account' # Sessions!Nobody
    BY <1>0, <2>1, <2>3 DEF Sessions!Nobody, Sessions!Ids
  <2>5. QED
    BY <2>1, <2>2, <2>3, <2>4
<1>5. CASE Sessions!SuspendUser
  BY <1>0, <1>5 DEF Sessions!SuspendUser, Sessions!Sessions, Sessions!Nobody, Sessions!Ids,
     Sessions!Granted
<1>6. CASE Sessions!UnsuspendUser
  BY <1>0, <1>6 DEF Sessions!UnsuspendUser, Sessions!Nobody, Sessions!Ids
<1>7. CASE Sessions!RemoveUser
  BY <1>7 DEF Sessions!RemoveUser
<1>8. CASE Sessions!RemoveRole
  <2>1. CASE Sessions!Known
    BY <1>0, <1>8, <2>1 DEF Sessions!RemoveRole, Sessions!Nobody, Sessions!Ids
  <2>2. CASE ~Sessions!Known
    BY <1>8, <2>2 DEF Sessions!RemoveRole
  <2>3. QED
    BY <2>1, <2>2
<1>9. ASSUME NEW c \in Pair,
             Sessions!ByGoogleId(c) \/ Sessions!ByEmail(c) \/ Sessions!EnsureRole(c)
               \/ Sessions!Fail(c)
      PROVE AccountStep
  BY <1>9 DEF Sessions!ByGoogleId, Sessions!ByEmail, Sessions!EnsureRole, Sessions!Fail
<1>10. ASSUME NEW p \in Procs, Sessions!Validate(p) \/ Sessions!Restart(p)
       PROVE AccountStep
  BY <1>10 DEF Sessions!Validate, Sessions!Restart
<1>11. ASSUME NEW w \in touches, Sessions!TouchFails(w)
       PROVE AccountStep
  BY <1>11 DEF Sessions!TouchFails
<1>12. CASE Sessions!AdminLogin \/ Sessions!RefreshToken \/ Sessions!Tick
  BY <1>12 DEF Sessions!AdminLogin, Sessions!RefreshToken, Sessions!Tick
<1>13. QED
  BY <1>1, <1>2, <1>3, <1>4, <1>5, <1>6, <1>7, <1>8, <1>9, <1>10, <1>11, <1>12
     DEF Sessions!Next

LEMMA TokenSteps ==
  ASSUME PeopleAssumption, SignInv, Sessions!Next
  PROVE  TokenStep
<1> USE DEF signNow, account, made, signCalls, signTokens, cache, touches, welcomes, invited,
        TokenStep
<1>0. /\ Sessions!Known => account.id \in Sessions!Ids /\ account # Sessions!Nobody
      /\ Sessions!Known => account.permission \in {"GRANTED", "DENIED"}
      /\ account.id \in Nat /\ (~Sessions!Known => account.id = 0)
      /\ \A t \in signTokens : t.id \in Sessions!Ids
      /\ Sessions!Granted => Sessions!Known /\ account.permission = "GRANTED"
  BY SignFacts DEF SignInv, Sessions!TypeOK, Sessions!Known, Sessions!Granted
<1>1. ASSUME NEW c \in Pair, Sessions!ByGoogleId(c) PROVE TokenStep
  BY <1>0, <1>1 DEF Sessions!ByGoogleId, Sessions!Answer, Sessions!Issue, Sessions!Go
<1>2. ASSUME NEW c \in Pair, Sessions!Link(c) PROVE TokenStep
  <2>1. CASE account.id = signCalls[c].id /\ Sessions!Granted
    BY <1>0, <1>2, <2>1 DEF Sessions!Link, Sessions!Answer, SignInv, Sessions!TypeOK,
       Sessions!Known, Sessions!Nobody, Sessions!Ids, Sessions!Issue
  <2>2. CASE ~(account.id = signCalls[c].id /\ Sessions!Granted)
    BY <1>2, <2>2 DEF Sessions!Link, Sessions!Answer
  <2>3. QED
    BY <2>1, <2>2
<1>3. ASSUME NEW c \in Pair, Sessions!Create(c) PROVE TokenStep
  <2>1. CASE UNCHANGED signTokens
    BY <2>1
  <2>2. CASE /\ made + 1 \in Sessions!Ids /\ Sessions!Issue(made + 1) /\ signNow' = signNow
             /\ account' = Sessions!NewAccount(made + 1, TRUE)
    <3>1. account'.id = made + 1 /\ account'.permission = "GRANTED"
      BY <2>2 DEF Sessions!NewAccount
    <3>2. account' # Sessions!Nobody
      BY <3>1, SignFacts DEF SignInv, Sessions!Nobody
    <3>3. QED
      BY <2>2, <3>1, <3>2 DEF Sessions!Issue
  <2>3. QED
    BY <1>3, <2>1, <2>2 DEF Sessions!Create
<1>4. CASE Sessions!AdminLogin
  BY <1>0, <1>4 DEF Sessions!AdminLogin, Sessions!Issue
<1>5. CASE Sessions!RefreshToken
  <2>1. PICK t \in signTokens :
          /\ account.id = t.id /\ account.permission # "DENIED" /\ Sessions!Issue(t.id)
          /\ UNCHANGED <<signNow, account>>
    BY <1>5 DEF Sessions!RefreshToken
  <2>2. Sessions!Known
    BY <1>0, <2>1 DEF Sessions!Ids
  <2>3. QED
    BY <1>0, <2>1, <2>2 DEF Sessions!Issue
<1>6. ASSUME NEW c \in Pair,
             Sessions!ByEmail(c) \/ Sessions!EnsureRole(c) \/ Sessions!Fail(c)
      PROVE TokenStep
  BY <1>6 DEF Sessions!ByEmail, Sessions!EnsureRole, Sessions!Fail, Sessions!Sessions
<1>7. ASSUME NEW p \in Procs, Sessions!Validate(p) \/ Sessions!Restart(p)
      PROVE TokenStep
  BY <1>7 DEF Sessions!Validate, Sessions!Restart
<1>8. ASSUME NEW w \in touches, Sessions!TouchLands(w) \/ Sessions!TouchFails(w)
      PROVE TokenStep
  BY <1>8 DEF Sessions!TouchLands, Sessions!TouchFails
<1>9. CASE Sessions!AdminCreate \/ Sessions!SuspendUser \/ Sessions!UnsuspendUser
           \/ Sessions!RemoveUser \/ Sessions!RemoveRole \/ Sessions!Tick
  BY <1>9 DEF Sessions!AdminCreate, Sessions!SuspendUser, Sessions!UnsuspendUser,
     Sessions!RemoveUser, Sessions!RemoveRole, Sessions!Tick, Sessions!Sessions
<1>10. QED
  BY <1>1, <1>2, <1>3, <1>4, <1>5, <1>6, <1>7, <1>8, <1>9 DEF Sessions!Next

LEMMA WelcomeNext ==
  ASSUME PeopleAssumption, SignInv, Sessions!Next
  PROVE  WelcomeInv'
<1> USE DEF signNow, account, made, signCalls, signTokens, cache, touches, welcomes, invited
<1>0. /\ made \in Nat /\ welcomes \in [Sessions!Ids -> Nat] /\ invited \subseteq Sessions!Ids
      /\ MaxAccounts \in Nat
      /\ \A i \in Sessions!Ids : i > made => welcomes[i] = 0
      /\ \A i \in invited : i <= made
      /\ \A i \in Sessions!Ids : welcomes[i] <= IF i \in invited THEN 0 ELSE 1
  BY SignFacts DEF SignInv, WelcomeInv, Sessions!TypeOK, Sessions!WelcomedOnce
<1>1. CASE UNCHANGED <<made, welcomes, invited>>
  BY <1>0, <1>1 DEF WelcomeInv, Sessions!WelcomedOnce
<1>2. ASSUME NEW c \in Pair, Sessions!Create(c) PROVE WelcomeInv'
  <2>1. CASE UNCHANGED <<made, welcomes>>
    BY <1>1, <1>2, <2>1 DEF Sessions!Create
  <2>2. CASE /\ made' = made + 1 /\ made + 1 \in Sessions!Ids
             /\ \/ welcomes' = [welcomes EXCEPT ![made + 1] = @ + 1]
                \/ welcomes' = welcomes
    <3>1. invited' = invited
      BY <1>2 DEF Sessions!Create
    <3>2. welcomes[made + 1] = 0 /\ made + 1 \notin invited
      BY <1>0, <2>2
    <3>3. \A i \in Sessions!Ids : i # made + 1 => welcomes'[i] = welcomes[i]
      BY <1>0, <2>2
    <3>4. welcomes'[made + 1] \in 0..1
      BY <1>0, <2>2, <3>2
    <3>5. QED
      BY <1>0, <2>2, <3>1, <3>2, <3>3, <3>4
         DEF WelcomeInv, Sessions!WelcomedOnce, Sessions!Ids
  <2>3. QED
    BY <1>2, <2>1, <2>2 DEF Sessions!Create
<1>3. CASE Sessions!AdminCreate
  BY <1>0, <1>3 DEF Sessions!AdminCreate, WelcomeInv, Sessions!WelcomedOnce, Sessions!Ids
<1>4. CASE ~(\E c \in Pair : Sessions!Create(c)) /\ ~Sessions!AdminCreate
  BY <1>1, <1>4 DEF Sessions!Next, Sessions!ByGoogleId, Sessions!ByEmail, Sessions!Link,
     Sessions!EnsureRole, Sessions!Fail, Sessions!AdminLogin, Sessions!RefreshToken,
     Sessions!Validate, Sessions!Restart, Sessions!TouchLands, Sessions!TouchFails,
     Sessions!SuspendUser, Sessions!UnsuspendUser, Sessions!RemoveUser, Sessions!RemoveRole,
     Sessions!Tick, Sessions!History
<1>5. QED
  BY <1>2, <1>3, <1>4

LEMMA BanNext ==
  ASSUME PeopleAssumption, SignInv, Sessions!Next
  PROVE  BanInv'
<1> USE DEF signNow, account, made, signCalls, signTokens, cache, touches, welcomes, invited
<1>0. /\ signNow \in Nat /\ made \in Nat /\ REFRESH \in Nat /\ ACCESS \in Nat /\ ACCESS <= REFRESH
      /\ account.id \in Nat /\ account.id <= made
      /\ \A t \in signTokens : t.id \in Sessions!Ids /\ t.id <= made /\ t.until \in Nat
                               /\ t.until <= signNow + REFRESH
      /\ Sessions!Known => account.bannedAt \in Int
      /\ AccountStep /\ TokenStep
  BY SignFacts, AccountSteps, TokenSteps DEF SignInv, BanInv
<1>1. signNow' \in Nat /\ signNow <= signNow' /\ made' \in Nat /\ made <= made'
  <2>1. signNow' \in {signNow, signNow + 1}
    BY DEF Sessions!Next, Sessions!ByGoogleId, Sessions!ByEmail, Sessions!Link,
       Sessions!EnsureRole, Sessions!Create, Sessions!Fail, Sessions!AdminLogin,
       Sessions!RefreshToken, Sessions!Validate, Sessions!Restart, Sessions!TouchLands,
       Sessions!TouchFails, Sessions!AdminCreate, Sessions!SuspendUser,
       Sessions!UnsuspendUser, Sessions!RemoveUser, Sessions!RemoveRole, Sessions!Tick
  <2>2. made' \in {made, made + 1}
    BY <1>0 DEF AccountStep
  <2>3. QED
    BY <1>0, <2>1, <2>2
<1>2. account' # Sessions!Nobody => account'.id <= made'
  BY <1>0, <1>1 DEF AccountStep, Sessions!NewAccount, Sessions!Known, Sessions!Nobody
<1>3. ASSUME NEW t \in signTokens'
      PROVE  /\ t.id <= made' /\ t.until <= signNow' + REFRESH
             /\ \/ t \in signTokens
                \/ account'.permission = "GRANTED" /\ t.id = account'.id
  <2>1. CASE t \in signTokens
    BY <1>0, <1>1, <2>1 DEF Sessions!Ids
  <2>2. CASE t \notin signTokens
    BY <1>0, <1>2, <1>3, <2>2 DEF TokenStep
  <2>3. QED
    BY <2>1, <2>2
<1>4. ASSUME account' # Sessions!Nobody, account'.permission # "GRANTED",
             NEW t \in signTokens', t.id = account'.id
      PROVE  t.until <= account'.bannedAt + REFRESH
  <2>1. t \in signTokens
    BY <1>3, <1>4
  <2>2. CASE account' = account
    BY <1>4, <2>1, <2>2 DEF Sessions!Known, Sessions!Granted, SignInv, BanInv,
       Sessions!BannedSessionsRunOut
  <2>3. CASE account' = Sessions!NewAccount(made + 1, account'.google)
    BY <1>4, <2>3 DEF Sessions!NewAccount
  <2>4. CASE /\ Sessions!Known /\ account'.id = account.id
             /\ account'.permission = account.permission /\ account'.bannedAt = account.bannedAt
    BY <1>4, <2>1, <2>4 DEF Sessions!Known, Sessions!Granted, SignInv, BanInv,
       Sessions!BannedSessionsRunOut
  <2>5. CASE account'.bannedAt = signNow
    BY <1>0, <2>1, <2>5
  <2>6. QED
    BY <1>0, <1>4, <2>2, <2>3, <2>4, <2>5 DEF AccountStep
<1>5. QED
  BY <1>3, <1>4 DEF BanInv, Sessions!BannedSessionsRunOut, Sessions!Known, Sessions!Granted

\* A write on its way, whatever the step, is of the instant there is; the
\* clock stands still while there is one.
LEMMA TouchNext ==
  ASSUME PeopleAssumption, SignInv, Sessions!Next
  PROVE  TouchInv'
<1> USE DEF signNow, account, made, signCalls, signTokens, cache, touches, welcomes, invited
<1>0. /\ signNow \in Nat /\ made \in Nat /\ MaxAccounts \in Nat /\ account.id \in Nat
      /\ account.id <= made
      /\ cache \in [Procs -> [Sessions!Ids -> Int]]
      /\ \A p \in Procs, i \in Sessions!Ids :
           cache[p][i] <= signNow /\ (i > made => cache[p][i] = -1)
      /\ \A w \in touches : w.at = signNow /\ w.proc \in Procs /\ w.id \in Sessions!Ids
      /\ \A t \in signTokens : t.id \in Sessions!Ids
      /\ Sessions!Known => account.id \in Sessions!Ids /\ account.seen \in Int
      /\ ~Sessions!Known => account.id = 0
      /\ Sessions!Known => \A p \in Procs :
           \/ account.seen >= cache[p][account.id]
           \/ [proc |-> p, id |-> account.id, at |-> cache[p][account.id]] \in touches
  BY SignFacts DEF SignInv, TouchInv, Sessions!Never, Sessions!TouchNotForgotten
<1>1. AccountStep
  BY AccountSteps
\* The account changes at most; caches and writes stay.
<1>2. CASE UNCHANGED <<signNow, cache, touches>>
  <2>1. ASSUME Sessions!Known', NEW p \in Procs
        PROVE  \/ account'.seen >= cache[p][account'.id]
               \/ [proc |-> p, id |-> account'.id, at |-> cache[p][account'.id]] \in touches
    <3>1. CASE account' = Sessions!NewAccount(made + 1, account'.google) /\ made + 1 \in Sessions!Ids
      BY <1>0, <3>1 DEF Sessions!NewAccount, Sessions!Never
    <3>2. CASE Sessions!Known /\ account'.id = account.id /\ account'.seen = account.seen
      BY <1>0, <3>2
    <3>3. CASE Sessions!Known /\ account'.id = account.id /\ account'.seen = signNow
      BY <1>0, <3>3
    <3>4. QED
      BY <1>1, <2>1, <3>1, <3>2, <3>3 DEF AccountStep, Sessions!Known
  <2>2. made' \in Nat /\ made' >= made
    BY <1>0, <1>1 DEF AccountStep
  <2>3. \A p \in Procs, i \in Sessions!Ids :
          cache'[p][i] <= signNow' /\ (i > made' => cache'[p][i] = -1)
    BY <1>0, <1>2, <2>2 DEF Sessions!Ids
  <2>4. \A w \in touches' : w.at = signNow'
    BY <1>0, <1>2
  <2>5. QED
    BY <1>2, <2>1, <2>3, <2>4 DEF TouchInv, Sessions!TouchNotForgotten, Sessions!Never
<1>3. ASSUME NEW p \in Procs, Sessions!Validate(p) PROVE TouchInv'
  <2>1. PICK i \in Sessions!Ids :
          /\ account.id = i
          /\ cache' = [cache EXCEPT ![p][i] = signNow]
          /\ touches' = touches \cup {[proc |-> p, id |-> i, at |-> signNow]}
          /\ UNCHANGED <<signNow, account, made>>
    BY <1>0, <1>3 DEF Sessions!Validate
  <2>2. /\ cache'[p][i] = signNow
        /\ \A q \in Procs, j \in Sessions!Ids :
             q # p \/ j # i => cache'[q][j] = cache[q][j]
    BY <1>0, <2>1
  <2>3. \A q \in Procs, j \in Sessions!Ids :
          cache'[q][j] <= signNow /\ (j > made => cache'[q][j] = -1)
    BY <1>0, <2>1, <2>2
  <2>4. \A w \in touches' : w.at = signNow
    BY <1>0, <2>1
  <2>5. ASSUME Sessions!Known, NEW q \in Procs
        PROVE  \/ account.seen >= cache'[q][account.id]
               \/ [proc |-> q, id |-> account.id, at |-> cache'[q][account.id]] \in touches'
    BY <1>0, <2>1, <2>2, <2>5
  <2>6. QED
    BY <2>1, <2>3, <2>4, <2>5
       DEF TouchInv, Sessions!TouchNotForgotten, Sessions!Never, Sessions!Known
<1>4. ASSUME NEW w \in touches, Sessions!TouchLands(w) PROVE TouchInv'
  <2>1. /\ account' = [account EXCEPT !.seen = signNow] /\ touches' = touches \ {w}
        /\ UNCHANGED <<signNow, made, cache>>
    BY <1>0, <1>4 DEF Sessions!TouchLands
  <2>2. Sessions!Known
    BY <1>0, <1>4 DEF Sessions!TouchLands, Sessions!Ids
  <2>3. account'.seen = signNow /\ account'.id = account.id
    BY <2>1, <2>2 DEF SignInv, Sessions!TypeOK, Sessions!Known
  <2>4. \A p \in Procs : account'.seen >= cache[p][account.id]
    BY <1>0, <2>2, <2>3
  <2>5. QED
    BY <1>0, <2>1, <2>3, <2>4 DEF TouchInv, Sessions!TouchNotForgotten, Sessions!Never
<1>5. ASSUME NEW w \in touches, Sessions!TouchFails(w) PROVE TouchInv'
  <2>1. PICK p \in Procs, i \in Sessions!Ids :
          /\ w.proc = p /\ w.id = i
          /\ cache' = [cache EXCEPT ![p][i] = -1]
          /\ touches' = touches \ {w}
          /\ UNCHANGED <<signNow, account, made>>
    BY <1>0, <1>5 DEF Sessions!TouchFails, Sessions!Never
  <2>2. /\ cache'[p][i] = -1
        /\ \A q \in Procs, j \in Sessions!Ids :
             q # p \/ j # i => cache'[q][j] = cache[q][j]
    BY <1>0, <2>1
  <2>3. \A q \in Procs, j \in Sessions!Ids :
          cache'[q][j] <= signNow /\ (j > made => cache'[q][j] = -1)
    BY <1>0, <2>2
  <2>4. ASSUME Sessions!Known, NEW q \in Procs
        PROVE  \/ account.seen >= cache'[q][account.id]
               \/ [proc |-> q, id |-> account.id, at |-> cache'[q][account.id]] \in touches'
    <3>1. CASE q = p /\ account.id = i
      BY <2>2, <2>4, <3>1 DEF SignInv, Sessions!TypeOK, Sessions!Known, Sessions!Never
    <3>2. CASE q # p \/ account.id # i
      BY <1>0, <2>1, <2>2, <2>4, <3>2
    <3>3. QED
      BY <3>1, <3>2
  <2>5. QED
    BY <1>0, <2>1, <2>3, <2>4
       DEF TouchInv, Sessions!TouchNotForgotten, Sessions!Never, Sessions!Known
<1>6. ASSUME NEW p \in Procs, Sessions!Restart(p) PROVE TouchInv'
  <2>1. /\ cache' = [cache EXCEPT ![p] = [i \in Sessions!Ids |-> -1]]
        /\ touches' = {w \in touches : w.proc # p}
        /\ UNCHANGED <<signNow, account, made>>
    BY <1>6 DEF Sessions!Restart, Sessions!Never
  <2>2. /\ \A j \in Sessions!Ids : cache'[p][j] = -1
        /\ \A q \in Procs, j \in Sessions!Ids : q # p => cache'[q][j] = cache[q][j]
    BY <1>0, <2>1
  <2>3. \A q \in Procs, j \in Sessions!Ids :
          cache'[q][j] <= signNow /\ (j > made => cache'[q][j] = -1)
    BY <1>0, <2>2
  <2>4. ASSUME Sessions!Known, NEW q \in Procs
        PROVE  \/ account.seen >= cache'[q][account.id]
               \/ [proc |-> q, id |-> account.id, at |-> cache'[q][account.id]] \in touches'
    <3>1. CASE q = p
      BY <1>0, <2>2, <2>4, <3>1 DEF SignInv, Sessions!TypeOK, Sessions!Known, Sessions!Never
    <3>2. CASE q # p
      BY <1>0, <2>1, <2>2, <2>4, <3>2
    <3>3. QED
      BY <3>1, <3>2
  <2>5. QED
    BY <1>0, <2>1, <2>3, <2>4
       DEF TouchInv, Sessions!TouchNotForgotten, Sessions!Never, Sessions!Known
<1>7. CASE Sessions!Tick
  BY <1>0, <1>7 DEF Sessions!Tick, TouchInv, Sessions!TouchNotForgotten, Sessions!Never,
     Sessions!Known
<1>8. CASE /\ ~(\E p \in Procs : Sessions!Validate(p) \/ Sessions!Restart(p))
           /\ ~(\E w \in touches : Sessions!TouchLands(w) \/ Sessions!TouchFails(w))
           /\ ~Sessions!Tick
  BY <1>2, <1>8 DEF Sessions!Next, Sessions!ByGoogleId, Sessions!ByEmail, Sessions!Link,
     Sessions!EnsureRole, Sessions!Create, Sessions!Fail, Sessions!AdminLogin,
     Sessions!RefreshToken, Sessions!AdminCreate, Sessions!SuspendUser, Sessions!UnsuspendUser,
     Sessions!RemoveUser, Sessions!RemoveRole, Sessions!Sessions
<1>9. QED
  BY <1>3, <1>4, <1>5, <1>6, <1>7, <1>8

Account == [id : Sessions!Ids, google : BOOLEAN, pin : BOOLEAN, role : BOOLEAN,
            seen : Sessions!Never..SignTime, permission : {"GRANTED", "DENIED"},
            bannedAt : Sessions!Never..SignTime]
SignCall == {Sessions!Idle} \cup [step : {"byEmail", "role", "create"}]
              \cup [step : {"link"}, id : Sessions!Ids]

LEMMA AccountTypes ==
  ASSUME PeopleAssumption, SignInv, Sessions!Next
  PROVE  account' \in {Sessions!Nobody} \cup Account
<1> USE DEF signNow, account, made, signCalls, signTokens, cache, touches, welcomes, invited
<1>0. /\ Sessions!Known => account \in Account
      /\ account \in {Sessions!Nobody} \cup Account
      /\ signNow \in Sessions!Never..SignTime /\ -1 \in Sessions!Never..SignTime
      /\ \A w \in touches : w.at = signNow /\ w.id \in Sessions!Ids
      /\ ~Sessions!Known => account.id = 0
  BY SignFacts DEF SignInv, TouchInv, Sessions!TypeOK, Sessions!Known, Sessions!Never, Account
<1>1. CASE account' = account \/ account' = Sessions!Nobody
  BY <1>0, <1>1
<1>2. ASSUME NEW c \in Pair, Sessions!Link(c) PROVE account' \in {Sessions!Nobody} \cup Account
  <2>1. CASE account.id = signCalls[c].id
    <3>1. signCalls[c] \in {Sessions!Idle} \cup [step : {"byEmail", "role", "create"}]
                            \cup [step : {"link"}, id : Sessions!Ids]
      BY DEF SignInv, Sessions!TypeOK
    <3>2. signCalls[c].id \in Sessions!Ids
      BY <1>2, <3>1 DEF Sessions!Link, Sessions!Idle
    <3>3. account \in Account
      BY <1>0, <2>1, <3>2 DEF Sessions!Ids
    <3>4. account' = [account EXCEPT !.google = TRUE]
      BY <1>2, <2>1 DEF Sessions!Link
    <3>5. QED
      BY <3>3, <3>4 DEF Account
  <2>2. CASE account.id # signCalls[c].id
    BY <1>1, <1>2, <2>2 DEF Sessions!Link
  <2>3. QED
    BY <2>1, <2>2
<1>3. ASSUME NEW c \in Pair, Sessions!Create(c) PROVE account' \in {Sessions!Nobody} \cup Account
  <2>1. CASE account' = account
    BY <1>1, <2>1
  <2>2. CASE account' = Sessions!NewAccount(made + 1, TRUE) /\ made + 1 \in Sessions!Ids
    BY <1>0, <2>2 DEF Sessions!NewAccount, Account, Sessions!Never
  <2>3. QED
    BY <1>3, <2>1, <2>2 DEF Sessions!Create
<1>4. CASE Sessions!AdminCreate
  BY <1>0, <1>4 DEF Sessions!AdminCreate, Sessions!NewAccount, Account, Sessions!Never
<1>5. ASSUME NEW w \in touches, Sessions!TouchLands(w)
      PROVE  account' \in {Sessions!Nobody} \cup Account
  BY <1>0, <1>5 DEF Sessions!TouchLands, Sessions!Ids, Account
<1>6. CASE Sessions!SuspendUser
  <2>1. account \in Account
    BY <1>0, <1>6 DEF Sessions!SuspendUser
  <2>2. PICK b \in Sessions!Never..SignTime :
          account' = [account EXCEPT !.permission = "DENIED", !.bannedAt = b]
    BY <1>0, <1>6, <2>1 DEF Sessions!SuspendUser, Account
  <2>3. QED
    BY <2>1, <2>2 DEF Account
<1>7. CASE Sessions!UnsuspendUser
  BY <1>0, <1>7 DEF Sessions!UnsuspendUser, Account
<1>8. CASE Sessions!RemoveRole
  BY <1>0, <1>8 DEF Sessions!RemoveRole, Account
<1>9. CASE Sessions!RemoveUser
  BY <1>1, <1>9 DEF Sessions!RemoveUser
<1>10. CASE /\ ~(\E c \in Pair : Sessions!Link(c) \/ Sessions!Create(c))
            /\ ~(\E w \in touches : Sessions!TouchLands(w))
            /\ ~Sessions!AdminCreate /\ ~Sessions!SuspendUser /\ ~Sessions!UnsuspendUser
            /\ ~Sessions!RemoveRole /\ ~Sessions!RemoveUser
  BY <1>1, <1>10 DEF Sessions!Next, Sessions!ByGoogleId, Sessions!ByEmail, Sessions!EnsureRole,
     Sessions!Fail, Sessions!AdminLogin, Sessions!RefreshToken, Sessions!Validate,
     Sessions!Restart, Sessions!TouchFails, Sessions!Tick
<1>11. QED
  BY <1>2, <1>3, <1>4, <1>5, <1>6, <1>7, <1>8, <1>9, <1>10

LEMMA SignCallTypes ==
  ASSUME PeopleAssumption, SignInv, Sessions!Next
  PROVE  signCalls' \in [Pair -> SignCall]
<1> USE DEF signNow, account, made, signCalls, signTokens, cache, touches, welcomes, invited
<1>0. signCalls \in [Pair -> SignCall]
  BY DEF SignInv, Sessions!TypeOK, SignCall
<1>1. ASSUME NEW c \in Pair, NEW m \in SignCall, signCalls' = [signCalls EXCEPT ![c] = m]
      PROVE  signCalls' \in [Pair -> SignCall]
  BY <1>0, <1>1
<1>2. Sessions!Known => account.id \in Sessions!Ids
  BY SignFacts DEF SignInv
<1>3. ASSUME NEW c \in Pair,
             \/ Sessions!ByGoogleId(c) \/ Sessions!ByEmail(c) \/ Sessions!Link(c)
             \/ Sessions!EnsureRole(c) \/ Sessions!Create(c) \/ Sessions!Fail(c)
      PROVE  \E m \in SignCall : signCalls' = [signCalls EXCEPT ![c] = m]
  BY <1>2, <1>3 DEF SignCall, Sessions!ByGoogleId, Sessions!ByEmail, Sessions!Link,
     Sessions!EnsureRole, Sessions!Create, Sessions!Fail, Sessions!Go, Sessions!End,
     Sessions!Answer
<1>4. CASE ~(\E c \in Pair :
               \/ Sessions!ByGoogleId(c) \/ Sessions!ByEmail(c) \/ Sessions!Link(c)
               \/ Sessions!EnsureRole(c) \/ Sessions!Create(c) \/ Sessions!Fail(c))
  BY <1>0, <1>4 DEF Sessions!Next, Sessions!AdminLogin, Sessions!RefreshToken, Sessions!Validate,
     Sessions!Restart, Sessions!TouchLands, Sessions!TouchFails, Sessions!AdminCreate,
     Sessions!SuspendUser, Sessions!UnsuspendUser, Sessions!RemoveUser, Sessions!RemoveRole,
     Sessions!Tick
<1>5. QED
  BY <1>1, <1>3, <1>4

LEMMA TokenTypes ==
  ASSUME PeopleAssumption, SignInv, Sessions!Next
  PROVE  signTokens' \subseteq [id : Sessions!Ids, until : 0..(SignTime + REFRESH)]
<1>1. signTokens \subseteq [id : Sessions!Ids, until : 0..(SignTime + REFRESH)]
  BY DEF SignInv, Sessions!TypeOK, signTokens
<1>2. /\ signNow + ACCESS \in 0..(SignTime + REFRESH)
      /\ signNow + REFRESH \in 0..(SignTime + REFRESH)
  BY SignFacts DEF SignInv
<1>3. QED
  BY <1>1, <1>2, TokenSteps DEF TokenStep

\* The clock, the count of accounts, the role and the histories.
LEMMA RestTypes ==
  ASSUME PeopleAssumption, SignInv, Sessions!Next
  PROVE  /\ signNow' \in 0..SignTime
         /\ made' \in 0..MaxAccounts /\ account'.id <= made'
         /\ s4' \in BOOLEAN
         /\ welcomes' \in [Sessions!Ids -> Nat]
         /\ invited' \subseteq Sessions!Ids
<1> USE DEF signNow, account, made, signCalls, signTokens, cache, touches, welcomes, invited
<1>0. /\ signNow \in 0..SignTime /\ made \in 0..MaxAccounts /\ account.id <= made
      /\ s4 \in BOOLEAN /\ welcomes \in [Sessions!Ids -> Nat] /\ invited \subseteq Sessions!Ids
      /\ SignTime \in Nat /\ MaxAccounts \in Nat /\ account.id \in Nat
  BY SignFacts DEF SignInv, Sessions!TypeOK
<1>1. made' \in 0..MaxAccounts /\ account'.id <= made'
  <2>1. CASE account' = Sessions!NewAccount(made + 1, account'.google)
             /\ made' = made + 1 /\ made + 1 \in Sessions!Ids
    BY <1>0, <2>1 DEF Sessions!NewAccount, Sessions!Ids
  <2>2. CASE account' = Sessions!Nobody /\ made' = made
    BY <1>0, <2>2 DEF Sessions!Nobody
  <2>3. CASE account'.id = account.id /\ made' = made
    BY <1>0, <2>3
  <2>4. QED
    BY AccountSteps, <2>1, <2>2, <2>3 DEF AccountStep
<1>2. signNow' \in 0..SignTime
  <2>1. signNow' = signNow \/ (signNow' = signNow + 1 /\ signNow < SignTime)
    BY DEF Sessions!Next, Sessions!ByGoogleId, Sessions!ByEmail, Sessions!Link,
       Sessions!EnsureRole, Sessions!Create, Sessions!Fail, Sessions!AdminLogin,
       Sessions!RefreshToken, Sessions!Validate, Sessions!Restart, Sessions!TouchLands,
       Sessions!TouchFails, Sessions!AdminCreate, Sessions!SuspendUser,
       Sessions!UnsuspendUser, Sessions!RemoveUser, Sessions!RemoveRole, Sessions!Tick
  <2>2. QED
    BY <1>0, <2>1
<1>3. s4' \in BOOLEAN
  BY <1>0 DEF Sessions!Next, Sessions!ByGoogleId, Sessions!ByEmail, Sessions!Link,
     Sessions!EnsureRole, Sessions!Create, Sessions!Fail, Sessions!AdminLogin,
     Sessions!RefreshToken, Sessions!Validate, Sessions!Restart, Sessions!TouchLands,
     Sessions!TouchFails, Sessions!AdminCreate, Sessions!SuspendUser, Sessions!UnsuspendUser,
     Sessions!RemoveUser, Sessions!RemoveRole, Sessions!Tick
<1>4. /\ \/ welcomes' = welcomes
         \/ \E i \in Sessions!Ids : welcomes' = [welcomes EXCEPT ![i] = @ + 1]
      /\ invited' = invited \/ \E i \in Sessions!Ids : invited' = invited \cup {i}
  BY DEF Sessions!Next, Sessions!ByGoogleId, Sessions!ByEmail, Sessions!Link,
     Sessions!EnsureRole, Sessions!Create, Sessions!Fail, Sessions!AdminLogin,
     Sessions!RefreshToken, Sessions!Validate, Sessions!Restart, Sessions!TouchLands,
     Sessions!TouchFails, Sessions!AdminCreate, Sessions!SuspendUser,
     Sessions!UnsuspendUser, Sessions!RemoveUser, Sessions!RemoveRole, Sessions!Tick,
     Sessions!History
<1>5. QED
  BY <1>0, <1>1, <1>2, <1>3, <1>4

LEMMA CacheTypes ==
  ASSUME PeopleAssumption, SignInv, Sessions!Next
  PROVE  /\ cache' \in [Procs -> [Sessions!Ids -> Sessions!Never..SignTime]]
         /\ touches' \subseteq [proc : Procs, id : Sessions!Ids, at : 0..SignTime]
<1> USE DEF signNow, account, made, signCalls, signTokens, cache, touches, welcomes, invited
<1>0. /\ cache \in [Procs -> [Sessions!Ids -> Sessions!Never..SignTime]]
      /\ touches \subseteq [proc : Procs, id : Sessions!Ids, at : 0..SignTime]
      /\ \A t \in signTokens : t.id \in Sessions!Ids
      /\ signNow \in 0..SignTime /\ signNow \in Sessions!Never..SignTime
      /\ Sessions!Never \in Sessions!Never..SignTime
  BY SignFacts DEF SignInv, Sessions!TypeOK, Sessions!Never
<1>1. /\ \/ cache' = cache
         \/ \E p \in Procs, i \in Sessions!Ids :
              \/ cache' = [cache EXCEPT ![p][i] = signNow]
              \/ cache' = [cache EXCEPT ![p][i] = Sessions!Never]
         \/ \E p \in Procs : cache' = [cache EXCEPT ![p] = [i \in Sessions!Ids |-> Sessions!Never]]
      /\ \/ touches' \subseteq touches
         \/ \E p \in Procs, i \in Sessions!Ids :
              touches' = touches \cup {[proc |-> p, id |-> i, at |-> signNow]}
  BY <1>0 DEF Sessions!Next, Sessions!ByGoogleId, Sessions!ByEmail, Sessions!Link,
     Sessions!EnsureRole, Sessions!Create, Sessions!Fail, Sessions!AdminLogin,
     Sessions!RefreshToken, Sessions!Validate, Sessions!Restart, Sessions!TouchLands,
     Sessions!TouchFails, Sessions!AdminCreate, Sessions!SuspendUser,
     Sessions!UnsuspendUser, Sessions!RemoveUser, Sessions!RemoveRole, Sessions!Tick,
     Sessions!Sessions
<1>2. cache' \in [Procs -> [Sessions!Ids -> Sessions!Never..SignTime]]
  BY <1>0, <1>1
<1>3. QED
  BY <1>0, <1>1, <1>2

LEMMA SignNext == ASSUME PeopleAssumption, SignInv, Sessions!Next PROVE SignInv'
<1>1. Sessions!TypeOK'
  BY AccountTypes, SignCallTypes, TokenTypes, RestTypes, CacheTypes
     DEF Sessions!TypeOK, Account, SignCall, signNow, account, made, signCalls, signTokens,
         cache, touches, welcomes, invited
<1>2. QED
  BY <1>1, WelcomeNext, BanNext, TouchNext DEF SignInv
-----------------------------------------------------------------------------
(***************************************************************************)
(* Favourites: rows, their counter, and the calls between the two.         *)
(***************************************************************************)
favorite == s1
favCount == s2
fanAccounts == s3
heartCalls == s4
inserted == s5
disturbed == s6

HeartCall == {Hearts!Idle} \cup
  [step : {"delete", "insert", "decrement", "increment"}, fan : Couple, row : 0..FavoriteRows]

Rising == Hearts!CallsAt("increment")
Falling == Hearts!CallsAt("decrement")
Liking == Hearts!Holders

\* A call deletes a row that it found; the counter lags by the calls between
\* their two writes, and never counts a row that was not inserted.
HeartInv ==
  /\ Hearts!TypeOK
  /\ \A c \in Pair : heartCalls[c].step = "delete" => heartCalls[c].row # 0
  /\ Hearts!CounterMatchesRows
  /\ favCount + Cardinality(Rising) <= inserted
  /\ Cardinality(Liking) + Cardinality(Falling) <= inserted + favCount

LEMMA HeartFacts ==
  ASSUME PeopleAssumption, Hearts!TypeOK
  PROVE  /\ IsFiniteSet(Pair) /\ IsFiniteSet(Couple) /\ FavoriteRows \in Nat
         /\ favorite \in [Couple -> 0..FavoriteRows]
         /\ favCount \in Int /\ inserted \in 0..FavoriteRows
         /\ fanAccounts \subseteq Couple /\ disturbed \in BOOLEAN
         /\ heartCalls \in [Pair -> HeartCall]
         /\ Cardinality(Rising) \in Nat /\ Cardinality(Falling) \in Nat
         /\ Cardinality(Liking) \in Nat
<1>1. IsFiniteSet(Pair) /\ IsFiniteSet(Couple) /\ FavoriteRows \in Nat
  BY SameCounts DEF PeopleAssumption, Hearts!FavoriteAssumption
<1>2. /\ favorite \in [Couple -> 0..FavoriteRows]
      /\ favCount \in Int /\ inserted \in 0..FavoriteRows
      /\ fanAccounts \subseteq Couple /\ disturbed \in BOOLEAN
  BY <1>1 DEF Hearts!TypeOK, favorite, favCount, inserted, fanAccounts, disturbed
<1>3. heartCalls \in [Pair -> HeartCall]
  BY DEF Hearts!TypeOK, heartCalls, HeartCall
<1>4. Rising \subseteq Pair /\ Falling \subseteq Pair /\ Liking \subseteq Couple
  BY DEF Rising, Falling, Liking, Hearts!CallsAt, Hearts!Holders
<1>5. /\ Cardinality(Rising) \in Nat /\ Cardinality(Falling) \in Nat
      /\ Cardinality(Liking) \in Nat
  BY <1>1, <1>4, Counts
<1>6. QED
  BY <1>1, <1>2, <1>3, <1>5

LEMMA HeartMeans ==
  Hearts!CounterMatchesRows <=>
    (~disturbed => favCount + Cardinality(Rising) - Cardinality(Falling) = Cardinality(Liking))
  BY SameCounts DEF Hearts!CounterMatchesRows, disturbed, favCount, Rising, Falling, Liking

LEMMA HeartInit == ASSUME PeopleAssumption, Hearts!Init PROVE HeartInv
<1> USE DEF favorite, favCount, fanAccounts, heartCalls, inserted, disturbed
<1>1. FavoriteRows \in Nat
  BY DEF PeopleAssumption, Hearts!FavoriteAssumption
<1>2. Hearts!TypeOK
  <2>1. favorite \in [Couple -> 0..FavoriteRows]
    BY <1>1 DEF Hearts!Init
  <2>2. favCount \in -FavoriteRows..FavoriteRows /\ inserted \in 0..FavoriteRows
    BY <1>1 DEF Hearts!Init
  <2>3. heartCalls \in [Pair -> HeartCall]
    BY DEF Hearts!Init, HeartCall
  <2>4. QED
    BY <2>1, <2>2, <2>3 DEF Hearts!Init, Hearts!TypeOK, HeartCall
<1>3. \A c \in Pair : heartCalls[c].step = "idle"
  BY DEF Hearts!Init, Hearts!Idle
<1>4. Rising = {} /\ Falling = {} /\ Liking = {}
  BY <1>3 DEF Hearts!Init, Rising, Falling, Liking, Hearts!CallsAt, Hearts!Holders
<1>5. Cardinality({}) = 0
  BY FS_EmptySet
<1>6. QED
  BY <1>2, <1>3, <1>4, <1>5, HeartMeans DEF HeartInv, Hearts!Init

\* A call goes on as h.
HeartMove(c, h) ==
  heartCalls' = [heartCalls EXCEPT ![c] = h]

LEMMA HeartGoes ==
  ASSUME heartCalls \in [Pair -> HeartCall], NEW c \in Pair,
         NEW s \in {"decrement", "increment"}, heartCalls[c].step \in {"delete", "insert"},
         Hearts!Go(c, s)
  PROVE  \E h \in HeartCall : h.step = s /\ HeartMove(c, h)
<1> USE DEF heartCalls
<1>1. heartCalls[c] \in HeartCall
  OBVIOUS
<1>2. PICK u \in Couple, r \in 0..FavoriteRows :
        heartCalls[c] = [step |-> heartCalls[c].step, fan |-> u, row |-> r]
  BY <1>1 DEF HeartCall, Hearts!Idle
<1>3. [heartCalls[c] EXCEPT !.step = s] = [step |-> s, fan |-> u, row |-> r]
  BY <1>2
<1>4. heartCalls' = [heartCalls EXCEPT ![c] = [step |-> s, fan |-> u, row |-> r]]
  BY <1>3 DEF Hearts!Go
<1>5. [step |-> s, fan |-> u, row |-> r] \in HeartCall
  BY DEF HeartCall
<1>6. QED
  BY <1>4, <1>5 DEF HeartMove

\* What a step does to the calls between their writes.
LEMMA HeartCounts ==
  ASSUME PeopleAssumption, HeartInv, NEW c \in Pair, NEW h \in HeartCall, HeartMove(c, h),
         h.step = "delete" => h.row # 0
  PROVE  /\ heartCalls' \in [Pair -> HeartCall]
         /\ \A d \in Pair : heartCalls'[d].step = "delete" => heartCalls'[d].row # 0
         /\ Cardinality(Rising') = Cardinality(Rising)
              + (IF h.step = "increment" THEN 1 ELSE 0)
              - (IF heartCalls[c].step = "increment" THEN 1 ELSE 0)
         /\ Cardinality(Falling') = Cardinality(Falling)
              + (IF h.step = "decrement" THEN 1 ELSE 0)
              - (IF heartCalls[c].step = "decrement" THEN 1 ELSE 0)
<1>1. IsFiniteSet(Pair) /\ heartCalls \in [Pair -> HeartCall]
  BY HeartFacts DEF HeartInv
<1>2. /\ heartCalls' \in [Pair -> HeartCall] /\ heartCalls'[c] = h
      /\ \A d \in Pair \ {c} : heartCalls'[d] = heartCalls[d]
  BY <1>1 DEF HeartMove
<1>3. \A d \in Pair : heartCalls'[d].step = "delete" => heartCalls'[d].row # 0
  BY <1>2 DEF HeartInv
<1>4. /\ Rising = {d \in Pair : heartCalls[d].step = "increment"}
      /\ Rising' = {d \in Pair : heartCalls'[d].step = "increment"}
      /\ Falling = {d \in Pair : heartCalls[d].step = "decrement"}
      /\ Falling' = {d \in Pair : heartCalls'[d].step = "decrement"}
  BY DEF Rising, Falling, Hearts!CallsAt, heartCalls
<1>5. Cardinality(Rising') = Cardinality(Rising)
         + (IF h.step = "increment" THEN 1 ELSE 0)
         - (IF heartCalls[c].step = "increment" THEN 1 ELSE 0)
  BY <1>1, <1>2, <1>4, OneMoves
<1>6. Cardinality(Falling') = Cardinality(Falling)
         + (IF h.step = "decrement" THEN 1 ELSE 0)
         - (IF heartCalls[c].step = "decrement" THEN 1 ELSE 0)
  BY <1>1, <1>2, <1>4, OneMoves
<1>7. QED
  BY <1>2, <1>3, <1>5, <1>6

\* The row of a user becomes r.
RowMove(u, r) ==
  favorite' = [favorite EXCEPT ![u] = r]

\* ... and to those who have a row.
LEMMA LikingMoves ==
  ASSUME PeopleAssumption, HeartInv, NEW u \in Couple, NEW r \in 0..FavoriteRows,
         RowMove(u, r)
  PROVE  /\ favorite' \in [Couple -> 0..FavoriteRows]
         /\ Cardinality(Liking') = Cardinality(Liking)
              + (IF r # 0 THEN 1 ELSE 0) - (IF favorite[u] # 0 THEN 1 ELSE 0)
<1>1. IsFiniteSet(Couple) /\ favorite \in [Couple -> 0..FavoriteRows]
  BY HeartFacts DEF HeartInv
<1>2. /\ Liking = {v \in Couple : favorite[v] # 0}
      /\ Liking' = {v \in Couple : favorite'[v] # 0}
  BY DEF Liking, Hearts!Holders, favorite
<1>3. \A v \in Couple \ {u} : v \in Liking <=> v \in Liking'
  BY <1>1, <1>2 DEF RowMove
<1>4. (u \in Liking <=> favorite[u] # 0) /\ (u \in Liking' <=> r # 0)
  BY <1>1, <1>2 DEF RowMove
<1>5. Liking \in SUBSET Couple /\ Liking' \in SUBSET Couple
  BY <1>2
<1>6. favorite' \in [Couple -> 0..FavoriteRows]
  BY <1>1 DEF RowMove
<1>7. QED
  BY <1>1, <1>3, <1>4, <1>5, <1>6, OneMoves

\* What has to be known of the figures after a step.
LEMMA HeartKept ==
  ASSUME PeopleAssumption,
         favorite' \in [Couple -> 0..FavoriteRows], favCount' \in Int,
         inserted' \in 0..FavoriteRows, fanAccounts' \subseteq Couple,
         heartCalls' \in [Pair -> HeartCall], disturbed' \in BOOLEAN,
         \A d \in Pair : heartCalls'[d].step = "delete" => heartCalls'[d].row # 0,
         ~disturbed' =>
           favCount' + Cardinality(Rising') - Cardinality(Falling') = Cardinality(Liking'),
         favCount' + Cardinality(Rising') <= inserted',
         Cardinality(Liking') + Cardinality(Falling') <= inserted' + favCount'
  PROVE  HeartInv'
<1>1. IsFiniteSet(Pair) /\ IsFiniteSet(Couple) /\ FavoriteRows \in Nat
  BY SameCounts DEF PeopleAssumption, Hearts!FavoriteAssumption
<1>2. Rising' \subseteq Pair /\ Falling' \subseteq Pair /\ Liking' \subseteq Couple
  BY DEF Rising, Falling, Liking, Hearts!CallsAt, Hearts!Holders
<1>3. /\ Cardinality(Rising') \in Nat /\ Cardinality(Falling') \in Nat
      /\ Cardinality(Liking') \in Nat
  BY <1>1, <1>2, Counts
<1>4. favCount' \in -FavoriteRows..FavoriteRows
  BY <1>1, <1>3
<1>5. Hearts!TypeOK'
  BY <1>4 DEF Hearts!TypeOK, HeartCall, favorite, favCount, inserted, fanAccounts, heartCalls,
     disturbed
<1>6. Hearts!CounterMatchesRows'
  BY SameCounts DEF Hearts!CounterMatchesRows, disturbed, favCount, Rising, Falling, Liking
<1>7. QED
  BY <1>5, <1>6 DEF HeartInv

LEMMA HeartNext == ASSUME PeopleAssumption, HeartInv, Hearts!Next PROVE HeartInv'
<1> USE DEF favorite, favCount, fanAccounts, heartCalls, inserted, disturbed
<1>0. /\ FavoriteRows \in Nat /\ favorite \in [Couple -> 0..FavoriteRows]
      /\ favCount \in Int /\ inserted \in 0..FavoriteRows
      /\ fanAccounts \subseteq Couple /\ disturbed \in BOOLEAN
      /\ heartCalls \in [Pair -> HeartCall]
      /\ Cardinality(Rising) \in Nat /\ Cardinality(Falling) \in Nat
      /\ Cardinality(Liking) \in Nat
  BY HeartFacts DEF HeartInv
<1>1. /\ ~disturbed =>
           favCount + Cardinality(Rising) - Cardinality(Falling) = Cardinality(Liking)
      /\ favCount + Cardinality(Rising) <= inserted
      /\ Cardinality(Liking) + Cardinality(Falling) <= inserted + favCount
  BY HeartMeans DEF HeartInv
<1>2. Hearts!Idle \in HeartCall /\ Hearts!Idle.step = "idle"
  BY DEF HeartCall, Hearts!Idle
<1>3. favorite' = favorite => Cardinality(Liking') = Cardinality(Liking)
  BY DEF Liking, Hearts!Holders
<1>4. ASSUME NEW c \in Pair, Hearts!Find(c) PROVE HeartInv'
  <2>1. PICK u \in fanAccounts :
          /\ heartCalls[c] = Hearts!Idle
          /\ heartCalls' = [heartCalls EXCEPT ![c] =
               [step |-> IF favorite[u] # 0 THEN "delete" ELSE "insert",
                fan |-> u, row |-> favorite[u]]]
          /\ UNCHANGED <<favorite, favCount, fanAccounts, inserted, disturbed>>
    BY <1>4 DEF Hearts!Find
  <2> DEFINE h == [step |-> IF favorite[u] # 0 THEN "delete" ELSE "insert",
                   fan |-> u, row |-> favorite[u]]
  <2>2. h \in HeartCall /\ h.step \in {"delete", "insert"} /\ (h.step = "delete" => h.row # 0)
    BY <1>0 DEF HeartCall
  <2>3. HeartMove(c, h)
    BY <2>1 DEF HeartMove
  <2> HIDE DEF h
  <2>4. /\ heartCalls' \in [Pair -> HeartCall]
        /\ \A d \in Pair : heartCalls'[d].step = "delete" => heartCalls'[d].row # 0
        /\ Cardinality(Rising') = Cardinality(Rising)
        /\ Cardinality(Falling') = Cardinality(Falling)
    BY <1>0, <1>2, <2>1, <2>2, <2>3, HeartCounts
  <2>5. QED
    BY <1>0, <1>1, <1>3, <2>1, <2>4, HeartKept
<1>5. ASSUME NEW c \in Pair, Hearts!End(c)
      PROVE  /\ heartCalls' \in [Pair -> HeartCall]
             /\ \A d \in Pair : heartCalls'[d].step = "delete" => heartCalls'[d].row # 0
             /\ Cardinality(Rising') = Cardinality(Rising)
                  - (IF heartCalls[c].step = "increment" THEN 1 ELSE 0)
             /\ Cardinality(Falling') = Cardinality(Falling)
                  - (IF heartCalls[c].step = "decrement" THEN 1 ELSE 0)
  <2>1. HeartMove(c, Hearts!Idle)
    BY <1>5 DEF HeartMove, Hearts!End
  <2>2. QED
    BY <1>0, <1>2, <2>1, HeartCounts
<1>6. ASSUME NEW c \in Pair, Hearts!Delete(c) PROVE HeartInv'
  <2>1. /\ heartCalls[c].step = "delete"
        /\ UNCHANGED <<favCount, fanAccounts, inserted, disturbed>>
    BY <1>6 DEF Hearts!Delete
  <2>2. CASE favorite' = favorite /\ Hearts!End(c)
    BY <1>0, <1>1, <1>3, <1>5, <2>1, <2>2, HeartKept
  <2>3. CASE /\ favorite[heartCalls[c].fan] = heartCalls[c].row
             /\ favorite' = [favorite EXCEPT ![heartCalls[c].fan] = 0]
             /\ Hearts!Go(c, "decrement")
    <3>1. heartCalls[c].fan \in Couple /\ heartCalls[c].row # 0
      BY <1>0, <2>1 DEF HeartCall, Hearts!Idle, HeartInv
    <3>2. PICK h \in HeartCall : h.step = "decrement" /\ HeartMove(c, h)
      BY <1>0, <2>1, <2>3, HeartGoes
    <3>3. /\ heartCalls' \in [Pair -> HeartCall]
          /\ \A d \in Pair : heartCalls'[d].step = "delete" => heartCalls'[d].row # 0
          /\ Cardinality(Rising') = Cardinality(Rising)
          /\ Cardinality(Falling') = Cardinality(Falling) + 1
      BY <1>0, <2>1, <3>2, HeartCounts
    <3>4. PICK u \in Couple : RowMove(u, 0) /\ favorite[u] # 0
      BY <2>3, <3>1 DEF RowMove
    <3>5. 0 \in 0..FavoriteRows
      BY <1>0
    <3>6. /\ favorite' \in [Couple -> 0..FavoriteRows]
          /\ Cardinality(Liking') = Cardinality(Liking) - 1
      BY <1>0, <3>4, <3>5, LikingMoves
    <3>7. QED
      BY <1>0, <1>1, <2>1, <3>3, <3>6, HeartKept
  <2>4. QED
    BY <1>6, <2>2, <2>3 DEF Hearts!Delete
<1>7. ASSUME NEW c \in Pair, Hearts!Insert(c) PROVE HeartInv'
  <2>1. /\ heartCalls[c].step = "insert" /\ inserted < FavoriteRows
        /\ UNCHANGED <<favCount, fanAccounts, disturbed>>
    BY <1>7 DEF Hearts!Insert
  <2>2. CASE UNCHANGED <<favorite, inserted>> /\ Hearts!End(c)
    BY <1>0, <1>1, <1>3, <1>5, <2>1, <2>2, HeartKept
  <2>3. CASE /\ favorite[heartCalls[c].fan] = 0
             /\ inserted' = inserted + 1
             /\ favorite' = [favorite EXCEPT ![heartCalls[c].fan] = inserted + 1]
             /\ Hearts!Go(c, "increment")
    <3>1. heartCalls[c].fan \in Couple
      BY <1>0, <2>1 DEF HeartCall, Hearts!Idle
    <3>2. PICK h \in HeartCall : h.step = "increment" /\ HeartMove(c, h)
      BY <1>0, <2>1, <2>3, HeartGoes
    <3>3. /\ heartCalls' \in [Pair -> HeartCall]
          /\ \A d \in Pair : heartCalls'[d].step = "delete" => heartCalls'[d].row # 0
          /\ Cardinality(Rising') = Cardinality(Rising) + 1
          /\ Cardinality(Falling') = Cardinality(Falling)
      BY <1>0, <2>1, <3>2, HeartCounts
    <3>4. inserted + 1 \in 0..FavoriteRows /\ inserted + 1 # 0
      BY <1>0, <2>1
    <3>5. PICK u \in Couple, r \in 0..FavoriteRows :
            RowMove(u, r) /\ favorite[u] = 0 /\ r # 0
      BY <2>3, <3>1, <3>4 DEF RowMove
    <3>6. /\ favorite' \in [Couple -> 0..FavoriteRows]
          /\ Cardinality(Liking') = Cardinality(Liking) + 1
      BY <1>0, <3>5, LikingMoves
    <3>7. QED
      BY <1>0, <1>1, <2>1, <2>3, <3>3, <3>4, <3>6, HeartKept
  <2>4. QED
    BY <1>7, <2>2, <2>3 DEF Hearts!Insert
<1>8. ASSUME NEW c \in Pair, Hearts!Count(c) PROVE HeartInv'
  BY <1>0, <1>1, <1>3, <1>5, <1>8, HeartKept DEF Hearts!Count
<1>9. ASSUME NEW c \in Pair, Hearts!Fail(c) PROVE HeartInv'
  <2>1. /\ Hearts!End(c) /\ UNCHANGED <<favorite, favCount, fanAccounts, inserted>>
        /\ disturbed' = (disturbed \/ heartCalls[c].step \in {"increment", "decrement"})
    BY <1>9 DEF Hearts!Fail
  <2>2. /\ heartCalls' \in [Pair -> HeartCall]
        /\ \A d \in Pair : heartCalls'[d].step = "delete" => heartCalls'[d].row # 0
    BY <1>5, <2>1
  <2>3. CASE heartCalls[c].step \in {"increment", "decrement"}
    <3>1. disturbed' = TRUE
      BY <2>1, <2>3
    <3>2. /\ favCount' + Cardinality(Rising') <= inserted'
          /\ Cardinality(Liking') + Cardinality(Falling') <= inserted' + favCount'
      BY <1>0, <1>1, <1>3, <1>5, <2>1
    <3>3. QED
      BY <1>0, <2>1, <2>2, <3>1, <3>2, HeartKept
  <2>4. CASE heartCalls[c].step \notin {"increment", "decrement"}
    BY <1>0, <1>1, <1>3, <1>5, <2>1, <2>2, <2>4, HeartKept
  <2>5. QED
    BY <2>3, <2>4
<1>10. ASSUME NEW u \in Couple, Hearts!RemoveAccount(u) PROVE HeartInv'
  <2>1. /\ fanAccounts' = fanAccounts \ {u} /\ UNCHANGED <<favCount, heartCalls, inserted>>
        /\ favorite' = [favorite EXCEPT ![u] = 0]
        /\ disturbed' = (disturbed \/ favorite[u] # 0)
    BY <1>10 DEF Hearts!RemoveAccount
  <2>2. /\ favorite' \in [Couple -> 0..FavoriteRows]
        /\ Cardinality(Liking') = Cardinality(Liking) - (IF favorite[u] # 0 THEN 1 ELSE 0)
    <3>1. 0 \in 0..FavoriteRows /\ RowMove(u, 0)
      BY <1>0, <2>1 DEF RowMove
    <3>2. QED
      BY <1>0, <3>1, LikingMoves
  <2>3. Rising' = Rising /\ Falling' = Falling
    BY <2>1 DEF Rising, Falling, Hearts!CallsAt
  <2>4. \A d \in Pair : heartCalls'[d].step = "delete" => heartCalls'[d].row # 0
    BY <2>1 DEF HeartInv
  <2>5. CASE favorite[u] # 0
    <3>1. disturbed' = TRUE
      BY <2>1, <2>5
    <3>2. QED
      BY <1>0, <1>1, <2>1, <2>2, <2>3, <2>4, <2>5, <3>1, HeartKept
  <2>6. CASE favorite[u] = 0
    BY <1>0, <1>1, <2>1, <2>2, <2>3, <2>4, <2>6, HeartKept
  <2>7. QED
    BY <2>5, <2>6
<1>11. QED
  BY <1>4, <1>6, <1>7, <1>8, <1>9, <1>10 DEF Hearts!Next

-----------------------------------------------------------------------------
(***************************************************************************)
(* Visits: one visitor, the rows, the counter and the chart.               *)
(***************************************************************************)
viewNow == s1
viewKind == s2
visits == s4
viewCount == s5
viewCalls == s6
unkeyed == s7
viewDied == s8

Seen == Views!Recent
Storing == Views!CallsAt("insert")
Counting == Views!CallsAt("count")

\* Rows are not from the future; a step of a call keeps the two sums.
ViewInv ==
  /\ Views!TypeOK
  /\ \A i \in DOMAIN visits : visits[i] <= viewNow
  /\ Views!VisitsPerWindowBounded
  /\ Views!CounterMatchesVisits

LEMMA ViewFacts ==
  ASSUME PeopleAssumption, Views!TypeOK
  PROVE  /\ IsFiniteSet(Pair) /\ {VisitWindow, VisitTime, MaxVisits} \subseteq Nat
         /\ viewNow \in 0..VisitTime /\ viewKind \in {"view", "scan"}
         /\ viewCount \in Nat /\ unkeyed \in Nat /\ viewDied \in BOOLEAN
         /\ viewCalls \in [Pair -> Views!Steps]
         /\ Storing \in SUBSET Pair /\ Counting \in SUBSET Pair
         /\ \E m \in 0..MaxVisits : /\ visits \in [1..m -> 0..VisitTime]
                                    /\ DOMAIN visits = 1..m
                                    /\ Views!Cardinality(Views!Rows) = m
<1> USE DEF viewNow, viewKind, visits, viewCount, viewCalls, unkeyed, viewDied
<1>1. IsFiniteSet(Pair) /\ {VisitWindow, VisitTime, MaxVisits} \subseteq Nat
  BY SameCounts DEF PeopleAssumption, Views!VisitAssumption
<1>2. PICK m \in 0..MaxVisits : visits \in [1..m -> 0..VisitTime]
  BY DEF Views!TypeOK, Views!Times
<1>3. Cardinality(1..m) = m
  BY <1>1, <1>2, FS_Interval
<1>4. Views!Cardinality(Views!Rows) = m /\ DOMAIN visits = 1..m
  BY <1>2, <1>3, SameCounts DEF Views!Rows
<1>5. Storing \in SUBSET Pair /\ Counting \in SUBSET Pair
  BY DEF Storing, Counting, Views!CallsAt
<1>6. QED
  BY <1>1, <1>2, <1>4, <1>5 DEF Views!TypeOK, Views!Times

LEMMA ViewInit == ASSUME PeopleAssumption, Views!Init PROVE ViewInv
<1> USE DEF viewNow, viewKind, visits, viewCount, viewCalls, unkeyed, viewDied
<1>1. {VisitTime, MaxVisits} \subseteq Nat
  BY DEF PeopleAssumption, Views!VisitAssumption
<1>2. visits \in [1..0 -> Views!Times] /\ 0 \in 0..MaxVisits /\ 0 \in Views!Times
  BY <1>1 DEF Views!Init, Views!Times
<1>3. viewCalls \in [Pair -> Views!Steps]
  BY DEF Views!Init, Views!Steps
<1>4. Views!TypeOK
  BY <1>2, <1>3 DEF Views!TypeOK, Views!Init
<1>5. Views!Recent = {} /\ Views!Rows = {} /\ Views!CallsAt("count") = {}
  BY <1>2 DEF Views!Init, Views!Recent, Views!Rows, Views!CallsAt
<1>6. Cardinality({}) = 0
  BY FS_EmptySet
<1>7. Views!CounterMatchesVisits
  BY <1>5, <1>6, SameCounts DEF Views!CounterMatchesVisits, Views!Init
<1>8. QED
  BY <1>2, <1>4, <1>5, <1>7 DEF ViewInv, Views!VisitsPerWindowBounded

LEMMA ViewMeans ==
  /\ Views!VisitsPerWindowBounded <=>
       (Seen # {} => Cardinality(Seen) + Cardinality(Storing) <= Cardinality(Pair))
  /\ Views!CounterMatchesVisits <=>
       (viewKind = "view" /\ ~viewDied =>
          viewCount + Cardinality(Counting) = Cardinality(Views!Rows) + unkeyed)
<1>1. Views!VisitsPerWindowBounded <=>
        (Seen # {} => Cardinality(Seen) + Cardinality(Storing) <= Cardinality(Pair))
  BY SameCounts DEF Views!VisitsPerWindowBounded, Seen, Storing
<1>2. Views!CounterMatchesVisits <=>
        (viewKind = "view" /\ ~viewDied =>
           viewCount + Cardinality(Counting) = Cardinality(Views!Rows) + unkeyed)
  BY SameCounts DEF Views!CounterMatchesVisits, viewKind, viewDied, viewCount, Counting, unkeyed
<1>3. QED
  BY <1>1, <1>2

\* A call goes on to the step s.
ViewMove(c, s) ==
  viewCalls' = [viewCalls EXCEPT ![c] = s]

LEMMA ViewCounts ==
  ASSUME PeopleAssumption, Views!TypeOK, NEW c \in Pair, NEW s \in Views!Steps, ViewMove(c, s)
  PROVE  /\ viewCalls' \in [Pair -> Views!Steps]
         /\ Cardinality(Storing) \in Nat /\ Cardinality(Counting) \in Nat
         /\ Cardinality(Storing') = Cardinality(Storing)
              + (IF s = "insert" THEN 1 ELSE 0) - (IF viewCalls[c] = "insert" THEN 1 ELSE 0)
         /\ Cardinality(Counting') = Cardinality(Counting)
              + (IF s = "count" THEN 1 ELSE 0) - (IF viewCalls[c] = "count" THEN 1 ELSE 0)
<1>1. IsFiniteSet(Pair) /\ viewCalls \in [Pair -> Views!Steps]
  BY ViewFacts
<1>2. /\ viewCalls' \in [Pair -> Views!Steps] /\ viewCalls'[c] = s
      /\ \A d \in Pair \ {c} : viewCalls'[d] = viewCalls[d]
  BY <1>1 DEF ViewMove
<1>3. /\ Storing = {d \in Pair : viewCalls[d] = "insert"}
      /\ Storing' = {d \in Pair : viewCalls'[d] = "insert"}
      /\ Counting = {d \in Pair : viewCalls[d] = "count"}
      /\ Counting' = {d \in Pair : viewCalls'[d] = "count"}
  BY DEF Storing, Counting, Views!CallsAt, viewCalls
<1>4. /\ \A d \in Pair \ {c} : d \in Storing <=> d \in Storing'
      /\ (c \in Storing <=> viewCalls[c] = "insert") /\ (c \in Storing' <=> s = "insert")
      /\ Storing \in SUBSET Pair /\ Storing' \in SUBSET Pair
  BY <1>2, <1>3
<1>5. /\ \A d \in Pair \ {c} : d \in Counting <=> d \in Counting'
      /\ (c \in Counting <=> viewCalls[c] = "count") /\ (c \in Counting' <=> s = "count")
      /\ Counting \in SUBSET Pair /\ Counting' \in SUBSET Pair
  BY <1>2, <1>3
<1>6. /\ Cardinality(Storing) \in Nat
      /\ Cardinality(Storing') = Cardinality(Storing)
           + (IF s = "insert" THEN 1 ELSE 0) - (IF viewCalls[c] = "insert" THEN 1 ELSE 0)
  BY <1>1, <1>4, OneMoves
<1>7. /\ Cardinality(Counting) \in Nat
      /\ Cardinality(Counting') = Cardinality(Counting)
           + (IF s = "count" THEN 1 ELSE 0) - (IF viewCalls[c] = "count" THEN 1 ELSE 0)
  BY <1>1, <1>5, OneMoves
<1>8. QED
  BY <1>2, <1>6, <1>7

\* A call that changes no row: what it was about to insert becomes no more
\* when there are recent rows.
LEMMA ViewGoes ==
  ASSUME PeopleAssumption, ViewInv, NEW c \in Pair, NEW s \in Views!Steps, ViewMove(c, s),
         UNCHANGED <<viewNow, viewKind, s3, visits, unkeyed>>,
         viewCount' \in Nat, viewDied' \in BOOLEAN,
         s = "insert" => Seen = {},
         ~viewDied' => ~viewDied /\
           viewCount' + (IF s = "count" THEN 1 ELSE 0)
             = viewCount + (IF viewCalls[c] = "count" THEN 1 ELSE 0)
  PROVE  ViewInv'
<1>1. /\ viewCalls' \in [Pair -> Views!Steps]
      /\ Cardinality(Storing) \in Nat /\ Cardinality(Counting) \in Nat
      /\ Cardinality(Storing') = Cardinality(Storing)
           + (IF s = "insert" THEN 1 ELSE 0) - (IF viewCalls[c] = "insert" THEN 1 ELSE 0)
      /\ Cardinality(Counting') = Cardinality(Counting)
           + (IF s = "count" THEN 1 ELSE 0) - (IF viewCalls[c] = "count" THEN 1 ELSE 0)
  BY ViewCounts DEF ViewInv
<1>2. Seen' = Seen /\ (Views!Rows)' = Views!Rows
  BY DEF Seen, Views!Recent, Views!Rows, visits, viewNow, viewKind
<1>3. /\ IsFiniteSet(Pair) /\ viewCount \in Nat /\ unkeyed \in Nat
      /\ viewKind \in {"view", "scan"} /\ viewDied \in BOOLEAN
      /\ Cardinality(Views!Rows) \in Nat
  BY ViewFacts, SameCounts DEF ViewInv
<1>4. Cardinality(Seen) \in Nat /\ Cardinality(Pair) \in Nat
  <2>1. PICK m \in Nat : DOMAIN visits = 1..m
    BY ViewFacts DEF ViewInv
  <2>2. Seen \in SUBSET (1..m) /\ IsFiniteSet(1..m)
    BY <2>1, FS_Interval DEF Seen, Views!Recent, Views!Rows, visits
  <2>3. QED
    BY <1>3, <2>2, Counts
<1>5. Views!VisitsPerWindowBounded'
  BY <1>1, <1>2, <1>4, ViewMeans, SameCounts DEF ViewInv, Views!VisitsPerWindowBounded, Seen,
     Storing
<1>6. Views!CounterMatchesVisits'
  <2>1. viewKind = "view" /\ ~viewDied =>
          viewCount + Cardinality(Counting) = Cardinality(Views!Rows) + unkeyed
    BY ViewMeans DEF ViewInv
  <2>2. ASSUME viewKind' = "view", ~viewDied'
        PROVE  viewCount' + Cardinality(Counting') = Cardinality((Views!Rows)') + unkeyed'
    <3>1. viewCount + Cardinality(Counting) = Cardinality(Views!Rows) + unkeyed
      BY <2>1, <2>2
    <3>2. viewCount' + (IF s = "count" THEN 1 ELSE 0)
            = viewCount + (IF viewCalls[c] = "count" THEN 1 ELSE 0)
      BY <2>2
    <3>3. Cardinality((Views!Rows)') = Cardinality(Views!Rows) /\ unkeyed' = unkeyed
      BY <1>2
    <3>4. PICK p \in 0..1, q \in 0..1 :
            /\ p = (IF s = "count" THEN 1 ELSE 0)
            /\ q = (IF viewCalls[c] = "count" THEN 1 ELSE 0)
      OBVIOUS
    <3>5. viewCount' + p = viewCount + q
      BY <3>2, <3>4
    <3>6. Cardinality(Counting') + q = Cardinality(Counting) + p
      BY <1>1, <3>4
    <3>7. /\ viewCount \in Nat /\ viewCount' \in Nat /\ Cardinality(Counting) \in Nat
          /\ Cardinality(Counting') \in Int /\ p \in Int /\ q \in Int
      BY <1>1, <1>3, <3>4
    <3>8. viewCount' + Cardinality(Counting') = viewCount + Cardinality(Counting)
      <4>1. PICK m \in Int, n \in Nat : m = Cardinality(Counting') /\ n = Cardinality(Counting)
        BY <3>7
      <4>2. PICK a \in Nat, b \in Nat : a = viewCount' /\ b = viewCount
        BY <3>7
      <4>3. m + q = n + p
        BY <3>6, <4>1
      <4>4. a + p = b + q
        BY <3>5, <4>2, Zenon
      <4>5. a + m = b + n
        BY <3>4, <4>3, <4>4
      <4>6. QED
        BY <4>1, <4>2, <4>5, Zenon
    <3>9. QED
      BY <3>1, <3>3, <3>8
  <2>3. QED
    BY <2>2, SameCounts DEF Views!CounterMatchesVisits, viewKind, viewDied, viewCount, Counting,
       unkeyed
<1>7. Views!TypeOK'
  BY <1>1 DEF ViewInv, Views!TypeOK, Views!Times, viewNow, viewKind, visits, viewCount, viewCalls,
     unkeyed, viewDied
<1>8. \A i \in DOMAIN visits' : visits'[i] <= viewNow'
  BY DEF ViewInv
<1>9. QED
  BY <1>5, <1>6, <1>7, <1>8 DEF ViewInv

\* A row is stored; what is stored when nothing was recent is the only one.
LEMMA ViewStored ==
  ASSUME PeopleAssumption, ViewInv, NEW c \in Pair, Views!Insert(c)
  PROVE  ViewInv'
<1> USE DEF viewNow, viewKind, visits, viewCount, viewCalls, unkeyed, viewDied
<1>1. /\ IsFiniteSet(Pair) /\ {VisitWindow, VisitTime, MaxVisits} \subseteq Nat
      /\ viewNow \in 0..VisitTime /\ viewKind \in {"view", "scan"}
      /\ viewCount \in Nat /\ unkeyed \in Nat /\ viewDied \in BOOLEAN
      /\ Cardinality(Pair) \in Nat
  BY ViewFacts, Counts DEF ViewInv
<1>2. PICK m \in 0..MaxVisits : /\ visits \in [1..m -> 0..VisitTime] /\ DOMAIN visits = 1..m
                                /\ Views!Cardinality(Views!Rows) = m
  BY ViewFacts DEF ViewInv
<1>3. /\ viewCalls[c] = "insert" /\ m + 1 <= MaxVisits
      /\ visits' = [i \in 1..(m + 1) |-> IF i < m + 1 THEN visits[i] ELSE viewNow]
      /\ viewCalls' = [viewCalls EXCEPT ![c] = IF viewKind = "view" THEN "count" ELSE "idle"]
      /\ UNCHANGED <<viewNow, viewKind, s3, viewCount, unkeyed, viewDied>>
  BY <1>2 DEF Views!Insert
<1>4. /\ visits' \in [1..(m + 1) -> 0..VisitTime] /\ m + 1 \in 0..MaxVisits
      /\ \A i \in 1..m : visits'[i] = visits[i]
      /\ visits'[m + 1] = viewNow
  BY <1>1, <1>2, <1>3
<1>5. PICK s \in Views!Steps : /\ ViewMove(c, s) /\ s \in {"count", "idle"}
                               /\ viewKind = "view" => s = "count"
  BY <1>3 DEF ViewMove, Views!Steps
<1>6. /\ viewCalls' \in [Pair -> Views!Steps]
      /\ Cardinality(Storing) \in Nat /\ Cardinality(Counting) \in Nat
      /\ Cardinality(Storing') = Cardinality(Storing) - 1
      /\ viewKind = "view" => Cardinality(Counting') = Cardinality(Counting) + 1
  <2>1. /\ viewCalls' \in [Pair -> Views!Steps]
        /\ Cardinality(Storing) \in Nat /\ Cardinality(Counting) \in Nat
        /\ Cardinality(Storing') = Cardinality(Storing)
             + (IF s = "insert" THEN 1 ELSE 0) - (IF viewCalls[c] = "insert" THEN 1 ELSE 0)
        /\ Cardinality(Counting') = Cardinality(Counting)
             + (IF s = "count" THEN 1 ELSE 0) - (IF viewCalls[c] = "count" THEN 1 ELSE 0)
    BY <1>5, ViewCounts DEF ViewInv
  <2>2. Cardinality(Storing') = Cardinality(Storing) - 1
    BY <1>3, <1>5, <2>1
  <2>3. viewKind = "view" => Cardinality(Counting') = Cardinality(Counting) + 1
    BY <1>3, <1>5, <2>1
  <2>4. QED
    BY <2>1, <2>2, <2>3
<1>7. /\ Seen \subseteq 1..m /\ Seen' \subseteq Seen \cup {m + 1}
  BY <1>2, <1>3, <1>4 DEF Views!Rows, Seen, Views!Recent
<1>8. /\ Cardinality(Seen) \in Nat /\ Cardinality(Seen') \in Nat
      /\ Cardinality(Seen') <= Cardinality(Seen) + 1
      /\ Seen = {} => Cardinality(Seen') <= 1
  <2>1. IsFiniteSet(1..(m + 1)) /\ m + 1 \notin Seen
        /\ Seen \in SUBSET (1..(m + 1)) /\ Seen \cup {m + 1} \in SUBSET (1..(m + 1))
    BY <1>2, <1>7, FS_Interval
  <2>2. /\ Cardinality(Seen) \in Nat
        /\ Cardinality(Seen \cup {m + 1}) = Cardinality(Seen) + 1
    <3>1. m + 1 \in (1..(m + 1)) \ Seen
      BY <1>2, <2>1
    <3>2. QED
      BY <2>1, <3>1, Counts
  <2>3. /\ Cardinality(Seen') \in Nat
        /\ Cardinality(Seen') <= Cardinality(Seen \cup {m + 1})
    BY <1>7, <2>1, Counts
  <2>4. Cardinality({}) = 0
    BY FS_EmptySet
  <2>5. QED
    BY <2>2, <2>3, <2>4
<1>9. Seen' # {} => Cardinality(Seen') + Cardinality(Storing') <= Cardinality(Pair)
  <2>1. CASE Seen = {}
    <3>1. Cardinality(Storing) <= Cardinality(Pair)
      BY <1>1, ViewFacts, Counts DEF ViewInv
    <3>2. QED
      BY <1>1, <1>6, <1>8, <2>1, <3>1
  <2>2. CASE Seen # {}
    BY <1>1, <1>6, <1>8, <2>2, ViewMeans DEF ViewInv
  <2>3. QED
    BY <2>1, <2>2
<1>10. Views!VisitsPerWindowBounded'
  BY <1>9, SameCounts DEF Views!VisitsPerWindowBounded, Seen, Storing
<1>11. Views!CounterMatchesVisits'
  <2>1. Cardinality((Views!Rows)') = m + 1
    BY <1>2, <1>4, FS_Interval DEF Views!Rows
  <2>2. Cardinality(Views!Rows) = m
    BY <1>2, SameCounts
  <2>3. ASSUME viewKind' = "view", ~viewDied'
        PROVE  viewCount' + Cardinality(Counting') = Cardinality((Views!Rows)') + unkeyed'
    <3>1. viewKind = "view" /\ ~viewDied
      BY <1>3, <2>3
    <3>2. viewCount + Cardinality(Counting) = m + unkeyed
      BY <2>2, <3>1, ViewMeans DEF ViewInv
    <3>3. viewCount' = viewCount /\ unkeyed' = unkeyed
      BY <1>3
    <3>4. PICK a \in Nat, b \in Nat, d \in Nat :
            a = viewCount /\ b = unkeyed /\ d = Cardinality(Counting)
      BY <1>1, <1>6
    <3>5. a + d = m + b
      BY <3>2, <3>4, Zenon
    <3>6. Cardinality(Counting') = d + 1
      BY <1>6, <3>1, <3>4, Zenon
    <3>7. a + (d + 1) = (m + 1) + b
      BY <1>2, <3>5
    <3>8. QED
      BY <2>1, <3>3, <3>4, <3>6, <3>7, Zenon
  <2>4. QED
    BY <2>3, SameCounts DEF Views!CounterMatchesVisits, Counting
<1>12. \A i \in DOMAIN visits' : visits'[i] <= viewNow'
  BY <1>1, <1>2, <1>3, <1>4 DEF ViewInv
<1>13. Views!TypeOK'
  BY <1>3, <1>4, <1>6 DEF ViewInv, Views!TypeOK, Views!Times
<1>14. QED
  BY <1>10, <1>11, <1>12, <1>13 DEF ViewInv

LEMMA ViewNext == ASSUME PeopleAssumption, ViewInv, Views!Next PROVE ViewInv'
<1> USE DEF viewNow, viewKind, visits, viewCount, viewCalls, unkeyed, viewDied
<1>1. /\ IsFiniteSet(Pair) /\ {VisitWindow, VisitTime, MaxVisits} \subseteq Nat
      /\ viewNow \in 0..VisitTime /\ viewKind \in {"view", "scan"}
      /\ viewCount \in Nat /\ unkeyed \in Nat /\ viewDied \in BOOLEAN
      /\ viewCalls \in [Pair -> Views!Steps]
  BY ViewFacts DEF ViewInv
<1>2. {"idle", "insert", "count"} = Views!Steps
  BY DEF Views!Steps
<1>3. ASSUME NEW c \in Pair, Views!Find(c) PROVE ViewInv'
  BY <1>1, <1>2, <1>3, ViewGoes DEF Views!Find, ViewMove, Seen
<1>4. ASSUME NEW c \in Pair, Views!Count(c) PROVE ViewInv'
  <2>1. /\ viewCalls[c] = "count" /\ ViewMove(c, "idle") /\ viewCount' = viewCount + 1
        /\ UNCHANGED <<viewNow, viewKind, s3, visits, unkeyed, viewDied>>
    BY <1>4 DEF Views!Count, ViewMove
  <2>2. viewCount' \in Nat /\ viewDied' \in BOOLEAN
        /\ (~viewDied' => ~viewDied /\ viewCount' + 0 = viewCount + 1)
    BY <1>1, <2>1
  <2>3. QED
    BY <1>1, <1>2, <2>1, <2>2, ViewGoes
<1>5. ASSUME NEW c \in Pair, Views!Fail(c) PROVE ViewInv'
  BY <1>1, <1>2, <1>5, ViewGoes DEF Views!Fail, ViewMove
<1>6. CASE Views!CountUnkeyed \/ Views!ChangeAccess
  <2>1. /\ UNCHANGED <<viewNow, visits, viewCalls, viewDied, viewKind>>
        /\ s3' \in BOOLEAN
        /\ viewCount' \in Nat /\ unkeyed' \in Nat
        /\ viewCount' + unkeyed = viewCount + unkeyed'
    <3>1. CASE Views!CountUnkeyed
      BY <1>1, <3>1 DEF Views!CountUnkeyed, ViewInv, Views!TypeOK
    <3>2. CASE Views!ChangeAccess
      BY <1>1, <3>2 DEF Views!ChangeAccess, ViewInv, Views!TypeOK
    <3>3. QED
      BY <1>6, <3>1, <3>2
  <2>2. UNCHANGED <<Seen, Storing, Counting, Views!Rows>>
    BY <2>1 DEF Seen, Storing, Counting, Views!Recent, Views!Rows, Views!CallsAt
  <2>3. Views!VisitsPerWindowBounded'
    BY <2>2, ViewMeans, SameCounts DEF ViewInv, Views!VisitsPerWindowBounded, Seen, Storing
  <2>4. Views!CounterMatchesVisits'
    <3>1. ASSUME viewKind' = "view", ~viewDied'
          PROVE  viewCount' + Cardinality(Counting') = Cardinality((Views!Rows)') + unkeyed'
      <4>1. viewKind = "view" /\ ~viewDied
        BY <2>1, <3>1
      <4>2. viewCount + Cardinality(Counting) = Cardinality(Views!Rows) + unkeyed
        BY <4>1, ViewMeans DEF ViewInv
      <4>3. Cardinality(Counting) \in Nat /\ Cardinality(Views!Rows) \in Nat
        BY <1>1, ViewFacts, SameCounts, Counts DEF ViewInv
      <4>4. /\ Cardinality(Counting') = Cardinality(Counting)
            /\ Cardinality((Views!Rows)') = Cardinality(Views!Rows)
        BY <2>2
      <4>5. viewCount' \in Nat /\ unkeyed' \in Nat /\ viewCount' + unkeyed = viewCount + unkeyed'
        BY <2>1
      <4>6. viewCount \in Nat /\ unkeyed \in Nat
        BY <1>1
      <4>7. viewCount' + Cardinality(Counting) = Cardinality(Views!Rows) + unkeyed'
        BY <4>2, <4>3, <4>5, <4>6
      <4>8. QED
        BY <4>4, <4>7
    <3>2. QED
      BY <3>1, SameCounts DEF Views!CounterMatchesVisits, Counting
  <2>5. Views!TypeOK' /\ \A i \in DOMAIN visits' : visits'[i] <= viewNow'
    BY <2>1 DEF ViewInv, Views!TypeOK, Views!Times
  <2>6. QED
    BY <2>3, <2>4, <2>5 DEF ViewInv
<1>7. CASE Views!Tick
  <2>1. /\ viewNow' = viewNow + 1 /\ viewNow < VisitTime /\ Views!CallsAt("idle") = Pair
        /\ UNCHANGED <<viewKind, s3, visits, viewCount, viewCalls, unkeyed, viewDied>>
    BY <1>7 DEF Views!Tick
  <2>2. PICK m \in 0..MaxVisits : visits \in [1..m -> 0..VisitTime] /\ DOMAIN visits = 1..m
    BY ViewFacts DEF ViewInv
  <2>3. Storing' = {} /\ Storing = {} /\ Counting' = Counting /\ (Views!Rows)' = Views!Rows
    BY <2>1 DEF Views!CallsAt, Storing, Counting, Views!Rows
  <2>4. Seen \in SUBSET (1..m) /\ Seen' \in SUBSET Seen
    BY <1>1, <2>1, <2>2 DEF Views!Rows, Seen, Views!Recent
  <2>5. Seen' # {} => Cardinality(Seen') + Cardinality(Storing') <= Cardinality(Pair)
    <3>1. /\ Cardinality(Seen') <= Cardinality(Seen)
          /\ Cardinality(Seen) \in Nat /\ Cardinality(Seen') \in Nat
      <4>1. IsFiniteSet(1..m) /\ Seen' \in SUBSET (1..m)
        BY <1>1, <2>2, <2>4, FS_Interval
      <4>2. QED
        BY <2>4, <4>1, Counts
    <3>2. Seen # {} => Cardinality(Seen) + Cardinality(Storing) <= Cardinality(Pair)
      BY ViewMeans DEF ViewInv
    <3>3. Cardinality(Storing') = 0 /\ Cardinality(Storing) = 0
      BY <2>3, FS_EmptySet
    <3>4. Cardinality(Pair) \in Nat
      BY <1>1, Counts
    <3>5. Seen' # {} => Seen # {}
      BY <2>4
    <3>6. QED
      BY <3>1, <3>2, <3>3, <3>4, <3>5
  <2>6. Views!VisitsPerWindowBounded'
    BY <2>5, SameCounts DEF Views!VisitsPerWindowBounded, Seen, Storing
  <2>7. Views!CounterMatchesVisits'
    BY <2>1, <2>3, ViewMeans, SameCounts DEF ViewInv, Views!CounterMatchesVisits, Counting
  <2>8. \A i \in DOMAIN visits' : visits'[i] <= viewNow'
    BY <1>1, <2>1, <2>2 DEF ViewInv
  <2>9. Views!TypeOK'
    BY <1>1, <2>1 DEF ViewInv, Views!TypeOK, Views!Times
  <2>10. QED
    BY <2>6, <2>7, <2>8, <2>9 DEF ViewInv
<1>8. QED
  BY <1>3, <1>4, <1>5, <1>6, <1>7, ViewStored DEF Views!Next

\* Each row of the chart is some days old, fewer than the chart has.
LEMMA ViewChart == ASSUME PeopleAssumption, ViewInv PROVE Views!ChartAddsUp
<1> USE DEF viewNow, visits
<1>1. /\ VisitDay \in Nat \ {0} /\ ChartDays \in Nat \ {0} /\ VisitTime \in Nat
      /\ viewNow \in 0..VisitTime
  BY ViewFacts DEF ViewInv, PeopleAssumption, Views!VisitAssumption
<1>2. PICK m \in 0..MaxVisits : visits \in [1..m -> 0..VisitTime] /\ DOMAIN visits = 1..m
  BY ViewFacts DEF ViewInv
<1>3. PICK present \in Int : present = viewNow \div VisitDay /\ present = Views!Today
  BY <1>1 DEF Views!Today
<1>4. ASSUME NEW i \in Views!Since
      PROVE  \E b \in 1..ChartDays : \A d \in 1..ChartDays : i \in Views!Bucket(d) <=> d = b
  <2>1. i \in 1..m /\ visits[i] \in Nat /\ visits[i] <= viewNow
    BY <1>1, <1>2, <1>4 DEF Views!Since, Views!Rows, ViewInv
  <2>2. PICK v \in Nat, day \in Int : v = visits[i] /\ day = v \div VisitDay
    BY <1>1, <2>1
  <2>3. day <= present
    <3>1. v \in Nat /\ viewNow \in Nat /\ v <= viewNow
      BY <1>1, <2>1, <2>2
    <3>2. v \div VisitDay <= viewNow \div VisitDay
      BY <1>1, <3>1, DaysOrdered
    <3>3. QED
      BY <1>3, <2>2, <3>2
  <2>4. day + ChartDays > present
    BY <1>3, <1>4, <2>2 DEF Views!Since
  <2>5. PICK b \in 1..ChartDays : day + ChartDays = present + b
    BY <1>1, <2>3, <2>4
  <2>6. \A d \in 1..ChartDays : i \in Views!Bucket(d) <=> day + ChartDays = present + d
    BY <1>3, <1>4, <2>2 DEF Views!Bucket
  <2>7. QED
    BY <1>1, <2>5, <2>6
<1>5. QED
  BY <1>4 DEF Views!ChartAddsUp

-----------------------------------------------------------------------------
(***************************************************************************)
(* Reviews: the figures of the dashboard come from two queries; saved      *)
(* searches are counted before one is stored.                              *)
(***************************************************************************)
reviews == s1
searches == s2
starCalls == s3
stats == s4
shown == s5
written == s6
skew == s7

Shown == Ratings!Rows
Saving == {c \in Pair : starCalls[c].step = "save"}
StarCall == {Ratings!Idle} \cup [step : {"save"}]
  \cup [step : {"update", "remove"}, id : Ratings!Ids, by : Authors]

\* Since the first query the number of reviews moved by no more than was
\* written.
SkewInv ==
  stats.open =>
    /\ stats.at <= written
    /\ Cardinality(Shown) <= stats.count + (written - stats.at)
    /\ stats.count <= Cardinality(Shown) + (written - stats.at)

SearchInv ==
  searches + Cardinality(Saving) <= MAX_SAVED_SEARCHES - 1 + Cardinality(Pair)

ReviewInv ==
  /\ Ratings!TypeOK
  /\ SkewInv
  /\ Ratings!StatsSkewBounded
  /\ SearchInv

LEMMA ReviewFacts ==
  ASSUME PeopleAssumption, Ratings!TypeOK
  PROVE  /\ IsFiniteSet(Pair) /\ Given \subseteq 1..5 /\ MaxReviews \in Nat
         /\ MAX_SAVED_SEARCHES \in Nat \ {0}
         /\ searches \in Nat /\ starCalls \in [Pair -> StarCall]
         /\ stats \in [open : BOOLEAN, count : Nat, at : Nat]
         /\ shown \in [count : Nat, distribution : [1..5 -> Nat]]
         /\ written \in Nat /\ skew \in Nat
         /\ Saving \in SUBSET Pair /\ Cardinality(Pair) \in Nat
         /\ \E m \in 0..MaxReviews : /\ reviews \in [1..m -> Ratings!Review]
                                     /\ DOMAIN reviews = 1..m
                                     /\ Ratings!Cardinality(DOMAIN reviews) = m
                                     /\ IsFiniteSet(1..m) /\ Shown \in SUBSET (1..m)
<1> USE DEF reviews, searches, starCalls, stats, shown, written, skew
<1>1. /\ IsFiniteSet(Pair) /\ Given \subseteq 1..5 /\ MaxReviews \in Nat
      /\ MAX_SAVED_SEARCHES \in Nat \ {0}
  BY SameCounts DEF PeopleAssumption, Ratings!LimitAssumption, Ratings!Stars
<1>2. PICK m \in 0..MaxReviews : reviews \in [1..m -> Ratings!Review]
  BY DEF Ratings!TypeOK
<1>3. Cardinality(1..m) = m /\ IsFiniteSet(1..m)
  BY <1>1, <1>2, FS_Interval
<1>4. Ratings!Cardinality(DOMAIN reviews) = m /\ DOMAIN reviews = 1..m
  BY <1>2, <1>3, SameCounts
<1>5. Shown \in SUBSET (1..m)
  BY <1>4 DEF Shown, Ratings!Rows
<1>6. Saving \in SUBSET Pair /\ Cardinality(Pair) \in Nat
  BY <1>1, Counts DEF Saving
<1>7. /\ searches \in Nat /\ starCalls \in [Pair -> StarCall]
      /\ stats \in [open : BOOLEAN, count : Nat, at : Nat]
      /\ shown \in [count : Nat, distribution : [1..5 -> Nat]]
      /\ written \in Nat /\ skew \in Nat
  BY DEF Ratings!TypeOK, Ratings!Stars, StarCall
<1>8. QED
  BY <1>1, <1>2, <1>3, <1>4, <1>5, <1>6, <1>7

LEMMA ReviewInit == ASSUME PeopleAssumption, Ratings!Init PROVE ReviewInv
<1> USE DEF reviews, searches, starCalls, stats, shown, written, skew
<1>1. /\ MaxReviews \in Nat /\ MAX_SAVED_SEARCHES \in Nat \ {0}
      /\ IsFiniteSet(Pair) /\ Cardinality(Pair) \in Nat
  BY SameCounts, Counts DEF PeopleAssumption, Ratings!LimitAssumption
<1>2. Ratings!TypeOK
  <2>1. reviews \in [1..0 -> Ratings!Review] /\ 0 \in 0..MaxReviews
    BY <1>1 DEF Ratings!Init
  <2>2. stats \in [open : BOOLEAN, count : Nat, at : Nat]
    BY DEF Ratings!Init
  <2>3. shown \in [count : Nat, distribution : [Ratings!Stars -> Nat]]
    BY DEF Ratings!Init
  <2>4. QED
    BY <2>1, <2>2, <2>3 DEF Ratings!TypeOK, Ratings!Init
<1>3. SkewInv
  BY DEF SkewInv, Ratings!Init
<1>4. Ratings!StatsSkewBounded
  BY DEF Ratings!Init, Ratings!Stars, Ratings!StatsSkewBounded
<1>5. SearchInv
  <2>1. Saving = {}
    BY DEF Saving, Ratings!Init, Ratings!Idle
  <2>2. searches = 0 /\ Cardinality(Saving) = 0
    BY <2>1, FS_EmptySet DEF Ratings!Init
  <2>3. QED
    BY <1>1, <2>2 DEF SearchInv
<1>6. QED
  BY <1>2, <1>3, <1>4, <1>5 DEF ReviewInv

\* A call goes on as h.
StarMove(c, h) ==
  starCalls' = [starCalls EXCEPT ![c] = h]

LEMMA StarCounts ==
  ASSUME PeopleAssumption, Ratings!TypeOK, NEW c \in Pair, NEW h \in StarCall, StarMove(c, h)
  PROVE  /\ starCalls' \in [Pair -> StarCall]
         /\ Cardinality(Saving) \in Nat
         /\ Cardinality(Saving') = Cardinality(Saving)
              + (IF h.step = "save" THEN 1 ELSE 0) - (IF starCalls[c].step = "save" THEN 1 ELSE 0)
<1>1. IsFiniteSet(Pair) /\ starCalls \in [Pair -> StarCall]
  BY ReviewFacts
<1>2. /\ starCalls' \in [Pair -> StarCall] /\ starCalls'[c] = h
      /\ \A d \in Pair \ {c} : starCalls'[d] = starCalls[d]
  BY <1>1 DEF StarMove
<1>3. /\ \A d \in Pair \ {c} : d \in Saving <=> d \in Saving'
      /\ (c \in Saving <=> starCalls[c].step = "save") /\ (c \in Saving' <=> h.step = "save")
      /\ Saving \in SUBSET Pair /\ Saving' \in SUBSET Pair
  BY <1>2 DEF Saving
<1>4. QED
  BY <1>1, <1>2, <1>3, OneMoves

\* The bars add up to the reviews.
LEMMA BarsAddUp ==
  ASSUME PeopleAssumption, Ratings!TypeOK
  PROVE  LET d == Ratings!GroupBy
         IN  /\ d \in [1..5 -> Nat]
             /\ d[1] + d[2] + d[3] + d[4] + d[5] = Cardinality(Shown)
<1>1. PICK m \in 0..MaxReviews : /\ reviews \in [1..m -> Ratings!Review]
                                 /\ IsFiniteSet(1..m) /\ Shown \in SUBSET (1..m)
  BY ReviewFacts
<1> DEFINE B(s) == {i \in Shown : reviews[i].stars = s}
<1>2. \A s \in 1..5 : /\ Ratings!GroupBy[s] = Cardinality(B(s))
                      /\ B(s) \in SUBSET (1..m) /\ IsFiniteSet(B(s))
                      /\ Cardinality(B(s)) \in Nat
  <2>1. ASSUME NEW s \in 1..5
        PROVE  /\ Ratings!GroupBy[s] = Cardinality(B(s))
               /\ B(s) \in SUBSET (1..m) /\ IsFiniteSet(B(s))
               /\ Cardinality(B(s)) \in Nat
    BY <1>1, SameCounts, Counts DEF Ratings!GroupBy, Ratings!Stars, Shown, reviews
  <2>2. QED
    BY <2>1
<1>3. Ratings!GroupBy \in [1..5 -> Nat]
  BY <1>2 DEF Ratings!GroupBy, Ratings!Stars
<1>4. Shown = B(1) \cup B(2) \cup B(3) \cup B(4) \cup B(5)
  <2>1. \A i \in Shown : reviews[i].stars \in 1..5
    BY <1>1 DEF Shown, Ratings!Rows, reviews, Ratings!Review, Ratings!Stars
  <2>2. QED
    BY <2>1
<1>5. /\ B(1) \cap B(2) = {} /\ (B(1) \cup B(2)) \cap B(3) = {}
      /\ (B(1) \cup B(2) \cup B(3)) \cap B(4) = {}
      /\ (B(1) \cup B(2) \cup B(3) \cup B(4)) \cap B(5) = {}
  OBVIOUS
<1> HIDE DEF B
<1>6. IsFiniteSet(B(1)) /\ IsFiniteSet(B(2)) /\ IsFiniteSet(B(3)) /\ IsFiniteSet(B(4)) /\ IsFiniteSet(B(5))
  BY <1>2
<1> DEFINE U2 == B(1) \cup B(2)
           U3 == U2 \cup B(3)
           U4 == U3 \cup B(4)
<1>7. IsFiniteSet(U2) /\ Cardinality(U2) = Cardinality(B(1)) + Cardinality(B(2))
  BY <1>5, <1>6, Apart
<1>8. IsFiniteSet(U3) /\ Cardinality(U3) = Cardinality(U2) + Cardinality(B(3))
  BY <1>5, <1>6, <1>7, Apart
<1>9. IsFiniteSet(U4) /\ Cardinality(U4) = Cardinality(U3) + Cardinality(B(4))
  BY <1>5, <1>6, <1>8, Apart
<1>10. Cardinality(Shown) = Cardinality(U4) + Cardinality(B(5))
  BY <1>4, <1>5, <1>6, <1>9, Apart
<1> HIDE DEF U2, U3, U4
<1>11. QED
  BY <1>2, <1>3, <1>7, <1>8, <1>9, <1>10

\* A step of a call, or of a reviewer, that leaves the dashboard alone.
LEMMA ReviewKept ==
  ASSUME PeopleAssumption, ReviewInv,
         UNCHANGED <<stats, shown, skew>>,
         \E m \in 0..MaxReviews : reviews' \in [1..m -> Ratings!Review],
         \/ written' = written /\ Cardinality(Shown') = Cardinality(Shown)
         \/ /\ written' = written + 1
            /\ Cardinality(Shown') \in Cardinality(Shown) - 1 .. Cardinality(Shown) + 1,
         searches' \in Nat, starCalls' \in [Pair -> StarCall], SearchInv'
  PROVE  ReviewInv'
<1> USE DEF reviews, searches, starCalls, stats, shown, written, skew
<1>1. /\ written \in Nat /\ stats \in [open : BOOLEAN, count : Nat, at : Nat]
      /\ Cardinality(Shown) \in Nat
  <2>1. PICK m \in 0..MaxReviews : IsFiniteSet(1..m) /\ Shown \in SUBSET (1..m)
    BY ReviewFacts DEF ReviewInv
  <2>2. QED
    BY <2>1, ReviewFacts, Counts DEF ReviewInv
<1>2. written' \in Nat
  BY <1>1
<1>3. Ratings!TypeOK'
  BY <1>2 DEF ReviewInv, Ratings!TypeOK, StarCall
<1>4. SkewInv'
  <2>1. ASSUME stats.open
        PROVE  /\ stats.at <= written'
               /\ Cardinality(Shown') <= stats.count + (written' - stats.at)
               /\ stats.count <= Cardinality(Shown') + (written' - stats.at)
    <3>1. /\ stats.at <= written
          /\ Cardinality(Shown) <= stats.count + (written - stats.at)
          /\ stats.count <= Cardinality(Shown) + (written - stats.at)
      BY <2>1 DEF ReviewInv, SkewInv
    <3>2. stats.at \in Nat /\ stats.count \in Nat
      BY <1>1
    <3>3. CASE written' = written /\ Cardinality(Shown') = Cardinality(Shown)
      BY <3>1, <3>3
    <3>4. CASE /\ written' = written + 1
               /\ Cardinality(Shown') \in Cardinality(Shown) - 1 .. Cardinality(Shown) + 1
      <4>1. PICK w \in Nat, k \in Nat, a \in Nat, q \in Nat :
              w = written /\ k = Cardinality(Shown) /\ a = stats.at /\ q = stats.count
        BY <1>1, <3>2
      <4>2. PICK m \in k - 1 .. k + 1 : m = Cardinality(Shown')
        BY <3>4, <4>1, Zenon
      <4>3. a <= w /\ k <= q + (w - a) /\ q <= k + (w - a)
        BY <3>1, <4>1, Zenon
      <4>4. a <= w + 1 /\ m <= q + ((w + 1) - a) /\ q <= m + ((w + 1) - a)
        <5>1. m \in Int /\ k - 1 <= m /\ m <= k + 1
          BY <4>1, <4>2
        <5>2. QED
          BY <4>3, <5>1
      <4>5. QED
        BY <3>4, <4>1, <4>2, <4>4, Zenon
    <3>5. QED
      BY <3>3, <3>4
  <2>2. QED
    BY <2>1 DEF SkewInv
<1>5. Ratings!StatsSkewBounded'
  BY DEF ReviewInv, Ratings!StatsSkewBounded
<1>6. QED
  BY <1>3, <1>4, <1>5 DEF ReviewInv

LEMMA ReviewNext == ASSUME PeopleAssumption, ReviewInv, Ratings!Next PROVE ReviewInv'
<1> USE DEF reviews, searches, starCalls, stats, shown, written, skew
<1>1. /\ IsFiniteSet(Pair) /\ Given \subseteq 1..5 /\ MaxReviews \in Nat
      /\ MAX_SAVED_SEARCHES \in Nat \ {0}
      /\ searches \in Nat /\ starCalls \in [Pair -> StarCall]
      /\ written \in Nat
      /\ Saving \in SUBSET Pair /\ Cardinality(Pair) \in Nat
  BY ReviewFacts DEF ReviewInv
<1>2. PICK m \in 0..MaxReviews : /\ reviews \in [1..m -> Ratings!Review]
                                 /\ DOMAIN reviews = 1..m
                                 /\ Ratings!Cardinality(DOMAIN reviews) = m
                                 /\ IsFiniteSet(1..m) /\ Shown \in SUBSET (1..m)
  BY ReviewFacts DEF ReviewInv
<1>3. IsFiniteSet(Shown) /\ Cardinality(Shown) \in Nat /\ Cardinality(Saving) \in Nat
  BY <1>1, <1>2, Counts
<1>4. reviews' = reviews => Cardinality(Shown') = Cardinality(Shown)
  BY DEF Shown, Ratings!Rows
<1>5. /\ Shown = {i \in 1..m : reviews[i].stars # 0}
      /\ \A i \in 1..m : reviews[i].author \in Authors /\ reviews[i].stars \in 0..5
      /\ \A a \in Authors, s \in 0..5 : [author |-> a, stars |-> s] \in Ratings!Review
      /\ \A r \in Ratings!Review, s \in 0..5 : [r EXCEPT !.stars = s] \in Ratings!Review
  BY <1>2 DEF Shown, Ratings!Rows, Ratings!Review, Ratings!Stars
<1>6. searches + Cardinality(Saving) <= MAX_SAVED_SEARCHES - 1 + Cardinality(Pair)
  BY DEF ReviewInv, SearchInv
<1>7. ASSUME UNCHANGED <<searches, starCalls>> PROVE SearchInv'
  BY <1>6, <1>7 DEF Saving, SearchInv
<1>8. Ratings!Idle \in StarCall /\ Ratings!Idle.step = "idle"
      /\ [step |-> "save"] \in StarCall
  BY DEF StarCall, Ratings!Idle
<1>9. ASSUME NEW c \in Pair, Ratings!End(c), searches' = searches
      PROVE  starCalls' \in [Pair -> StarCall] /\ SearchInv'
  <2>1. StarMove(c, Ratings!Idle)
    BY <1>9 DEF Ratings!End, StarMove
  <2>2. /\ starCalls' \in [Pair -> StarCall]
        /\ Cardinality(Saving') = Cardinality(Saving)
             - (IF starCalls[c].step = "save" THEN 1 ELSE 0)
    BY <1>3, <1>8, <2>1, StarCounts DEF ReviewInv
  <2>3. QED
    BY <1>1, <1>3, <1>6, <1>9, <2>2 DEF SearchInv
<1>10. ASSUME NEW a \in Authors, NEW s \in Given, Ratings!Create(a, s) PROVE ReviewInv'
  <2>1. /\ m + 1 \in Ratings!Ids /\ written' = written + 1
        /\ reviews' = [i \in 1..(m + 1) |->
             IF i < m + 1 THEN reviews[i] ELSE [author |-> a, stars |-> s]]
        /\ UNCHANGED <<searches, starCalls, stats, shown, skew>>
    BY <1>2, <1>10 DEF Ratings!Create, Ratings!Change, Ratings!desk
  <2>2. \A i \in 1..(m + 1) : (i < m + 1 <=> i \in 1..m) /\ (i \in 1..m \/ i = m + 1)
    BY <1>2
  <2>3. reviews' \in [1..(m + 1) -> Ratings!Review] /\ m + 1 \in 0..MaxReviews
    <3>1. [author |-> a, stars |-> s] \in Ratings!Review
      <4>1. s \in 0..5
        BY <1>1
      <4>2. QED
        BY <1>5, <4>1
    <3>2. m + 1 \in 0..MaxReviews
      BY <1>1, <1>2, <2>1 DEF Ratings!Ids
    <3>3. QED
      BY <1>2, <2>1, <2>2, <3>1, <3>2
  <2>4. Shown' \in SUBSET (Shown \cup {m + 1}) /\ Shown \in SUBSET Shown'
    BY <1>2, <1>5, <2>1, <2>2, <2>3 DEF Shown, Ratings!Rows
  <2>5. Cardinality(Shown') \in Cardinality(Shown) - 1 .. Cardinality(Shown) + 1
    <3>1. /\ IsFiniteSet(1..(m + 1)) /\ m + 1 \in (1..(m + 1)) \ Shown
          /\ Shown \in SUBSET (1..(m + 1)) /\ Shown \cup {m + 1} \in SUBSET (1..(m + 1))
          /\ Shown' \in SUBSET (1..(m + 1))
      <4>1. m + 1 \in 1..(m + 1) /\ m + 1 \notin 1..m /\ 1..m \subseteq 1..(m + 1)
        BY <1>2
      <4>2. IsFiniteSet(1..(m + 1))
        BY <1>2, FS_Interval
      <4>3. QED
        BY <1>2, <2>4, <4>1, <4>2
    <3>2. Cardinality(Shown \cup {m + 1}) = Cardinality(Shown) + 1
      BY <3>1, Counts
    <3>3. /\ Cardinality(Shown') \in Nat /\ Cardinality(Shown) <= Cardinality(Shown')
          /\ Cardinality(Shown') <= Cardinality(Shown \cup {m + 1})
      BY <2>4, <3>1, Counts
    <3>4. QED
      BY <1>3, <3>2, <3>3
  <2>6. QED
    BY <1>1, <1>7, <2>1, <2>3, <2>5, ReviewKept
<1>11. ASSUME NEW c \in Pair, NEW a \in Authors, Ratings!Open(c, a) PROVE ReviewInv'
  <2>1. PICK i \in Ratings!Rows, step \in {"update", "remove"} :
          /\ starCalls[c] = Ratings!Idle
          /\ starCalls' = [starCalls EXCEPT ![c] = [step |-> step, id |-> i, by |-> a]]
          /\ UNCHANGED <<reviews, searches, written, stats, shown, skew>>
    BY <1>11 DEF Ratings!Open, Ratings!desk
  <2> DEFINE h == [step |-> step, id |-> i, by |-> a]
  <2>2. h \in StarCall /\ h.step # "save"
    BY <1>1, <1>2 DEF Ratings!Rows, Ratings!Ids, StarCall
  <2>3. StarMove(c, h)
    BY <2>1 DEF StarMove
  <2> HIDE DEF h
  <2>4. starCalls' \in [Pair -> StarCall] /\ Cardinality(Saving') = Cardinality(Saving)
    BY <1>3, <1>8, <2>1, <2>2, <2>3, StarCounts DEF ReviewInv
  <2>5. SearchInv'
    BY <1>6, <2>1, <2>4 DEF SearchInv
  <2>6. QED
    BY <1>1, <1>2, <1>4, <2>1, <2>4, <2>5, ReviewKept
<1>12. ASSUME NEW c \in Pair, NEW i \in Shown, NEW s \in 0..5,
              reviews' = [reviews EXCEPT ![i].stars = s],
              written' = written + 1, Ratings!End(c),
              UNCHANGED <<searches, stats, shown, skew>>
       PROVE  ReviewInv'
  <2>1. i \in 1..m
    BY <1>2
  <2>2. reviews' \in [1..m -> Ratings!Review]
    BY <1>2, <1>5, <1>12, <2>1
  <2>3. Shown' \in SUBSET Shown /\ Shown \ {i} \in SUBSET Shown'
    BY <1>2, <1>5, <1>12, <2>1, <2>2 DEF Shown, Ratings!Rows
  <2>4. Cardinality(Shown') \in Cardinality(Shown) - 1 .. Cardinality(Shown) + 1
    <3>1. Cardinality(Shown \ {i}) = Cardinality(Shown) - 1
      BY <1>2, <1>12, Counts
    <3>2. /\ Cardinality(Shown') \in Nat /\ Cardinality(Shown') <= Cardinality(Shown)
          /\ Cardinality(Shown \ {i}) <= Cardinality(Shown')
      BY <1>2, <2>3, Counts
    <3>3. QED
      BY <1>3, <3>1, <3>2
  <2>5. starCalls' \in [Pair -> StarCall] /\ SearchInv'
    BY <1>9, <1>12
  <2>6. searches' \in Nat
    BY <1>1, <1>12
  <2>7. QED
    BY <1>2, <1>12, <2>2, <2>4, <2>5, <2>6, ReviewKept
<1>13. ASSUME NEW c \in Pair, Ratings!End(c),
              UNCHANGED <<reviews, written, searches, stats, shown, skew>>
       PROVE  ReviewInv'
  BY <1>1, <1>2, <1>4, <1>9, <1>13, ReviewKept
<1>14. ASSUME NEW c \in Pair, NEW s \in Given, Ratings!Update(c, s) PROVE ReviewInv'
  BY <1>1, <1>12, <1>13, <1>14 DEF Ratings!Update, Ratings!Change, Ratings!desk, Shown
<1>15. ASSUME NEW c \in Pair, Ratings!Remove(c) PROVE ReviewInv'
  BY <1>12, <1>13, <1>15 DEF Ratings!Remove, Ratings!Change, Ratings!desk, Shown
<1>16. CASE Ratings!ReadAggregate
  <2>1. /\ stats' = [open |-> TRUE, count |-> Cardinality(Shown), at |-> written]
        /\ UNCHANGED <<reviews, searches, starCalls, shown, written, skew>>
    BY <1>16, SameCounts DEF Ratings!ReadAggregate, Ratings!Aggregate, Shown
  <2>2. stats' \in [open : BOOLEAN, count : Nat, at : Nat]
    BY <1>1, <1>3, <2>1
  <2>3. SkewInv'
    BY <1>1, <1>3, <1>4, <2>1 DEF SkewInv
  <2>4. Ratings!TypeOK' /\ Ratings!StatsSkewBounded'
    BY <2>1, <2>2 DEF ReviewInv, Ratings!TypeOK, Ratings!StatsSkewBounded
  <2>5. QED
    BY <1>7, <2>1, <2>3, <2>4 DEF ReviewInv
<1>17. CASE Ratings!ReadDistribution
  <2>1. /\ stats.open /\ shown' = [count |-> stats.count, distribution |-> Ratings!GroupBy]
        /\ skew' = written - stats.at
        /\ stats' = [stats EXCEPT !.open = FALSE]
        /\ UNCHANGED <<reviews, searches, starCalls, written>>
    BY <1>17 DEF Ratings!ReadDistribution
  <2>2. /\ stats \in [open : BOOLEAN, count : Nat, at : Nat]
        /\ stats.count \in Nat /\ stats.at \in Nat
        /\ Ratings!GroupBy \in [1..5 -> Nat]
    BY ReviewFacts, BarsAddUp DEF ReviewInv
  <2>3. /\ stats.at <= written
        /\ Cardinality(Shown) <= stats.count + (written - stats.at)
        /\ stats.count <= Cardinality(Shown) + (written - stats.at)
    BY <2>1 DEF ReviewInv, SkewInv
  <2>4. Ratings!TypeOK'
    <3>1. stats' \in [open : BOOLEAN, count : Nat, at : Nat]
      BY <2>1, <2>2
    <3>2. shown' \in [count : Nat, distribution : [Ratings!Stars -> Nat]]
      BY <2>1, <2>2 DEF Ratings!Stars
    <3>3. skew' \in Nat
      BY <1>1, <2>1, <2>2, <2>3
    <3>4. QED
      BY <2>1, <3>1, <3>2, <3>3 DEF ReviewInv, Ratings!TypeOK
  <2>5. Ratings!StatsSkewBounded'
    <3>1. PICK d \in [1..5 -> Nat] : /\ d = shown'.distribution
                                     /\ d[1] + d[2] + d[3] + d[4] + d[5] = Cardinality(Shown)
      BY <2>1, BarsAddUp DEF ReviewInv
    <3>2. Cardinality(Shown) - stats.count \in -skew'..skew'
      BY <1>1, <1>3, <2>1, <2>2, <2>3
    <3>3. shown'.count = stats.count
      BY <2>1
    <3>4. QED
      BY <3>1, <3>2, <3>3 DEF Ratings!StatsSkewBounded
  <2>6. SkewInv'
    BY <2>1, <2>2 DEF SkewInv
  <2>7. QED
    BY <1>7, <2>1, <2>4, <2>5, <2>6 DEF ReviewInv
<1>18. ASSUME NEW c \in Pair, Ratings!CountSearches(c) PROVE ReviewInv'
  <2>1. /\ starCalls[c] = Ratings!Idle /\ searches < MAX_SAVED_SEARCHES
        /\ StarMove(c, [step |-> "save"])
        /\ UNCHANGED <<reviews, searches, written, stats, shown, skew>>
    BY <1>18 DEF Ratings!CountSearches, Ratings!desk, StarMove
  <2>2. /\ starCalls' \in [Pair -> StarCall]
        /\ Cardinality(Saving') = Cardinality(Saving) + 1
    BY <1>3, <1>8, <2>1, StarCounts DEF ReviewInv
  <2>3. Cardinality(Saving) < Cardinality(Pair)
    BY <1>1, <1>8, <2>1, Counts DEF Saving
  <2>4. SearchInv'
    BY <1>1, <1>3, <2>1, <2>2, <2>3 DEF SearchInv
  <2>5. QED
    BY <1>1, <1>2, <1>4, <2>1, <2>2, <2>4, ReviewKept
<1>19. ASSUME NEW c \in Pair, Ratings!SaveSearch(c) PROVE ReviewInv'
  <2>1. /\ starCalls[c].step = "save" /\ searches' = searches + 1
        /\ StarMove(c, Ratings!Idle)
        /\ UNCHANGED <<reviews, written, stats, shown, skew>>
    BY <1>19 DEF Ratings!SaveSearch, Ratings!End, Ratings!desk, StarMove
  <2>2. /\ starCalls' \in [Pair -> StarCall]
        /\ Cardinality(Saving') = Cardinality(Saving) - 1
    BY <1>3, <1>8, <2>1, StarCounts DEF ReviewInv
  <2>3. SearchInv' /\ searches' \in Nat
    BY <1>1, <1>3, <1>6, <2>1, <2>2 DEF SearchInv
  <2>4. QED
    BY <1>1, <1>2, <1>4, <2>1, <2>2, <2>3, ReviewKept
<1>20. CASE Ratings!RemoveSearch
  <2>1. /\ searches > 0 /\ searches' = searches - 1
        /\ UNCHANGED <<reviews, starCalls, written, stats, shown, skew>>
    BY <1>20 DEF Ratings!RemoveSearch, Ratings!desk
  <2>2. Saving' = Saving
    BY <2>1 DEF Saving
  <2>3. SearchInv' /\ searches' \in Nat
    BY <1>1, <1>3, <1>6, <2>1, <2>2 DEF SearchInv
  <2>4. QED
    BY <1>1, <1>2, <1>4, <2>1, <2>3, ReviewKept
<1>21. QED
  BY <1>10, <1>11, <1>14, <1>15, <1>16, <1>17, <1>18, <1>19, <1>20 DEF Ratings!Next

LEMMA ReviewMeans ==
  ASSUME PeopleAssumption, ReviewInv PROVE Ratings!SearchesBounded /\ Ratings!StatsSkewBounded
<1>1. /\ Ratings!Cardinality(Saving) = Cardinality(Saving)
      /\ Ratings!Cardinality(Pair) = Cardinality(Pair)
  BY SameCounts
<1>2. QED
  BY <1>1 DEF ReviewInv, SearchInv, Ratings!SearchesBounded, Saving, searches, starCalls
(***************************************************************************)
(* Export: a batch at a time.                                              *)
(***************************************************************************)
table == s1
inRange == s2
cursor == s3
sent == s4
exportState == s5
audited == s6
stayed == s7
lost == s8

\* Everything in range up to the cursor has been sent, and nothing beyond it
\* while the export goes on.
SentInv ==
  /\ stayed \subseteq table
  /\ cursor # 0 /\ ~lost => cursor \in table
  /\ \A i \in Download!Ids :
       /\ sent[i] <= 1
       /\ exportState = "fetching" /\ i > cursor => sent[i] = 0
       /\ ~lost /\ i \in stayed \cap inRange /\ (i <= cursor \/ exportState = "done")
            => sent[i] = 1

ExportInv == Download!TypeOK /\ SentInv

LEMMA ExportInit == ASSUME PeopleAssumption, Download!Init PROVE ExportInv
<1> USE DEF Download!Init, Download!Ids, table, inRange, cursor, sent, exportState,
        audited, stayed, lost
<1>1. MaxRows \in Nat
  BY DEF PeopleAssumption, Download!BatchAssumption
<1>2. Download!TypeOK
  <2>1. sent \in [Download!Ids -> Nat] /\ cursor \in 0..MaxRows
    BY <1>1
  <2>2. audited \in Nat
    BY <1>1 DEF Download!Unaudited
  <2>3. QED
    BY <2>1, <2>2 DEF Download!TypeOK
<1>3. SentInv
  BY <1>1 DEF SentInv
<1>4. QED
  BY <1>2, <1>3 DEF ExportInv

LEMMA ExportMeans ==
  ASSUME ExportInv
  PROVE  Download!ExportComplete
  BY DEF ExportInv, SentInv, Download!TypeOK, Download!ExportComplete, sent, exportState,
     stayed, inRange, lost

LEMMA ExportFacts ==
  ASSUME PeopleAssumption, Download!TypeOK
  PROVE  /\ MaxRows \in Nat /\ BATCH_SIZE \in Nat \ {0}
         /\ table \in SUBSET Download!Ids /\ inRange \in SUBSET Download!Ids
         /\ stayed \in SUBSET Download!Ids
         /\ cursor \in 0..MaxRows /\ sent \in [Download!Ids -> Nat]
         /\ Download!Ids \in SUBSET Nat
         /\ \A S \in SUBSET Download!Ids : IsFiniteSet(S) /\ Cardinality(S) \in Nat
<1> USE DEF table, inRange, cursor, sent, stayed
<1>1. MaxRows \in Nat /\ BATCH_SIZE \in Nat \ {0}
  BY DEF PeopleAssumption, Download!BatchAssumption
<1>2. Download!Ids \in SUBSET Nat /\ IsFiniteSet(Download!Ids)
  BY <1>1, FS_Interval DEF Download!Ids
<1>3. \A S \in SUBSET Download!Ids : IsFiniteSet(S) /\ Cardinality(S) \in Nat
  BY <1>2, Counts
<1>4. QED
  BY <1>1, <1>2, <1>3 DEF Download!TypeOK

Below(S, i) == {j \in S : j < i}

\* The first n of a set: downward closed, and all of it if they are fewer.
LEMMA FirstFacts ==
  ASSUME PeopleAssumption, Download!TypeOK,
         NEW S \in SUBSET Download!Ids, NEW n \in Nat
  PROVE  /\ Download!First(S, n) \subseteq S
         /\ \A i \in Download!First(S, n), j \in S : j <= i => j \in Download!First(S, n)
         /\ Cardinality(Download!First(S, n)) < n => Download!First(S, n) = S
<1>1. /\ S \subseteq Nat /\ IsFiniteSet(S)
      /\ \A T \in SUBSET S : Cardinality(T) \in Nat /\ IsFiniteSet(T)
      /\ \A i \in S : IsFiniteSet(Below(S, i)) /\ Cardinality(Below(S, i)) \in Nat
  BY ExportFacts DEF Below
<1>2. Download!First(S, n) = {i \in S : Cardinality(Below(S, i)) < n}
  BY SameCounts DEF Download!First, Below
<1>3. ASSUME NEW i \in Download!First(S, n), NEW j \in S, j <= i
      PROVE  j \in Download!First(S, n)
  <2>1. i \in S /\ Cardinality(Below(S, i)) < n
    BY <1>2
  <2>2. Below(S, j) \subseteq Below(S, i)
    <3>1. S \subseteq Nat /\ i \in S /\ j \in S /\ j <= i
      BY <1>1, <1>3, <2>1
    <3>2. ASSUME NEW x \in Below(S, j) PROVE x \in Below(S, i)
      BY <3>1 DEF Below
    <3>3. QED
      BY <3>2
  <2>3. Cardinality(Below(S, j)) <= Cardinality(Below(S, i))
    BY <1>1, <2>1, <2>2, FS_Subset
  <2>4. Cardinality(Below(S, j)) < n
    BY <1>1, <2>1, <2>3
  <2>5. QED
    BY <1>2, <2>4
<1>4. ASSUME Cardinality(Download!First(S, n)) < n, S \ Download!First(S, n) # {}
      PROVE  FALSE
  <2>1. PICK m \in S \ Download!First(S, n) : \A x \in S \ Download!First(S, n) : m <= x
    BY <1>1, <1>4, Least
  <2>2. Below(S, m) \subseteq Download!First(S, n)
    <3>1. S \subseteq Nat
      BY <1>1
    <3>2. \A j \in Below(S, m) : j \in S /\ ~(m <= j)
      BY <3>1 DEF Below
    <3>3. QED
      BY <2>1, <3>2
  <2>3. Cardinality(Below(S, m)) <= Cardinality(Download!First(S, n))
    BY <1>1, <1>2, <2>2, FS_Subset
  <2>4. Cardinality(Below(S, m)) < n
    BY <1>1, <1>2, <1>4, <2>3
  <2>5. QED
    BY <1>2, <2>1, <2>4
<1>5. QED
  BY <1>2, <1>3, <1>4

LEMMA FetchBatchInv ==
  ASSUME PeopleAssumption, ExportInv, Download!FetchBatch
  PROVE  ExportInv'
<1> USE DEF ExportInv
<1> DEFINE after == {i \in Download!Matching : i > cursor}
<1>0. /\ MaxRows \in Nat /\ BATCH_SIZE \in Nat \ {0}
      /\ stayed \in SUBSET Download!Ids
      /\ cursor \in Nat /\ sent \in [Download!Ids -> Nat] /\ Download!Ids \in SUBSET Nat
      /\ after \in SUBSET Download!Ids
      /\ Download!First(after, 1) \subseteq after
  BY ExportFacts, FirstFacts DEF Download!Matching, table
<1>1. PICK batch \in Download!Batches :
        /\ exportState = "fetching"
        /\ sent' = [i \in Download!Ids |-> IF i \in batch THEN sent[i] + 1 ELSE sent[i]]
        /\ IF Download!Cardinality(batch) < BATCH_SIZE
           THEN exportState' = "done" /\ cursor' = cursor
           ELSE /\ cursor' = CHOOSE i \in batch : \A j \in batch : j <= i
                /\ exportState' = exportState
        /\ UNCHANGED <<table, inRange, audited, stayed, lost>>
  BY DEF Download!FetchBatch, table, inRange, cursor, sent, exportState, audited, stayed, lost
<1>2. /\ batch \subseteq after
      /\ ~lost => batch = Download!First(after, BATCH_SIZE)
  <2>1. CASE cursor = 0 \/ cursor \in table
    BY <1>0, <2>1, FirstFacts DEF Download!Batches, cursor, table
  <2>2. CASE ~(cursor = 0 \/ cursor \in table)
    BY <2>2 DEF SentInv, Download!Batches, cursor, table, Download!First
  <2>3. QED
    BY <2>1, <2>2
<1>3. Download!Cardinality(batch) = Cardinality(batch) /\ Cardinality(batch) \in Nat
  BY <1>0, <1>2, SameCounts, ExportFacts
<1>4. CASE Cardinality(batch) < BATCH_SIZE
  <2>1. exportState' = "done" /\ cursor' = cursor
    BY <1>1, <1>3, <1>4
  <2>2. Download!TypeOK'
    BY <1>1, <2>1 DEF Download!TypeOK, table, inRange, cursor, sent, exportState, audited,
       stayed, lost
  <2>3. ~lost => batch = after
    BY <1>0, <1>2, <1>4, FirstFacts
  <2>4. \A i \in Download!Ids :
          /\ sent'[i] <= 1
          /\ ~lost /\ i \in stayed \cap inRange => sent'[i] = 1
    <3>1. \A i \in Download!Ids : i \in batch => i > cursor /\ sent[i] = 0
      BY <1>1, <1>2 DEF SentInv
    <3>2. \A i \in Download!Ids : ~lost /\ i \in stayed \cap inRange => i <= cursor \/ i \in batch
      BY <1>0, <2>3 DEF SentInv, Download!Matching, table, inRange
    <3>3. \A i \in Download!Ids : ~lost /\ i \in stayed \cap inRange /\ i <= cursor => sent[i] = 1
      BY DEF SentInv
    <3>4. \A i \in Download!Ids : sent[i] \in Nat /\ sent[i] <= 1 /\
            sent'[i] = IF i \in batch THEN sent[i] + 1 ELSE sent[i]
      BY <1>0, <1>1 DEF SentInv
    <3>5. QED
      BY <1>0, <3>1, <3>2, <3>3, <3>4
  <2>5. SentInv'
    BY <1>1, <2>1, <2>4 DEF SentInv
  <2>6. QED
    BY <2>2, <2>5
<1>5. CASE ~(Cardinality(batch) < BATCH_SIZE)
  <2>1. exportState' = exportState /\ cursor' = CHOOSE i \in batch : \A j \in batch : j <= i
    BY <1>1, <1>3, <1>5
  <2>2. batch # {} /\ batch \in SUBSET Int /\ \A x \in batch : x <= MaxRows
    <3>1. batch # {}
      BY <1>0, <1>5, FS_EmptySet
    <3>2. batch \subseteq Download!Ids
      BY <1>0, <1>2
    <3>3. QED
      BY <1>0, <3>1, <3>2 DEF Download!Ids
  <2>3. \E m \in batch : \A x \in batch : x <= m
    <3>1. MaxRows \in Int
      BY <1>0
    <3>2. QED
      BY <2>2, <3>1, Greatest
  <2>4. cursor' \in batch /\ \A j \in batch : j <= cursor'
    BY <2>1, <2>3
  <2>5. cursor' \in Download!Ids /\ cursor' \in Nat /\ cursor' > cursor
        /\ cursor' \in Download!Matching
    BY <1>0, <1>2, <2>4
  <2>6. Download!TypeOK'
    BY <1>1, <2>1, <2>5 DEF Download!TypeOK, table, inRange, cursor, sent, exportState,
       audited, stayed, lost, Download!Ids
  <2>7. cursor' \in table'
    BY <1>1, <2>5 DEF Download!Matching, table
  <2>8. \A i \in Download!Ids :
          /\ i \in batch => i > cursor /\ sent[i] = 0 /\ i <= cursor'
          /\ i > cursor => sent[i] = 0
          /\ sent[i] \in Nat /\ sent[i] <= 1
          /\ sent'[i] = IF i \in batch THEN sent[i] + 1 ELSE sent[i]
    BY <1>0, <1>1, <1>2, <2>4 DEF SentInv
  <2>9. \A i \in Download!Ids :
          ~lost /\ i \in stayed \cap inRange /\ i <= cursor' => sent'[i] = 1
    <3>1. ASSUME NEW i \in Download!Ids, ~lost, i \in stayed \cap inRange, i <= cursor'
          PROVE  sent'[i] = 1
      <4>1. CASE i <= cursor
        BY <1>0, <2>8, <3>1, <4>1 DEF SentInv
      <4>2. CASE i > cursor
        BY <1>0, <1>2, <2>4, <2>8, <3>1, <4>2, FirstFacts DEF SentInv, Download!Matching, table,
           inRange
      <4>3. QED
        BY <1>0, <2>5, <4>1, <4>2
    <3>2. QED
      BY <3>1
  <2>10. SentInv'
    <3>1. \A i \in Download!Ids : sent'[i] <= 1 /\ (i > cursor' => sent'[i] = 0)
      BY <1>0, <2>5, <2>8
    <3>2. QED
      BY <1>1, <2>1, <2>7, <2>9, <3>1 DEF SentInv
  <2>11. QED
    BY <2>6, <2>10
<1>6. QED
  BY <1>4, <1>5

LEMMA ExportNext ==
  ASSUME PeopleAssumption, ExportInv, Download!Next
  PROVE  ExportInv'
<1> USE DEF ExportInv, table, inRange, cursor, sent, exportState, audited, stayed, lost
<1>1. CASE Download!FetchBatch
  BY <1>1, FetchBatchInv
<1>2. CASE Download!Audit
  <2>1. Download!Total \in Nat
    BY ExportFacts, SameCounts DEF Download!Total
  <2>2. QED
    BY <1>2, <2>1 DEF Download!Audit, Download!TypeOK, SentInv
<1>3. CASE Download!Fail
  BY <1>3 DEF Download!Fail, Download!TypeOK, SentInv
<1>4. ASSUME NEW i \in Download!Ids, Download!InsertRow(i) PROVE ExportInv'
  BY <1>4 DEF Download!InsertRow, Download!TypeOK, SentInv
<1>5. ASSUME NEW i \in Download!Ids, Download!DeleteRow(i) PROVE ExportInv'
  BY <1>5 DEF Download!DeleteRow, Download!TypeOK, SentInv
<1>6. QED
  BY <1>1, <1>2, <1>3, <1>4, <1>5 DEF Download!Next

(***************************************************************************)
(* Notifications: from an event to the devices of its recipients.          *)
(***************************************************************************)
opted == s1
tokens == s2
holder == s3
events == s4
jobs == s5
inbox == s6
pushes == s7
willing == s8
held == s9

NoticeCall == [user : Couple, step : {"prefs", "store", "queue"}]
EventRow == [kind : {"price", "alert", "broadcast", "security"},
             rest : [Couple -> 0..2], calls : SUBSET NoticeCall]
Job == [event : Notices!Events, user : Couple, stalls : 0..MaxStalls,
        to : SUBSET Pair, step : {"waiting", "send"}]

HasJob(e, u) == \E j \in jobs : j.event = e /\ j.user = u

\* Before the first notice of an event to a user there is no push of it.
Unsent(e, u) == ~HasJob(e, u) /\ \A d \in Pair : pushes[e][<<u, d>>] = 0

\* A recipient is still on the list, or in one call, or has been told.
OnceOf(e) ==
  /\ \A u \in Couple : events[e].rest[u] <= 1
  /\ \A u \in Couple : events[e].rest[u] > 0 =>
       inbox[e][u] = 0 /\ Unsent(e, u) /\ \A k \in events[e].calls : k.user # u
  /\ \A k, l \in events[e].calls : k.user = l.user => k = l
  /\ \A k \in events[e].calls :
       Unsent(e, k.user) /\ (k.step # "queue" => inbox[e][k.user] = 0)

OnceInv ==
  /\ \A e \in Notices!Events, u \in Couple :
       /\ inbox[e][u] <= 1
       /\ e \notin Notices!Started => inbox[e][u] = 0 /\ Unsent(e, u)
  /\ \A e \in Notices!Started : OnceOf(e)

\* Whoever is past the check of the preferences has been willing.
WillOf(e) ==
  /\ opted \subseteq willing[e]
  /\ events[e].kind \in Notices!Gated =>
       /\ \A u \in Couple : inbox[e][u] > 0 => u \in willing[e]
       /\ \A k \in events[e].calls : k.step # "prefs" => k.user \in willing[e]
       /\ \A u \in Couple : events[e].kind = "broadcast" /\ events[e].rest[u] > 0
                              => u \in willing[e]

WillInv == \A e \in Notices!Started : WillOf(e)

\* Token rows point at whoever holds the device, and a job finds them after
\* its event; there is one job of a notice, and each send of it that did not
\* end it cost a stall.
HeldInv ==
  /\ \A d \in Pair : tokens[d] # None => holder[d] = tokens[d]
  /\ \A e \in Notices!Started : Notices!Holders \subseteq held[e]

JobInv ==
  /\ \A j \in jobs : /\ j.event \in Notices!Started
                     /\ \A d \in j.to : <<j.user, d>> \in held[j.event]
                     /\ \A d \in Pair : pushes[j.event][<<j.user, d>>] <= j.stalls
  /\ \A j, k \in jobs : j.event = k.event /\ j.user = k.user => j = k

NoticeInv ==
  /\ Notices!TypeOK /\ OnceInv /\ WillInv /\ HeldInv /\ JobInv
  /\ Notices!PushesReachTheirUser
  /\ Notices!PushesBounded

LEMMA NoticeFacts ==
  ASSUME PeopleAssumption, Notices!TypeOK
  PROVE  /\ IsFiniteSet(Couple) /\ None \notin Couple
         /\ MaxEvents \in Nat /\ MaxStalls \in Nat
         /\ opted \subseteq Couple
         /\ tokens \in [Pair -> Couple \cup {None}] /\ holder \in [Pair -> Couple \cup {None}]
         /\ \E n \in 0..MaxEvents : events \in [1..n -> EventRow]
         /\ events \in [Notices!Started -> EventRow] /\ Notices!Started \subseteq Notices!Events
         /\ jobs \subseteq Job
         /\ inbox \in [Notices!Events -> [Couple -> Nat]]
         /\ pushes \in [Notices!Events -> [Couple \X Pair -> Nat]]
         /\ willing \in [Notices!Events -> SUBSET Couple]
         /\ held \in [Notices!Events -> SUBSET (Couple \X Pair)]
<1> USE DEF opted, tokens, holder, events, jobs, inbox, pushes, willing, held
<1>1. /\ IsFiniteSet(Couple) /\ None \notin Couple
      /\ MaxEvents \in Nat /\ MaxStalls \in Nat
  BY SameCounts DEF PeopleAssumption, Notices!DeliveryAssumption
<1>2. PICK n \in 0..MaxEvents : events \in [1..n -> EventRow]
  BY DEF Notices!TypeOK, EventRow, NoticeCall
<1>3. events \in [Notices!Started -> EventRow] /\ Notices!Started \subseteq Notices!Events
  BY <1>1, <1>2 DEF Notices!Started, Notices!Events
<1>4. /\ opted \subseteq Couple
      /\ tokens \in [Pair -> Couple \cup {None}] /\ holder \in [Pair -> Couple \cup {None}]
      /\ jobs \subseteq Job
      /\ inbox \in [Notices!Events -> [Couple -> Nat]]
      /\ pushes \in [Notices!Events -> [Couple \X Pair -> Nat]]
      /\ willing \in [Notices!Events -> SUBSET Couple]
      /\ held \in [Notices!Events -> SUBSET (Couple \X Pair)]
  BY DEF Notices!TypeOK, Job
<1>5. QED
  BY <1>1, <1>2, <1>3, <1>4

\* The part's own names for all this.
LEMMA NoticeMeans ==
  ASSUME PeopleAssumption, NoticeInv
  PROVE  /\ Notices!OneNoticePerEvent /\ Notices!NoticesWanted
         /\ Notices!PushesReachTheirUser /\ Notices!PushesBounded
<1>1. Notices!OneNoticePerEvent
  BY DEF NoticeInv, OnceInv, Notices!OneNoticePerEvent, inbox
<1>2. Notices!NoticesWanted
  BY DEF NoticeInv, WillInv, WillOf, Notices!NoticesWanted, inbox, events, willing
<1>3. QED
  BY <1>1, <1>2 DEF NoticeInv

LEMMA NoticeInit == ASSUME PeopleAssumption, Notices!Init PROVE NoticeInv
<1> USE DEF opted, tokens, holder, events, jobs, inbox, pushes, willing, held, Notices!Init
<1>1. MaxEvents \in Nat /\ MaxStalls \in Nat
  BY DEF PeopleAssumption, Notices!DeliveryAssumption
<1>2. Notices!Started = {}
  BY DEF Notices!Started
<1>3. Notices!TypeOK
  <2>1. events \in [1..0 -> EventRow] /\ 0 \in 0..MaxEvents
    BY <1>1
  <2>2. /\ tokens \in [Pair -> Couple \cup {None}] /\ holder \in [Pair -> Couple \cup {None}]
        /\ inbox \in [Notices!Events -> [Couple -> Nat]]
        /\ pushes \in [Notices!Events -> [Couple \X Pair -> Nat]]
        /\ willing \in [Notices!Events -> SUBSET Couple]
        /\ held \in [Notices!Events -> SUBSET (Couple \X Pair)]
    OBVIOUS
  <2>3. opted \subseteq Couple /\ jobs = {}
    OBVIOUS
  <2>4. QED
    BY <2>1, <2>2, <2>3 DEF Notices!TypeOK, EventRow, NoticeCall
<1>4. OnceInv
  BY <1>2 DEF Unsent, HasJob, OnceInv
<1>5. WillInv /\ HeldInv /\ JobInv
  BY <1>2 DEF WillInv, HeldInv, JobInv
<1>6. Notices!PushesReachTheirUser /\ Notices!PushesBounded
  BY <1>1 DEF Notices!PushesReachTheirUser, Notices!PushesBounded
<1>7. QED
  BY <1>3, <1>4, <1>5, <1>6 DEF NoticeInv

-----------------------------------------------------------------------------
\* A step that an event does not see.
Untouched(e) ==
  /\ events'[e] = events[e] /\ inbox'[e] = inbox[e] /\ pushes'[e] = pushes[e]
  /\ \A u \in Couple : HasJob(e, u)' => HasJob(e, u)

LEMMA UntouchedOnce ==
  ASSUME NEW e, events[e] \in EventRow, Untouched(e), OnceOf(e) PROVE OnceOf(e)'
<1>1. \A u \in Couple : Unsent(e, u) => Unsent(e, u)'
  BY DEF Untouched, Unsent
<1>2. \A k \in events[e].calls : k.user \in Couple
  BY DEF EventRow, NoticeCall
<1>3. QED
  BY <1>1, <1>2 DEF Untouched, OnceOf

LEMMA UntouchedWill ==
  ASSUME NEW e, Untouched(e), opted' = opted, willing'[e] = willing[e], WillOf(e)
  PROVE  WillOf(e)'
  BY DEF Untouched, WillOf

\* A step of the handler of one event.
OneEvent(e, r, K) ==
  /\ events' = [i \in Notices!Started |-> events'[i]]
  /\ events'[e] = [kind |-> events[e].kind, rest |-> r, calls |-> K]
  /\ \A i \in Notices!Started \ {e} : events'[i] = events[i]

EventStep(e, r, K) ==
  /\ OneEvent(e, r, K)
  /\ UNCHANGED <<opted, tokens, holder, pushes, willing, held>>

LEMMA EventStepInv ==
  ASSUME PeopleAssumption, NoticeInv, NEW e \in Notices!Started,
         NEW r \in [Couple -> 0..2], NEW K \in SUBSET NoticeCall, EventStep(e, r, K),
         inbox' \in [Notices!Events -> [Couple -> Nat]],
         \A i \in Notices!Events \ {e} : inbox'[i] = inbox[i],
         \A i \in Notices!Events \ {e}, u \in Couple : HasJob(i, u)' => HasJob(i, u),
         jobs' \subseteq Job, JobInv',
         \A u \in Couple : inbox'[e][u] <= 1,
         OnceOf(e)', WillOf(e)'
  PROVE  NoticeInv'
<1>0. /\ Notices!Started \subseteq Notices!Events
      /\ events \in [Notices!Started -> EventRow]
  BY NoticeFacts DEF NoticeInv
<1>1. PICK n \in 0..MaxEvents : events \in [1..n -> EventRow]
  BY NoticeFacts DEF NoticeInv
<1>2. /\ OneEvent(e, r, K)
      /\ UNCHANGED <<opted, tokens, holder, pushes, willing, held>>
  BY DEF EventStep
<1>3. /\ DOMAIN events' = DOMAIN events
      /\ \A i \in Notices!Started \ {e} : events'[i] = events[i]
      /\ Notices!Started' = Notices!Started
  BY <1>0, <1>2 DEF OneEvent, Notices!Started, events
<1>4. \A i \in Notices!Started \ {e} : Untouched(i)
  BY <1>0, <1>2, <1>3 DEF Untouched
<1>5. Notices!TypeOK'
  <2>1. [kind |-> events[e].kind, rest |-> r, calls |-> K] \in EventRow
    BY <1>0 DEF EventRow
  <2>2. events' \in [1..n -> EventRow]
    BY <1>1, <1>2, <2>1 DEF Notices!Started, events, OneEvent
  <2>3. QED
    BY <1>2, <2>2 DEF NoticeInv, Notices!TypeOK, EventRow, NoticeCall, Job, opted, tokens, holder,
       events, jobs, inbox, pushes, willing, held
<1>6. OnceInv'
  <2>1. \A i \in Notices!Started : OnceOf(i)'
    BY <1>0, <1>4, UntouchedOnce DEF NoticeInv, OnceInv
  <2>2. ASSUME NEW i \in Notices!Events, NEW u \in Couple
        PROVE  /\ inbox'[i][u] <= 1
               /\ i \notin Notices!Started => inbox'[i][u] = 0 /\ Unsent(i, u)'
    <3>1. CASE i = e
      BY <3>1
    <3>2. CASE i # e
      BY <1>2, <3>2 DEF NoticeInv, OnceInv, Unsent
    <3>3. QED
      BY <3>1, <3>2
  <2>3. QED
    BY <1>3, <2>1, <2>2 DEF OnceInv, Notices!Events
<1>7. WillInv'
  BY <1>2, <1>3, <1>4, UntouchedWill DEF NoticeInv, WillInv
<1>8. HeldInv'
  BY <1>2, <1>3 DEF NoticeInv, HeldInv, Notices!Holders, holder
<1>9. Notices!PushesReachTheirUser' /\ Notices!PushesBounded'
  BY <1>2 DEF NoticeInv, Notices!PushesReachTheirUser, Notices!PushesBounded, Notices!Events,
     pushes, held
<1>10. QED
  BY <1>5, <1>6, <1>7, <1>8, <1>9 DEF NoticeInv

\* Giving new values to the fields of one event.
LEMMA EventFields ==
  ASSUME NEW e \in Notices!Started, events \in [Notices!Started -> EventRow], NEW r, NEW K,
         \/ events' = [events EXCEPT ![e].rest = r, ![e].calls = K]
         \/ events' = [events EXCEPT ![e].calls = K, ![e].rest = r]
         \/ events' = [events EXCEPT ![e].calls = K] /\ r = events[e].rest
  PROVE  OneEvent(e, r, K)
<1>1. events[e] = [kind |-> events[e].kind, rest |-> events[e].rest, calls |-> events[e].calls]
  BY DEF EventRow
<1>2. events' = [i \in Notices!Started |-> events'[i]]
      /\ \A i \in Notices!Started \ {e} : events'[i] = events[i]
  OBVIOUS
<1>3. events'[e] = [kind |-> events[e].kind, rest |-> r, calls |-> K]
  BY <1>1
<1>4. QED
  BY <1>2, <1>3 DEF OneEvent

LEMMA BatchInv ==
  ASSUME PeopleAssumption, NoticeInv, NEW e \in Notices!Started, NEW S \in SUBSET Couple,
         Notices!StartBatch(e, S)
  PROVE  NoticeInv'
<1>0. /\ Notices!Started \subseteq Notices!Events
      /\ events \in [Notices!Started -> EventRow]
      /\ inbox \in [Notices!Events -> [Couple -> Nat]] /\ jobs \subseteq Job
  BY NoticeFacts DEF NoticeInv
<1>1. events[e] \in EventRow /\ events[e].rest \in [Couple -> 0..2]
  BY <1>0 DEF EventRow
<1>2. PICK first \in {"store", "prefs"} :
        first = IF events[e].kind = "broadcast" THEN "store" ELSE "prefs"
  OBVIOUS
<1>3. PICK r, K : /\ r = [u \in Couple |-> IF u \in S THEN events[e].rest[u] - 1 ELSE events[e].rest[u]]
                  /\ K = {[user |-> u, step |-> first] : u \in S}
  OBVIOUS
<1>4. /\ S \subseteq {u \in Couple : events[e].rest[u] > 0}
      /\ EventStep(e, r, K) /\ inbox' = inbox /\ jobs' = jobs
  <2>1. /\ S \subseteq {u \in Couple : events[e].rest[u] > 0}
        /\ events' = [events EXCEPT
             ![e].rest = [u \in Couple |-> IF u \in S THEN @[u] - 1 ELSE @[u]],
             ![e].calls = {[user |-> u, step |-> first] : u \in S}]
        /\ UNCHANGED <<opted, tokens, holder, jobs, inbox, pushes, willing, held>>
    BY <1>2 DEF Notices!StartBatch, opted, tokens, holder, events, jobs, inbox, pushes, willing, held
  <2>2. OneEvent(e, r, K)
    BY <1>0, <1>3, <2>1, EventFields
  <2>3. QED
    BY <2>1, <2>2 DEF EventStep
<1>5. OnceOf(e)
  BY DEF NoticeInv, OnceInv
<1>6. r \in [Couple -> 0..2] /\ \A u \in Couple : r[u] <= 1 /\ (r[u] > 0 => u \notin S /\ r[u] = events[e].rest[u])
  <2>1. ASSUME NEW u \in Couple
        PROVE  r[u] \in 0..2 /\ r[u] <= 1 /\ (r[u] > 0 => u \notin S /\ r[u] = events[e].rest[u])
    BY <1>1, <1>3, <1>4, <1>5 DEF OnceOf
  <2>2. r = [u \in Couple |-> r[u]]
    BY <1>3
  <2>3. QED
    BY <2>1, <2>2
<1>7. K \in SUBSET NoticeCall
  BY <1>2, <1>3 DEF NoticeCall
<1>8. /\ events'[e].rest = r /\ events'[e].calls = K /\ events'[e].kind = events[e].kind
      /\ \A k \in K : k.user \in S /\ k.step = first
      /\ \A k, l \in K : k.user = l.user => k = l
  BY <1>0, <1>3, <1>4 DEF EventStep, OneEvent
<1>9. OnceOf(e)'
  BY <1>4, <1>5, <1>6, <1>8 DEF EventStep, Unsent, HasJob, OnceOf
<1>10. WillOf(e)'
  <2>1. WillOf(e)
    BY DEF NoticeInv, WillInv
  <2>2. \A k \in K : k.step # "prefs" => events[e].kind = "broadcast" /\ events[e].rest[k.user] > 0
    BY <1>2, <1>4, <1>8
  <2>3. \A u \in Couple : r[u] > 0 => events[e].rest[u] > 0
    BY <1>6
  <2>4. \A k \in K : k.user \in Couple
    BY <1>8
  <2>5. UNCHANGED <<opted, willing, inbox>>
    BY <1>4 DEF EventStep
  <2>6. QED
    BY <1>8, <2>1, <2>2, <2>3, <2>4, <2>5 DEF WillOf
<1>11. JobInv'
  BY <1>0, <1>4 DEF EventStep, OneEvent, Notices!Started, events, NoticeInv, JobInv
<1>12. \A i \in Notices!Events, u \in Couple : HasJob(i, u)' => HasJob(i, u)
  BY <1>4 DEF HasJob
<1>13. \A u \in Couple : inbox'[e][u] <= 1
  BY <1>0, <1>4 DEF NoticeInv, OnceInv
<1>14. QED
  BY <1>0, <1>4, <1>6, <1>7, <1>9, <1>10, <1>11, <1>12, <1>13, EventStepInv

\* One call of a handler goes on, to a next step or none.
LEMMA MoveInv ==
  ASSUME PeopleAssumption, NoticeInv, NEW e \in Notices!Started,
         NEW call \in events[e].calls,
         \/ Notices!ReadPrefs(e, call) \/ Notices!Store(e, call) \/ Notices!Enqueue(e, call)
         \/ Notices!FailCall(e, call)
  PROVE  NoticeInv'
<1>0. /\ Notices!Started \subseteq Notices!Events
      /\ events \in [Notices!Started -> EventRow]
      /\ inbox \in [Notices!Events -> [Couple -> Nat]] /\ jobs \subseteq Job
      /\ pushes \in [Notices!Events -> [Couple \X Pair -> Nat]]
      /\ MaxStalls \in Nat
  BY NoticeFacts DEF NoticeInv
<1>1. /\ events[e] \in EventRow /\ events[e].rest \in [Couple -> 0..2]
      /\ events[e].calls \in SUBSET NoticeCall /\ call \in NoticeCall
      /\ call.user \in Couple /\ call = [user |-> call.user, step |-> call.step]
  BY <1>0 DEF EventRow, NoticeCall
<1>2. OnceOf(e) /\ WillOf(e)
  BY DEF NoticeInv, OnceInv, WillInv
<1>3. \A s : [call EXCEPT !.step = s] = [user |-> call.user, step |-> s]
  BY <1>1
<1>4. ASSUME NEW T \in SUBSET {"store", "queue"}, Notices!Move(e, call, T),
             \A s, t \in T : s = t
      PROVE  \E K \in SUBSET NoticeCall :
               /\ OneEvent(e, events[e].rest, K)
               /\ \A k \in K : \/ k \in events[e].calls /\ k # call
                               \/ k.user = call.user /\ k.step \in T
               /\ \A k, l \in K : k.user = l.user => k = l
  <2>1. PICK K : K = (events[e].calls \ {call}) \cup {[call EXCEPT !.step = s] : s \in T}
    OBVIOUS
  <2>2. events' = [events EXCEPT ![e].calls = K]
    BY <1>4, <2>1 DEF Notices!Move, events
  <2>3. OneEvent(e, events[e].rest, K)
    BY <1>0, <2>2, EventFields
  <2>4. K = (events[e].calls \ {call}) \cup {[user |-> call.user, step |-> s] : s \in T}
    <3>1. {[call EXCEPT !.step = s] : s \in T} = {[user |-> call.user, step |-> s] : s \in T}
      BY <1>3
    <3>2. QED
      BY <2>1, <3>1
  <2>5. K \in SUBSET NoticeCall
    BY <1>1, <2>4 DEF NoticeCall
  <2>6. \A k, l \in events[e].calls : k.user = l.user => k = l
    BY <1>2 DEF OnceOf
  <2>7. \A k, l \in K : k.user = l.user => k = l
    BY <1>4, <2>4, <2>6
  <2>8. \A k \in K : \/ k \in events[e].calls /\ k # call
                     \/ k.user = call.user /\ k.step \in T
    BY <2>4
  <2>9. QED
    BY <2>3, <2>5, <2>7, <2>8
<1>5. ASSUME NEW r \in [Couple -> 0..2], NEW K \in SUBSET NoticeCall, EventStep(e, r, K),
             \A u \in Couple : r[u] <= events[e].rest[u],
             \A k, l \in K : k.user = l.user => k = l,
             inbox' \in [Notices!Events -> [Couple -> Nat]],
             \A i \in Notices!Events \ {e} : inbox'[i] = inbox[i],
             \A u \in Couple \ {call.user} : inbox'[e][u] = inbox[e][u],
             jobs' \in SUBSET Job, \A j \in jobs' \ jobs : j.event = e /\ j.user = call.user,
             JobInv',
             inbox'[e][call.user] <= 1,
             inbox'[e][call.user] > 0 /\ events[e].kind \in Notices!Gated =>
               call.user \in willing[e],
             \A k \in K : \/ k \in events[e].calls /\ k # call
                          \/ /\ k.user = call.user /\ Unsent(e, k.user)'
                             /\ k.step # "queue" => inbox'[e][k.user] = 0
                             /\ events[e].kind \in Notices!Gated => k.user \in willing[e]
      PROVE  NoticeInv'
  <2>1. /\ events'[e] = [kind |-> events[e].kind, rest |-> r, calls |-> K]
        /\ UNCHANGED <<opted, tokens, holder, pushes, willing, held>>
    BY <1>0, <1>5 DEF EventStep, OneEvent
  <2>2. /\ events'[e].rest = r /\ events'[e].calls = K /\ events'[e].kind = events[e].kind
    BY <2>1
  <2>3. \A u \in Couple \ {call.user} : Unsent(e, u) => Unsent(e, u)'
    BY <1>5, <2>1 DEF Unsent, HasJob
  <2>4. \A i \in Notices!Events \ {e}, u \in Couple : HasJob(i, u)' => HasJob(i, u)
    BY <1>5 DEF HasJob
  <2>5. \A k \in events[e].calls : k # call => k.user \in Couple \ {call.user}
    BY <1>1, <1>2 DEF OnceOf, NoticeCall
  <2>6. \A u \in Couple : /\ r[u] <= 1
                          /\ r[u] > 0 => events[e].rest[u] > 0
    <3>1. ASSUME NEW u \in Couple PROVE r[u] <= 1 /\ (r[u] > 0 => events[e].rest[u] > 0)
      BY <1>1, <1>2, <1>5 DEF OnceOf
    <3>2. QED
      BY <3>1
  <2>7. \A u \in Couple : r[u] > 0 => u # call.user
    BY <1>2, <2>6 DEF OnceOf
  <2>8. \A u \in Couple : r[u] > 0 =>
          inbox'[e][u] = 0 /\ Unsent(e, u)' /\ \A k \in K : k.user # u
    BY <1>2, <1>5, <2>3, <2>5, <2>6, <2>7 DEF OnceOf
  <2>9. \A k \in K : Unsent(e, k.user)' /\ (k.step # "queue" => inbox'[e][k.user] = 0)
    BY <1>2, <1>5, <2>3, <2>5 DEF OnceOf
  <2>10. OnceOf(e)'
    BY <1>5, <2>2, <2>6, <2>8, <2>9 DEF OnceOf
  <2>11. WillOf(e)'
    BY <1>2, <1>5, <2>1, <2>2, <2>6 DEF WillOf
  <2>12. \A u \in Couple : inbox'[e][u] <= 1
    BY <1>0, <1>5 DEF NoticeInv, OnceInv
  <2>13. QED
    BY <1>5, <2>4, <2>10, <2>11, <2>12, EventStepInv
<1>6. Notices!Started' = Notices!Started
  BY DEF Notices!ReadPrefs, Notices!Store, Notices!Enqueue, Notices!FailCall, Notices!Move,
     Notices!Started
<1>7. ASSUME jobs' = jobs, pushes' = pushes, held' = held PROVE JobInv'
  BY <1>6, <1>7 DEF NoticeInv, JobInv
<1>8. \A u \in Couple : events[e].rest[u] <= events[e].rest[u]
  BY <1>1
<1>9. inbox[e][call.user] <= 1 /\ inbox[e][call.user] \in Nat
      /\ (events[e].kind \in Notices!Gated /\ inbox[e][call.user] > 0 => call.user \in willing[e])
  BY <1>0, <1>1, <1>2 DEF NoticeInv, OnceInv, WillOf
<1>10. Unsent(e, call.user) /\ (call.step # "queue" => inbox[e][call.user] = 0)
  BY <1>2 DEF OnceOf
<1>11. CASE Notices!ReadPrefs(e, call)
  <2>1. PICK T \in SUBSET {"store", "queue"} :
          T = IF events[e].kind \in Notices!Gated /\ call.user \notin opted THEN {} ELSE {"store"}
    OBVIOUS
  <2>2. /\ call.step = "prefs" /\ Notices!Move(e, call, T)
        /\ UNCHANGED <<opted, tokens, holder, jobs, inbox, pushes, willing, held>>
    BY <1>11, <2>1 DEF Notices!ReadPrefs, opted, tokens, holder, events, jobs, inbox, pushes,
       willing, held
  <2>3. \A s, t \in T : s = t
    BY <2>1
  <2>4. PICK K \in SUBSET NoticeCall :
               /\ OneEvent(e, events[e].rest, K)
               /\ \A k \in K : \/ k \in events[e].calls /\ k # call
                               \/ k.user = call.user /\ k.step \in T
               /\ \A k, l \in K : k.user = l.user => k = l
    BY <1>4, <2>2, <2>3
  <2>5. EventStep(e, events[e].rest, K)
    BY <2>2, <2>4 DEF EventStep
  <2>6. T # {} /\ events[e].kind \in Notices!Gated => call.user \in willing[e]
    BY <1>2, <2>1 DEF WillOf
  <2>7. Unsent(e, call.user)'
    BY <1>10, <2>2 DEF Unsent, HasJob
  <2>8. QED
    BY <1>0, <1>1, <1>5, <1>7, <1>8, <1>9, <1>10, <2>2, <2>4, <2>5, <2>6, <2>7
<1>12. CASE Notices!Store(e, call)
  <2>1. /\ call.step = "store" /\ Notices!Move(e, call, {"queue"})
        /\ inbox' = [inbox EXCEPT ![e][call.user] = @ + 1]
        /\ UNCHANGED <<opted, tokens, holder, jobs, pushes, willing, held>>
    BY <1>12 DEF Notices!Store, opted, tokens, holder, events, jobs, inbox, pushes,
       willing, held
  <2>2. PICK K \in SUBSET NoticeCall :
               /\ OneEvent(e, events[e].rest, K)
               /\ \A k \in K : \/ k \in events[e].calls /\ k # call
                               \/ k.user = call.user /\ k.step \in {"queue"}
               /\ \A k, l \in K : k.user = l.user => k = l
    BY <1>4, <2>1
  <2>3. EventStep(e, events[e].rest, K)
    BY <2>1, <2>2 DEF EventStep
  <2>4. /\ inbox' \in [Notices!Events -> [Couple -> Nat]]
        /\ \A i \in Notices!Events \ {e} : inbox'[i] = inbox[i]
        /\ \A u \in Couple \ {call.user} : inbox'[e][u] = inbox[e][u]
        /\ inbox'[e][call.user] = inbox[e][call.user] + 1
    BY <1>0, <1>1, <2>1
  <2>5. inbox'[e][call.user] <= 1
    BY <1>10, <2>1, <2>4
  <2>6. events[e].kind \in Notices!Gated => call.user \in willing[e]
    BY <1>2, <2>1 DEF WillOf
  <2>7. Unsent(e, call.user)'
    BY <1>10, <2>1 DEF Unsent, HasJob
  <2>8. JobInv' /\ jobs' \in SUBSET Job /\ \A j \in jobs' \ jobs : j.event = e /\ j.user = call.user
    BY <1>0, <1>7, <2>1
  <2>9. \A k \in K : \/ k \in events[e].calls /\ k # call
                     \/ /\ k.user = call.user /\ Unsent(e, k.user)'
                        /\ k.step # "queue" => inbox'[e][k.user] = 0
                        /\ events[e].kind \in Notices!Gated => k.user \in willing[e]
    BY <2>2, <2>6, <2>7
  <2>10. QED
    BY <1>1, <1>5, <1>8, <2>2, <2>3, <2>4, <2>5, <2>6, <2>8, <2>9
<1>13. CASE Notices!Enqueue(e, call)
  <2>0. PICK job : job = [event |-> e, user |-> call.user, stalls |-> 0, to |-> {}, step |-> "waiting"]
    OBVIOUS
  <2>1. /\ call.step = "queue" /\ Notices!Move(e, call, {})
        /\ jobs' = jobs \cup {job}
        /\ UNCHANGED <<opted, tokens, holder, inbox, pushes, willing, held>>
    BY <1>13, <2>0 DEF Notices!Enqueue, opted, tokens, holder, events, jobs, inbox, pushes,
       willing, held
  <2>2. PICK K \in SUBSET NoticeCall :
               /\ OneEvent(e, events[e].rest, K)
               /\ \A k \in K : k \in events[e].calls /\ k # call
               /\ \A k, l \in K : k.user = l.user => k = l
    BY <1>4, <2>1
  <2>3. EventStep(e, events[e].rest, K)
    BY <2>1, <2>2 DEF EventStep
  <2>4. job \in Job /\ job.event = e /\ job.user = call.user /\ job.stalls = 0 /\ job.to = {}
    BY <1>0, <1>1, <2>0 DEF Job
  <2>5. JobInv'
    <3>1. ~HasJob(e, call.user) /\ \A d \in Pair : pushes[e][<<call.user, d>>] = 0
      BY <1>10 DEF Unsent
    <3>2. \A j \in jobs : ~(j.event = e /\ j.user = call.user)
      BY <3>1 DEF HasJob
    <3>3. \A j \in jobs' : /\ j.event \in Notices!Started'
                           /\ \A d \in j.to : <<j.user, d>> \in held'[j.event]
                           /\ \A d \in Pair : pushes'[j.event][<<j.user, d>>] <= j.stalls
      <4>1. \A j \in jobs : /\ j.event \in Notices!Started
                            /\ \A d \in j.to : <<j.user, d>> \in held[j.event]
                            /\ \A d \in Pair : pushes[j.event][<<j.user, d>>] <= j.stalls
        BY DEF NoticeInv, JobInv
      <4>2. \A d \in Pair : pushes[e][<<call.user, d>>] <= 0
        <5>1. \A n : n = 0 => n <= 0
          OBVIOUS
        <5>2. QED
          BY <3>1, <5>1
      <4>3. QED
        BY <1>6, <2>1, <2>4, <4>1, <4>2
    <3>4. \A j, k \in jobs' : j.event = k.event /\ j.user = k.user => j = k
      BY <2>1, <2>4, <3>2 DEF NoticeInv, JobInv
    <3>5. QED
      BY <3>3, <3>4 DEF JobInv
  <2>6. jobs' \in SUBSET Job /\ \A j \in jobs' \ jobs : j.event = e /\ j.user = call.user
    BY <1>0, <2>1, <2>4
  <2>7. inbox' \in [Notices!Events -> [Couple -> Nat]] /\ inbox' = inbox
    BY <1>0, <2>1
  <2>8. \A k \in K : k \in events[e].calls /\ k # call
    BY <2>2
  <2>9. \A k, l \in K : k.user = l.user => k = l
    BY <2>2
  <2> HIDE DEF EventStep
  <2>10. QED
    BY <1>1, <1>5, <1>8, <1>9, <2>3, <2>5, <2>6, <2>7, <2>8, <2>9
<1>14. CASE Notices!FailCall(e, call)
  <2>0. PICK r, K : r = [u \in Couple |-> 0] /\ K = events[e].calls \ {call}
    OBVIOUS
  <2>1. /\ events' = [events EXCEPT ![e].calls = K, ![e].rest = r]
        /\ UNCHANGED <<opted, tokens, holder, jobs, inbox, pushes, willing, held>>
    BY <1>14, <2>0 DEF Notices!FailCall, opted, tokens, holder, events, jobs, inbox, pushes,
       willing, held
  <2>2. OneEvent(e, r, K)
    BY <1>0, <2>1, EventFields
  <2>3. EventStep(e, r, K)
    BY <2>1, <2>2 DEF EventStep
  <2>4. r \in [Couple -> 0..2] /\ \A u \in Couple : r[u] <= events[e].rest[u]
    BY <1>1, <2>0
  <2>5. K \in SUBSET NoticeCall /\ (\A k \in K : k \in events[e].calls /\ k # call)
        /\ \A k, l \in K : k.user = l.user => k = l
    BY <1>1, <1>2, <2>0 DEF OnceOf
  <2>6. QED
    BY <1>0, <1>1, <1>5, <1>7, <1>9, <2>1, <2>3, <2>4, <2>5
<1>15. QED
  BY <1>11, <1>12, <1>13, <1>14

\* The process dies over an event.
LEMMA CrashInv ==
  ASSUME PeopleAssumption, NoticeInv, NEW e \in Notices!Started, Notices!Crash(e)
  PROVE  NoticeInv'
<1>0. /\ Notices!Started \subseteq Notices!Events
      /\ events \in [Notices!Started -> EventRow]
      /\ inbox \in [Notices!Events -> [Couple -> Nat]] /\ jobs \subseteq Job
  BY NoticeFacts DEF NoticeInv
<1>1. PICK r, K : r = [u \in Couple |-> 0] /\ K = {}
  OBVIOUS
<1>2. /\ events' = [events EXCEPT ![e].calls = K, ![e].rest = r]
      /\ UNCHANGED <<opted, tokens, holder, jobs, inbox, pushes, willing, held>>
  BY <1>1 DEF Notices!Crash, opted, tokens, holder, events, jobs, inbox, pushes, willing, held
<1>3. OneEvent(e, r, K)
  BY <1>0, <1>2, EventFields
<1>4. EventStep(e, r, K)
  BY <1>2, <1>3 DEF EventStep
<1>5. r \in [Couple -> 0..2] /\ K \in SUBSET NoticeCall /\ \A u \in Couple : r[u] = 0
  BY <1>1
<1>6. events'[e].rest = r /\ events'[e].calls = {} /\ events'[e].kind = events[e].kind
  BY <1>0, <1>1, <1>3 DEF OneEvent
<1>7. OnceOf(e)'
  BY <1>5, <1>6 DEF OnceOf
<1>8. WillOf(e)'
  <2>1. \A u \in Couple : ~(r[u] > 0)
    BY <1>5
  <2>2. WillOf(e)
    BY DEF NoticeInv, WillInv
  <2>3. QED
    BY <1>2, <1>6, <2>1, <2>2 DEF WillOf
<1>9. JobInv'
  BY <1>0, <1>2, <1>3 DEF OneEvent, Notices!Started, events, NoticeInv, JobInv
<1>10. \A i \in Notices!Events, u \in Couple : HasJob(i, u)' => HasJob(i, u)
  BY <1>2 DEF HasJob
<1>11. \A u \in Couple : inbox'[e][u] <= 1
  BY <1>0, <1>2 DEF NoticeInv, OnceInv
<1>12. QED
  BY <1>0, <1>2, <1>4, <1>5, <1>7, <1>8, <1>9, <1>10, <1>11, EventStepInv

-----------------------------------------------------------------------------
\* A step of the worker on the job j: the queue and what the devices show of
\* its notice.
JobStep(j) ==
  /\ UNCHANGED <<opted, holder, events, inbox, willing, held>>
  /\ tokens' \in [Pair -> Couple \cup {None}]
  /\ \A d \in Pair : tokens'[d] \in {tokens[d], None}
  /\ jobs' \subseteq Job
  /\ \A k \in jobs' : k \in jobs \/ (k.event = j.event /\ k.user = j.user)
  /\ pushes' \in [Notices!Events -> [Couple \X Pair -> Nat]]
  /\ \A e \in Notices!Events, u \in Couple, d \in Pair :
       (e # j.event \/ u # j.user) => pushes'[e][<<u, d>>] = pushes[e][<<u, d>>]
  /\ \A d \in Pair : /\ pushes'[j.event][<<j.user, d>>] <= 1 + MaxStalls
                     /\ pushes'[j.event][<<j.user, d>>] > 0 => <<j.user, d>> \in held[j.event]

LEMMA JobStepInv ==
  ASSUME PeopleAssumption, NoticeInv, NEW j \in jobs, JobStep(j), JobInv'
  PROVE  NoticeInv'
<1>0. /\ Notices!Started \subseteq Notices!Events
      /\ events \in [Notices!Started -> EventRow]
      /\ jobs \subseteq Job /\ j.event \in Notices!Started /\ j.user \in Couple
      /\ HasJob(j.event, j.user)
  BY NoticeFacts DEF NoticeInv, JobInv, Job, HasJob
<1>1. Notices!Started' = Notices!Started /\ Notices!Holders' = Notices!Holders
      /\ Notices!Events' = Notices!Events
  BY DEF JobStep, Notices!Started, Notices!Holders, Notices!Events, events, holder
<1>2. Notices!TypeOK'
  BY <1>1 DEF JobStep, NoticeInv, Notices!TypeOK, Job, opted, tokens, holder,
     events, jobs, inbox, pushes, willing, held, Notices!Events
<1>3. ASSUME NEW e \in Notices!Events, NEW u \in Couple, Unsent(e, u)
      PROVE  Unsent(e, u)'
  BY <1>0, <1>3 DEF Unsent, JobStep, HasJob
<1>4. OnceInv'
  <2>1. ASSUME NEW e \in Notices!Started PROVE OnceOf(e)'
    BY <1>0, <1>3 DEF NoticeInv, OnceInv, JobStep, EventRow, NoticeCall, OnceOf
  <2>2. \A e \in Notices!Events, u \in Couple :
          /\ inbox'[e][u] <= 1
          /\ e \notin Notices!Started => inbox'[e][u] = 0 /\ Unsent(e, u)'
    BY <1>3 DEF NoticeInv, OnceInv, JobStep
  <2>3. QED
    BY <1>1, <2>1, <2>2 DEF OnceInv
<1>5. WillInv'
  BY <1>1 DEF JobStep, NoticeInv, WillInv, WillOf
<1>6. HeldInv'
  BY <1>1 DEF JobStep, NoticeInv, HeldInv
<1>7. ASSUME NEW e \in Notices!Events, NEW u \in Couple, NEW d \in Pair
      PROVE  /\ pushes'[e][<<u, d>>] > 0 => <<u, d>> \in held'[e]
             /\ pushes'[e][<<u, d>>] <= 1 + MaxStalls
  <2>1. CASE e = j.event /\ u = j.user
    BY <2>1 DEF JobStep
  <2>2. CASE e # j.event \/ u # j.user
    BY <2>2 DEF JobStep, NoticeInv, Notices!PushesReachTheirUser, Notices!PushesBounded, pushes,
       held
  <2>3. QED
    BY <2>1, <2>2
<1>8. Notices!PushesReachTheirUser' /\ Notices!PushesBounded'
  BY <1>1, <1>7 DEF Notices!PushesReachTheirUser, Notices!PushesBounded, pushes, held
<1>9. QED
  BY <1>2, <1>4, <1>5, <1>6, <1>8 DEF NoticeInv

\* What a job that stays looks like.
JobOk(j) ==
  /\ j \in Job
  /\ \A d \in j.to : <<j.user, d>> \in held[j.event]
  /\ \A d \in Pair : pushes[j.event][<<j.user, d>>] <= j.stalls

\* Replacing one job, or dropping it.
LEMMA JobsInv ==
  ASSUME PeopleAssumption, NoticeInv, NEW j \in jobs, JobStep(j), NEW N,
         jobs' = (jobs \ {j}) \cup N,
         \A k \in N : k.event = j.event /\ k.user = j.user /\ JobOk(k)',
         \A k, l \in N : k = l
  PROVE  JobInv'
<1>0. jobs \subseteq Job /\ j.event \in Notices!Started /\ JobInv
  BY NoticeFacts DEF NoticeInv, JobInv
<1>1. Notices!Started' = Notices!Started /\ held' = held
  BY DEF JobStep, Notices!Started, events
<1>2. \A k \in jobs \ {j} : k.event # j.event \/ k.user # j.user
  BY <1>0 DEF JobInv
<1>3. \A k \in jobs' : /\ k.event \in Notices!Started
                       /\ \A d \in k.to : <<k.user, d>> \in held[k.event]
                       /\ \A d \in Pair : pushes'[k.event][<<k.user, d>>] <= k.stalls
  <2>1. ASSUME NEW k \in jobs \ {j}
        PROVE  /\ k.event \in Notices!Started
               /\ \A d \in k.to : <<k.user, d>> \in held[k.event]
               /\ \A d \in Pair : pushes'[k.event][<<k.user, d>>] <= k.stalls
    BY <1>0, <1>2 DEF Job, JobStep, JobInv
  <2>2. ASSUME NEW k \in N
        PROVE  /\ k.event \in Notices!Started
               /\ \A d \in k.to : <<k.user, d>> \in held[k.event]
               /\ \A d \in Pair : pushes'[k.event][<<k.user, d>>] <= k.stalls
    BY <1>0, <1>1 DEF JobOk
  <2>3. QED
    BY <2>1, <2>2
<1>4. \A k, l \in jobs' : k.event = l.event /\ k.user = l.user => k = l
  BY <1>0, <1>2 DEF JobInv
<1>5. QED
  BY <1>1, <1>3, <1>4 DEF JobInv

\* The worker reads the token rows of the user.
LEMMA LookupInv ==
  ASSUME PeopleAssumption, NoticeInv, NEW j \in jobs, Notices!LookupTokens(j)
  PROVE  NoticeInv'
<1>0. /\ jobs \subseteq Job /\ JobInv /\ HeldInv /\ j \in Job /\ j.event \in Notices!Started
      /\ tokens \in [Pair -> Couple \cup {None}] /\ None \notin Couple
      /\ pushes \in [Notices!Events -> [Couple \X Pair -> Nat]]
      /\ Notices!PushesReachTheirUser /\ Notices!PushesBounded
  BY NoticeFacts DEF NoticeInv, JobInv
<1>1. PICK k : k = [event |-> j.event, user |-> j.user, stalls |-> j.stalls,
                    to |-> {d \in Pair : tokens[d] = j.user}, step |-> "send"]
  OBVIOUS
<1>2. /\ jobs' = (jobs \ {j}) \cup {k}
      /\ UNCHANGED <<opted, tokens, holder, events, inbox, pushes, willing, held>>
  <2>1. [j EXCEPT !.step = "send", !.to = {d \in Pair : tokens[d] = j.user}] = k
    <3>1. j = [event |-> j.event, user |-> j.user, stalls |-> j.stalls, to |-> j.to, step |-> j.step]
      BY <1>0 DEF Job
    <3>2. PICK T : T = {d \in Pair : tokens[d] = j.user}
      OBVIOUS
    <3>3. [j EXCEPT !.step = "send", !.to = T]
            = [event |-> j.event, user |-> j.user, stalls |-> j.stalls, to |-> T, step |-> "send"]
      <4>1. [j EXCEPT !.step = "send", !.to = T] = [[j EXCEPT !.step = "send"] EXCEPT !.to = T]
        OBVIOUS
      <4>2. [j EXCEPT !.step = "send"]
              = [event |-> j.event, user |-> j.user, stalls |-> j.stalls, to |-> j.to, step |-> "send"]
        BY <3>1
      <4>3. [[event |-> j.event, user |-> j.user, stalls |-> j.stalls, to |-> j.to, step |-> "send"]
                EXCEPT !.to = T]
              = [event |-> j.event, user |-> j.user, stalls |-> j.stalls, to |-> T, step |-> "send"]
        OBVIOUS
      <4>4. QED
        BY <4>1, <4>2, <4>3, Zenon
    <3>4. QED
      BY <1>1, <3>2, <3>3
  <2>2. QED
    BY <2>1 DEF Notices!LookupTokens, opted, tokens, holder, events, jobs, inbox, pushes,
       willing, held
<1>3. k \in Job /\ k.event = j.event /\ k.user = j.user
  BY <1>0, <1>1 DEF Job
<1>4. JobOk(k)'
  <2>1. \A d \in k.to : <<j.user, d>> \in held[j.event]
    <3>1. ASSUME NEW d \in Pair, tokens[d] = j.user PROVE <<j.user, d>> \in held[j.event]
      BY <1>0, <3>1 DEF Job, HeldInv, Notices!Holders, holder
    <3>2. QED
      BY <1>1, <3>1
  <2>2. \A d \in Pair : pushes[j.event][<<j.user, d>>] <= k.stalls
    BY <1>0, <1>1 DEF JobInv
  <2>3. QED
    BY <1>2, <1>3, <2>1, <2>2 DEF JobOk
<1>5. JobStep(j)
  <2>1. j.event \in Notices!Events /\ \A d \in Pair : <<j.user, d>> \in Couple \X Pair
    BY <1>0 DEF Job
  <2>2. \A d \in Pair :
          /\ pushes[j.event][<<j.user, d>>] <= 1 + MaxStalls
          /\ pushes[j.event][<<j.user, d>>] > 0 => <<j.user, d>> \in held[j.event]
    BY <1>0, <2>1 DEF Notices!PushesReachTheirUser, Notices!PushesBounded, pushes, held
  <2>3. jobs' \subseteq Job /\ \A l \in jobs' : l \in jobs \/ (l.event = j.event /\ l.user = j.user)
    BY <1>0, <1>2, <1>3
  <2>4. tokens' \in [Pair -> Couple \cup {None}] /\ \A d \in Pair : tokens'[d] \in {tokens[d], None}
    BY <1>0, <1>2
  <2>5. /\ pushes' = pushes
        /\ UNCHANGED <<opted, holder, events, inbox, willing, held>>
    BY <1>2
  <2>6. /\ pushes' \in [Notices!Events -> [Couple \X Pair -> Nat]]
        /\ \A e \in Notices!Events, u \in Couple, d \in Pair :
             (e # j.event \/ u # j.user) => pushes'[e][<<u, d>>] = pushes[e][<<u, d>>]
    BY <1>0, <2>5
  <2>7. \A d \in Pair :
          /\ pushes'[j.event][<<j.user, d>>] <= 1 + MaxStalls
          /\ pushes'[j.event][<<j.user, d>>] > 0 => <<j.user, d>> \in held[j.event]
    BY <2>2, <2>5
  <2>8. QED
    BY <2>3, <2>4, <2>5, <2>6, <2>7 DEF JobStep
<1>6. JobInv'
  <2>1. PICK N : N = {k}
    OBVIOUS
  <2>2. \A l \in N : l.event = j.event /\ l.user = j.user /\ JobOk(l)'
    BY <1>3, <1>4, <2>1
  <2>3. (\A l, m \in N : l = m) /\ jobs' = (jobs \ {j}) \cup N
    BY <1>2, <2>1
  <2>4. QED
    BY <1>5, <2>2, <2>3, JobsInv
<1>7. QED
  BY <1>5, <1>6, JobStepInv
\* What a send does to the devices' counters.
LEMMA DeliverFacts ==
  ASSUME PeopleAssumption, NoticeInv, NEW j \in jobs, NEW got \in SUBSET j.to, NEW dead,
         Notices!Deliver(j, got, dead)
  PROVE  /\ tokens' \in [Pair -> Couple \cup {None}]
         /\ \A d \in Pair : tokens'[d] \in {tokens[d], None}
         /\ pushes' \in [Notices!Events -> [Couple \X Pair -> Nat]]
         /\ \A e \in Notices!Events, u \in Couple, d \in Pair :
              (e # j.event \/ u # j.user) => pushes'[e][<<u, d>>] = pushes[e][<<u, d>>]
         /\ \A d \in Pair :
              /\ pushes'[j.event][<<j.user, d>>] <= 1 + j.stalls
              /\ pushes'[j.event][<<j.user, d>>] > 0 => <<j.user, d>> \in held[j.event]
<1>0. /\ jobs \subseteq Job /\ JobInv /\ j \in Job /\ j.event \in Notices!Events
      /\ tokens \in [Pair -> Couple \cup {None}]
      /\ pushes \in [Notices!Events -> [Couple \X Pair -> Nat]]
      /\ Notices!PushesReachTheirUser
  BY NoticeFacts DEF NoticeInv, JobInv, Job
<1>1. j.user \in Couple /\ j.stalls \in Nat /\ j.to \subseteq Pair
  BY <1>0, NoticeFacts DEF NoticeInv, Job
<1>2. /\ pushes' = [pushes EXCEPT ![j.event] = [ud \in Couple \X Pair |->
           IF ud[1] = j.user /\ ud[2] \in got THEN @[ud] + 1 ELSE @[ud]]]
      /\ tokens' = [d \in Pair |-> IF d \in dead THEN None ELSE tokens[d]]
  BY DEF Notices!Deliver, pushes, tokens
<1>3. PICK row : row = [ud \in Couple \X Pair |->
          IF ud[1] = j.user /\ ud[2] \in got THEN pushes[j.event][ud] + 1 ELSE pushes[j.event][ud]]
  OBVIOUS
<1>4. row \in [Couple \X Pair -> Nat]
  BY <1>0, <1>3
<1>5. pushes' = [pushes EXCEPT ![j.event] = row]
  BY <1>2, <1>3
<1>6. /\ pushes' \in [Notices!Events -> [Couple \X Pair -> Nat]]
      /\ pushes'[j.event] = row
      /\ \A e \in Notices!Events \ {j.event} : pushes'[e] = pushes[e]
  BY <1>0, <1>4, <1>5
<1>7. ASSUME NEW e \in Notices!Events, NEW u \in Couple, NEW d \in Pair,
             e # j.event \/ u # j.user
      PROVE  pushes'[e][<<u, d>>] = pushes[e][<<u, d>>]
  <2>1. CASE e # j.event
    BY <1>6, <2>1
  <2>2. CASE e = j.event /\ u # j.user
    BY <1>3, <1>6, <2>2
  <2>3. QED
    BY <1>7, <2>1, <2>2
<1>8. ASSUME NEW d \in Pair
      PROVE  /\ pushes'[j.event][<<j.user, d>>] <= 1 + j.stalls
             /\ pushes'[j.event][<<j.user, d>>] > 0 => <<j.user, d>> \in held[j.event]
  <2>1. /\ <<j.user, d>> \in Couple \X Pair
        /\ pushes[j.event][<<j.user, d>>] \in Nat
    BY <1>0, <1>1
  <2>2. /\ pushes[j.event][<<j.user, d>>] <= j.stalls
        /\ d \in got => <<j.user, d>> \in held[j.event]
    BY <1>0 DEF JobInv
  <2>3. pushes[j.event][<<j.user, d>>] > 0 => <<j.user, d>> \in held[j.event]
    BY <1>0, <2>1 DEF Notices!PushesReachTheirUser, pushes, held
  <2>4. row[<<j.user, d>>] = IF d \in got THEN pushes[j.event][<<j.user, d>>] + 1
                             ELSE pushes[j.event][<<j.user, d>>]
    BY <1>3, <2>1
  <2>5. pushes'[j.event][<<j.user, d>>] = row[<<j.user, d>>]
    BY <1>6
  <2>6. CASE d \in got
    BY <1>1, <2>1, <2>2, <2>4, <2>5, <2>6
  <2>7. CASE d \notin got
    BY <1>1, <2>1, <2>2, <2>3, <2>4, <2>5, <2>7
  <2>8. QED
    BY <2>6, <2>7
<1>9. tokens' \in [Pair -> Couple \cup {None}] /\ \A d \in Pair : tokens'[d] \in {tokens[d], None}
  BY <1>0, <1>2
<1>10. QED
  BY <1>6, <1>7, <1>8, <1>9

\* The job ends, with its messages sent or not.
LEMMA EndInv ==
  ASSUME PeopleAssumption, NoticeInv, NEW j \in jobs,
         Notices!SendFails(j) \/ \E dead \in SUBSET Pair : Notices!SendPush(j, dead)
  PROVE  NoticeInv'
<1>0. /\ jobs \subseteq Job /\ JobInv /\ j \in Job /\ j.event \in Notices!Events
      /\ j.user \in Couple /\ j.stalls \in 0..MaxStalls /\ MaxStalls \in Nat
      /\ tokens \in [Pair -> Couple \cup {None}]
      /\ pushes \in [Notices!Events -> [Couple \X Pair -> Nat]]
      /\ Notices!PushesReachTheirUser /\ Notices!PushesBounded
  BY NoticeFacts DEF NoticeInv, JobInv, Job
<1>1. jobs' = jobs \ {j} /\ UNCHANGED <<opted, holder, events, inbox, willing, held>>
  BY DEF Notices!SendFails, Notices!SendPush, opted, holder, events, jobs, inbox, willing, held
<1>2. /\ tokens' \in [Pair -> Couple \cup {None}]
      /\ \A d \in Pair : tokens'[d] \in {tokens[d], None}
      /\ pushes' \in [Notices!Events -> [Couple \X Pair -> Nat]]
      /\ \A e \in Notices!Events, u \in Couple, d \in Pair :
           (e # j.event \/ u # j.user) => pushes'[e][<<u, d>>] = pushes[e][<<u, d>>]
  <2>1. CASE Notices!SendFails(j)
    BY <1>0, <2>1 DEF Notices!SendFails, tokens, pushes
  <2>2. ASSUME NEW dead \in SUBSET Pair, Notices!SendPush(j, dead)
        PROVE  Notices!Deliver(j, j.to \ dead, dead)
    BY <2>2 DEF Notices!SendPush
  <2>3. QED
    BY <2>1, <2>2, DeliverFacts
<1>3. \A d \in Pair : /\ pushes'[j.event][<<j.user, d>>] <= 1 + MaxStalls
                      /\ pushes'[j.event][<<j.user, d>>] > 0 => <<j.user, d>> \in held[j.event]
  <2>1. CASE Notices!SendFails(j)
    BY <1>0, <2>1 DEF Notices!SendFails, pushes, Notices!PushesReachTheirUser,
       Notices!PushesBounded, held
  <2>2. ASSUME NEW dead \in SUBSET Pair, Notices!SendPush(j, dead)
        PROVE  \A d \in Pair :
                 /\ pushes'[j.event][<<j.user, d>>] <= 1 + j.stalls
                 /\ pushes'[j.event][<<j.user, d>>] > 0 => <<j.user, d>> \in held[j.event]
    BY <2>2, DeliverFacts DEF Notices!SendPush
  <2>3. \A d \in Pair : pushes'[j.event][<<j.user, d>>] \in Nat
    BY <1>0, <1>2
  <2>4. \A n \in Nat : n <= 1 + j.stalls => n <= 1 + MaxStalls
    BY <1>0
  <2>5. QED
    BY <2>1, <2>2, <2>3, <2>4
<1>4. jobs' \subseteq Job /\ \A k \in jobs' : k \in jobs
  BY <1>0, <1>1
<1>5. JobStep(j)
  BY <1>1, <1>2, <1>3, <1>4 DEF JobStep
<1>6. JobInv'
  <2>1. PICK N : N = {}
    OBVIOUS
  <2>2. \A l \in N : l.event = j.event /\ l.user = j.user /\ JobOk(l)'
    BY <2>1
  <2>3. (\A l, m \in N : l = m) /\ jobs' = (jobs \ {j}) \cup N
    BY <1>1, <2>1
  <2>4. QED
    BY <1>5, <2>2, <2>3, JobsInv
<1>7. QED
  BY <1>5, <1>6, JobStepInv

\* The worker dies with the messages sent: the job is run again, or no more.
LEMMA StallInv ==
  ASSUME PeopleAssumption, NoticeInv, NEW j \in jobs, Notices!Stall(j)
  PROVE  NoticeInv'
<1>0. /\ jobs \subseteq Job /\ JobInv /\ j \in Job /\ j.event \in Notices!Events
      /\ j.user \in Couple /\ j.stalls \in 0..MaxStalls /\ MaxStalls \in Nat
  BY NoticeFacts DEF NoticeInv, JobInv, Job
<1>1. PICK k : k = [event |-> j.event, user |-> j.user, stalls |-> j.stalls + 1,
                    to |-> {}, step |-> "waiting"]
  OBVIOUS
<1>2. PICK N : N = IF j.stalls = MaxStalls THEN {} ELSE {k}
  OBVIOUS
<1>3. /\ jobs' = (jobs \ {j}) \cup N /\ Notices!Deliver(j, j.to, {})
      /\ UNCHANGED <<opted, holder, events, inbox, willing, held>>
  <2>1. [j EXCEPT !.step = "waiting", !.to = {}, !.stalls = @ + 1] = k
    <3>1. j = [event |-> j.event, user |-> j.user, stalls |-> j.stalls, to |-> j.to, step |-> j.step]
      BY <1>0 DEF Job
    <3>2. [j EXCEPT !.step = "waiting", !.to = {}, !.stalls = @ + 1]
            = [[[j EXCEPT !.step = "waiting"] EXCEPT !.to = {}] EXCEPT !.stalls = @ + 1]
      OBVIOUS
    <3>3. [j EXCEPT !.step = "waiting"]
            = [event |-> j.event, user |-> j.user, stalls |-> j.stalls, to |-> j.to, step |-> "waiting"]
      BY <3>1
    <3>4. [[event |-> j.event, user |-> j.user, stalls |-> j.stalls, to |-> j.to, step |-> "waiting"]
              EXCEPT !.to = {}]
            = [event |-> j.event, user |-> j.user, stalls |-> j.stalls, to |-> {}, step |-> "waiting"]
      OBVIOUS
    <3>5. [[event |-> j.event, user |-> j.user, stalls |-> j.stalls, to |-> {}, step |-> "waiting"]
              EXCEPT !.stalls = @ + 1] = k
      BY <1>1
    <3>6. QED
      BY <3>2, <3>3, <3>4, <3>5, Zenon
  <2>2. QED
    BY <1>2, <2>1 DEF Notices!Stall, opted, holder, events, jobs, inbox, willing, held
<1>4. /\ tokens' \in [Pair -> Couple \cup {None}]
      /\ \A d \in Pair : tokens'[d] \in {tokens[d], None}
      /\ pushes' \in [Notices!Events -> [Couple \X Pair -> Nat]]
      /\ \A e \in Notices!Events, u \in Couple, d \in Pair :
           (e # j.event \/ u # j.user) => pushes'[e][<<u, d>>] = pushes[e][<<u, d>>]
      /\ \A d \in Pair :
           /\ pushes'[j.event][<<j.user, d>>] <= 1 + j.stalls
           /\ pushes'[j.event][<<j.user, d>>] > 0 => <<j.user, d>> \in held[j.event]
  BY <1>3, DeliverFacts
<1>5. \A d \in Pair : pushes'[j.event][<<j.user, d>>] \in Nat
                      /\ pushes'[j.event][<<j.user, d>>] <= 1 + MaxStalls
  BY <1>0, <1>4
<1>6. \A l \in N : /\ l = k /\ l \in Job /\ l.event = j.event /\ l.user = j.user
                   /\ l.stalls = j.stalls + 1 /\ l.to = {}
  BY <1>0, <1>1, <1>2 DEF Job
<1>7. jobs' \subseteq Job /\ \A l \in jobs' : l \in jobs \/ (l.event = j.event /\ l.user = j.user)
  BY <1>0, <1>3, <1>6
<1>8. JobStep(j)
  BY <1>3, <1>4, <1>5, <1>7 DEF JobStep
<1>9. \A l \in N : l.event = j.event /\ l.user = j.user /\ JobOk(l)'
  <2>1. \A d \in Pair : pushes'[j.event][<<j.user, d>>] <= j.stalls + 1
    BY <1>0, <1>4
  <2>2. QED
    BY <1>6, <2>1 DEF JobOk
<1>10. \A l, m \in N : l = m
  BY <1>6
<1>11. JobInv'
  BY <1>3, <1>8, <1>9, <1>10, JobsInv
<1>12. QED
  BY <1>8, <1>11, JobStepInv
-----------------------------------------------------------------------------
\* Devices change hands and users their minds.
LEMMA HandsInv ==
  ASSUME PeopleAssumption, NoticeInv, NEW d \in Pair,
         Notices!RemoveToken(d) \/ \E u \in Couple : Notices!RegisterToken(u, d)
  PROVE  NoticeInv'
<1> USE DEF opted, tokens, holder, events, jobs, inbox, pushes, willing, held
<1>0. /\ Notices!Started \subseteq Notices!Events /\ None \notin Couple
      /\ tokens \in [Pair -> Couple \cup {None}] /\ holder \in [Pair -> Couple \cup {None}]
      /\ held \in [Notices!Events -> SUBSET (Couple \X Pair)]
  BY NoticeFacts DEF NoticeInv
<1>1. UNCHANGED <<opted, events, jobs, inbox, pushes, willing>>
  BY DEF Notices!RemoveToken, Notices!RegisterToken
<1>2. Notices!Started' = Notices!Started /\ Notices!Events' = Notices!Events
  BY <1>1 DEF Notices!Started, Notices!Events
<1>3. /\ tokens' \in [Pair -> Couple \cup {None}] /\ holder' \in [Pair -> Couple \cup {None}]
      /\ held' \in [Notices!Events -> SUBSET (Couple \X Pair)]
      /\ \A c \in Pair : tokens'[c] # None => holder'[c] = tokens'[c]
      /\ \A e \in Notices!Started : held[e] \subseteq held'[e] /\ Notices!Holders' \subseteq held'[e]
  <2>1. HeldInv
    BY DEF NoticeInv
  <2>2. CASE Notices!RemoveToken(d)
    BY <1>0, <2>1, <2>2 DEF Notices!RemoveToken, Notices!Holders, HeldInv
  <2>3. ASSUME NEW u \in Couple, Notices!RegisterToken(u, d)
        PROVE  /\ tokens' \in [Pair -> Couple \cup {None}] /\ holder' \in [Pair -> Couple \cup {None}]
               /\ held' \in [Notices!Events -> SUBSET (Couple \X Pair)]
               /\ \A c \in Pair : tokens'[c] # None => holder'[c] = tokens'[c]
               /\ \A e \in Notices!Started :
                    held[e] \subseteq held'[e] /\ Notices!Holders' \subseteq held'[e]
    <3>1. /\ tokens' = [tokens EXCEPT ![d] = u] /\ holder' = [holder EXCEPT ![d] = u]
          /\ held' = [e \in Notices!Events |->
               IF e \in Notices!Started THEN held[e] \cup {<<u, d>>} ELSE {}]
      BY <2>3 DEF Notices!RegisterToken
    <3>2. Notices!Holders' \subseteq Notices!Holders \cup {<<u, d>>}
      BY <1>0, <3>1 DEF Notices!Holders
    <3>3. held' \in [Notices!Events -> SUBSET (Couple \X Pair)]
      BY <1>0, <3>1
    <3>4. \A e \in Notices!Started :
                    held[e] \subseteq held'[e] /\ Notices!Holders' \subseteq held'[e]
      BY <1>0, <2>1, <3>1, <3>2 DEF HeldInv
    <3>5. QED
      BY <1>0, <2>1, <3>1, <3>3, <3>4 DEF HeldInv
  <2>4. QED
    BY <2>2, <2>3
<1>4. Notices!TypeOK'
  BY <1>1, <1>2, <1>3 DEF NoticeInv, Notices!TypeOK
<1>5. OnceInv' /\ WillInv'
  BY <1>1, <1>2 DEF NoticeInv, OnceInv, OnceOf, Unsent, HasJob, WillInv, WillOf
<1>6. HeldInv'
  BY <1>2, <1>3 DEF HeldInv
<1>7. JobInv'
  BY <1>1, <1>2, <1>3 DEF NoticeInv, JobInv
<1>8. Notices!PushesReachTheirUser'
  <2>1. ASSUME NEW e \in Notices!Events, NEW u \in Couple, NEW c \in Pair,
               pushes[e][<<u, c>>] > 0
        PROVE  <<u, c>> \in held'[e]
    <3>1. e \in Notices!Started
      BY <2>1 DEF NoticeInv, OnceInv, Unsent
    <3>2. <<u, c>> \in held[e]
      BY <2>1 DEF NoticeInv, Notices!PushesReachTheirUser
    <3>3. QED
      BY <1>3, <3>1, <3>2
  <2>2. QED
    BY <1>1, <1>2, <2>1 DEF Notices!PushesReachTheirUser
<1>9. Notices!PushesBounded'
  BY <1>1, <1>2 DEF NoticeInv, Notices!PushesBounded
<1>10. QED
  BY <1>4, <1>5, <1>6, <1>7, <1>8, <1>9 DEF NoticeInv

LEMMA PrefsInv ==
  ASSUME PeopleAssumption, NoticeInv, NEW u \in Couple, Notices!ChangePrefs(u)
  PROVE  NoticeInv'
<1> USE DEF opted, tokens, holder, events, jobs, inbox, pushes, willing, held
<1>0. /\ Notices!Started \subseteq Notices!Events /\ opted \subseteq Couple
      /\ events \in [Notices!Started -> EventRow]
      /\ willing \in [Notices!Events -> SUBSET Couple]
  BY NoticeFacts DEF NoticeInv
<1>1. /\ UNCHANGED <<tokens, holder, events, jobs, inbox, pushes, held>>
      /\ opted' \subseteq Couple
      /\ willing' = [e \in Notices!Events |->
           IF e \in Notices!Started THEN willing[e] \cup opted' ELSE {}]
  BY <1>0 DEF Notices!ChangePrefs
<1>2. /\ Notices!Started' = Notices!Started /\ Notices!Events' = Notices!Events
      /\ Notices!Holders' = Notices!Holders
  BY <1>1 DEF Notices!Started, Notices!Events, Notices!Holders
<1>3. willing' \in [Notices!Events -> SUBSET Couple]
  BY <1>0, <1>1
<1>4. Notices!TypeOK'
  BY <1>1, <1>2, <1>3 DEF NoticeInv, Notices!TypeOK
<1>5. OnceInv'
  BY <1>1, <1>2 DEF NoticeInv, OnceInv, OnceOf, Unsent, HasJob
<1>6. WillInv'
  <2>1. ASSUME NEW e \in Notices!Started PROVE WillOf(e)'
    BY <1>0, <1>1 DEF NoticeInv, WillInv, EventRow, NoticeCall, WillOf
  <2>2. QED
    BY <1>2, <2>1 DEF WillInv
<1>7. HeldInv' /\ JobInv'
  BY <1>1, <1>2 DEF NoticeInv, HeldInv, JobInv
<1>8. Notices!PushesReachTheirUser' /\ Notices!PushesBounded'
  BY <1>1, <1>2 DEF NoticeInv, Notices!PushesReachTheirUser, Notices!PushesBounded
<1>9. QED
  BY <1>4, <1>5, <1>6, <1>7, <1>8 DEF NoticeInv

-----------------------------------------------------------------------------
\* Nobody is in an audience twice, and a broadcast's is willing.
LEMMA AudienceOnce ==
  ASSUME NEW A \in SUBSET Couple, NEW B \in SUBSET Couple,
         NEW kind \in {"price", "alert", "broadcast", "security"}
  PROVE  /\ Notices!Audience(kind, A, B) \in [Couple -> 0..2]
         /\ \A u \in Couple : Notices!Audience(kind, A, B)[u] <= 1
         /\ kind = "broadcast" =>
              \A u \in Couple : Notices!Audience(kind, A, B)[u] > 0 => u \in opted
<1>1. \A S : /\ Notices!Count(S) \in [Couple -> 0..2]
             /\ \A u \in Couple : Notices!Count(S)[u] <= 1
             /\ \A u \in Couple : Notices!Count(S)[u] > 0 => u \in S
  BY DEF Notices!Count
<1>2. \E S : /\ Notices!Audience(kind, A, B) = Notices!Count(S)
             /\ kind = "broadcast" => S \subseteq opted
  <2>1. CASE kind = "broadcast"
    BY <2>1 DEF Notices!Audience, opted
  <2>2. CASE kind = "price"
    BY <2>2 DEF Notices!Audience
  <2>3. CASE kind = "alert"
    BY <2>3 DEF Notices!Audience
  <2>4. CASE kind = "security"
    BY <2>4 DEF Notices!Audience
  <2>5. QED
    BY <2>1, <2>2, <2>3, <2>4
<1>3. QED
  BY <1>1, <1>2

LEMMA HappenInv ==
  ASSUME PeopleAssumption, NoticeInv,
         NEW kind \in {"price", "alert", "broadcast", "security"},
         NEW A \in SUBSET Couple, NEW B \in SUBSET Couple, Notices!Happen(kind, A, B)
  PROVE  NoticeInv'
<1>0. /\ MaxEvents \in Nat /\ opted \subseteq Couple
      /\ events \in [Notices!Started -> EventRow] /\ Notices!Started \subseteq Notices!Events
      /\ jobs \subseteq Job
      /\ willing \in [Notices!Events -> SUBSET Couple]
      /\ held \in [Notices!Events -> SUBSET (Couple \X Pair)]
  BY NoticeFacts DEF NoticeInv
<1>1. PICK n \in 0..MaxEvents : events \in [1..n -> EventRow]
  BY NoticeFacts DEF NoticeInv
<1>2. Notices!Started = 1..n /\ Notices!Cardinality(Notices!Started) = n
  BY <1>0, <1>1, FS_Interval, SameCounts DEF Notices!Started, events
<1>3. PICK e : e = n + 1
  OBVIOUS
<1>4. PICK row : row = [kind |-> kind, rest |-> Notices!Audience(kind, A, B), calls |-> {}]
  OBVIOUS
<1>5. /\ e \in Notices!Events
      /\ events' = [i \in 1..e |-> IF i < e THEN events[i] ELSE row]
      /\ willing' = [willing EXCEPT ![e] = opted]
      /\ held' = [held EXCEPT ![e] = Notices!Holders]
      /\ UNCHANGED <<opted, tokens, holder, jobs, inbox, pushes>>
  BY <1>2, <1>3, <1>4 DEF Notices!Happen, opted, tokens, holder, events, jobs, inbox, pushes,
     willing, held
<1>6. /\ n \in Nat /\ e \in 1..MaxEvents /\ e \in 0..MaxEvents /\ e \notin Notices!Started
      /\ 1..e = (1..n) \cup {e} /\ \A i \in 1..n : i < e
  BY <1>0, <1>1, <1>2, <1>3, <1>5 DEF Notices!Events
<1>7. row \in EventRow /\ row.kind = kind /\ row.calls = {}
      /\ row.rest = Notices!Audience(kind, A, B)
  BY <1>4, AudienceOnce DEF EventRow
<1>8. /\ Notices!Started' = Notices!Started \cup {e} /\ Notices!Events' = Notices!Events
      /\ Notices!Holders' = Notices!Holders
      /\ events'[e] = row /\ \A i \in Notices!Started : events'[i] = events[i] /\ i # e
  BY <1>1, <1>2, <1>5, <1>6 DEF Notices!Started, Notices!Events, Notices!Holders, events, holder
<1>9. events' \in [1..e -> EventRow]
  BY <1>1, <1>2, <1>5, <1>6, <1>7, <1>8
<1>10. /\ willing' \in [Notices!Events -> SUBSET Couple] /\ willing'[e] = opted
       /\ held' \in [Notices!Events -> SUBSET (Couple \X Pair)] /\ held'[e] = Notices!Holders
       /\ \A i \in Notices!Events \ {e} : willing'[i] = willing[i] /\ held'[i] = held[i]
  BY <1>0, <1>5 DEF Notices!Holders
<1>11. Notices!TypeOK'
  BY <1>5, <1>6, <1>8, <1>9, <1>10 DEF NoticeInv, Notices!TypeOK, EventRow, NoticeCall, opted, tokens,
     holder, events, jobs, inbox, pushes, willing, held
<1>12. \A u \in Couple : inbox[e][u] = 0 /\ Unsent(e, u)
  BY <1>5, <1>6 DEF NoticeInv, OnceInv
<1>13. \A i, u : Unsent(i, u)' <=> Unsent(i, u)
  BY <1>5 DEF Unsent, HasJob
<1>14. OnceInv'
  <2>1. OnceOf(e)'
    <3>1. \A u \in Couple : row.rest[u] <= 1
      BY <1>7, AudienceOnce
    <3>2. \A u \in Couple : inbox'[e][u] = 0 /\ Unsent(e, u)'
      BY <1>5, <1>12, <1>13
    <3>3. QED
      BY <1>7, <1>8, <3>1, <3>2 DEF OnceOf
  <2>2. ASSUME NEW i \in Notices!Started PROVE OnceOf(i)'
    BY <1>5, <1>8, <1>13 DEF NoticeInv, OnceInv, OnceOf
  <2>3. \A i \in Notices!Events, u \in Couple :
          /\ inbox'[i][u] <= 1
          /\ i \notin Notices!Started => inbox'[i][u] = 0 /\ Unsent(i, u)'
    BY <1>5, <1>13 DEF NoticeInv, OnceInv
  <2>4. QED
    BY <1>8, <2>1, <2>2, <2>3 DEF OnceInv
<1>15. WillInv'
  <2>1. WillOf(e)'
    <3>1. \A u \in Couple : ~(inbox'[e][u] > 0)
      BY <1>5, <1>12
    <3>2. kind = "broadcast" => \A u \in Couple : row.rest[u] > 0 => u \in opted
      BY <1>7, AudienceOnce
    <3>3. QED
      BY <1>5, <1>7, <1>8, <1>10, <3>1, <3>2 DEF WillOf
  <2>2. ASSUME NEW i \in Notices!Started PROVE WillOf(i)'
    BY <1>0, <1>5, <1>8, <1>10 DEF NoticeInv, WillInv, WillOf
  <2>3. QED
    BY <1>8, <2>1, <2>2 DEF WillInv
<1>16. HeldInv'
  BY <1>0, <1>5, <1>8, <1>10 DEF NoticeInv, HeldInv
<1>17. JobInv'
  BY <1>0, <1>5, <1>8, <1>10 DEF NoticeInv, JobInv
<1>18. Notices!PushesReachTheirUser'
  <2>1. ASSUME NEW i \in Notices!Events, NEW u \in Couple, NEW c \in Pair,
               pushes[i][<<u, c>>] > 0
        PROVE  <<u, c>> \in held'[i]
    <3>1. i # e
      BY <1>12, <2>1 DEF Unsent
    <3>2. <<u, c>> \in held[i]
      BY <2>1 DEF NoticeInv, Notices!PushesReachTheirUser, pushes, held
    <3>3. QED
      BY <1>10, <3>1, <3>2
  <2>2. QED
    BY <1>5, <1>8, <2>1 DEF Notices!PushesReachTheirUser, pushes, held
<1>19. Notices!PushesBounded'
  BY <1>5, <1>8 DEF NoticeInv, Notices!PushesBounded, pushes
<1>20. QED
  BY <1>11, <1>14, <1>15, <1>16, <1>17, <1>18, <1>19 DEF NoticeInv

LEMMA NoticeNext == ASSUME PeopleAssumption, NoticeInv, Notices!Next PROVE NoticeInv'
<1>1. ASSUME NEW kind \in {"price", "alert", "broadcast", "security"},
             NEW A \in SUBSET Couple, NEW B \in SUBSET Couple, Notices!Happen(kind, A, B)
      PROVE  NoticeInv'
  BY <1>1, HappenInv
<1>2. ASSUME NEW e \in Notices!Started,
             \/ \E S \in SUBSET Couple : Notices!StartBatch(e, S)
             \/ Notices!Crash(e)
             \/ \E call \in s4[e].calls : \/ Notices!ReadPrefs(e, call) \/ Notices!Store(e, call)
                                          \/ Notices!Enqueue(e, call) \/ Notices!FailCall(e, call)
      PROVE  NoticeInv'
  BY <1>2, BatchInv, CrashInv, MoveInv DEF events
<1>3. ASSUME NEW j \in s5,
             \/ Notices!LookupTokens(j) \/ Notices!SendFails(j) \/ Notices!Stall(j)
             \/ \E dead \in SUBSET Pair : Notices!SendPush(j, dead)
      PROVE  NoticeInv'
  BY <1>3, LookupInv, EndInv, StallInv DEF jobs
<1>4. ASSUME NEW u \in Couple, NEW d \in Pair, Notices!RegisterToken(u, d) PROVE NoticeInv'
  BY <1>4, HandsInv
<1>5. ASSUME NEW d \in Pair, Notices!RemoveToken(d) PROVE NoticeInv'
  BY <1>5, HandsInv
<1>6. ASSUME NEW u \in Couple, Notices!ChangePrefs(u) PROVE NoticeInv'
  BY <1>6, PrefsInv
<1>7. QED
  BY <1>1, <1>2, <1>3, <1>4, <1>5, <1>6 DEF Notices!Next
(***************************************************************************)
(* Campaigns: the weekly digest and the comeback mail.                     *)
(***************************************************************************)
mailNow == s1
prefs == s2
seenAt == s3
activity == s4
runs == s5
mails == s6
toldIn == s7
left == s8
ranNow == s9
smooth == s10

LetterRun == [step : {"users", "mail"}, of : Letters!Campaign,
              found : SUBSET Letters!Activities, wanted : BOOLEAN]
Mail == [of : Letters!Campaign, key : 0..MailTime, wanted : BOOLEAN]

\* An activity well inside its week, and the key of the digest it belongs to.
Inside(t) == t % WEEK > JITTER
DigestOf(t) == (t \div WEEK) + 1
Mailed(t) == \E m \in mails : m.of = "activity_digest" /\ m.key = DigestOf(t)

\* A digest in progress is of this instant, and has found all that belongs
\* to it.  A run begun since the user left the campaign gets no further than
\* the preferences.
RunOk(r) ==
  /\ r.of = "activity_digest" =>
       /\ Letters!Monday(mailNow)
       /\ r.found \subseteq Letters!Known
       /\ \A i \in Letters!Known : Inside(activity[i]) =>
            (i \in r.found <=> DigestOf(activity[i]) = mailNow \div WEEK)
  /\ r.of = "comeback" => r.found = {}
  /\ ~r.wanted => r.step = "users" /\ r.of \in left

RunInv == \A p \in Pair : runs[p] # Letters!Idle => RunOk(runs[p])

\* Sent is told, and told is sent: but only once.
DigestInv ==
  /\ \A i \in Letters!Known : activity[i] <= mailNow
  /\ \A i \in Letters!Activities : i \notin Letters!Known => toldIn[i] = 0
  /\ \A m \in mails : m.of = "activity_digest" => m.key <= mailNow \div WEEK
  /\ \A i \in Letters!Known : Inside(activity[i]) =>
       toldIn[i] = IF Mailed(activity[i]) THEN 1 ELSE 0

\* A digest that was wanted and has run was sent.
SmoothInv ==
  /\ smooth => "notifOffers" \in prefs
  /\ ranNow => Letters!Monday(mailNow)
  /\ \A i \in Letters!Known : smooth /\ Inside(activity[i]) =>
       /\ ranNow /\ DigestOf(activity[i]) = mailNow \div WEEK => toldIn[i] = 1
       /\ mailNow > DigestOf(activity[i]) * WEEK + JITTER => toldIn[i] = 1

\* Who left a campaign has its preference off.
LeaveInv ==
  /\ \A c \in left : Letters!PrefOf(c) \notin prefs
  /\ \A m \in mails : m.wanted

LetterInv == Letters!TypeOK /\ RunInv /\ DigestInv /\ SmoothInv /\ LeaveInv

\* Weeks.
LEMMA DivModUnique ==
  ASSUME NEW w \in Int, w > 0, NEW q \in Int, NEW r \in 0..w-1, NEW t \in Int, t = w * q + r
  PROVE  t \div w = q /\ t % w = r
  BY Z3T(30)

LEMMA WeekFacts ==
  ASSUME PeopleAssumption
  PROVE  /\ WEEK \in Nat /\ WEEK > 0 /\ JITTER \in Nat /\ JITTER < WEEK
         /\ MaxActivities \in Nat /\ MailTime \in Nat
  BY DEF PeopleAssumption, Letters!CampaignAssumption

LEMMA Weeks ==
  ASSUME PeopleAssumption, NEW t \in Nat
  PROVE  \E q \in Nat, r \in 0..WEEK-1 :
           /\ q = t \div WEEK /\ r = t % WEEK
           /\ t = WEEK * q + r /\ WEEK * q \in Nat
           /\ DigestOf(t) = q + 1 /\ DigestOf(t) * WEEK = WEEK * q + WEEK
<1>1. WEEK \in Int /\ WEEK \in Nat /\ WEEK > 0 /\ t \in Int
  BY WeekFacts
<1>2. t \div WEEK \in Nat
  BY <1>1
<1>3. /\ WEEK * (t \div WEEK) + (t % WEEK) = t /\ t % WEEK \in 0..WEEK-1
  BY <1>1, DivMod, Zenon
<1>4. \A n \in Nat : (n + 1) * WEEK = WEEK * n + WEEK /\ WEEK * n \in Nat
  BY <1>1
<1>5. PICK q \in Nat, r \in 0..WEEK-1 : q = t \div WEEK /\ r = t % WEEK /\ WEEK * q + r = t
  BY <1>2, <1>3, Zenon
<1>6. DigestOf(t) = q + 1
  BY <1>5 DEF DigestOf
<1>7. QED
  BY <1>4, <1>5, <1>6, Zenon

\* What a run of the digest looks back on.
LEMMA WeekFound ==
  ASSUME PeopleAssumption, NEW at \in Nat, NEW t \in Nat, at <= t, Inside(at), t % WEEK <= JITTER
  PROVE  at + WEEK >= t <=> DigestOf(at) = t \div WEEK
<1>1. WEEK \in Nat /\ WEEK > 0 /\ JITTER \in Nat
  BY WeekFacts
<1>2. PICK a \in Nat, r \in 0..WEEK-1 :
        r = at % WEEK /\ at = WEEK * a + r /\ DigestOf(at) = a + 1 /\ r > JITTER
  BY Weeks, Zenon DEF Inside
<1>3. PICK n \in Nat, s \in 0..WEEK-1 :
        n = t \div WEEK /\ s = t % WEEK /\ t = WEEK * n + s /\ s <= JITTER
  BY Weeks, Zenon
<1>4. WEEK * a \in Nat /\ WEEK * n \in Nat
  BY <1>1
<1>5. a < n
  <2>1. CASE a = n
    BY <1>1, <1>2, <1>3, <1>4, <2>1
  <2>2. CASE n < a
    BY <1>1, <1>2, <1>3, <1>4, <2>2, Later
  <2>3. QED
    BY <2>1, <2>2
<1>6. CASE a + 1 = n
  BY <1>1, <1>2, <1>3, <1>4, <1>6
<1>7. CASE a + 1 < n
  BY <1>1, <1>2, <1>3, <1>4, <1>7, Later
<1>8. QED
  BY <1>5, <1>6, <1>7

\* A week with an inside does not end within the hour of the job.
LEMMA SameWeek ==
  ASSUME PeopleAssumption, NEW at \in Nat, Inside(at), NEW t \in Nat, t % WEEK <= JITTER
  PROVE  (t + 1) \div WEEK = t \div WEEK /\ (t + 1) % WEEK = (t % WEEK) + 1
<1>1. WEEK \in Nat /\ WEEK > 0 /\ JITTER \in Nat
  BY WeekFacts
<1>2. PICK r \in 0..WEEK-1 : r > JITTER
  BY Weeks, Zenon DEF Inside
<1>3. PICK n \in Nat, s \in 0..WEEK-1 : n = t \div WEEK /\ s = t % WEEK /\ t = WEEK * n + s
                                            /\ s <= JITTER
  BY Weeks, Zenon
<1>4. s + 1 \in 0..WEEK-1
  BY <1>1, <1>2, <1>3
<1>5. WEEK * n \in Int /\ t + 1 = WEEK * n + (s + 1)
  BY <1>1, <1>3
<1>6. (t + 1) \div WEEK = n /\ (t + 1) % WEEK = s + 1
  BY <1>1, <1>4, <1>5, DivModUnique
<1>7. QED
  BY <1>3, <1>6

LEMMA WeeksPass ==
  ASSUME PeopleAssumption, NEW t \in Nat
  PROVE  t \div WEEK <= (t + 1) \div WEEK
<1>1. WEEK \in Nat \ {0}
  BY WeekFacts
<1>2. PICK n \in Nat, s \in 0..WEEK-1 : n = t \div WEEK /\ t = WEEK * n + s
  BY Weeks, Zenon
<1>3. PICK m \in Nat, r \in 0..WEEK-1 : m = (t + 1) \div WEEK /\ t + 1 = WEEK * m + r
  <2>1. t + 1 \in Nat
    OBVIOUS
  <2>2. QED
    BY <2>1, Weeks, Zenon
<1>4. ASSUME m < n PROVE FALSE
  BY <1>1, <1>2, <1>3, <1>4, Later
<1>5. QED
  BY <1>2, <1>3, <1>4
LEMMA LetterFacts ==
  ASSUME PeopleAssumption, Letters!TypeOK
  PROVE  /\ mailNow \in 0..MailTime /\ mailNow \in Nat
         /\ prefs \subseteq Letters!Pref /\ left \subseteq Letters!Campaign
         /\ \E n \in 0..MaxActivities : activity \in [1..n -> 0..MailTime]
         /\ activity \in [Letters!Known -> Nat] /\ Letters!Known \subseteq Letters!Activities
         /\ runs \in [Pair -> {Letters!Idle} \cup LetterRun]
         /\ mails \subseteq Mail
         /\ toldIn \in [Letters!Activities -> Nat]
<1>0. MailTime \in Nat /\ MaxActivities \in Nat
  BY WeekFacts
<1>1. PICK n \in 0..MaxActivities : activity \in [1..n -> 0..MailTime]
  BY DEF Letters!TypeOK, activity
<1>2. activity \in [Letters!Known -> Nat] /\ Letters!Known \subseteq Letters!Activities
  BY <1>0, <1>1 DEF Letters!Known, activity, Letters!Activities
<1>3. mailNow \in 0..MailTime
  BY DEF Letters!TypeOK, mailNow
<1>4. mailNow \in Nat
  BY <1>0, <1>3
<1>5. QED
  BY <1>1, <1>2, <1>3, <1>4 DEF Letters!TypeOK, LetterRun, Mail, prefs, left, runs, mails, toldIn

LEMMA LetterInit == ASSUME PeopleAssumption, Letters!Init PROVE LetterInv
<1> USE DEF mailNow, prefs, seenAt, activity, runs, mails, toldIn, left, ranNow, smooth, Letters!Init
<1>1. MailTime \in Nat /\ MaxActivities \in Nat
  BY WeekFacts
<1>2. Letters!Known = {}
  BY DEF Letters!Known
<1>3. Letters!TypeOK
  <2>1. activity \in [1..0 -> 0..MailTime] /\ 0 \in 0..MaxActivities /\ 0 \in 0..MailTime
    BY <1>1
  <2>2. /\ runs \in [Pair -> {Letters!Idle}]
        /\ toldIn \in [Letters!Activities -> Nat]
    OBVIOUS
  <2>3. QED
    BY <2>1, <2>2 DEF Letters!TypeOK
<1>4. RunInv /\ SmoothInv /\ LeaveInv
  BY <1>2 DEF RunInv, SmoothInv, LeaveInv, Letters!Pref
<1>5. DigestInv
  BY <1>2 DEF DigestInv
<1>6. QED
  BY <1>3, <1>4, <1>5 DEF LetterInv

\* The part's own names for all this.
LEMMA LetterMeans ==
  ASSUME PeopleAssumption, LetterInv PROVE Letters!InOneDigest /\ Letters!UnsubscribeHolds
<1>1. Letters!UnsubscribeHolds
  BY DEF LetterInv, LeaveInv, Letters!UnsubscribeHolds, mails
<1>2. ASSUME NEW i \in Letters!Known, Inside(activity[i])
      PROVE  /\ toldIn[i] <= 1
             /\ smooth /\ mailNow > ((activity[i] \div WEEK) + 1) * WEEK + JITTER => toldIn[i] = 1
  BY <1>2 DEF LetterInv, DigestInv, SmoothInv, DigestOf
<1>3. Letters!InOneDigest
  BY <1>2 DEF Letters!InOneDigest, Inside, activity, toldIn, smooth, mailNow
<1>4. QED
  BY <1>1, <1>3

-----------------------------------------------------------------------------
\* A step of one run that sends nothing.
RunStep(p, r) ==
  /\ runs' = [runs EXCEPT ![p] = r]
  /\ r \in {Letters!Idle} \cup LetterRun
  /\ UNCHANGED <<mailNow, prefs, seenAt, activity, mails, toldIn, left, smooth>>

LEMMA LetterRunsInv ==
  ASSUME PeopleAssumption, LetterInv, NEW p \in Pair, NEW r, RunStep(p, r),
         r # Letters!Idle => RunOk(r),
         ranNow' \in BOOLEAN,
         ranNow' => \/ ranNow
                    \/ /\ Letters!Monday(mailNow)
                       /\ \A i \in Letters!Known : smooth /\ Inside(activity[i])
                            /\ DigestOf(activity[i]) = mailNow \div WEEK => toldIn[i] = 1
  PROVE  LetterInv'
<1>0. runs \in [Pair -> {Letters!Idle} \cup LetterRun]
  BY LetterFacts DEF LetterInv
<1>1. /\ UNCHANGED <<mailNow, prefs, seenAt, activity, mails, toldIn, left, smooth>>
      /\ runs' \in [Pair -> {Letters!Idle} \cup LetterRun] /\ runs'[p] = r
      /\ \A q \in Pair \ {p} : runs'[q] = runs[q]
  BY <1>0 DEF RunStep
<1>2. Letters!Known' = Letters!Known /\ Letters!Activities' = Letters!Activities
      /\ Letters!Monday(mailNow)' = Letters!Monday(mailNow)
  BY <1>1 DEF Letters!Known, Letters!Activities, Letters!Monday, activity
<1>3. Letters!TypeOK'
  BY <1>1, <1>2 DEF LetterInv, Letters!TypeOK, LetterRun, mailNow, prefs, seenAt, activity, runs, mails,
     toldIn, left, ranNow, smooth
<1>4. \A x : RunOk(x)' <=> RunOk(x)
  BY <1>1, <1>2 DEF RunOk
<1>5. RunInv'
  BY <1>1, <1>4 DEF LetterInv, RunInv
<1>6. DigestInv'
  BY <1>1, <1>2 DEF LetterInv, DigestInv, Mailed
<1>7. SmoothInv'
  BY <1>1, <1>2 DEF LetterInv, SmoothInv
<1>8. LeaveInv'
  BY <1>1 DEF LetterInv, LeaveInv
<1>9. QED
  BY <1>3, <1>5, <1>6, <1>7, <1>8 DEF LetterInv

LEMMA BeginInv ==
  ASSUME PeopleAssumption, LetterInv, NEW p \in Pair,
         Letters!activityDigest(p) \/ Letters!comeback(p)
  PROVE  LetterInv'
<1>0. /\ mailNow \in Nat
      /\ activity \in [Letters!Known -> Nat] /\ Letters!Known \subseteq Letters!Activities
      /\ DigestInv
  BY LetterFacts DEF LetterInv
<1>1. /\ UNCHANGED <<mailNow, prefs, seenAt, activity, mails, toldIn, left, ranNow, smooth>>
  BY DEF Letters!activityDigest, Letters!comeback, mailNow, prefs, seenAt, activity, mails,
     toldIn, left, ranNow, smooth
<1>2. ranNow' \in BOOLEAN
  BY <1>1 DEF LetterInv, Letters!TypeOK, ranNow
<1>3. CASE Letters!activityDigest(p)
  <2>1. PICK r : r = [step |-> "users", of |-> "activity_digest", found |-> Letters!RecentActivity,
                      wanted |-> "activity_digest" \notin left]
    OBVIOUS
  <2>2. runs' = [runs EXCEPT ![p] = r] /\ Letters!Monday(mailNow)
    BY <1>3, <2>1 DEF Letters!activityDigest, Letters!Put, runs, left, mailNow
  <2>3. Letters!RecentActivity = {i \in Letters!Known : activity[i] + WEEK >= mailNow}
    BY DEF Letters!RecentActivity, activity, mailNow
  <2>4. r \in LetterRun
    BY <1>0, <2>1, <2>3 DEF LetterRun, Letters!Campaign
  <2>5. ASSUME NEW i \in Letters!Known, Inside(activity[i])
        PROVE  i \in r.found <=> DigestOf(activity[i]) = mailNow \div WEEK
    BY <1>0, <2>1, <2>2, <2>3, <2>5, WeekFound DEF DigestInv, Letters!Monday
  <2>6. RunOk(r)
    BY <2>1, <2>2, <2>3, <2>5 DEF RunOk
  <2>7. RunStep(p, r)
    BY <1>1, <2>2, <2>4 DEF RunStep
  <2>8. QED
    BY <1>1, <1>2, <2>6, <2>7, LetterRunsInv
<1>4. CASE Letters!comeback(p)
  <2>1. PICK r : r = [step |-> "users", of |-> "comeback", found |-> {},
                      wanted |-> "comeback" \notin left]
    OBVIOUS
  <2>2. runs' = [runs EXCEPT ![p] = r]
    BY <1>4, <2>1 DEF Letters!comeback, Letters!Put, runs, left
  <2>3. r \in LetterRun
    BY <2>1 DEF LetterRun, Letters!Campaign
  <2>4. RunOk(r)
    BY <2>1 DEF RunOk
  <2>5. RunStep(p, r)
    BY <1>1, <2>2, <2>3 DEF RunStep
  <2>6. QED
    BY <1>1, <1>2, <2>4, <2>5, LetterRunsInv
<1>5. QED
  BY <1>3, <1>4

LEMMA GiveUpInv ==
  ASSUME PeopleAssumption, LetterInv, NEW p \in Pair, Letters!Fail(p)
  PROVE  LetterInv'
<1>1. /\ UNCHANGED <<mailNow, prefs, seenAt, activity, mails, toldIn, left, ranNow, smooth>>
      /\ runs' = [runs EXCEPT ![p] = Letters!Idle]
  BY DEF Letters!Fail, Letters!Put, mailNow, prefs, seenAt, activity, runs, mails,
     toldIn, left, ranNow, smooth
<1>2. ranNow' \in BOOLEAN
  BY <1>1 DEF LetterInv, Letters!TypeOK, ranNow
<1>3. RunStep(p, Letters!Idle)
  BY <1>1 DEF RunStep
<1>4. QED
  BY <1>1, <1>2, <1>3, LetterRunsInv

\* Whom the user does not let write ends here.
LEMMA FindUsersInv ==
  ASSUME PeopleAssumption, LetterInv, NEW p \in Pair, Letters!FindUsers(p)
  PROVE  LetterInv'
<1>0. runs \in [Pair -> {Letters!Idle} \cup LetterRun] /\ runs[p].step = "users"
      /\ RunInv /\ SmoothInv /\ LeaveInv
  BY LetterFacts DEF LetterInv, Letters!FindUsers, runs
<1>1. /\ runs[p] \in LetterRun /\ RunOk(runs[p])
      /\ runs[p].of \in Letters!Campaign /\ ranNow \in BOOLEAN
  BY <1>0 DEF Letters!Idle, RunInv, LetterRun, LetterInv, Letters!TypeOK, ranNow
<1>2. UNCHANGED <<mailNow, prefs, seenAt, activity, mails, toldIn, left, smooth>>
  BY DEF Letters!FindUsers, mailNow, prefs, seenAt, activity, mails, toldIn, left, smooth
<1>3. CASE Letters!PrefOf(runs[p].of) \in prefs /\ (runs[p].of = "activity_digest" => runs[p].found # {})
  <2>1. PICK r : r = [runs[p] EXCEPT !.step = "mail"]
    OBVIOUS
  <2>2. runs' = [runs EXCEPT ![p] = r] /\ ranNow' = ranNow
    BY <1>3, <2>1 DEF Letters!FindUsers, Letters!Put, runs, prefs, ranNow
  <2>3. r \in LetterRun /\ r.of = runs[p].of /\ r.found = runs[p].found /\ r.wanted = runs[p].wanted
    BY <1>1, <2>1 DEF LetterRun
  <2>4. r.wanted
    BY <1>0, <1>1, <1>3, <2>3 DEF RunOk, LeaveInv
  <2>5. RunOk(r)
    BY <1>1, <2>3, <2>4 DEF RunOk
  <2>6. RunStep(p, r)
    BY <1>2, <2>2, <2>3 DEF RunStep
  <2>7. QED
    BY <1>1, <2>2, <2>5, <2>6, LetterRunsInv
<1>4. CASE ~(Letters!PrefOf(runs[p].of) \in prefs /\ (runs[p].of = "activity_digest" => runs[p].found # {}))
  <2>1. runs' = [runs EXCEPT ![p] = Letters!Idle]
        /\ ranNow' = (ranNow \/ runs[p].of = "activity_digest")
    BY <1>4 DEF Letters!FindUsers, Letters!EndRun, Letters!Put, runs, prefs, ranNow
  <2>2. RunStep(p, Letters!Idle)
    BY <1>2, <2>1 DEF RunStep
  <2>3. ASSUME runs[p].of = "activity_digest"
        PROVE  /\ Letters!Monday(mailNow)
               /\ \A i \in Letters!Known : smooth /\ Inside(activity[i])
                    /\ DigestOf(activity[i]) = mailNow \div WEEK => toldIn[i] = 1
    BY <1>0, <1>1, <1>4, <2>3 DEF RunOk, SmoothInv, Letters!PrefOf
  <2>4. ranNow' \in BOOLEAN
    BY <1>1, <2>1
  <2>5. ranNow' => \/ ranNow
                   \/ /\ Letters!Monday(mailNow)
                      /\ \A i \in Letters!Known : smooth /\ Inside(activity[i])
                           /\ DigestOf(activity[i]) = mailNow \div WEEK => toldIn[i] = 1
    BY <2>1, <2>3
  <2>6. QED
    BY <2>2, <2>4, <2>5, LetterRunsInv
<1>5. QED
  BY <1>3, <1>4
\* The mail goes out, unless the same went out already.
LEMMA SendInv ==
  ASSUME PeopleAssumption, LetterInv, NEW p \in Pair, Letters!Enqueue(p)
  PROVE  LetterInv'
<1>0. /\ runs \in [Pair -> {Letters!Idle} \cup LetterRun] /\ runs[p].step = "mail"
      /\ RunInv /\ SmoothInv /\ LeaveInv /\ DigestInv
      /\ mailNow \in 0..MailTime /\ mailNow \in Nat /\ MailTime \in Nat
      /\ activity \in [Letters!Known -> Nat] /\ Letters!Known \subseteq Letters!Activities
      /\ mails \subseteq Mail /\ toldIn \in [Letters!Activities -> Nat]
  BY LetterFacts, WeekFacts DEF LetterInv, Letters!Enqueue, runs
<1>1. PICK run \in LetterRun : run = runs[p] /\ RunOk(run) /\ run.step = "mail"
  BY <1>0 DEF Letters!Idle, RunInv
<1>2. run.wanted /\ run.wanted \in BOOLEAN /\ run.of \in Letters!Campaign /\ run.found \subseteq Letters!Activities
  BY <1>1 DEF RunOk, LetterRun
<1>3. PICK key : key = Letters!Period(run.of, mailNow)
  OBVIOUS
<1>4. PICK first \in BOOLEAN : first <=> \A m \in mails : ~(m.of = run.of /\ m.key = key)
  OBVIOUS
<1>5. /\ UNCHANGED <<mailNow, prefs, seenAt, activity, left, smooth>>
      /\ runs' = [runs EXCEPT ![p] = Letters!Idle]
      /\ ranNow' = (ranNow \/ run.of = "activity_digest")
      /\ first => /\ mails' = mails \cup {[of |-> run.of, key |-> key, wanted |-> run.wanted]}
                  /\ toldIn' = [i \in Letters!Activities |->
                                  IF i \in run.found THEN toldIn[i] + 1 ELSE toldIn[i]]
      /\ ~first => mails' = mails /\ toldIn' = toldIn
  BY <1>1, <1>3, <1>4 DEF Letters!Enqueue, Letters!EndRun, Letters!Put, mailNow, prefs, seenAt, activity,
     runs, mails, toldIn, left, ranNow, smooth
<1>6. /\ Letters!Known' = Letters!Known /\ Letters!Activities' = Letters!Activities
      /\ Letters!Monday(mailNow)' = Letters!Monday(mailNow)
  BY <1>5 DEF Letters!Known, Letters!Activities, Letters!Monday, activity
<1>7. /\ key \in 0..MailTime
      /\ run.of = "activity_digest" => key = mailNow \div WEEK
  <2>1. \A w \in Nat \ {0} : mailNow \div w \in 0..MailTime
    <3>1. ASSUME NEW w \in Nat \ {0} PROVE mailNow \div w \in 0..MailTime
      <4>1. PICK q \in Nat, r \in 0..w-1 : q = mailNow \div w /\ w * q + r = mailNow
        BY <1>0, DivMod
      <4>2. PICK v \in Nat : w = v + 1
        OBVIOUS
      <4>3. w * q = v * q + q /\ v * q \in Nat
        BY <4>2
      <4>4. q <= mailNow
        BY <4>1, <4>3
      <4>5. QED
        BY <1>0, <4>1, <4>4
    <3>2. QED
      BY <3>1
  <2>2. WEEK \in Nat \ {0} /\ MONTH \in Nat \ {0}
    BY DEF PeopleAssumption, Letters!CampaignAssumption
  <2>3. mailNow \div WEEK \in 0..MailTime /\ mailNow \div MONTH \in 0..MailTime
    BY <2>1, <2>2, Zenon
  <2>4. CASE run.of = "activity_digest"
    BY <1>3, <2>3, <2>4 DEF Letters!Period
  <2>5. CASE run.of # "activity_digest"
    BY <1>3, <2>3, <2>5 DEF Letters!Period
  <2>6. QED
    BY <2>4, <2>5
<1>8. /\ mails' \subseteq Mail
      /\ \A m \in mails' : m \in mails \/ (m.of = run.of /\ m.key = key /\ m.wanted)
  <2>1. PICK mail : mail = [of |-> run.of, key |-> key, wanted |-> run.wanted]
    OBVIOUS
  <2>2. mail \in Mail /\ mail.of = run.of /\ mail.key = key /\ mail.wanted
    BY <1>2, <1>7, <2>1 DEF Mail
  <2>3. CASE first
    BY <1>0, <1>5, <2>1, <2>2, <2>3
  <2>4. CASE ~first
    BY <1>0, <1>5, <2>4
  <2>5. QED
    BY <2>3, <2>4
<1>9. toldIn' \in [Letters!Activities -> Nat]
  BY <1>0, <1>5
<1>10. /\ runs' \in [Pair -> {Letters!Idle} \cup LetterRun] /\ runs'[p] = Letters!Idle
       /\ \A q \in Pair \ {p} : runs'[q] = runs[q]
  BY <1>0, <1>5
<1>11. Letters!TypeOK'
  BY <1>5, <1>6, <1>8, <1>9, <1>10 DEF LetterInv, Letters!TypeOK, LetterRun, Mail, mailNow, prefs,
     seenAt, activity, runs, mails, toldIn, left, ranNow, smooth
<1>12. RunInv'
  BY <1>0, <1>5, <1>6, <1>10 DEF RunOk, RunInv
<1>13. CASE run.of = "comeback"
  <2>1. toldIn' = toldIn /\ ranNow' = ranNow
    <3>1. run.found = {}
      BY <1>1, <1>13 DEF RunOk
    <3>2. toldIn = [i \in Letters!Activities |-> toldIn[i]]
      BY <1>0
    <3>3. toldIn' = toldIn
      BY <1>5, <3>1, <3>2
    <3>4. ranNow \in BOOLEAN
      BY DEF LetterInv, Letters!TypeOK, ranNow
    <3>5. QED
      BY <1>5, <1>13, <3>3, <3>4
  <2>2. \A m \in mails : m \in mails'
    BY <1>5
  <2>3. \A m \in mails' : m.of = "activity_digest" => m \in mails
    BY <1>8, <1>13
  <2>4. \A t : Mailed(t)' <=> Mailed(t)
    BY <2>2, <2>3 DEF Mailed, DigestOf
  <2>5. DigestInv'
    BY <1>0, <1>5, <1>6, <2>1, <2>3, <2>4 DEF DigestInv
  <2>6. SmoothInv'
    BY <1>0, <1>5, <1>6, <2>1 DEF SmoothInv
  <2>7. QED
    BY <1>0, <1>5, <1>8, <1>11, <1>12, <2>5, <2>6 DEF LetterInv, LeaveInv
<1>14. CASE run.of = "activity_digest"
  <2>1. /\ Letters!Monday(mailNow) /\ run.found \subseteq Letters!Known /\ key = mailNow \div WEEK
        /\ \A i \in Letters!Known : Inside(activity[i]) =>
             (i \in run.found <=> DigestOf(activity[i]) = key)
    BY <1>1, <1>7, <1>14 DEF RunOk
  <2>2. \A i \in Letters!Activities : i \notin run.found => toldIn'[i] = toldIn[i]
    BY <1>5
  <2>3. \A i \in run.found : first => toldIn'[i] = toldIn[i] + 1
    BY <1>5, <1>2
  <2>4. \A t : Mailed(t)' <=> Mailed(t) \/ DigestOf(t) = key
    <3>1. \E m \in mails' : m.of = "activity_digest" /\ m.key = key
      <4>1. CASE first
        <5>1. PICK mail : mail = [of |-> run.of, key |-> key, wanted |-> run.wanted]
          OBVIOUS
        <5>2. mail.of = "activity_digest" /\ mail.key = key /\ mail \in mails'
          BY <1>5, <1>14, <4>1, <5>1
        <5>3. QED
          BY <5>2
      <4>2. CASE ~first
        BY <1>4, <1>5, <1>14, <4>2
      <4>3. QED
        BY <4>1, <4>2
    <3>2. mails \subseteq mails'
      BY <1>5
    <3>3. QED
      BY <1>8, <3>1, <3>2 DEF Mailed, DigestOf
  <2>5. first => \A t : DigestOf(t) = key => ~Mailed(t)
    BY <1>4, <1>14 DEF Mailed
  <2>6. ASSUME NEW i \in Letters!Known, Inside(activity[i])
        PROVE  /\ toldIn'[i] = IF Mailed(activity[i])' THEN 1 ELSE 0
               /\ DigestOf(activity[i]) = key => toldIn'[i] = 1
               /\ DigestOf(activity[i]) # key => toldIn'[i] = toldIn[i]
    <3>1. toldIn[i] = IF Mailed(activity[i]) THEN 1 ELSE 0
      BY <1>0, <2>6 DEF DigestInv
    <3>2. activity'[i] = activity[i]
      BY <1>5
    <3>3. CASE DigestOf(activity[i]) # key
      BY <1>0, <2>1, <2>2, <2>4, <2>6, <3>1, <3>2, <3>3
    <3>4. CASE DigestOf(activity[i]) = key
      <4>1. Mailed(activity[i])'
        BY <2>4, <3>2, <3>4
      <4>2. toldIn'[i] = 1
        <5>1. CASE first
          BY <2>1, <2>3, <2>5, <2>6, <3>1, <3>4, <5>1
        <5>2. CASE ~first
          BY <1>4, <1>5, <1>14, <3>1, <3>4, <5>2 DEF Mailed
        <5>3. QED
          BY <5>1, <5>2
      <4>3. QED
        BY <3>4, <4>1, <4>2
    <3>5. QED
      BY <3>3, <3>4
  <2>7. DigestInv'
    <3>1. \A i \in Letters!Known : activity'[i] <= mailNow'
      BY <1>0, <1>5 DEF DigestInv
    <3>2. \A i \in Letters!Activities : i \notin Letters!Known => toldIn'[i] = 0
      BY <1>0, <2>1, <2>2 DEF DigestInv
    <3>3. \A m \in mails' : m.of = "activity_digest" => m.key <= mailNow' \div WEEK
      <4>1. key <= mailNow \div WEEK
        BY <1>0, <1>7, <2>1
      <4>2. \A m \in mails : m.of = "activity_digest" => m.key <= mailNow \div WEEK
        BY <1>0 DEF DigestInv
      <4>3. QED
        BY <1>5, <1>8, <4>1, <4>2
    <3>4. QED
      BY <1>5, <1>6, <2>6, <3>1, <3>2, <3>3 DEF DigestInv
  <2>8. SmoothInv'
    BY <1>0, <1>5, <1>6, <2>1, <2>6 DEF SmoothInv
  <2>9. QED
    BY <1>0, <1>5, <1>8, <1>11, <1>12, <2>7, <2>8 DEF LetterInv, LeaveInv
<1>15. QED
  BY <1>2, <1>13, <1>14 DEF Letters!Campaign
-----------------------------------------------------------------------------
\* A link in a mail switches its campaign off, the settings switch it on.
LEMMA LinkInv ==
  ASSUME PeopleAssumption, LetterInv, NEW m \in mails, Letters!Unsubscribe(m)
  PROVE  LetterInv'
<1>0. /\ mails \subseteq Mail /\ prefs \subseteq Letters!Pref /\ left \subseteq Letters!Campaign
      /\ DigestInv /\ SmoothInv /\ LeaveInv /\ RunInv
      /\ runs \in [Pair -> {Letters!Idle} \cup LetterRun]
  BY LetterFacts DEF LetterInv
<1>1. /\ UNCHANGED <<mailNow, seenAt, activity, runs, mails, toldIn, ranNow>>
      /\ prefs' = prefs \ {Letters!PrefOf(m.of)} /\ left' = left \cup {m.of}
      /\ smooth' = (smooth /\ m.of # "activity_digest")
  BY DEF Letters!Unsubscribe, Letters!unsubscribeKeyFor, mailNow, prefs, seenAt, activity, runs,
     mails, toldIn, left, ranNow, smooth
<1>2. /\ Letters!Known' = Letters!Known /\ Letters!Activities' = Letters!Activities
      /\ Letters!Monday(mailNow)' = Letters!Monday(mailNow)
  BY <1>1 DEF Letters!Known, Letters!Activities, Letters!Monday, activity
<1>3. m.of \in Letters!Campaign
  BY <1>0 DEF Mail
<1>4. Letters!TypeOK'
  BY <1>0, <1>1, <1>2, <1>3 DEF LetterInv, Letters!TypeOK, mailNow, prefs, seenAt, activity, runs,
     mails, toldIn, left, ranNow, smooth
<1>5. RunInv'
  BY <1>0, <1>1, <1>2 DEF RunInv, RunOk
<1>6. DigestInv'
  BY <1>0, <1>1, <1>2 DEF DigestInv, Mailed
<1>7. SmoothInv'
  BY <1>0, <1>1, <1>2 DEF Letters!PrefOf, SmoothInv
<1>8. LeaveInv'
  BY <1>0, <1>1 DEF LeaveInv
<1>9. QED
  BY <1>4, <1>5, <1>6, <1>7, <1>8 DEF LetterInv

LEMMA OptInInv ==
  ASSUME PeopleAssumption, LetterInv, NEW c \in Letters!Campaign, Letters!OptIn(c)
  PROVE  LetterInv'
<1>0. /\ mails \subseteq Mail /\ prefs \subseteq Letters!Pref /\ left \subseteq Letters!Campaign
      /\ DigestInv /\ SmoothInv /\ LeaveInv /\ RunInv
      /\ runs \in [Pair -> {Letters!Idle} \cup LetterRun]
  BY LetterFacts DEF LetterInv
<1>1. /\ UNCHANGED <<mailNow, seenAt, activity, mails, toldIn, ranNow, smooth>>
      /\ prefs' = prefs \cup {Letters!PrefOf(c)} /\ left' = left \ {c}
      /\ runs' = [p \in Pair |-> IF runs[p] # Letters!Idle /\ runs[p].of = c
                                 THEN [runs[p] EXCEPT !.wanted = TRUE] ELSE runs[p]]
  BY DEF Letters!OptIn, mailNow, prefs, seenAt, activity, runs, mails, toldIn, left, ranNow, smooth
<1>2. /\ Letters!Known' = Letters!Known /\ Letters!Activities' = Letters!Activities
      /\ Letters!Monday(mailNow)' = Letters!Monday(mailNow)
  BY <1>1 DEF Letters!Known, Letters!Activities, Letters!Monday, activity
<1>3. ASSUME NEW p \in Pair, runs[p] # Letters!Idle, runs[p].of = c
      PROVE  /\ runs'[p] \in LetterRun /\ runs'[p].wanted /\ runs'[p].of = runs[p].of
             /\ runs'[p].found = runs[p].found /\ runs'[p].step = runs[p].step
  BY <1>0, <1>1, <1>3 DEF LetterRun
<1>4. \A p \in Pair : ~(runs[p] # Letters!Idle /\ runs[p].of = c) => runs'[p] = runs[p]
  BY <1>1
<1>5. runs' \in [Pair -> {Letters!Idle} \cup LetterRun]
  BY <1>0, <1>1, <1>3, <1>4
<1>6. Letters!TypeOK'
  BY <1>0, <1>1, <1>2, <1>5 DEF Letters!PrefOf, Letters!Pref, LetterInv, Letters!TypeOK,
     LetterRun, mailNow, prefs, seenAt, activity, runs, mails, toldIn, left, ranNow, smooth
<1>7. RunInv'
  <2>1. ASSUME NEW p \in Pair, runs'[p] # Letters!Idle PROVE RunOk(runs[p])
    BY <1>0, <1>4, <2>1 DEF RunInv
  <2>2. ASSUME NEW p \in Pair, runs'[p] # Letters!Idle
        PROVE  \A r : r = runs'[p] => RunOk(r)'
    <3>1. CASE runs[p] # Letters!Idle /\ runs[p].of = c
      BY <1>1, <1>2, <1>3, <2>1, <2>2, <3>1 DEF RunOk
    <3>2. CASE ~(runs[p] # Letters!Idle /\ runs[p].of = c)
      BY <1>1, <1>2, <1>4, <2>1, <2>2, <3>2 DEF RunOk
    <3>3. QED
      BY <3>1, <3>2
  <2>3. QED
    BY <2>2 DEF RunInv
<1>8. DigestInv'
  BY <1>0, <1>1, <1>2 DEF DigestInv, Mailed
<1>9. SmoothInv'
  BY <1>0, <1>1, <1>2 DEF SmoothInv
<1>10. LeaveInv'
  BY <1>0, <1>1 DEF LeaveInv, Letters!Campaign, Letters!PrefOf
<1>11. QED
  BY <1>6, <1>7, <1>8, <1>9, <1>10 DEF LetterInv

LEMMA SeeInv == ASSUME PeopleAssumption, LetterInv, Letters!See PROVE LetterInv'
<1>1. /\ UNCHANGED <<mailNow, prefs, activity, runs, mails, toldIn, left, ranNow, smooth>>
      /\ seenAt' = mailNow
  BY DEF Letters!See, mailNow, prefs, seenAt, activity, runs, mails, toldIn, left, ranNow, smooth
<1>2. /\ Letters!Known' = Letters!Known /\ Letters!Activities' = Letters!Activities
      /\ Letters!Monday(mailNow)' = Letters!Monday(mailNow)
  BY <1>1 DEF Letters!Known, Letters!Activities, Letters!Monday, activity
<1>3. Letters!TypeOK'
  BY <1>1, <1>2 DEF LetterInv, Letters!TypeOK, mailNow, prefs, seenAt, activity,
     runs, mails, toldIn, left, ranNow, smooth
<1>4. RunInv'
  BY <1>1, <1>2 DEF LetterInv, RunInv, RunOk
<1>5. DigestInv'
  BY <1>1, <1>2 DEF LetterInv, DigestInv, Mailed
<1>6. SmoothInv' /\ LeaveInv'
  BY <1>1, <1>2 DEF LetterInv, SmoothInv, LeaveInv
<1>7. QED
  BY <1>3, <1>4, <1>5, <1>6 DEF LetterInv
\* What happens at the hour of the digest is not inside its week, and what
\* happens later is the next one's.
LEMMA ActivityInv == ASSUME PeopleAssumption, LetterInv, Letters!Happen PROVE LetterInv'
<1>0. /\ mailNow \in 0..MailTime /\ mailNow \in Nat /\ MaxActivities \in Nat
      /\ DigestInv /\ SmoothInv /\ LeaveInv /\ RunInv
      /\ activity \in [Letters!Known -> Nat] /\ Letters!Known \subseteq Letters!Activities
      /\ runs \in [Pair -> {Letters!Idle} \cup LetterRun]
  BY LetterFacts, WeekFacts DEF LetterInv
<1>1. PICK n \in 0..MaxActivities : activity \in [1..n -> 0..MailTime]
  BY LetterFacts DEF LetterInv
<1>2. Letters!Known = 1..n /\ Letters!Cardinality(Letters!Known) = n
  BY <1>0, <1>1, FS_Interval, SameCounts DEF Letters!Known, activity
<1>3. PICK e : e = n + 1
  OBVIOUS
<1>4. /\ e \in Letters!Activities
      /\ activity' = [i \in 1..e |-> IF i < e THEN activity[i] ELSE mailNow]
      /\ UNCHANGED <<mailNow, prefs, seenAt, runs, mails, toldIn, left, ranNow, smooth>>
  BY <1>2, <1>3 DEF Letters!Happen, mailNow, prefs, seenAt, activity, runs, mails, toldIn, left,
     ranNow, smooth
<1>5. /\ e \in 0..MaxActivities /\ e \notin Letters!Known
      /\ 1..e = Letters!Known \cup {e} /\ \A i \in Letters!Known : i < e
  BY <1>0, <1>1, <1>2, <1>3, <1>4 DEF Letters!Activities
<1>6. /\ Letters!Known' = Letters!Known \cup {e} /\ Letters!Activities' = Letters!Activities
      /\ Letters!Monday(mailNow)' = Letters!Monday(mailNow)
      /\ activity'[e] = mailNow /\ \A i \in Letters!Known : activity'[i] = activity[i]
  BY <1>4, <1>5 DEF Letters!Known, Letters!Activities, Letters!Monday, activity
<1>7. Letters!TypeOK'
  <2>1. activity' \in [1..e -> 0..MailTime]
    BY <1>0, <1>1, <1>2, <1>4, <1>5, <1>6
  <2>2. QED
    BY <1>4, <1>5, <1>6, <2>1 DEF LetterInv, Letters!TypeOK, mailNow, prefs, seenAt, activity,
       runs, mails, toldIn, left, ranNow, smooth
<1>8. Letters!Monday(mailNow) => ~Inside(mailNow)
  BY <1>0, Weeks, WeekFacts DEF Letters!Monday, Inside
<1>9. RunInv'
  <2>1. ASSUME NEW r, RunOk(r) PROVE RunOk(r)'
    BY <1>4, <1>6, <1>8, <2>1 DEF RunOk
  <2>2. QED
    BY <1>0, <1>4, <2>1 DEF RunInv
<1>10. DigestOf(mailNow) # mailNow \div WEEK /\ DigestOf(mailNow) > mailNow \div WEEK
       /\ ~(mailNow > DigestOf(mailNow) * WEEK + JITTER)
  <2>1. PICK q \in Nat, r \in 0..WEEK-1 :
           /\ q = mailNow \div WEEK /\ mailNow = WEEK * q + r /\ WEEK * q \in Nat
           /\ DigestOf(mailNow) = q + 1 /\ DigestOf(mailNow) * WEEK = WEEK * q + WEEK
    BY <1>0, Weeks, Zenon
  <2>2. WEEK \in Nat /\ JITTER \in Nat
    BY WeekFacts
  <2>3. DigestOf(mailNow) # q /\ DigestOf(mailNow) > q
    BY <2>1
  <2>4. ~(mailNow > (WEEK * q + WEEK) + JITTER)
    BY <2>1, <2>2
  <2>5. QED
    BY <2>1, <2>3, <2>4
<1>11. DigestInv'
  <2>1. ~Mailed(mailNow)
    <3>1. \A m \in mails : m.of = "activity_digest" => m.key \in Nat /\ m.key <= mailNow \div WEEK
      BY <1>0, LetterFacts, WeekFacts DEF LetterInv, DigestInv, Mail
    <3>2. \E q \in Nat : q = mailNow \div WEEK /\ DigestOf(mailNow) = q + 1
      BY <1>0, Weeks, Zenon
    <3>3. QED
      BY <3>1, <3>2 DEF Mailed
  <2>2. \A t : Mailed(t)' <=> Mailed(t)
    BY <1>4 DEF Mailed, DigestOf
  <2>3. \A i \in Letters!Known \cup {e} : activity'[i] <= mailNow
    BY <1>0, <1>6 DEF DigestInv
  <2>4. \A i \in Letters!Known \cup {e} : Inside(activity'[i]) =>
          toldIn[i] = IF Mailed(activity'[i]) THEN 1 ELSE 0
    BY <1>0, <1>4, <1>5, <1>6, <2>1 DEF DigestInv
  <2>5. \A i \in Letters!Known \cup {e} : Mailed(activity[i])' <=> Mailed(activity'[i])
    BY <1>4 DEF Mailed, DigestOf
  <2>6. QED
    BY <1>0, <1>4, <1>6, <2>3, <2>4, <2>5 DEF DigestInv
<1>12. SmoothInv'
  BY <1>0, <1>4, <1>6, <1>10 DEF SmoothInv
<1>13. LeaveInv'
  BY <1>0, <1>4 DEF LeaveInv
<1>14. QED
  BY <1>7, <1>9, <1>11, <1>12, <1>13 DEF LetterInv

\* The clock moves on when no job runs.
LEMMA MailTickInv == ASSUME PeopleAssumption, LetterInv, Letters!Tick PROVE LetterInv'
<1>0. /\ mailNow \in 0..MailTime /\ mailNow \in Nat /\ MailTime \in Nat
      /\ WEEK \in Nat /\ JITTER \in Nat /\ JITTER < WEEK
      /\ DigestInv /\ SmoothInv /\ LeaveInv /\ RunInv
      /\ activity \in [Letters!Known -> Nat] /\ Letters!Known \subseteq Letters!Activities
      /\ runs \in [Pair -> {Letters!Idle} \cup LetterRun] /\ mails \subseteq Mail
  BY LetterFacts, WeekFacts DEF LetterInv
<1>1. PICK over \in BOOLEAN : over <=> Letters!Monday(mailNow) /\ ~Letters!Monday(mailNow + 1)
  OBVIOUS
<1>2. /\ UNCHANGED <<prefs, seenAt, activity, runs, mails, toldIn, left>>
      /\ mailNow < MailTime /\ mailNow' = mailNow + 1
      /\ \A p \in Pair : runs[p] = Letters!Idle
      /\ ranNow' = (ranNow /\ ~over) /\ smooth' = (smooth /\ (over => ranNow))
  BY <1>1 DEF Letters!Tick, mailNow, prefs, seenAt, activity, runs, mails, toldIn, left, ranNow, smooth
<1>3. /\ Letters!Known' = Letters!Known /\ Letters!Activities' = Letters!Activities
  BY <1>2 DEF Letters!Known, Letters!Activities, activity
<1>4. Letters!Monday(mailNow)' <=> Letters!Monday(mailNow + 1)
  BY <1>2 DEF Letters!Monday
<1>5. mailNow' \in 0..MailTime
  BY <1>0, <1>2
<1>6. Letters!TypeOK'
  BY <1>1, <1>2, <1>3, <1>5 DEF LetterInv, Letters!TypeOK, mailNow, prefs, seenAt, activity,
     runs, mails, toldIn, left, ranNow, smooth
<1>7. RunInv'
  BY <1>2 DEF RunInv, Letters!Idle
<1>8. mailNow \div WEEK <= (mailNow + 1) \div WEEK
  BY <1>0, WeeksPass
<1>9. DigestInv'
  <2>1. \A i \in Letters!Known : activity[i] <= mailNow + 1
    BY <1>0 DEF DigestInv
  <2>2. \A m \in mails : m.of = "activity_digest" => m.key <= (mailNow + 1) \div WEEK
    <3>1. PICK a \in Nat : a = mailNow \div WEEK
      BY <1>0, Weeks, Zenon
    <3>2. mailNow + 1 \in Nat
      BY <1>0
    <3>3. PICK b \in Nat : b = (mailNow + 1) \div WEEK
      BY <3>2, Weeks, Zenon
    <3>4. \A m \in mails : m.of = "activity_digest" => m.key \in Nat /\ m.key <= a
      BY <1>0, <3>1 DEF DigestInv, Mail
    <3>5. \A m \in mails : m.of = "activity_digest" => m.key <= b
      BY <1>8, <3>1, <3>3, <3>4
    <3>6. QED
      BY <3>3, <3>5
  <2>3. \A t : Mailed(t)' <=> Mailed(t)
    BY <1>2 DEF Mailed, DigestOf
  <2>4. QED
    BY <1>0, <1>2, <1>3, <2>1, <2>2, <2>3 DEF DigestInv
<1>10. ASSUME NEW i \in Letters!Known, smooth', Inside(activity[i])
       PROVE  /\ ranNow' /\ DigestOf(activity[i]) = (mailNow + 1) \div WEEK => toldIn[i] = 1
              /\ mailNow + 1 > DigestOf(activity[i]) * WEEK + JITTER => toldIn[i] = 1
  <2>1. PICK a \in Nat : a + 1 = DigestOf(activity[i]) /\ a = activity[i] \div WEEK
                         /\ DigestOf(activity[i]) * WEEK = WEEK * (a + 1) /\ WEEK * (a + 1) \in Nat
                         /\ WEEK * (a + 1) >= WEEK
    <3>1. activity[i] \in Nat
      BY <1>0
    <3>2. PICK a \in Nat : /\ a = activity[i] \div WEEK /\ DigestOf(activity[i]) = a + 1
                           /\ DigestOf(activity[i]) * WEEK = WEEK * a + WEEK /\ WEEK * a \in Nat
      BY <3>1, Weeks, Zenon
    <3>3. WEEK * (a + 1) = WEEK * a + WEEK
      BY <1>0
    <3>4. WEEK * (a + 1) \in Nat /\ WEEK * (a + 1) >= WEEK
      BY <1>0, <3>2, <3>3
    <3>5. QED
      BY <3>2, <3>3, <3>4
  <2>2. /\ smooth /\ (over => ranNow)
        /\ ranNow /\ DigestOf(activity[i]) = mailNow \div WEEK => toldIn[i] = 1
        /\ mailNow > DigestOf(activity[i]) * WEEK + JITTER => toldIn[i] = 1
    BY <1>0, <1>2, <1>10 DEF SmoothInv
  <2>3. ASSUME mailNow % WEEK <= JITTER
        PROVE  /\ (mailNow + 1) \div WEEK = mailNow \div WEEK
               /\ (mailNow + 1) % WEEK = (mailNow % WEEK) + 1
    BY <1>0, <1>10, <2>3, SameWeek
  <2>4. ASSUME ranNow', DigestOf(activity[i]) = (mailNow + 1) \div WEEK PROVE toldIn[i] = 1
    BY <1>0, <1>2, <2>2, <2>3, <2>4 DEF SmoothInv, Letters!Monday
  <2>5. ASSUME mailNow + 1 > DigestOf(activity[i]) * WEEK + JITTER PROVE toldIn[i] = 1
    <3>1. CASE mailNow > DigestOf(activity[i]) * WEEK + JITTER
      BY <2>2, <3>1
    <3>2. CASE mailNow = DigestOf(activity[i]) * WEEK + JITTER
      <4>1. mailNow = WEEK * (a + 1) + JITTER /\ JITTER \in 0..WEEK-1
        BY <1>0, <2>1, <3>2
      <4>2. mailNow \div WEEK = a + 1 /\ mailNow % WEEK = JITTER
        BY <1>0, <2>1, <4>1, DivModUnique
      <4>3. Letters!Monday(mailNow)
        BY <1>0, <2>1, <4>1, <4>2 DEF Letters!Monday
      <4>4. ~Letters!Monday(mailNow + 1)
        BY <1>0, <2>3, <4>2, <4>3 DEF Letters!Monday
      <4>5. ranNow
        BY <1>1, <2>2, <4>3, <4>4
      <4>6. QED
        BY <2>1, <2>2, <4>2, <4>5
    <3>3. QED
      BY <1>0, <2>1, <2>5, <3>1, <3>2
  <2>6. QED
    BY <2>4, <2>5
<1>11. SmoothInv'
  BY <1>0, <1>1, <1>2, <1>3, <1>4, <1>10 DEF SmoothInv
<1>12. LeaveInv'
  BY <1>0, <1>2 DEF LeaveInv
<1>13. QED
  BY <1>6, <1>7, <1>9, <1>11, <1>12 DEF LetterInv

LEMMA LetterNext == ASSUME PeopleAssumption, LetterInv, Letters!Next PROVE LetterInv'
<1>1. ASSUME NEW p \in Pair,
             \/ Letters!activityDigest(p) \/ Letters!comeback(p) \/ Letters!FindUsers(p)
             \/ Letters!Enqueue(p) \/ Letters!Fail(p)
      PROVE  LetterInv'
  BY <1>1, BeginInv, FindUsersInv, SendInv, GiveUpInv
<1>2. ASSUME NEW m \in s6, Letters!Unsubscribe(m) PROVE LetterInv'
  BY <1>2, LinkInv DEF mails
<1>3. ASSUME NEW c \in Letters!Campaign, Letters!OptIn(c) PROVE LetterInv'
  BY <1>3, OptInInv
<1>4. CASE Letters!See
  BY <1>4, SeeInv
<1>5. CASE Letters!Happen
  BY <1>5, ActivityInv
<1>6. CASE Letters!Tick
  BY <1>6, MailTickInv
<1>7. QED
  BY <1>1, <1>2, <1>3, <1>4, <1>5, <1>6 DEF Letters!Next
(***************************************************************************)
(* Followers: the passes that announce a seller's new listings.            *)
(***************************************************************************)
hour == s1
passRan == s2
batches == s3
pass == s4
listed == s5
createdAt == s6
ear == s7
heardOf == s8
heard == s9
stray == s10
times == s11
born == s12
due == s13

\* The pass has read the new listings.
HasRead == pass.step \in {"followers", "notify", "record"}

\* A pass is of this hour; past its gate no batch is recent, and it reads
\* from the last batch or the look-back.
PassInv ==
  /\ pass # Announce!Idle => passRan /\ pass.at = hour - (hour % 2)
  /\ pass.step = "products" \/ HasRead =>
       \A b \in batches : pass.at - b >= MinInterval
  /\ pass.step = "products" =>
       /\ pass.cutoff \in batches \cup {pass.at - Lookback}
       /\ \A b \in batches \cup {pass.at - Lookback} : b <= pass.cutoff
  /\ \A b \in batches : b % 2 = 0

\* Whoever was told and whose pass did not fail was told before a batch that
\* is on record, or is about to be, or is too old to matter.
HeardInv ==
  \A f \in Followers : heard[f] # Announce!Never /\ f \notin stray =>
    \/ \E b \in batches : b >= heard[f]
    \/ pass.step = "record" /\ pass.at = heard[f]
    \/ hour > heard[f] + Retention

\* No further pass looks back to the listing.
Covered(l) == \/ \E b \in batches : b >= createdAt[l]
              \/ hour > createdAt[l] + Retention

\* A listing created while a pass ran may be recorded once before it counts.
Early(l) == IF l \in born THEN 1 ELSE 0

ListingInv ==
  \A l \in Pair :
    /\ IF listed[l] = "unused"
       THEN createdAt[l] = Announce!Never /\ times[l] = 0
       ELSE createdAt[l] \in 0..hour /\ createdAt[l] % 2 = 1
    /\ listed[l] = "inserting" => hour <= createdAt[l] + 1
    /\ times[l] <= Early(l) + (IF Covered(l) THEN 1 ELSE 0)
    /\ pass # Announce!Idle /\ createdAt[l] > pass.at => times[l] = 0 /\ l \in born
    /\ HasRead /\ l \in pass.ids =>
         listed[l] # "unused" /\ (createdAt[l] <= pass.at => times[l] <= Early(l))

\* The hour of the last pass that is over.
LastDone == (hour - (hour % 2)) - (IF passRan /\ pass = Announce!Idle THEN 0 ELSE 2)

\* While someone is still to be told of a listing, passes were gated by a
\* batch from before it, and the one that is past the gate has found both.
DueInv ==
  \A f \in Followers, l \in Pair : <<f, l>> \in due /\ l \notin heardOf[f] =>
    /\ ear[f] = "listens" /\ listed[l] \in {"inserting", "active"}
    /\ LastDone > createdAt[l] =>
         LastDone = createdAt[l] + 1 \/ \E b \in batches : LastDone - b < MinInterval
    /\ listed[l] = "active" =>
         /\ \A b \in batches : b < createdAt[l]
         /\ HasRead /\ pass.at > createdAt[l] =>
              /\ pass.step # "record" /\ l \in pass.ids
              /\ pass.step = "notify" => f \in pass.who

AnnounceInv == Announce!TypeOK /\ PassInv /\ HeardInv /\ ListingInv /\ DueInv

LEMMA AnnounceFacts ==
  ASSUME PeopleAssumption, Announce!TypeOK
  PROVE  /\ {MinInterval, Lookback, Retention, FollowTime} \subseteq Nat
         /\ MinInterval >= 2 /\ MinInterval + 2 <= Lookback /\ Lookback <= Retention
         /\ hour \in 0..FollowTime /\ passRan \in BOOLEAN /\ batches \in SUBSET (0..hour)
         /\ pass.step \in {"idle", "sellers", "batch", "products", "followers", "notify", "record"}
         /\ pass.step = "idle" <=> pass = Announce!Idle
         /\ pass # Announce!Idle => pass.at \in 0..hour
         /\ pass.step = "products" => pass.cutoff \in (-Lookback)..hour
         /\ HasRead => pass.ids \in Announce!Batch
         /\ pass.step = "notify" => pass.who \in SUBSET Followers
         /\ pass.step = "sellers" => pass = [step |-> "sellers", at |-> pass.at]
         /\ listed \in [Pair -> {"unused", "inserting", "active", "hide", "deleted"}]
         /\ createdAt \in [Pair -> (-1)..FollowTime]
         /\ ear \in [Followers -> {"none", "listens", "muted"}]
         /\ heardOf \in [Followers -> SUBSET Pair] /\ heard \in [Followers -> (-1)..FollowTime]
         /\ times \in [Pair -> Nat]
         /\ stray \subseteq Followers /\ born \subseteq Pair
         /\ due \subseteq Followers \X Pair
<1>1. /\ {MinInterval, Lookback, Retention, FollowTime} \subseteq Nat
      /\ MinInterval >= 2 /\ MinInterval + 2 <= Lookback /\ Lookback <= Retention
  BY DEF PeopleAssumption, Announce!FollowerAssumption, Announce!Hour
<1>2. /\ hour \in 0..FollowTime /\ passRan \in BOOLEAN /\ batches \in SUBSET (0..hour)
      /\ listed \in [Pair -> {"unused", "inserting", "active", "hide", "deleted"}]
      /\ createdAt \in [Pair -> (-1)..FollowTime]
      /\ ear \in [Followers -> {"none", "listens", "muted"}]
      /\ heardOf \in [Followers -> SUBSET Pair] /\ heard \in [Followers -> (-1)..FollowTime]
      /\ times \in [Pair -> Nat]
      /\ stray \subseteq Followers /\ born \subseteq Pair
      /\ due \subseteq Followers \X Pair
  BY DEF Announce!TypeOK, Announce!Times, Announce!Never, hour, passRan, batches, listed,
     createdAt, ear, heardOf, heard, times, stray, born, due
<1>3. /\ pass.step \in {"idle", "sellers", "batch", "products", "followers", "notify", "record"}
      /\ pass.step = "idle" <=> pass = Announce!Idle
      /\ pass # Announce!Idle => pass.at \in 0..hour
      /\ pass.step = "products" => pass.cutoff \in (-Lookback)..hour
      /\ HasRead => pass.ids \in Announce!Batch
      /\ pass.step = "notify" => pass.who \in SUBSET Followers
      /\ pass.step = "sellers" => pass = [step |-> "sellers", at |-> pass.at]
  BY DEF Announce!TypeOK, Announce!Idle, HasRead, pass, hour
<1>4. QED
  BY <1>1, <1>2, <1>3

LEMMA AnnounceMax ==
  ASSUME NEW h \in Int, NEW S \in SUBSET Int, S # {}, \A x \in S : x <= h
  PROVE  Announce!Max(S) \in S /\ \A x \in S : x <= Announce!Max(S)
<1>1. PICK m \in S : \A x \in S : x <= m
  BY Greatest
<1>2. \A x \in S : m >= x
  BY <1>1
<1>3. Announce!Max(S) \in S /\ \A x \in S : Announce!Max(S) >= x
  BY <1>2 DEF Announce!Max
<1>4. QED
  BY <1>3

\* The part's own names for all this.
LEMMA AnnounceMeans ==
  ASSUME PeopleAssumption, AnnounceInv
  PROVE  Announce!InOneBatch /\ Announce!NothingSkipped
<1>0. /\ MinInterval \in Nat /\ MinInterval >= 2 /\ hour \in Nat
      /\ batches \in SUBSET Int /\ times \in [Pair -> Nat]
  BY AnnounceFacts DEF AnnounceInv
<1>1. Announce!InOneBatch
  <2>1. ASSUME NEW l \in Pair PROVE times[l] <= IF l \in born THEN 2 ELSE 1
    <3>1. times[l] <= Early(l) + (IF Covered(l) THEN 1 ELSE 0)
      BY DEF AnnounceInv, ListingInv
    <3> HIDE DEF Covered
    <3>2. QED
      BY <1>0, <3>1 DEF Early
  <2>2. QED
    BY <2>1 DEF Announce!InOneBatch, times, born
<1>2. ASSUME NEW f \in Followers, NEW l \in Pair, <<f, l>> \in due, l \notin heardOf[f],
             hour > createdAt[l] + MinInterval + 2
      PROVE  FALSE
  BY <1>0, <1>2 DEF AnnounceInv, DueInv, ListingInv, LastDone
<1>3. Announce!NothingSkipped
  BY <1>2 DEF Announce!NothingSkipped, Announce!Hour, due, hour, createdAt, heardOf
<1>4. QED
  BY <1>1, <1>3

LEMMA AnnounceInit == ASSUME PeopleAssumption, Announce!Init PROVE AnnounceInv
<1> USE DEF Announce!Init, Announce!Idle, Announce!Never, hour, passRan, batches, pass, listed,
      createdAt, ear, heardOf, heard, times, stray, born, due
<1>1. FollowTime \in Nat
  BY DEF PeopleAssumption, Announce!FollowerAssumption
<1>2. Announce!TypeOK
  <2>1. hour \in 0..FollowTime /\ batches \subseteq 0..hour
    BY <1>1
  <2>a. /\ stray \subseteq Followers /\ born \subseteq Pair /\ due \subseteq Followers \X Pair
        /\ passRan \in BOOLEAN
    OBVIOUS
  <2>2. /\ listed \in [Pair -> {"unused", "inserting", "active", "hide", "deleted"}]
        /\ createdAt \in [Pair -> Announce!Times]
        /\ heardOf \in [Followers -> SUBSET Pair]
        /\ heard \in [Followers -> Announce!Times]
        /\ times \in [Pair -> Nat]
    BY <1>1 DEF Announce!Times
  <2>3. ear \in [Followers -> {"none", "listens", "muted"}]
    OBVIOUS
  <2>4. QED
    BY <2>1, <2>a, <2>2, <2>3 DEF Announce!TypeOK
<1>3. pass.step = "idle"
  OBVIOUS
<1>4. PassInv
  BY <1>3 DEF PassInv, HasRead
<1>a. HeardInv
  BY DEF HeardInv
<1>b. DueInv
  BY DEF DueInv
<1>5. ListingInv
  <2>1. ASSUME NEW l \in Pair
        PROVE  times[l] <= Early(l) + (IF Covered(l) THEN 1 ELSE 0)
    BY DEF Early
  <2>2. QED
    BY <1>3, <2>1 DEF ListingInv, HasRead
<1>6. QED
  BY <1>2, <1>4, <1>a, <1>b, <1>5 DEF AnnounceInv

\* A pass that ends without telling anyone: there was nobody to tell, a batch
\* was recent, or nothing was new.
QuietEnd ==
  /\ Announce!Finish(batches)
  /\ UNCHANGED <<hour, passRan, listed, createdAt, ear, born, heardOf, heard, stray, times, due>>

LEMMA FinishFacts ==
  ASSUME PeopleAssumption, AnnounceInv, pass # Announce!Idle, NEW kept,
         kept \in SUBSET (batches \cup {pass.at}), Announce!Finish(kept)
  PROVE  /\ pass' = Announce!Idle
         /\ batches' \in SUBSET kept
         /\ \A b \in kept : b \in batches' \/ b < pass.at - Retention
         /\ batches' \in SUBSET (0..hour) /\ \A b \in batches' : b % 2 = 0
<1>1. batches \in SUBSET (0..hour) /\ pass.at \in 0..hour /\ hour \in Nat /\ Retention \in Nat
  BY AnnounceFacts DEF AnnounceInv
<1>2. pass' = Announce!Idle /\ batches' = {b \in kept : b >= pass.at - Retention}
  BY DEF Announce!Finish, pass, batches
<1>3. pass.at % 2 = 0 /\ \A b \in batches : b % 2 = 0
  <2>1. pass.at = hour - (hour % 2) /\ \A b \in batches : b % 2 = 0
    BY DEF AnnounceInv, PassInv
  <2>2. pass.at % 2 = 0
    BY <1>1, <2>1
  <2>3. QED
    BY <2>1, <2>2
<1>4. \A b \in kept : b \in Int /\ b \in 0..hour /\ b % 2 = 0
  BY <1>1, <1>3
<1>5. \A b \in kept : b \in batches' \/ b < pass.at - Retention
  BY <1>1, <1>2, <1>4
<1>6. batches' \in SUBSET kept
  BY <1>2
<1>7. QED
  BY <1>2, <1>4, <1>5, <1>6

\* Who was told before a batch that is pruned was told too long ago to matter.
LEMMA QuietEndInv ==
  ASSUME PeopleAssumption, AnnounceInv, pass # Announce!Idle, QuietEnd,
         pass.step # "record",
         \A f \in Followers, l \in Pair :
           <<f, l>> \in due /\ l \notin heardOf[f] /\ pass.at > createdAt[l] =>
             pass.at = createdAt[l] + 1 \/ \E b \in batches : pass.at - b < MinInterval
  PROVE  AnnounceInv'
<1>0. /\ {MinInterval, Lookback, Retention, FollowTime} \subseteq Nat
      /\ MinInterval + 2 <= Lookback /\ Lookback <= Retention
      /\ hour \in Nat /\ batches \in SUBSET (0..hour) /\ pass.at \in 0..hour
      /\ createdAt \in [Pair -> (-1)..FollowTime] /\ heard \in [Followers -> (-1)..FollowTime]
      /\ times \in [Pair -> Nat]
  BY AnnounceFacts DEF AnnounceInv
<1>1. /\ pass' = Announce!Idle
      /\ batches' \in SUBSET batches
      /\ \A b \in batches : b \in batches' \/ b < pass.at - Retention
      /\ batches' \in SUBSET (0..hour) /\ \A b \in batches' : b % 2 = 0
  BY FinishFacts DEF QuietEnd
<1>2. UNCHANGED <<hour, passRan, listed, createdAt, ear, born, heardOf, heard, stray, times, due>>
  BY DEF QuietEnd
<1>3. pass'.step = "idle" /\ ~HasRead'
  BY <1>1 DEF Announce!Idle, HasRead
<1>4. pass.at = hour - (hour % 2) /\ passRan /\ pass.at <= hour
  BY <1>0 DEF AnnounceInv, PassInv
<1>5. Announce!TypeOK'
  BY <1>1, <1>2 DEF AnnounceInv, Announce!TypeOK, hour, passRan, batches, pass, listed,
     createdAt, ear, heardOf, heard, stray, times, born, due
<1>6. PassInv'
  BY <1>1, <1>3 DEF PassInv
<1>7. HeardInv'
  <2>1. ASSUME NEW f \in Followers, heard[f] # Announce!Never, f \notin stray
        PROVE  (\E b \in batches' : b >= heard[f]) \/ hour > heard[f] + Retention
    <3>1. (\E b \in batches : b >= heard[f]) \/ hour > heard[f] + Retention
      BY <2>1 DEF AnnounceInv, HeardInv
    <3>2. QED
      BY <1>0, <1>1, <1>4, <3>1
  <2>2. QED
    BY <1>2, <2>1 DEF HeardInv
<1>8. ListingInv'
  <2>1. ASSUME NEW l \in Pair, Covered(l) PROVE Covered(l)'
    <3>1. createdAt[l] \in Int /\ createdAt'[l] = createdAt[l] /\ hour' = hour
      BY <1>0, <1>2
    <3>2. CASE hour > createdAt[l] + Retention
      BY <3>1, <3>2 DEF Covered
    <3>3. ASSUME NEW b \in batches, b >= createdAt[l] PROVE Covered(l)'
      <4>1. CASE b \in batches'
        BY <3>1, <3>3, <4>1 DEF Covered
      <4>2. CASE b < pass.at - Retention
        <5>1. b \in Nat
          BY <1>0
        <5>2. hour > createdAt[l] + Retention
          BY <1>0, <1>4, <3>1, <3>3, <4>2, <5>1
        <5>3. QED
          BY <3>1, <5>2 DEF Covered
      <4>3. QED
        BY <1>1, <4>1, <4>2
    <3>4. QED
      BY <2>1, <3>2, <3>3 DEF Covered
  <2>2. \A l \in Pair : times'[l] <= Early(l)' + (IF Covered(l)' THEN 1 ELSE 0)
    <3>1. ASSUME NEW l \in Pair PROVE times'[l] <= Early(l)' + (IF Covered(l)' THEN 1 ELSE 0)
      BY <1>0, <1>2, <2>1 DEF AnnounceInv, ListingInv, Early
    <3>2. QED
      BY <3>1
  <2>3. QED
    BY <1>1, <1>2, <1>3, <2>2 DEF AnnounceInv, ListingInv
<1>9. DueInv'
  <2>1. LastDone' = pass.at
    BY <1>0, <1>1, <1>2, <1>4 DEF LastDone
  <2>2. ASSUME NEW f \in Followers, NEW l \in Pair, <<f, l>> \in due, l \notin heardOf[f]
        PROVE  /\ pass.at > createdAt[l] =>
                    pass.at = createdAt[l] + 1 \/ \E b \in batches' : pass.at - b < MinInterval
               /\ listed[l] = "active" => \A b \in batches' : b < createdAt[l]
    BY <1>0, <1>1, <2>2 DEF AnnounceInv, DueInv
  <2>3. QED
    BY <1>2, <1>3, <2>1, <2>2 DEF AnnounceInv, DueInv
<1>10. QED
  BY <1>5, <1>6, <1>7, <1>8, <1>9 DEF AnnounceInv

\* A pass that goes on, and changes nothing but what it knows.
PassesOn(s) ==
  /\ pass.step # "record"
  /\ pass'.step = s
  /\ pass' # Announce!Idle
  /\ pass'.at = pass.at
  /\ UNCHANGED <<hour, passRan, batches, listed, createdAt, ear, born, heardOf, heard, stray,
                 times, due>>

LEMMA PassesOnInv ==
  ASSUME PeopleAssumption, AnnounceInv, pass # Announce!Idle,
         NEW s \in {"batch", "products", "followers", "notify"}, PassesOn(s), PassInv',
         s \in {"followers", "notify"} =>
           \A l \in pass'.ids :
             listed[l] # "unused" /\ (createdAt[l] <= pass.at => times[l] <= Early(l)),
         s \in {"followers", "notify"} =>
           \A f \in Followers, l \in Pair :
             /\ <<f, l>> \in due /\ l \notin heardOf[f]
             /\ listed[l] = "active" /\ pass.at > createdAt[l]
             => l \in pass'.ids /\ (s = "notify" => f \in pass'.who)
  PROVE  HeardInv' /\ ListingInv' /\ DueInv'
<1>1. /\ pass'.step = s /\ pass' # Announce!Idle /\ pass'.at = pass.at
      /\ UNCHANGED <<hour, passRan, batches, listed, createdAt, ear, born, heardOf, heard,
                     stray, times, due>>
      /\ HasRead' <=> s \in {"followers", "notify"}
  BY DEF PassesOn, HasRead
<1>2. HeardInv'
  <2>1. ASSUME NEW f \in Followers, heard[f] # Announce!Never, f \notin stray
        PROVE  (\E b \in batches : b >= heard[f]) \/ hour > heard[f] + Retention
    BY <2>1 DEF PassesOn, AnnounceInv, HeardInv
  <2>2. QED
    BY <1>1, <2>1 DEF HeardInv
<1>3. ListingInv'
  BY <1>1 DEF Covered, Early, AnnounceInv, ListingInv
<1>4. DueInv'
  BY <1>1 DEF LastDone, AnnounceInv, DueInv
<1>5. QED
  BY <1>2, <1>3, <1>4

LEMMA StartInv == ASSUME PeopleAssumption, AnnounceInv, Announce!Start PROVE AnnounceInv'
<1>0. hour \in Nat /\ pass.step = "idle" /\ pass = Announce!Idle
  BY AnnounceFacts DEF AnnounceInv, Announce!Start, pass
<1>1. /\ hour % 2 = 0 /\ ~passRan /\ passRan'
      /\ pass' = [step |-> "sellers", at |-> hour]
      /\ UNCHANGED <<hour, batches, listed, createdAt, ear, born, heardOf, heard, stray,
                     times, due>>
  BY DEF Announce!Start, Announce!rows, Announce!outcome, Announce!Hour, hour, passRan, batches,
     pass, listed, createdAt, ear, born, heardOf, heard, stray, times, due
<1>2. pass'.step = "sellers" /\ pass' # Announce!Idle /\ pass'.at = hour /\ ~HasRead' /\ ~HasRead
  BY <1>0, <1>1 DEF Announce!Idle, HasRead
<1>3. Announce!TypeOK'
  BY <1>0, <1>1 DEF Announce!Start, passRan, AnnounceInv, Announce!TypeOK, hour, batches, pass,
     listed, createdAt, ear, heardOf, heard, stray, times, born, due
<1>4. PassInv'
  BY <1>0, <1>1, <1>2 DEF AnnounceInv, PassInv
<1>5. HeardInv'
  BY <1>0, <1>1 DEF AnnounceInv, HeardInv
<1>6. ListingInv'
  <2>1. \A l \in Pair : Covered(l)' = Covered(l) /\ Early(l)' = Early(l)
    BY <1>1 DEF Covered, Early
  <2>2. \A l \in Pair : ~(createdAt[l] > hour)
    <3>1. \A l \in Pair : createdAt[l] = -1 \/ createdAt[l] \in 0..hour
      BY DEF AnnounceInv, ListingInv, Announce!Never
    <3>2. ASSUME NEW l \in Pair PROVE ~(createdAt[l] > hour)
      BY <1>0, <3>1
    <3>3. QED
      BY <3>2
  <2>3. QED
    BY <1>1, <1>2, <2>1, <2>2 DEF AnnounceInv, ListingInv
<1>7. DueInv'
  BY <1>1, <1>2 DEF LastDone, AnnounceInv, DueInv
<1>8. QED
  BY <1>3, <1>4, <1>5, <1>6, <1>7 DEF AnnounceInv

LEMMA FindInv ==
  ASSUME PeopleAssumption, AnnounceInv,
         \/ Announce!FindSellers \/ Announce!FindBatch
         \/ Announce!FindProducts \/ Announce!FindFollowers
  PROVE  AnnounceInv'
<1>0. /\ {MinInterval, Lookback, Retention, FollowTime} \subseteq Nat
      /\ MinInterval >= 2 /\ MinInterval + 2 <= Lookback /\ Lookback <= Retention
      /\ hour \in Nat /\ batches \in SUBSET (0..hour)
      /\ createdAt \in [Pair -> (-1)..FollowTime] /\ times \in [Pair -> Nat]
  BY AnnounceFacts DEF AnnounceInv
<1>1. /\ pass # Announce!Idle
      /\ UNCHANGED <<hour, passRan, listed, createdAt, ear, born, heardOf, heard, stray, times, due>>
  BY DEF Announce!FindSellers, Announce!FindBatch, Announce!FindProducts, Announce!FindFollowers,
     Announce!world, Announce!clock, Announce!rows, Announce!outcome, Announce!Idle, hour, passRan,
     pass, listed, createdAt, ear, born, heardOf, heard, stray, times, due
<1>2. pass.at \in 0..hour /\ pass.at \in Nat /\ pass.at = hour - (hour % 2) /\ passRan
  BY <1>0, <1>1, AnnounceFacts DEF AnnounceInv, PassInv
<1>3. LastDone = pass.at - 2
  BY <1>0, <1>1, <1>2 DEF LastDone
<1>a. /\ batches \in SUBSET Int /\ hour \in Int /\ pass.at - Lookback \in Int
      /\ \A b \in batches : b <= hour
      /\ pass.at - Lookback <= hour
  BY <1>0, <1>2
<1>4. ASSUME NEW f \in Followers, NEW l \in Pair, <<f, l>> \in due, l \notin heardOf[f]
      PROVE  /\ ear[f] = "listens"
             /\ listed[l] \in {"inserting", "active"} /\ createdAt[l] \in Nat
             /\ listed[l] = "inserting" => pass.at <= createdAt[l] + 1
             /\ listed[l] = "active" => \A b \in batches : b < createdAt[l]
             /\ pass.at - Lookback < createdAt[l]
  <2>1. /\ ear[f] = "listens" /\ listed[l] \in {"inserting", "active"}
        /\ LastDone > createdAt[l] =>
             LastDone = createdAt[l] + 1 \/ \E b \in batches : LastDone - b < MinInterval
        /\ listed[l] = "active" => \A b \in batches : b < createdAt[l]
    BY <1>4 DEF AnnounceInv, DueInv
  <2>2. createdAt[l] \in 0..hour /\ (listed[l] = "inserting" => hour <= createdAt[l] + 1)
    BY <2>1 DEF AnnounceInv, ListingInv
  <2>3. createdAt[l] \in Nat /\ (listed[l] = "inserting" => pass.at <= createdAt[l] + 1)
    BY <1>0, <1>2, <2>2
  <2>4. pass.at - Lookback < createdAt[l]
    <3>1. CASE listed[l] = "inserting"
      BY <1>0, <1>2, <2>3, <3>1
    <3>2. CASE listed[l] = "active"
      BY <1>0, <1>2, <1>3, <2>1, <2>3, <3>2
    <3>3. QED
      BY <2>1, <3>1, <3>2
  <2>5. QED
    BY <2>1, <2>3, <2>4
<1>5. ASSUME Announce!Finish(batches), pass.step # "record",
             \A f \in Followers, l \in Pair :
               <<f, l>> \in due /\ l \notin heardOf[f] /\ pass.at > createdAt[l] =>
                 pass.at = createdAt[l] + 1 \/ \E b \in batches : pass.at - b < MinInterval
      PROVE  AnnounceInv'
  BY <1>1, <1>5, QuietEndInv DEF QuietEnd
<1>6. CASE Announce!FindSellers
  <2>0. pass.step = "sellers" /\ pass = [step |-> "sellers", at |-> pass.at]
    BY <1>6, AnnounceFacts DEF Announce!FindSellers, AnnounceInv, pass
  <2>1. CASE Announce!Follows = {} /\ Announce!Finish(batches)
    BY <1>4, <1>5, <2>0, <2>1 DEF Announce!Follows, ear
  <2>2. CASE pass' = [pass EXCEPT !.step = "batch"] /\ batches' = batches
    <3>1. pass' = [step |-> "batch", at |-> pass.at]
      BY <2>0, <2>2
    <3>2. PassesOn("batch")
      BY <1>1, <2>0, <2>2, <3>1 DEF PassesOn, Announce!Idle
    <3>3. PassInv'
      BY <1>1, <2>2, <3>1 DEF AnnounceInv, PassInv, HasRead, Announce!Idle
    <3>4. Announce!TypeOK'
      BY <1>1, <1>2, <2>2, <3>1 DEF AnnounceInv, Announce!TypeOK, hour, passRan, batches, pass,
         listed, createdAt, ear, heardOf, heard, stray, times, born, due
    <3>5. QED
      BY <1>1, <3>2, <3>3, <3>4, PassesOnInv DEF AnnounceInv
  <2>3. QED
    BY <1>6, <2>1, <2>2 DEF Announce!FindSellers, pass, batches
<1>7. CASE Announce!FindBatch
  <2>0. pass.step = "batch"
    BY <1>7 DEF Announce!FindBatch, pass
  <2>1. CASE /\ batches # {} /\ pass.at - Announce!Max(batches) < MinInterval
             /\ Announce!Finish(batches)
    <3>1. batches \in SUBSET Int /\ (\A b \in batches : b <= hour) /\ hour \in Int
      BY <1>0
    <3>2. Announce!Max(batches) \in batches
      BY <2>1, <3>1, AnnounceMax
    <3>3. \E b \in batches : pass.at - b < MinInterval
      BY <2>1, <3>2
    <3>4. QED
      BY <1>5, <2>0, <2>1, <3>3
  <2>2. CASE /\ ~(batches # {} /\ pass.at - Announce!Max(batches) < MinInterval)
             /\ Announce!ReadProducts(Announce!Max(batches \cup {pass.at - Lookback}))
             /\ batches' = batches
    <3> DEFINE all == batches \cup {pass.at - Lookback}
    <3>1. PICK m : m = Announce!Max(all)
      OBVIOUS
    <3>2. m \in all /\ \A b \in all : b <= m
      <4>1. all \in SUBSET Int /\ all # {} /\ (\A b \in all : b <= hour) /\ hour \in Int
        BY <1>a
      <4> HIDE DEF all
      <4>2. QED
        BY <3>1, <4>1, AnnounceMax
    <3>3. pass' = [step |-> "products", at |-> pass.at, cutoff |-> m]
      BY <2>2, <3>1 DEF Announce!ReadProducts, pass
    <3>4. \A b \in batches : pass.at - b >= MinInterval
      <4>1. CASE batches = {}
        BY <4>1
      <4>2. CASE batches # {}
        <5>1. batches \in SUBSET Int /\ (\A b \in batches : b <= hour) /\ hour \in Int
          BY <1>0
        <5>2. Announce!Max(batches) \in batches /\ \A b \in batches : b <= Announce!Max(batches)
          BY <4>2, <5>1, AnnounceMax
        <5>3. Announce!Max(batches) \in Int /\ ~(pass.at - Announce!Max(batches) < MinInterval)
          BY <2>2, <4>2, <5>1, <5>2
        <5>4. QED
          BY <1>0, <1>2, <5>1, <5>2, <5>3
      <4>3. QED
        BY <4>1, <4>2
    <3>5. m \in (-Lookback)..hour
      BY <1>0, <1>2, <3>2
    <3>6. PassesOn("products")
      BY <1>1, <2>0, <2>2, <3>3 DEF PassesOn, Announce!Idle
    <3>7. PassInv'
      BY <1>1, <2>2, <3>2, <3>3, <3>4 DEF AnnounceInv, PassInv, HasRead, Announce!Idle
    <3>8. Announce!TypeOK'
      BY <1>1, <1>2, <2>2, <3>3, <3>5 DEF AnnounceInv, Announce!TypeOK, hour, passRan, batches,
         pass, listed, createdAt, ear, heardOf, heard, stray, times, born, due
    <3>9. QED
      BY <1>1, <3>6, <3>7, <3>8, PassesOnInv DEF AnnounceInv
  <2>3. QED
    BY <1>7, <2>1, <2>2 DEF Announce!FindBatch, pass, batches
<1>8. CASE Announce!FindProducts
  <2>0. pass.step = "products"
    BY <1>8 DEF Announce!FindProducts, pass
  <2>1. /\ pass.cutoff \in batches \cup {pass.at - Lookback}
        /\ \A b \in batches \cup {pass.at - Lookback} : b <= pass.cutoff
        /\ \A b \in batches : pass.at - b >= MinInterval
    BY <2>0 DEF AnnounceInv, PassInv
  <2>2. pass.cutoff \in Int
    BY <1>a, <2>1
  <2>3. ASSUME NEW f \in Followers, NEW l \in Pair, <<f, l>> \in due, l \notin heardOf[f],
               listed[l] = "active"
        PROVE  l \in Announce!New(pass.cutoff)
    BY <1>0, <1>2, <1>4, <2>1, <2>2, <2>3 DEF Announce!New, listed, createdAt, pass
  <2>4. CASE Announce!New(pass.cutoff) = {} /\ Announce!Finish(batches)
    <3>1. ASSUME NEW f \in Followers, NEW l \in Pair, <<f, l>> \in due, l \notin heardOf[f],
                 pass.at > createdAt[l]
          PROVE  pass.at = createdAt[l] + 1
      BY <1>2, <1>4, <2>3, <2>4, <3>1
    <3>2. QED
      BY <1>5, <2>0, <2>4, <3>1
  <2>5. CASE /\ Announce!New(pass.cutoff) # {}
             /\ pass' = [step |-> "followers", at |-> pass.at, ids |-> Announce!New(pass.cutoff)]
             /\ batches' = batches
    <3>1. PassesOn("followers")
      BY <1>1, <2>0, <2>5 DEF PassesOn, Announce!Idle
    <3>2. PassInv'
      BY <1>1, <2>1, <2>5 DEF AnnounceInv, PassInv, HasRead, Announce!Idle
    <3>3. Announce!TypeOK'
      <4>1. pass' \in [step : {"followers", "record"}, at : 0..hour, ids : Announce!Batch]
        <5>1. Announce!New(pass.cutoff) \in Announce!Batch
          BY <2>5 DEF Announce!New, Announce!Batch
        <5>2. QED
          BY <1>2, <2>5, <5>1
      <4>2. QED
        BY <1>1, <2>5, <4>1 DEF AnnounceInv, Announce!TypeOK, hour, passRan, batches,
           pass, listed, createdAt, ear, heardOf, heard, stray, times, born, due
    <3>4. ASSUME NEW l \in pass'.ids
          PROVE  listed[l] # "unused" /\ (createdAt[l] <= pass.at => times[l] <= Early(l))
      <4>1. l \in Pair /\ listed[l] = "active" /\ createdAt[l] > pass.cutoff
        BY <2>5 DEF Announce!New, listed, createdAt, pass
      <4>2. createdAt[l] \in Int
        BY <1>0, <4>1
      <4>3. ~Covered(l)
        BY <1>0, <1>2, <1>a, <2>1, <2>2, <4>1, <4>2 DEF Covered
      <4>4. times[l] <= Early(l) + 0
        BY <4>1, <4>3 DEF AnnounceInv, ListingInv
      <4>5. Early(l) \in Nat
        BY DEF Early
      <4>6. QED
        BY <4>1, <4>4, <4>5
    <3>5. ASSUME NEW f \in Followers, NEW l \in Pair, <<f, l>> \in due, l \notin heardOf[f],
                 listed[l] = "active"
          PROVE  l \in pass'.ids
      BY <2>3, <2>5, <3>5
    <3>6. QED
      BY <1>1, <3>1, <3>2, <3>3, <3>4, <3>5, PassesOnInv DEF AnnounceInv
  <2>6. QED
    BY <1>8, <2>4, <2>5 DEF Announce!FindProducts, pass, batches
<1>9. CASE Announce!FindFollowers
  <2>0. /\ pass.step = "followers" /\ batches' = batches
        /\ pass' = [step |-> "notify", at |-> pass.at, ids |-> pass.ids, who |-> Announce!Follows]
    BY <1>9 DEF Announce!FindFollowers, pass, Announce!world, batches
  <2>1. HasRead /\ pass.ids \in Announce!Batch
    BY <2>0, AnnounceFacts DEF AnnounceInv, HasRead
  <2>2. PassesOn("notify")
    BY <1>1, <2>0 DEF PassesOn, Announce!Idle
  <2>3. PassInv'
    BY <1>1, <2>0, <2>1 DEF AnnounceInv, PassInv, HasRead, Announce!Idle
  <2>4. Announce!TypeOK'
    BY <1>1, <1>2, <2>0, <2>1 DEF Announce!Follows, AnnounceInv, Announce!TypeOK, hour, passRan,
       batches, pass, listed, createdAt, ear, heardOf, heard, stray, times, born, due
  <2>5. \A l \in pass.ids : l \in Pair
    BY <2>1 DEF Announce!Batch
  <2>6. \A l \in pass'.ids :
          listed[l] # "unused" /\ (createdAt[l] <= pass.at => times[l] <= Early(l))
    BY <2>0, <2>1, <2>5 DEF AnnounceInv, ListingInv
  <2>7. ASSUME NEW f \in Followers, NEW l \in Pair, <<f, l>> \in due, l \notin heardOf[f],
               listed[l] = "active", pass.at > createdAt[l]
        PROVE  l \in pass'.ids /\ f \in pass'.who
    BY <2>0, <2>1, <2>7 DEF AnnounceInv, DueInv, Announce!Follows, ear
  <2>8. QED
    BY <1>1, <2>2, <2>3, <2>4, <2>6, <2>7, PassesOnInv DEF AnnounceInv
<1>10. QED
  BY <1>6, <1>7, <1>8, <1>9

\* Everyone who listens is told, or the pass is over and nobody is due.
LEMMA NotifyInv == ASSUME PeopleAssumption, AnnounceInv, Announce!Notify PROVE AnnounceInv'
<1>0. /\ hour \in Nat /\ pass.step = "notify" /\ pass # Announce!Idle /\ HasRead
      /\ pass.ids \in Announce!Batch
      /\ heardOf \in [Followers -> SUBSET Pair] /\ heard \in [Followers -> (-1)..FollowTime]
      /\ hour <= FollowTime /\ FollowTime \in Nat /\ stray \subseteq Followers
  BY AnnounceFacts DEF AnnounceInv, Announce!Notify, HasRead, pass
<1>1. PICK d \in Announce!Deliveries(pass.who) :
        /\ heardOf' = [f \in Followers |-> IF f \in d.to THEN heardOf[f] \cup pass.ids ELSE heardOf[f]]
        /\ heard' = [f \in Followers |-> IF f \in d.to THEN pass.at ELSE heard[f]]
        /\ IF d.ok
           THEN /\ pass' = [step |-> "record", at |-> pass.at, ids |-> pass.ids]
                /\ stray' = stray \ d.to
                /\ due' = due
           ELSE pass' = Announce!Idle /\ stray' = stray \cup d.to /\ due' = {}
  BY DEF Announce!Notify, heardOf, heard, pass, stray, due
<1>2. UNCHANGED <<hour, passRan, batches, listed, createdAt, ear, born, times>>
  BY DEF Announce!Notify, Announce!world, Announce!clock, Announce!rows, hour, passRan, batches,
     listed, createdAt, ear, born, times
<1>3. pass.at = hour - (hour % 2) /\ passRan /\ pass.at \in 0..hour
      /\ \A b \in batches : pass.at - b >= MinInterval
  BY <1>0, AnnounceFacts DEF AnnounceInv, PassInv
<1>4. pass.who \in SUBSET Followers
  BY <1>0, AnnounceFacts DEF AnnounceInv
<1>5. d.to \in SUBSET Followers /\ (d.ok => d.to = {f \in pass.who : ear[f] # "muted"})
  BY <1>4 DEF Announce!Deliveries, ear
<1>6. /\ d.ok => /\ pass'.step = "record" /\ pass'.at = pass.at /\ pass'.ids = pass.ids
                 /\ HasRead' /\ pass' # Announce!Idle
      /\ ~d.ok => pass'.step = "idle" /\ pass' = Announce!Idle /\ ~HasRead'
  BY <1>1 DEF Announce!Idle, HasRead
<1>7. Announce!TypeOK'
  <2>1. \A f \in Followers : heardOf[f] \cup pass.ids \in SUBSET Pair
    BY <1>0 DEF Announce!Batch
  <2>2. heardOf' \in [Followers -> SUBSET Pair]
    BY <1>0, <1>1, <2>1
  <2>3. pass.at \in (-1)..FollowTime
    BY <1>0, <1>3
  <2>4. heard' \in [Followers -> (-1)..FollowTime]
    BY <1>0, <1>1, <2>3
  <2>5. stray' \subseteq Followers /\ due' \subseteq Followers \X Pair
    BY <1>1, <1>5 DEF AnnounceInv, Announce!TypeOK, stray, due
  <2>6. pass' \in {Announce!Idle} \cup [step : {"followers", "record"}, at : 0..hour, ids : Announce!Batch]
    BY <1>0, <1>1, <1>3
  <2>7. QED
    BY <1>2, <2>2, <2>4, <2>5, <2>6 DEF AnnounceInv, Announce!TypeOK, Announce!Times,
       Announce!Never, hour, passRan, batches, pass, listed, createdAt, ear, heardOf, heard,
       stray, times, born, due
<1>8. PassInv'
  BY <1>2, <1>3, <1>6 DEF AnnounceInv, PassInv, HasRead
<1>9. HeardInv'
  <2>1. ASSUME NEW f \in Followers, heard'[f] # Announce!Never, f \notin stray'
        PROVE  \/ \E b \in batches : b >= heard'[f]
               \/ pass'.step = "record" /\ pass'.at = heard'[f]
               \/ hour > heard'[f] + Retention
    <3>1. CASE f \in d.to
      BY <1>1, <1>6, <2>1, <3>1
    <3>2. CASE f \notin d.to
      BY <1>0, <1>1, <2>1, <3>2 DEF AnnounceInv, HeardInv
    <3>3. QED
      BY <3>1, <3>2
  <2>2. QED
    BY <1>2, <2>1 DEF HeardInv
<1>10. ListingInv'
  BY <1>0, <1>2, <1>6 DEF Covered, Early, AnnounceInv, ListingInv
<1>11. DueInv'
  <2>1. CASE ~d.ok
    BY <1>1, <2>1 DEF DueInv
  <2>2. CASE d.ok
    <3>1. LastDone' = LastDone
      BY <1>0, <1>2, <1>6, <2>2 DEF LastDone
    <3>2. ASSUME NEW f \in Followers, NEW l \in Pair, <<f, l>> \in due, l \notin heardOf'[f],
                 listed[l] = "active", pass.at > createdAt[l]
          PROVE  FALSE
      BY <1>0, <1>1, <1>5, <2>2, <3>2 DEF AnnounceInv, DueInv
    <3>3. \A f \in Followers, l \in Pair : l \notin heardOf'[f] => l \notin heardOf[f]
      BY <1>1
    <3>4. due' = due
      BY <1>1, <2>2
    <3>5. ASSUME NEW f \in Followers, NEW l \in Pair, <<f, l>> \in due, l \notin heardOf'[f]
          PROVE  /\ ear[f] = "listens" /\ listed[l] \in {"inserting", "active"}
                 /\ LastDone > createdAt[l] =>
                      LastDone = createdAt[l] + 1 \/ \E b \in batches : LastDone - b < MinInterval
                 /\ listed[l] = "active" => \A b \in batches : b < createdAt[l]
      BY <3>3, <3>5 DEF AnnounceInv, DueInv
    <3>6. QED
      BY <1>2, <1>6, <2>2, <3>1, <3>2, <3>4, <3>5 DEF DueInv
  <2>3. QED
    BY <2>1, <2>2
<1>12. QED
  BY <1>7, <1>8, <1>9, <1>10, <1>11 DEF AnnounceInv

\* Nobody is told again so soon but strays: whoever was told by a pass that
\* did not fail was told before a batch, and the pass is past its gate.
LEMMA NotifyRepeats ==
  ASSUME PeopleAssumption, AnnounceInv, Announce!Next
  PROVE  Announce!RepeatStep
<1>1. ASSUME NEW f \in Followers, heard'[f] # heard[f], heard[f] # Announce!Never,
             heard'[f] - heard[f] < MinInterval, f \notin stray
      PROVE  FALSE
  <2>0. /\ {MinInterval, Lookback, Retention} \subseteq Nat
        /\ MinInterval + 2 <= Lookback /\ Lookback <= Retention
        /\ hour \in Nat /\ batches \in SUBSET (0..hour)
        /\ heard \in [Followers -> (-1)..FollowTime]
    BY AnnounceFacts DEF AnnounceInv
  <2>1. Announce!Notify
    BY <1>1 DEF Announce!Next, Announce!Pass, Announce!Start, Announce!FindSellers,
       Announce!FindBatch, Announce!FindProducts, Announce!FindFollowers, Announce!Record,
       Announce!RecordAt, Announce!Fail, Announce!Stamp, Announce!Commit, Announce!ChangeListing,
       Announce!ChangeEar, Announce!Tick, Announce!outcome, heard
  <2>2. pass.step = "notify" /\ pass # Announce!Idle /\ HasRead
    BY <2>1 DEF Announce!Notify, pass, HasRead, Announce!Idle
  <2>3. heard'[f] = pass.at
    BY <1>1, <2>1 DEF Announce!Notify, heard, pass
  <2>4. pass.at = hour - (hour % 2) /\ \A b \in batches : pass.at - b >= MinInterval
    BY <2>2 DEF AnnounceInv, PassInv
  <2>5. (\E b \in batches : b >= heard[f]) \/ hour > heard[f] + Retention
    BY <1>1, <2>2 DEF AnnounceInv, HeardInv
  <2>6. heard[f] \in Int /\ batches \in SUBSET Int
    BY <1>1, <2>0
  <2>7. QED
    BY <1>1, <2>0, <2>3, <2>4, <2>5, <2>6
<1>2. QED
  BY <1>1 DEF Announce!RepeatStep, heard, stray

LEMMA RecordInv == ASSUME PeopleAssumption, AnnounceInv, Announce!Record PROVE AnnounceInv'
<1>0. /\ {MinInterval, Lookback, Retention, FollowTime} \subseteq Nat
      /\ MinInterval + 2 <= Lookback /\ Lookback <= Retention
      /\ hour \in Nat /\ batches \in SUBSET (0..hour)
      /\ createdAt \in [Pair -> (-1)..FollowTime] /\ heard \in [Followers -> (-1)..FollowTime]
      /\ times \in [Pair -> Nat]
      /\ pass.step = "record" /\ pass # Announce!Idle /\ HasRead
      /\ pass.ids \in Announce!Batch
  BY AnnounceFacts DEF AnnounceInv, Announce!Record, Announce!RecordAt, HasRead, pass
<1>1. /\ Announce!Finish(batches \cup {pass.at})
      /\ times' = [l \in Pair |-> IF l \in pass.ids THEN times[l] + 1 ELSE times[l]]
      /\ UNCHANGED <<hour, passRan, listed, createdAt, ear, born, heardOf, heard, stray, due>>
  BY DEF Announce!Record, Announce!RecordAt, Announce!world, Announce!clock, Announce!rows,
     hour, passRan, batches, pass, listed, createdAt, ear, born, heardOf, heard, stray, times, due
<1>2. /\ pass' = Announce!Idle
      /\ batches' \in SUBSET (batches \cup {pass.at})
      /\ \A b \in batches \cup {pass.at} : b \in batches' \/ b < pass.at - Retention
      /\ batches' \in SUBSET (0..hour) /\ \A b \in batches' : b % 2 = 0
  BY <1>0, <1>1, FinishFacts
<1>3. pass'.step = "idle" /\ ~HasRead'
  BY <1>2 DEF Announce!Idle, HasRead
<1>4. pass.at = hour - (hour % 2) /\ passRan /\ pass.at \in 0..hour /\ pass.at \in Nat
      /\ pass.at <= hour
  BY <1>0, AnnounceFacts DEF AnnounceInv, PassInv
<1>5. pass.at \in batches'
  BY <1>0, <1>2, <1>4
<1>6. Announce!TypeOK'
  BY <1>0, <1>1, <1>2 DEF AnnounceInv, Announce!TypeOK, hour, passRan, batches, pass, listed,
     createdAt, ear, heardOf, heard, stray, times, born, due
<1>7. PassInv'
  BY <1>2, <1>3 DEF PassInv
<1>8. HeardInv'
  <2>1. ASSUME NEW f \in Followers, heard[f] # Announce!Never, f \notin stray
        PROVE  (\E b \in batches' : b >= heard[f]) \/ hour > heard[f] + Retention
    <3>1. \/ \E b \in batches : b >= heard[f]
          \/ pass.at = heard[f]
          \/ hour > heard[f] + Retention
      BY <2>1 DEF AnnounceInv, HeardInv
    <3>2. CASE pass.at = heard[f]
      BY <1>4, <1>5, <3>2
    <3>3. CASE \E b \in batches : b >= heard[f]
      <4>1. PICK b \in batches : b >= heard[f]
        BY <3>3
      <4>2. b \in Int /\ heard[f] \in Int
        BY <1>0
      <4>3. b \in batches' \/ b < pass.at - Retention
        BY <1>2
      <4>4. QED
        BY <1>0, <1>4, <4>1, <4>2, <4>3
    <3>4. QED
      BY <3>1, <3>2, <3>3
  <2>2. QED
    BY <1>1, <2>1 DEF HeardInv
<1>9. ListingInv'
  <2>1. ASSUME NEW l \in Pair, Covered(l) PROVE Covered(l)'
    BY <1>0, <1>1, <1>2, <1>4, <2>1 DEF Covered
  <2>2. ASSUME NEW l \in Pair PROVE times'[l] <= Early(l)' + (IF Covered(l)' THEN 1 ELSE 0)
    <3>0. times[l] \in Nat /\ Early(l) \in {0, 1} /\ Early(l)' = Early(l) /\ createdAt[l] \in Int
      BY <1>0, <1>1 DEF Early
    <3>1. times[l] <= Early(l) + (IF Covered(l) THEN 1 ELSE 0)
      BY DEF AnnounceInv, ListingInv
    <3>2. CASE l \notin pass.ids
      BY <1>1, <2>1, <3>0, <3>1, <3>2
    <3>3. CASE l \in pass.ids /\ createdAt[l] <= pass.at
      BY <1>0, <1>1, <1>4, <1>5, <3>0, <3>3 DEF AnnounceInv, ListingInv, Covered
    <3>4. CASE l \in pass.ids /\ createdAt[l] > pass.at
      BY <1>0, <1>1, <3>0, <3>4 DEF AnnounceInv, ListingInv, Early
    <3>5. QED
      BY <1>4, <3>0, <3>2, <3>3, <3>4
  <2>3. ASSUME NEW l \in Pair, listed[l] = "unused" PROVE times'[l] = 0
    BY <1>0, <1>1, <2>3 DEF AnnounceInv, ListingInv
  <2>4. QED
    BY <1>1, <1>2, <1>3, <2>2, <2>3 DEF AnnounceInv, ListingInv
<1>10. DueInv'
  <2>1. LastDone' = pass.at
    BY <1>0, <1>1, <1>2, <1>4 DEF LastDone
  <2>2. ASSUME NEW f \in Followers, NEW l \in Pair, <<f, l>> \in due, l \notin heardOf[f]
        PROVE  /\ pass.at > createdAt[l] => pass.at = createdAt[l] + 1
               /\ listed[l] = "active" => \A b \in batches' : b < createdAt[l]
    <3>1. /\ listed[l] \in {"inserting", "active"}
          /\ listed[l] = "active" =>
               (\A b \in batches : b < createdAt[l]) /\ ~(pass.at > createdAt[l])
      BY <1>0, <2>2 DEF AnnounceInv, DueInv
    <3>2. createdAt[l] \in 0..hour /\ createdAt[l] % 2 = 1
          /\ (listed[l] = "inserting" => hour <= createdAt[l] + 1)
      BY <3>1 DEF AnnounceInv, ListingInv
    <3>3. createdAt[l] \in Nat
      BY <1>0, <3>2
    <3>4. pass.at % 2 = 0
      BY <1>2, <1>5
    <3>5. pass.at # createdAt[l]
      BY <3>2, <3>4
    <3>6. listed[l] = "active" => pass.at < createdAt[l]
      BY <1>4, <3>1, <3>3, <3>5
    <3>7. pass.at > createdAt[l] => pass.at = createdAt[l] + 1
      BY <1>0, <1>4, <3>1, <3>2, <3>3
    <3>8. QED
      BY <1>2, <3>1, <3>6, <3>7
  <2>3. QED
    BY <1>1, <1>3, <2>1, <2>2 DEF AnnounceInv, DueInv
<1>11. QED
  BY <1>6, <1>7, <1>8, <1>9, <1>10 DEF AnnounceInv

LEMMA FailInv == ASSUME PeopleAssumption, AnnounceInv, Announce!Fail PROVE AnnounceInv'
<1>1. /\ pass # Announce!Idle /\ pass' = Announce!Idle /\ due' = {}
      /\ stray' = IF pass.step = "record"
                  THEN stray \cup {f \in Followers : heard[f] = pass.at} ELSE stray
      /\ UNCHANGED <<hour, passRan, batches, listed, createdAt, ear, born, heardOf, heard, times>>
  BY DEF Announce!Fail, Announce!world, Announce!clock, Announce!rows, hour, passRan, batches,
     pass, listed, createdAt, ear, born, heardOf, heard, stray, times, due
<1>2. pass'.step = "idle" /\ ~HasRead'
  BY <1>1 DEF Announce!Idle, HasRead
<1>3. Announce!TypeOK'
  BY <1>1 DEF AnnounceInv, Announce!TypeOK, hour, passRan, batches, pass, listed,
     createdAt, ear, heardOf, heard, stray, times, born, due
<1>4. PassInv'
  BY <1>1, <1>2 DEF AnnounceInv, PassInv
<1>5. HeardInv'
  BY <1>1, <1>2 DEF AnnounceInv, HeardInv
<1>6. ListingInv'
  BY <1>1, <1>2 DEF Covered, Early, AnnounceInv, ListingInv
<1>7. DueInv'
  BY <1>1 DEF DueInv
<1>8. QED
  BY <1>3, <1>4, <1>5, <1>6, <1>7 DEF AnnounceInv

\* A listing is stamped between the hours, so after every batch and after
\* the pass that runs.
LEMMA StampInv ==
  ASSUME PeopleAssumption, AnnounceInv, NEW x \in Pair, Announce!Stamp(x)
  PROVE  AnnounceInv'
<1>0. /\ hour \in 0..FollowTime /\ FollowTime \in Nat /\ hour \in Nat
      /\ batches \in SUBSET (0..hour)
      /\ createdAt \in [Pair -> (-1)..FollowTime] /\ times \in [Pair -> Nat]
      /\ listed \in [Pair -> {"unused", "inserting", "active", "hide", "deleted"}]
      /\ born \subseteq Pair /\ due \subseteq Followers \X Pair
  BY AnnounceFacts DEF AnnounceInv
<1>1. /\ hour % 2 = 1 /\ listed[x] = "unused"
      /\ listed' = [listed EXCEPT ![x] = "inserting"]
      /\ createdAt' = [createdAt EXCEPT ![x] = hour]
      /\ born' = IF pass # Announce!Idle THEN born \cup {x} ELSE born
      /\ due' = due \cup {<<f, x>> : f \in {g \in Followers : ear[g] = "listens"}}
      /\ UNCHANGED <<hour, passRan, batches, pass, ear, heardOf, heard, stray, times>>
  BY DEF Announce!Stamp, Announce!Between, Announce!Hour, Announce!clock, Announce!outcome,
     hour, passRan, batches, pass, listed, createdAt, ear, born, heardOf, heard, stray, times, due
<1>2. /\ createdAt'[x] = hour /\ listed'[x] = "inserting"
      /\ \A l \in Pair \ {x} : createdAt'[l] = createdAt[l] /\ listed'[l] = listed[l]
      /\ HasRead' = HasRead /\ createdAt[x] = -1 /\ times[x] = 0
      /\ ~(HasRead /\ x \in pass.ids)
  BY <1>0, <1>1 DEF AnnounceInv, ListingInv, Announce!Never, HasRead
<1>3. Announce!TypeOK'
  BY <1>0, <1>1 DEF AnnounceInv, Announce!TypeOK, Announce!Times, Announce!Never, hour, passRan,
     batches, pass, listed, createdAt, ear, heardOf, heard, stray, times, born, due
<1>4. PassInv'
  BY <1>1, <1>2 DEF AnnounceInv, PassInv
<1>5. HeardInv'
  BY <1>1 DEF AnnounceInv, HeardInv
<1>6. ListingInv'
  <2>1. ASSUME NEW l \in Pair \ {x}
        PROVE  (Covered(l)' <=> Covered(l)) /\ Early(l)' = Early(l)
    BY <1>1, <1>2 DEF Covered, Early
  <2>2. times'[x] <= Early(x)' + (IF Covered(x)' THEN 1 ELSE 0)
    BY <1>1, <1>2 DEF Early
  <2>3. pass' # Announce!Idle => x \in born'
    BY <1>1
  <2>4. createdAt'[x] \in 0..hour' /\ createdAt'[x] % 2 = 1 /\ hour' <= createdAt'[x] + 1
    BY <1>0, <1>1, <1>2
  <2>5. ASSUME NEW l \in Pair \ {x}
        PROVE  /\ times'[l] = times[l] /\ hour' = hour /\ pass' = pass
               /\ l \in born' <=> l \in born
    BY <1>1
  <2>6. ASSUME NEW l \in Pair
        PROVE  /\ IF listed'[l] = "unused"
                  THEN createdAt'[l] = Announce!Never /\ times'[l] = 0
                  ELSE createdAt'[l] \in 0..hour' /\ createdAt'[l] % 2 = 1
               /\ listed'[l] = "inserting" => hour' <= createdAt'[l] + 1
               /\ times'[l] <= Early(l)' + (IF Covered(l)' THEN 1 ELSE 0)
               /\ pass' # Announce!Idle /\ createdAt'[l] > pass'.at => times'[l] = 0 /\ l \in born'
               /\ HasRead' /\ l \in pass'.ids =>
                    /\ listed'[l] # "unused"
                    /\ createdAt'[l] <= pass'.at => times'[l] <= Early(l)'
    <3>1. CASE l = x
      BY <1>1, <1>2, <2>2, <2>3, <2>4, <3>1
    <3>2. CASE l # x
      BY <1>2, <2>1, <2>5, <3>2 DEF AnnounceInv, ListingInv
    <3>3. QED
      BY <3>1, <3>2
  <2>7. QED
    BY <2>6 DEF ListingInv
<1>7. DueInv'
  <2>1. LastDone' = LastDone /\ ~(LastDone > hour)
    BY <1>0, <1>1 DEF LastDone
  <2>2. ASSUME NEW f \in Followers, NEW l \in Pair, <<f, l>> \in due', l \notin heardOf'[f]
        PROVE  /\ ear'[f] = "listens" /\ listed'[l] \in {"inserting", "active"}
               /\ LastDone' > createdAt'[l] =>
                    \/ LastDone' = createdAt'[l] + 1
                    \/ \E b \in batches' : LastDone' - b < MinInterval
               /\ listed'[l] = "active" =>
                    /\ \A b \in batches' : b < createdAt'[l]
                    /\ HasRead' /\ pass'.at > createdAt'[l] =>
                         /\ pass'.step # "record" /\ l \in pass'.ids
                         /\ pass'.step = "notify" => f \in pass'.who
    <3>1. CASE <<f, l>> \in due
      BY <1>1, <1>2, <2>1, <2>2, <3>1 DEF AnnounceInv, DueInv
    <3>2. CASE l = x /\ ear[f] = "listens"
      BY <1>1, <1>2, <2>1, <3>2
    <3>3. QED
      BY <1>1, <2>2, <3>1, <3>2
  <2>3. QED
    BY <2>2 DEF DueInv
<1>8. QED
  BY <1>3, <1>4, <1>5, <1>6, <1>7 DEF AnnounceInv

\* What happens to a listing, or to a follower, takes it off those due, or
\* makes it visible in time.
Between(newDue) ==
  /\ due' = newDue
  /\ UNCHANGED <<hour, passRan, batches, pass, createdAt, born, heardOf, heard, stray, times>>

LEMMA BetweenInv ==
  ASSUME PeopleAssumption, AnnounceInv, NEW some \in SUBSET due, Between(some),
         ear' \in [Followers -> {"none", "listens", "muted"}],
         listed' \in [Pair -> {"unused", "inserting", "active", "hide", "deleted"}],
         \A l \in Pair : /\ listed'[l] = "unused" <=> listed[l] = "unused"
                         /\ listed'[l] = "inserting" => listed[l] = "inserting",
         \A f \in Followers, l \in Pair : <<f, l>> \in some /\ l \notin heardOf[f] =>
           /\ ear'[f] = ear[f]
           /\ \/ listed'[l] = listed[l]
              \/ /\ listed'[l] = "active"
                 /\ ~ \E b \in batches : b > createdAt[l]
                 /\ ~(HasRead /\ pass.at > createdAt[l])
  PROVE  AnnounceInv'
<1>0. batches \in SUBSET Int /\ hour \in Nat /\ createdAt \in [Pair -> (-1)..FollowTime]
  BY AnnounceFacts DEF AnnounceInv
<1>1. /\ due' = some
      /\ UNCHANGED <<hour, passRan, batches, pass, createdAt, born, heardOf, heard, stray, times>>
      /\ HasRead' = HasRead
  BY DEF Between, HasRead
<1>2. Announce!TypeOK'
  BY <1>1 DEF AnnounceInv, Announce!TypeOK, due, hour, passRan, batches, pass, listed, createdAt,
     ear, heardOf, heard, stray, times, born
<1>3. PassInv'
  BY <1>1 DEF AnnounceInv, PassInv
<1>4. HeardInv'
  BY <1>1 DEF AnnounceInv, HeardInv
<1>5. ListingInv'
  BY <1>1 DEF Covered, Early, AnnounceInv, ListingInv
<1>6. DueInv'
  <2>1. LastDone' = LastDone
    BY <1>1 DEF LastDone
  <2>2. ASSUME NEW f \in Followers, NEW l \in Pair, <<f, l>> \in some, l \notin heardOf[f],
               listed'[l] # listed[l]
        PROVE  \A b \in batches : b < createdAt[l]
    <3>1. ~ \E b \in batches : b > createdAt[l]
      BY <2>2
    <3>2. listed[l] \in {"inserting", "active"}
      BY <2>2 DEF AnnounceInv, DueInv
    <3>3. createdAt[l] % 2 = 1 /\ \A b \in batches : b % 2 = 0
      BY <3>2 DEF AnnounceInv, ListingInv, PassInv
    <3>4. createdAt[l] \in Int
      BY <1>0
    <3>5. QED
      BY <1>0, <3>1, <3>3, <3>4
  <2>3. QED
    BY <1>1, <2>1, <2>2 DEF AnnounceInv, DueInv
<1>7. QED
  BY <1>2, <1>3, <1>4, <1>5, <1>6 DEF AnnounceInv

LEMMA ListingSteps ==
  ASSUME PeopleAssumption, AnnounceInv, NEW x \in Pair,
         Announce!Commit(x) \/ Announce!ChangeListing(x)
  PROVE  AnnounceInv'
<1> USE DEF hour, passRan, batches, pass, listed, createdAt, ear, born, heardOf, heard, stray,
      times, due
<1>0. /\ listed \in [Pair -> {"unused", "inserting", "active", "hide", "deleted"}]
      /\ ear \in [Followers -> {"none", "listens", "muted"}]
  BY AnnounceFacts DEF AnnounceInv
<1>1. CASE Announce!Commit(x)
  <2>1. PICK late \in BOOLEAN :
          /\ late <=> \/ \E b \in batches : b > createdAt[x]
                      \/ HasRead /\ pass.at > createdAt[x]
          /\ due' = IF late THEN due \ (Followers \X {x}) ELSE due
    BY <1>1 DEF Announce!Commit, HasRead
  <2>2. /\ listed[x] = "inserting" /\ listed' = [listed EXCEPT ![x] = "active"]
        /\ UNCHANGED <<hour, passRan, batches, pass, createdAt, ear, heardOf, heard, stray,
                       times, born>>
    BY <1>1 DEF Announce!Commit, Announce!clock, Announce!outcome
  <2>3. PICK some \in SUBSET due : some = due'
    BY <2>1
  <2>4. Between(some)
    BY <2>2, <2>3 DEF Between
  <2>5. ASSUME NEW f \in Followers, NEW l \in Pair, <<f, l>> \in some
        PROVE  \/ listed'[l] = listed[l]
               \/ /\ listed'[l] = "active"
                  /\ ~ \E b \in batches : b > createdAt[l]
                  /\ ~(HasRead /\ pass.at > createdAt[l])
    <3>1. CASE l # x
      BY <1>0, <2>2, <3>1
    <3>2. CASE l = x
      BY <1>0, <2>1, <2>2, <2>3, <2>5, <3>2
    <3>3. QED
      BY <3>1, <3>2
  <2>6. /\ ear' \in [Followers -> {"none", "listens", "muted"}]
        /\ listed' \in [Pair -> {"unused", "inserting", "active", "hide", "deleted"}]
        /\ \A l \in Pair : /\ listed'[l] = "unused" <=> listed[l] = "unused"
                           /\ listed'[l] = "inserting" => listed[l] = "inserting"
        /\ \A f \in Followers : ear'[f] = ear[f]
    BY <1>0, <2>2
  <2> HIDE DEF hour, passRan, batches, pass, listed, createdAt, ear, born, heardOf, heard, stray,
        times, due
  <2>7. QED
    BY <2>4, <2>5, <2>6, BetweenInv
<1>2. CASE Announce!ChangeListing(x)
  <2>1. /\ listed[x] \in {"active", "hide"} /\ due' = due \ (Followers \X {x})
        /\ \E st \in {"active", "hide", "deleted"} : listed' = [listed EXCEPT ![x] = st]
        /\ UNCHANGED <<hour, passRan, batches, pass, createdAt, ear, heardOf, heard, stray,
                       times, born>>
    BY <1>2 DEF Announce!ChangeListing, Announce!clock, Announce!outcome
  <2>2. PICK some \in SUBSET due : some = due'
    BY <2>1
  <2>3. Between(some)
    BY <2>1, <2>2 DEF Between
  <2>4. /\ ear' \in [Followers -> {"none", "listens", "muted"}]
        /\ listed' \in [Pair -> {"unused", "inserting", "active", "hide", "deleted"}]
        /\ \A l \in Pair : /\ listed'[l] = "unused" <=> listed[l] = "unused"
                           /\ listed'[l] = "inserting" => listed[l] = "inserting"
        /\ \A f \in Followers : ear'[f] = ear[f]
        /\ \A l \in Pair \ {x} : listed'[l] = listed[l]
    BY <1>0, <2>1
  <2>5. \A f \in Followers, l \in Pair : <<f, l>> \in some => l \in Pair \ {x}
    BY <2>1, <2>2
  <2> HIDE DEF hour, passRan, batches, pass, listed, createdAt, ear, born, heardOf, heard, stray,
        times, due
  <2>6. QED
    BY <2>3, <2>4, <2>5, BetweenInv
<1>3. QED
  BY <1>1, <1>2

LEMMA EarSteps ==
  ASSUME PeopleAssumption, AnnounceInv, NEW g \in Followers, Announce!ChangeEar(g)
  PROVE  AnnounceInv'
<1> USE DEF hour, passRan, batches, pass, listed, createdAt, ear, born, heardOf, heard, stray,
      times, due
<1>0. /\ listed \in [Pair -> {"unused", "inserting", "active", "hide", "deleted"}]
      /\ ear \in [Followers -> {"none", "listens", "muted"}]
  BY AnnounceFacts DEF AnnounceInv
<1>1. /\ due' = due \ ({g} \X Pair)
      /\ \E e \in {"none", "listens", "muted"} : ear' = [ear EXCEPT ![g] = e]
      /\ UNCHANGED <<hour, passRan, batches, pass, createdAt, listed, heardOf, heard, stray,
                     times, born>>
  BY DEF Announce!ChangeEar, Announce!clock, Announce!outcome
<1>2. PICK some \in SUBSET due : some = due'
  BY <1>1
<1>3. Between(some)
  BY <1>1, <1>2 DEF Between
<1>4. /\ ear' \in [Followers -> {"none", "listens", "muted"}]
      /\ \A f \in Followers \ {g} : ear'[f] = ear[f]
      /\ listed' = listed
  BY <1>0, <1>1
<1>5. \A f \in Followers, l \in Pair : <<f, l>> \in some => f \in Followers \ {g}
  BY <1>1, <1>2
<1> HIDE DEF hour, passRan, batches, pass, listed, createdAt, ear, born, heardOf, heard, stray,
      times, due
<1>6. QED
  BY <1>0, <1>3, <1>4, <1>5, BetweenInv

\* The clock moves on when the pass and the inserts of its hour are over; an
\* hour without a pass leaves nobody due.
LEMMA HourInv == ASSUME PeopleAssumption, AnnounceInv, Announce!Tick PROVE AnnounceInv'
<1>0. /\ hour \in 0..FollowTime /\ FollowTime \in Nat /\ hour \in Nat /\ Retention \in Nat
      /\ batches \in SUBSET (0..hour) /\ passRan \in BOOLEAN
      /\ createdAt \in [Pair -> (-1)..FollowTime] /\ heard \in [Followers -> (-1)..FollowTime]
      /\ times \in [Pair -> Nat]
  BY AnnounceFacts DEF AnnounceInv
<1>1. /\ hour < FollowTime /\ hour' = hour + 1
      /\ hour % 2 = 1 => pass = Announce!Idle
      /\ \A l \in Pair : listed[l] = "inserting" => createdAt[l] = hour
      /\ IF (hour + 1) % 2 = 0
         THEN passRan' = FALSE /\ due' = IF passRan THEN due ELSE {}
         ELSE passRan' = passRan /\ due' = due
      /\ UNCHANGED <<batches, pass, listed, createdAt, ear, heardOf, heard, stray, times, born>>
  BY DEF Announce!Tick, Announce!Hour, Announce!rows, Announce!outcome, hour, passRan, batches,
     pass, listed, createdAt, ear, born, heardOf, heard, stray, times, due
<1>2. HasRead' = HasRead
  BY <1>1 DEF HasRead
<1>3. /\ hour % 2 = 0 => /\ hour' - (hour' % 2) = hour /\ passRan' = passRan /\ due' = due
                         /\ hour - (hour % 2) = hour
      /\ hour % 2 # 0 => /\ hour' - (hour' % 2) = hour + 1 /\ hour - (hour % 2) = hour - 1
                         /\ passRan' = FALSE /\ due' = (IF passRan THEN due ELSE {})
                         /\ pass = Announce!Idle
  <2>1. CASE hour % 2 = 0
    BY <1>0, <1>1, <2>1
  <2>2. CASE hour % 2 # 0
    BY <1>0, <1>1, <2>2
  <2>3. QED
    BY <2>1, <2>2
<1>4. Announce!TypeOK'
  <2>1. hour' \in 0..FollowTime /\ 0..hour \subseteq 0..hour'
    BY <1>0, <1>1
  <2>2. passRan' \in BOOLEAN
    BY <1>0, <1>3
  <2>3. due' \subseteq Followers \X Pair
    BY <1>3 DEF AnnounceInv, Announce!TypeOK, due
  <2>4. batches' \subseteq 0..hour'
    BY <1>0, <1>1, <2>1
  <2>5. pass' \in {Announce!Idle} \cup [step : {"sellers", "batch"}, at : 0..hour']
         \cup [step : {"products"}, at : 0..hour', cutoff : (-Lookback)..hour']
         \cup [step : {"followers", "record"}, at : 0..hour', ids : Announce!Batch]
         \cup [step : {"notify"}, at : 0..hour', ids : Announce!Batch, who : SUBSET Followers]
    <3>1. (-Lookback)..hour \subseteq (-Lookback)..hour'
      BY <1>0, <1>1, AnnounceFacts DEF AnnounceInv
    <3>2. pass \in {Announce!Idle} \cup [step : {"sellers", "batch"}, at : 0..hour]
           \cup [step : {"products"}, at : 0..hour, cutoff : (-Lookback)..hour]
           \cup [step : {"followers", "record"}, at : 0..hour, ids : Announce!Batch]
           \cup [step : {"notify"}, at : 0..hour, ids : Announce!Batch, who : SUBSET Followers]
      BY DEF AnnounceInv, Announce!TypeOK, hour, pass
    <3>3. pass' = pass
      BY <1>1
    <3>4. \A A, B, C, D : A \subseteq B /\ C \subseteq D =>
            /\ [step : {"sellers", "batch"}, at : A] \subseteq [step : {"sellers", "batch"}, at : B]
            /\ [step : {"products"}, at : A, cutoff : C]
                 \subseteq [step : {"products"}, at : B, cutoff : D]
            /\ [step : {"followers", "record"}, at : A, ids : Announce!Batch]
                 \subseteq [step : {"followers", "record"}, at : B, ids : Announce!Batch]
            /\ [step : {"notify"}, at : A, ids : Announce!Batch, who : SUBSET Followers]
                 \subseteq [step : {"notify"}, at : B, ids : Announce!Batch, who : SUBSET Followers]
      OBVIOUS
    <3>5. QED
      BY <2>1, <3>1, <3>2, <3>3, <3>4
  <2>6. QED
    BY <1>1, <2>1, <2>2, <2>3, <2>4, <2>5 DEF AnnounceInv, Announce!TypeOK, hour, passRan, batches,
       pass, listed, createdAt, ear, heardOf, heard, stray, times, born, due
<1>5. PassInv'
  <2>1. pass # Announce!Idle => passRan' /\ pass.at = hour' - (hour' % 2)
    <3>1. ASSUME pass # Announce!Idle
          PROVE  passRan' /\ pass.at = hour' - (hour' % 2)
      <4>1. hour % 2 = 0
        BY <1>3, <3>1
      <4>2. pass.at = hour - (hour % 2) /\ passRan
        BY <3>1 DEF AnnounceInv, PassInv
      <4>3. QED
        BY <1>3, <4>1, <4>2
    <3>2. QED
      BY <3>1
  <2>2. QED
    BY <1>1, <1>2, <2>1 DEF AnnounceInv, PassInv
<1>6. HeardInv'
  BY <1>0, <1>1 DEF AnnounceInv, HeardInv
<1>7. ListingInv'
  <2>1. \A l \in Pair : Early(l)' = Early(l) /\ Early(l) \in {0, 1}
    BY <1>1 DEF Early
  <2>2. \A l \in Pair : Covered(l) => Covered(l)'
    BY <1>0, <1>1 DEF Covered
  <2>3. ASSUME NEW l \in Pair PROVE times'[l] <= Early(l)' + (IF Covered(l)' THEN 1 ELSE 0)
    BY <1>0, <1>1, <2>1, <2>2 DEF AnnounceInv, ListingInv
  <2>4. ASSUME NEW l \in Pair
        PROVE  /\ IF listed[l] = "unused"
                  THEN createdAt[l] = Announce!Never /\ times[l] = 0
                  ELSE createdAt[l] \in 0..hour' /\ createdAt[l] % 2 = 1
               /\ listed[l] = "inserting" => hour' <= createdAt[l] + 1
    BY <1>0, <1>1 DEF AnnounceInv, ListingInv
  <2>5. QED
    BY <1>1, <1>2, <2>1, <2>3, <2>4 DEF AnnounceInv, ListingInv
<1>8. DueInv'
  <2>1. CASE hour % 2 # 0 /\ ~passRan
    BY <1>3, <2>1 DEF DueInv
  <2>2. CASE hour % 2 = 0 \/ passRan
    <3>1. due' = due
      BY <1>3, <2>2
    <3>2. LastDone' = LastDone
      <4>1. CASE hour % 2 = 0
        BY <1>1, <1>3, <4>1 DEF LastDone
      <4>2. CASE hour % 2 # 0
        <5>1. LastDone = (hour - 1) - 0
          BY <1>3, <2>2, <4>2 DEF LastDone
        <5>2. LastDone' = (hour + 1) - 2
          BY <1>3, <4>2 DEF LastDone
        <5>3. QED
          BY <1>0, <5>1, <5>2
      <4>3. QED
        BY <4>1, <4>2
    <3>3. QED
      BY <1>1, <1>2, <3>1, <3>2 DEF AnnounceInv, DueInv
  <2>3. QED
    BY <1>0, <2>1, <2>2
<1>9. QED
  BY <1>4, <1>5, <1>6, <1>7, <1>8 DEF AnnounceInv

LEMMA AnnounceNext ==
  ASSUME PeopleAssumption, AnnounceInv, Announce!Next
  PROVE  AnnounceInv' /\ Announce!RepeatStep
<1>1. CASE Announce!Pass
  BY <1>1, NotifyRepeats, StartInv, FindInv, NotifyInv, RecordInv, FailInv DEF Announce!Pass
<1>2. CASE \E l \in Pair : Announce!Stamp(l) \/ Announce!Commit(l) \/ Announce!ChangeListing(l)
  BY <1>2, NotifyRepeats, StampInv, ListingSteps
<1>3. CASE \E f \in Followers : Announce!ChangeEar(f)
  BY <1>3, NotifyRepeats, EarSteps
<1>4. CASE Announce!Tick
  BY <1>4, NotifyRepeats, HourInv
<1>5. QED
  BY <1>1, <1>2, <1>3, <1>4 DEF Announce!Next


-----------------------------------------------------------------------------
(***************************************************************************)
(* What users do and get: whichever part a behaviour is about.             *)
(***************************************************************************)
IInv ==
  /\ part = "codes" => CodesInv
  /\ part = "cases" => CaseInv
  /\ part = "reports" => ReportInv
  /\ part = "signIn" => SignInv
  /\ part = "favorites" => HeartInv
  /\ part = "visits" => ViewInv
  /\ part = "reviews" => ReviewInv
  /\ part = "export" => ExportInv
  /\ part = "notices" => NoticeInv
  /\ part = "campaigns" => LetterInv
  /\ part = "followers" => AnnounceInv

LEMMA InitIInv == ASSUME PeopleAssumption, Init PROVE IInv
<1>1. \/ part = "codes" /\ Codes!Init
      \/ part = "cases" /\ Cases!Init
      \/ part = "reports" /\ Complaints!Init
      \/ part = "signIn" /\ Sessions!Init
      \/ part = "favorites" /\ Hearts!Init
      \/ part = "visits" /\ Views!Init
      \/ part = "reviews" /\ Ratings!Init
      \/ part = "export" /\ Download!Init
      \/ part = "notices" /\ Notices!Init
      \/ part = "campaigns" /\ Letters!Init
      \/ part = "followers" /\ Announce!Init
  BY DEF Init
<1>2. QED
  BY <1>1, CodesInit, CaseInit, ReportInit, SignInit, HeartInit, ViewInit, ReviewInit, ExportInit,
     NoticeInit, LetterInit, AnnounceInit DEF IInv

\* The invariants are about the variables.
LEMMA SameInvs ==
  ASSUME UNCHANGED vars
  PROVE  /\ CodesInv => CodesInv'
         /\ CaseInv => CaseInv'
         /\ ReportInv => ReportInv'
         /\ SignInv => SignInv'
         /\ HeartInv => HeartInv'
         /\ ViewInv => ViewInv'
         /\ ReviewInv => ReviewInv'
         /\ ExportInv => ExportInv'
         /\ NoticeInv => NoticeInv'
         /\ LetterInv => LetterInv'
         /\ AnnounceInv => AnnounceInv'
<1>1. UNCHANGED <<s1, s2, s3, s4, s5, s6, s7, s8, s9, s10, s11, s12, s13>>
  BY DEF vars
<1>2. CodesInv => CodesInv'
  <2>1. CodeInv => CodeInv'
    BY <1>1 DEF CodeInv, Codes!TypeOK, codeCalls, codes, codeNow, pinTokens, Codes!Row,
       Codes!Idle, Codes!Ids
  <2>2. UNCHANGED <<codeCalls, codes, codeNow, guesses, wins, Codes!Ids>>
    BY <1>1 DEF codeCalls, codes, codeNow, guesses, wins, Codes!Ids
  <2>3. /\ UNCHANGED <<Asking, Coming, Making, Fresh(COOLDOWN), Fresh(WINDOW), Unspent>>
        /\ \A i : Guessing(i)' = Guessing(i) /\ Winning(i)' = Winning(i)
    BY <2>2 DEF Asking, Coming, Making, Fresh, Unspent, Guessing, Winning
  <2>4. RateInv => RateInv'
    BY <2>2, <2>3 DEF RateInv
  <2>5. TryInv => TryInv'
    BY <2>2, <2>3 DEF TryInv
  <2>6. QED
    BY <2>1, <2>4, <2>5 DEF CodesInv
<1>3. CaseInv => CaseInv'
  <2>1. Cases!TypeOK => Cases!TypeOK'
    BY <1>1 DEF Cases!TypeOK, Cases!Verdict, Cases!Idle, Cases!Ids
  <2>2. UNCHANGED <<requests, caseCalls, verdicts, Cases!Ids>>
    BY <1>1 DEF requests, caseCalls, verdicts, Cases!Ids
  <2>3. UNCHANGED <<Asked, Waiting, Settled, Creating>>
    BY <2>2 DEF Asked, Waiting, Settled, Creating
  <2>4. \A i : OpenOn(i)' = OpenOn(i) /\ ToldOf(i)' = ToldOf(i)
    BY <2>2 DEF OpenOn, ToldOf
  <2>5. MayAsk' = MayAsk
    BY <2>2, <2>3 DEF MayAsk
  <2>6. QueueInv => QueueInv'
    BY <2>3, <2>5 DEF QueueInv
  <2>7. VerdictInv => VerdictInv'
    BY <2>2, <2>3, <2>4 DEF VerdictInv
  <2>8. QED
    BY <2>1, <2>6, <2>7 DEF CaseInv
<1>4. ReportInv => ReportInv'
  BY <1>1 DEF ReportInv, Complaints!TypeOK, Complaints!StampMatchesStatus, RoundInv,
     Complaints!ReportStatus, Complaints!Idle, Complaints!Kept, Complaints!Resolving, status,
     rounds, stamped, Telling, ToTell, notices, reportCalls
<1>5. SignInv => SignInv'
  BY <1>1 DEF SignInv, Sessions!TypeOK, WelcomeInv, BanInv, TouchInv, Sessions!Nobody,
     Sessions!Ids, Sessions!Never, Sessions!Idle, Sessions!WelcomedOnce, made, welcomes,
     invited, Sessions!BannedSessionsRunOut, signTokens, signNow, Sessions!TouchNotForgotten,
     touches, cache, Sessions!Known, Sessions!Granted
<1>6. ExportInv => ExportInv'
  BY <1>1 DEF ExportInv, Download!TypeOK, SentInv, Download!Ids, stayed, table, cursor, lost,
     sent, exportState, inRange
<1>7. NoticeInv => NoticeInv'
  <2>1. Notices!TypeOK => Notices!TypeOK'
    BY <1>1 DEF Notices!TypeOK, Notices!Events
  <2>2. /\ UNCHANGED <<opted, tokens, holder, events, jobs, inbox, pushes, willing, held>>
        /\ UNCHANGED <<Notices!Events, Notices!Started, Notices!Holders>>
    BY <1>1 DEF Notices!Events, Notices!Started, Notices!Holders, opted, tokens, holder, events,
       jobs, inbox, pushes, willing, held
  <2>3. \A e, u : Unsent(e, u)' <=> Unsent(e, u)
    BY <2>2 DEF Unsent, HasJob
  <2>4. OnceInv => OnceInv'
    BY <2>2, <2>3 DEF OnceInv, OnceOf
  <2>5. WillInv => WillInv'
    BY <2>2 DEF WillInv, WillOf
  <2>6. HeldInv /\ JobInv => HeldInv' /\ JobInv'
    BY <2>2 DEF HeldInv, JobInv
  <2>7. Notices!PushesReachTheirUser => Notices!PushesReachTheirUser'
    BY <1>1 DEF Notices!PushesReachTheirUser, Notices!Events
  <2>8. Notices!PushesBounded => Notices!PushesBounded'
    BY <1>1 DEF Notices!PushesBounded, Notices!Events
  <2>9. QED
    BY <2>1, <2>4, <2>5, <2>6, <2>7, <2>8 DEF NoticeInv
<1>8. LetterInv => LetterInv'
  BY <1>1 DEF LetterInv, Letters!TypeOK, RunInv, DigestInv, SmoothInv, LeaveInv, Letters!Pref,
     Letters!Idle, Letters!Campaign, Letters!Activities, runs, RunOk, Letters!Known, activity,
     mailNow, toldIn, mails, Inside, Mailed, Letters!Monday, smooth, prefs, ranNow, DigestOf,
     Letters!PrefOf, left
<1>9. AnnounceInv => AnnounceInv'
  BY <1>1 DEF AnnounceInv, Announce!TypeOK, PassInv, HeardInv, ListingInv, DueInv,
     Announce!Idle, Announce!Batch, Announce!Times, pass, passRan, hour, HasRead, batches,
     Announce!Never, heard, stray, listed, createdAt, times, Early, Covered, born, due,
     heardOf, ear, LastDone
<1>10. HeartInv => HeartInv'
  BY <1>1 DEF HeartInv, Hearts!TypeOK, Hearts!Idle, heartCalls, Hearts!CounterMatchesRows, favCount,
     inserted, Rising, Falling, Liking, Hearts!CallsAt, Hearts!Holders
<1>11. ViewInv => ViewInv'
  BY <1>1 DEF ViewInv, Views!TypeOK, Views!Times, Views!Steps, visits, viewNow,
     Views!VisitsPerWindowBounded, Views!Recent, Views!CallsAt, Views!Rows,
     Views!CounterMatchesVisits
<1>12. ReviewInv => ReviewInv'
  BY <1>1 DEF ReviewInv, Ratings!TypeOK, Ratings!Review, Ratings!Idle, Ratings!Ids, Ratings!Stars,
     SkewInv, stats, written, Shown, Ratings!Rows, Ratings!StatsSkewBounded, SearchInv, searches,
     Saving, starCalls
<1>13. QED
  BY <1>2, <1>3, <1>4, <1>5, <1>6, <1>7, <1>8, <1>9, <1>10, <1>11, <1>12

LEMMA NextIInv == ASSUME PeopleAssumption, IInv, [Next]_vars PROVE IInv'
<1>1. CASE UNCHANGED vars
  BY <1>1, SameInvs DEF vars, IInv
<1>2. CASE ~UNCHANGED vars
  BY <1>2, PartSteps, CodesNext, CaseNext, ReportNext, SignNext, HeartNext, ViewNext, ReviewNext,
     ExportNext, NoticeNext, LetterNext, AnnounceNext DEF IInv
<1>3. QED
  BY <1>1, <1>2

THEOREM Invariance == Spec => []IInv
<1>1. Init => IInv
  BY InitIInv, PeopleAssumption
<1>2. IInv /\ [Next]_vars => IInv'
  BY NextIInv, PeopleAssumption
<1>3. QED
  BY <1>1, <1>2, PTL DEF Spec

\* Every part keeps its types, whatever the calls do in between.
THEOREM Typing == Spec => []TypeOK
<1>1. IInv => TypeOK
  BY DEF IInv, TypeOK, CodesInv, CodeInv, CaseInv, ReportInv, SignInv, HeartInv, ViewInv, ReviewInv,
     ExportInv, NoticeInv, LetterInv, AnnounceInv
<1>2. QED
  BY Invariance, <1>1, PTL

\* Requests, codes, guesses, redemptions, visits and saved searches pass their
\* limits by less than the calls that run at once, whatever the limits are and
\* however the calls interleave.
THEOREM LimitsThm == Spec => []LimitsBounded
<1>1. ViewInv => Views!VisitsPerWindowBounded
  BY DEF ViewInv
<1>2. IInv => LimitsBounded
  BY <1>1, CodesMeans, ReviewMeans, PeopleAssumption DEF IInv, LimitsBounded
<1>3. QED
  BY Invariance, <1>2, PTL

\* Favourites, views, the chart and the dashboard say what the rows say, up to
\* the calls between two writes and the reviews between two queries.
THEOREM FiguresThm == Spec => []FiguresMatchRows
<1>1. HeartInv => Hearts!CounterMatchesRows
  BY DEF HeartInv
<1>2. ViewInv => Views!CounterMatchesVisits
  BY DEF ViewInv
<1>3. IInv => FiguresMatchRows
  BY <1>1, <1>2, ViewChart, ReviewMeans, PeopleAssumption DEF IInv, FiguresMatchRows
<1>4. QED
  BY Invariance, <1>3, PTL

\* A PIN or phone changes only on the strength of a recent code, and the
\* badge of a verified user comes with a decided request, however the calls
\* interleave.
THEOREM GrantsThm == Spec => GrantsAreBacked
<1>1. ASSUME IInv, [Next]_vars
      PROVE  [/\ part = "codes" => Codes!BackedStep
              /\ part = "cases" => Cases!BadgeStep]_vars
  BY <1>1, PartSteps, CodesNext, CaseNext, PeopleAssumption DEF IInv
<1>2. IInv /\ [Next]_vars => [/\ part = "codes" => Codes!BackedStep
                              /\ part = "cases" => Cases!BadgeStep]_vars
  BY <1>1
<1>3. QED
  BY Invariance, <1>2, PTL DEF Spec, GrantsAreBacked

\* Whatever calls overlap, requests for verification do not pile up, verdicts
\* are announced once, and a report names a reviewer exactly while resolved.
THEOREM CasesThm == Spec => []CasesSettle
<1>1. IInv => CasesSettle
  BY CaseMeans, ReportMeans, PeopleAssumption DEF IInv, CasesSettle
<1>2. QED
  BY Invariance, <1>1, PTL

\* One welcome per account, a ban that takes hold as tokens run out, and no
\* visit forgotten by the process that failed to record it.
THEOREM SessionsThm == Spec => []SessionsBounded
<1>1. SignInv => Sessions!WelcomedOnce /\ Sessions!BannedSessionsRunOut /\ Sessions!TouchNotForgotten
  BY DEF SignInv, WelcomeInv, BanInv, TouchInv
<1>2. IInv => SessionsBounded
  BY <1>1 DEF IInv, SessionsBounded
<1>3. QED
  BY Invariance, <1>2, PTL

\* An export has every row in range that was there all the time, once,
\* whatever the size of the batches and whatever comes and goes meanwhile.
THEOREM ExportThm == Spec => []ExportComplete
<1>1. IInv => ExportComplete
  BY ExportMeans DEF IInv, ExportComplete
<1>2. QED
  BY Invariance, <1>1, PTL

\* One notice of an event per user, however often they qualify, and one
\* digest for what happens well inside a week.
THEOREM ToldThm == Spec => []ToldOnce
<1>1. IInv => ToldOnce
  BY NoticeMeans, LetterMeans, PeopleAssumption DEF IInv, ToldOnce
<1>2. QED
  BY Invariance, <1>1, PTL

\* Who opted out before an event, or left a campaign before a run of it
\* began, gets nothing of it.
THEOREM OptOutsThm == Spec => []OptOutsHold
<1>1. IInv => OptOutsHold
  BY NoticeMeans, LetterMeans, PeopleAssumption DEF IInv, OptOutsHold
<1>2. QED
  BY Invariance, <1>1, PTL

\* A push reaches a device its user held since the event, and a device hears
\* again only for a worker that died.
THEOREM PushesThm == Spec => []PushesBounded
<1>1. IInv => PushesBounded
  BY NoticeMeans, PeopleAssumption DEF IInv, PushesBounded
<1>2. QED
  BY Invariance, <1>1, PTL

\* A listing is in one batch unless it came while a pass ran, and while every
\* pass ends well everyone who listens hears of it in time.
THEOREM FollowersThm == Spec => []FollowersHearOnce
<1>1. IInv => FollowersHearOnce
  BY AnnounceMeans, PeopleAssumption DEF IInv, FollowersHearOnce
<1>2. QED
  BY Invariance, <1>1, PTL

\* A follower hears of a seller twice within the interval only after a pass
\* that failed.
THEOREM RepeatsThm == Spec => RepeatsNeedAFailure
<1>1. ASSUME IInv, [Next]_vars
      PROVE  [part = "followers" => Announce!RepeatStep]_vars
  BY <1>1, PartSteps, AnnounceNext, PeopleAssumption DEF IInv
<1>2. IInv /\ [Next]_vars => [part = "followers" => Announce!RepeatStep]_vars
  BY <1>1
<1>3. QED
  BY Invariance, <1>2, PTL DEF Spec, RepeatsNeedAFailure
=============================================================================
