-------------------------------- MODULE Export --------------------------------
(***************************************************************************)
(* A CSV export: the rows of a table in the order of their ids, a batch at *)
(* a time, each batch found from the last id of the one before, while rows *)
(* come and go.  The eight exports differ in their columns only.           *)
(* Source: export.service.ts, export.controller.ts.                        *)
(***************************************************************************)
EXTENDS Naturals, FiniteSets

CONSTANTS
  MaxRows,     \* ids are 1..MaxRows; a new row may get any free one
  BATCH_SIZE

BatchAssumption == MaxRows \in Nat /\ BATCH_SIZE \in Nat \ {0}

VARIABLES
  table,    \* the rows there are
  inRange,  \* the ids whose createdAt the export asks for
  cursor,   \* the last id of the batch before, 0 at first
  sent,     \* how often each row was written
  state,
  audited,  \* the number of rows in the audit entry, if there is one
  stayed,   \* history: the rows there at the start and never deleted
  lost      \* history: the row of the cursor was deleted

vars == <<table, inRange, cursor, sent, state, audited, stayed, lost>>

-----------------------------------------------------------------------------
Ids == 1..MaxRows
Unaudited == MaxRows * MaxRows + 1

TypeOK ==
  /\ {table, inRange, stayed} \subseteq SUBSET Ids
  /\ cursor \in 0..MaxRows
  /\ sent \in [Ids -> Nat]
  /\ state \in {"fetching", "done", "failed"}
  /\ audited \in Nat
  /\ lost \in BOOLEAN

Init ==
  /\ table \in SUBSET Ids
  /\ inRange \in SUBSET Ids
  /\ cursor = 0
  /\ sent = [i \in Ids |-> 0]
  /\ state = "fetching"
  /\ audited = Unaudited
  /\ stayed = table
  /\ lost = FALSE

Total == Cardinality({i \in Ids : sent[i] > 0})

\* The first n of S.
First(S, n) == {i \in S : Cardinality({j \in S : j < i}) < n}

-----------------------------------------------------------------------------
(***************************************************************************)
(* findMany from a cursor, with skip: 1 for the cursor itself.  What Prisma*)
(* makes of a cursor whose row is gone is left open: nothing is found, or  *)
(* the rows after it are, and the skip costs one of them.                  *)
(***************************************************************************)
Matching == table \cap inRange

\* Mutant: the cursor row is not skipped.
Batches_NoSkip ==
  IF cursor = 0 THEN {First(Matching, BATCH_SIZE)}
  ELSE {First({i \in Matching : i >= cursor}, BATCH_SIZE)}

Batches ==
  LET after == {i \in Matching : i > cursor}
  IN  IF cursor = 0 \/ cursor \in table THEN {First(after, BATCH_SIZE)}
      ELSE {{}, First(after \ First(after, 1), BATCH_SIZE)}

FetchBatch ==
  \E batch \in Batches :
    /\ state = "fetching"
    /\ sent' = [i \in Ids |-> IF i \in batch THEN sent[i] + 1 ELSE sent[i]]
    /\ IF Cardinality(batch) < BATCH_SIZE
       THEN state' = "done" /\ UNCHANGED cursor
       ELSE /\ cursor' = CHOOSE i \in batch : \A j \in batch : j <= i
            /\ UNCHANGED state
    /\ UNCHANGED <<table, inRange, audited, stayed, lost>>

\* download() logs once the response has ended.
Audit ==
  /\ state = "done"
  /\ audited = Unaudited
  /\ audited' = Total
  /\ UNCHANGED <<table, inRange, cursor, sent, state, stayed, lost>>

Fail ==
  /\ state = "fetching"
  /\ state' = "failed"
  /\ UNCHANGED <<table, inRange, cursor, sent, audited, stayed, lost>>

InsertRow(i) ==
  /\ i \notin table
  /\ state = "fetching"
  /\ table' = table \cup {i}
  /\ UNCHANGED <<inRange, cursor, sent, state, audited, stayed, lost>>

DeleteRow(i) ==
  /\ i \in table
  /\ state = "fetching"
  /\ table' = table \ {i}
  /\ stayed' = stayed \ {i}
  /\ lost' = (lost \/ i = cursor)
  /\ UNCHANGED <<inRange, cursor, sent, state, audited>>

Next ==
  \/ FetchBatch \/ Audit \/ Fail
  \/ \E i \in Ids : InsertRow(i) \/ DeleteRow(i)

Spec == Init /\ [][Next]_vars

-----------------------------------------------------------------------------
\* No row is written twice, and a finished export holds every row in range
\* that was there all the time, whatever rows came and went around it, unless
\* the very row a batch ended at was deleted (streamBatched).
ExportComplete ==
  /\ \A i \in Ids : sent[i] <= 1
  /\ state = "done" /\ ~lost => \A i \in stayed \cap inRange : sent[i] = 1

=============================================================================
