------------------------------ MODULE Reports ------------------------------
(***************************************************************************)
(* A report and the staff who resolve and reopen it.  updateStatus reads   *)
(* the report, writes it whatever its status, and notifies the reporter    *)
(* when the row it had read was pending.  Source: reports.service.ts.      *)
(***************************************************************************)
EXTENDS Naturals, FiniteSets

CONSTANTS
  Calls,     \* how many calls run at once at most
  MaxRounds  \* bound on how often the report is opened

ReportAssumption == IsFiniteSet(Calls) /\ MaxRounds \in Nat \ {0}

VARIABLES
  status,   \* reports.status, "none" before and "deleted" after the row
  stamped,  \* reviewedBy, reviewedAt and resolutionNote are set
  calls,
  rounds,   \* history: how often the report has been open
  notices   \* history: notifications the reporter got

vars == <<status, stamped, calls, rounds, notices>>

-----------------------------------------------------------------------------
ReportStatus == {"pending", "reviewed", "dismissed"}
Resolving == {"reviewed", "dismissed"}
Idle == [step |-> "idle"]
Kept == status \in ReportStatus

TypeOK ==
  /\ status \in ReportStatus \cup {"none", "deleted"}
  /\ stamped \in BOOLEAN
  /\ calls \in [Calls -> {Idle} \cup
       [step : {"write", "notify"}, to : ReportStatus, seen : ReportStatus]]
  /\ rounds \in 0..MaxRounds
  /\ notices \in Nat

Init ==
  /\ status = "none"
  /\ stamped = FALSE
  /\ calls = [c \in Calls |-> Idle]
  /\ rounds = 0
  /\ notices = 0

End(c) == calls' = [calls EXCEPT ![c] = Idle]

\* The input names what is reported, and not the reporter; the row says
\* pending by default.
Create(type, named, self) ==
  /\ status = "none"
  /\ named
  /\ ~(type = "user" /\ self)
  /\ status' = "pending"
  /\ rounds' = 1
  /\ UNCHANGED <<stamped, calls, notices>>

Read(c) ==
  \E to \in ReportStatus :
    /\ calls[c] = Idle
    /\ Kept
    /\ calls' = [calls EXCEPT ![c] = [step |-> "write", to |-> to, seen |-> status]]
    /\ UNCHANGED <<status, stamped, rounds, notices>>

\* Resolving stamps the report, reopening clears the stamp; a report deleted
\* meanwhile is an error.
Write(c) ==
  LET h == calls[c]
  IN  /\ h.step = "write"
      /\ IF Kept
         THEN /\ status' = h.to
              /\ stamped' = (h.to \in Resolving)
              /\ rounds' = IF h.to = "pending" /\ status # "pending"
                           THEN rounds + 1 ELSE rounds
              /\ rounds' <= MaxRounds
              /\ IF h.to \in Resolving /\ h.seen = "pending"
                 THEN calls' = [calls EXCEPT ![c].step = "notify"]
                 ELSE End(c)
         ELSE End(c) /\ UNCHANGED <<status, stamped, rounds>>
      /\ UNCHANGED notices

Notify(c) ==
  /\ calls[c].step = "notify"
  /\ notices' = notices + 1
  /\ End(c)
  /\ UNCHANGED <<status, stamped, rounds>>

Fail(c) ==
  /\ calls[c] # Idle
  /\ End(c)
  /\ UNCHANGED <<status, stamped, rounds, notices>>

DeleteReports ==
  /\ Kept
  /\ status' = "deleted"
  /\ UNCHANGED <<stamped, calls, rounds, notices>>

Next ==
  \/ \E type \in {"product", "user"}, named, self \in BOOLEAN :
       Create(type, named, self)
  \/ \E c \in Calls : Read(c) \/ Write(c) \/ Notify(c) \/ Fail(c)
  \/ DeleteReports

Spec == Init /\ [][Next]_vars

-----------------------------------------------------------------------------
\* "Notify the reporter the first time the report is resolved": once per
\* round of being open, or once by each of the staff who resolve it at the
\* same moment; a reopened report is announced again.
NoticesBounded ==
  notices + Cardinality({c \in Calls : /\ calls[c].step # "idle"
                                       /\ calls[c].seen = "pending"
                                       /\ calls[c].to \in Resolving})
    <= rounds * Cardinality(Calls)

\* Whoever resolves and whoever reopens at the same time, a report that is
\* pending shows no reviewer and a resolved one shows one (updateStatus).
StampMatchesStatus == Kept => (stamped <=> status \in Resolving)

=============================================================================
