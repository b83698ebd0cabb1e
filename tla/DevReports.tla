----------------------------- MODULE DevReports -----------------------------
(***************************************************************************)
(* The runtime-report ledger: http.rs handle_runtime_report over the       *)
(* RuntimeReports of state.rs.                                             *)
(*                                                                         *)
(* A page whose startup failed posts one report carrying the build it was  *)
(* served as, its entry and an invocation identity.  Reports may arrive    *)
(* late, more than once, and for builds or entries that no longer exist.   *)
(* The handler holds the publication lock while it updates the ledger, so  *)
(* one report is one step.                                                 *)
(***************************************************************************)
EXTENDS DevPublication, FiniteSets

CONSTANTS
    Invocations,   \* identities of page loads
    MaxReports     \* MAX_RUNTIME_REPORTS

ASSUME ReportAssumption == MaxReports \in Nat \ {0}

VARIABLES
    ledgerBuild,   \* RuntimeReports.build; 0: None
    ledgerKeys,    \* RuntimeReports.keys
    printed,       \* history: how often each report was shown
    everServed     \* history: <<build, page>> pairs that were published

reportVars == <<ledgerBuild, ledgerKeys, printed, everServed>>
ledgerVars == <<publicationVars, reportVars>>

Key == [build : 0..MaxBuilds, entry : Pages, invocation : Invocations]

(* Every variable has its type.                                            *)
LedgerTypeOK ==
    /\ PublicationTypeOK
    /\ ledgerBuild \in 0..MaxBuilds
    /\ ledgerKeys \in SUBSET Key
    /\ printed \in [Key -> Nat]
    /\ everServed \in SUBSET ((0..MaxBuilds) \X Pages)

LedgerInit ==
    /\ PublicationInit
    /\ ledgerBuild = 0
    /\ ledgerKeys = {}
    /\ printed = [k \in Key |-> 0]
    /\ everServed = {}

LedgerCycle == CycleOutcome /\ UNCHANGED reportVars

LedgerPublish ==
    /\ PublishOutcome
    /\ everServed' = everServed \cup
         (IF ok' THEN {version'} \X servedPages' ELSE {})
    /\ UNCHANGED <<ledgerBuild, ledgerKeys, printed>>

(* The SSE wakes of the cycle are DevServe's; here the step only ends it.  *)
CycleDone ==
    /\ bpc = "broadcast"
    /\ bpc' = "idle"
    /\ UNCHANGED <<version, ok, errorVersion, servedVersion, servedPages,
                   outcome, nextVersion, reportVars>>

(* Mutant of Current: a failed build is not looked at.                     *)
CurrentIfFailed(report) ==
    /\ report.build = version
    /\ report.entry \in servedPages

(* The check made under the publication lock; otherwise 409 CONFLICT.      *)
Current(report) ==
    /\ ok
    /\ report.build = version
    /\ report.entry \in servedPages

(* The ledger as the handler sees it: it starts over at a newer build.     *)
StartsOver(report) == ledgerBuild = 0 \/ ledgerBuild < report.build

KeysFor(report) == IF StartsOver(report) THEN {} ELSE ledgerKeys

(* Mutant of Duplicate: every delivery counts as the first.                *)
DuplicateNever(report) == FALSE

(* This page load has reported already; answered without printing.         *)
Duplicate(report) == report \in KeysFor(report)

LedgerFull(report) == Cardinality(KeysFor(report)) >= MaxReports

(* The report is formatted and printed after both locks are released; all  *)
(* that decides about it is decided here, so it is counted here.           *)
AcceptReport(report) ==
    /\ Current(report)
    /\ ledgerBuild' = IF StartsOver(report) THEN report.build ELSE ledgerBuild
    /\ \/ /\ ~Duplicate(report)
          /\ ~LedgerFull(report)
          /\ ledgerKeys' = KeysFor(report) \cup {report}
          /\ printed' = [printed EXCEPT ![report] = @ + 1]
       \/ /\ Duplicate(report) \/ LedgerFull(report)
          /\ ledgerKeys' = KeysFor(report)
          /\ UNCHANGED printed
    /\ UNCHANGED <<publicationVars, everServed>>

LedgerNext ==
    \/ LedgerCycle
    \/ LedgerPublish
    \/ CycleDone
    \/ \E report \in Key : AcceptReport(report)

LedgerSpec == LedgerInit /\ [][LedgerNext]_ledgerVars

-----------------------------------------------------------------------------
(* http.rs:414-438: no page load is shown twice on the terminal, however   *)
(* often its report is delivered and although the ledger forgets all its   *)
(* keys whenever a newer build reports for the first time.                 *)
NeverPrintedTwice == \A k \in Key : printed[k] <= 1

(* http.rs:401-409: a printed report belongs to a build that succeeded and *)
(* to a page of that very build, although a failed build keeps serving the *)
(* entries of an earlier one.                                              *)
PrintedWasServed ==
    \A k \in Key : printed[k] > 0 => <<k.build, k.entry>> \in everServed

=============================================================================
