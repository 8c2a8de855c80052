--------------------------- MODULE MCExportReport ---------------------------
(* The export of the configuration and the availability report, side by    *)
(* side: in a behaviour one of the two parts moves, the other is at rest.  *)
(* They share no state; together they need one run.                        *)
EXTENDS MCConfigExport, MCAvailability
VARIABLE part

(* A report that is over before it has asked for anything.                 *)
ReportAtRest ==
    /\ stage = "raised" /\ history = <<>> /\ opening = NoState
    /\ page = 1 /\ read = 0 /\ found = {} /\ truncated = FALSE /\ matched = {} /\ rows = {}
    /\ from = Start /\ cursor = Start /\ current = NoState
    /\ total = [s \in States |-> 0] /\ planned = [s \in States |-> 0]

ExportReportInit ==
    \/ part = "export" /\ Init /\ ReportAtRest
    \/ part = "report" /\ Init /\ ReportInit
ExportMoves == part = "export" /\ UNCHANGED <<part, reportVars>>
ReportMoves == part = "report" /\ UNCHANGED <<part, vars>>
ExportReportNext == (ExportMoves /\ Next) \/ (ReportMoves /\ ReportNext)

(* The fairness of the two parts: FairSpec and FairReportSpec.             *)
partVars == <<part, vars, reportVars>>
ExportReportSpec ==
    /\ ExportReportInit /\ [][ExportReportNext]_partVars
    /\ \A c \in Calls : WF_partVars(ExportMoves /\ pc[c] # "idle" /\ CallStep(c))
    /\ WF_partVars(ReportMoves /\ ReportStep)
=============================================================================
