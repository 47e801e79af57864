---------------------------- MODULE TraceReport ----------------------------
(***************************************************************************)
(* What runtime/examine reads from a trace: a sequence of events, each     *)
(* with its type, the node it is about, what was determined there and what *)
(* followed.  (Two fields are not in the file: "run" numbers the           *)
(* traversals of one trace, and "wf" is, in the WF_START of each, the      *)
(* workflow it traverses.  No operator here reads them; the properties of  *)
(* Traversal do.)                                                          *)
(***************************************************************************)
EXTENDS Naturals, Sequences, SequencesExt

CONSTANT None

\* ParsedTrace.of: the events of a type in their order, and where they stand.
Positions(trace, type) ==
    LET positions[n \in 0..Len(trace)] ==
            IF n = 0 THEN <<>>
            ELSE IF trace[n].type = type THEN Append(positions[n - 1], n) ELSE positions[n - 1]
    IN  positions[Len(trace)]

Of(trace, type) ==
    LET positions == Positions(trace, type) IN [k \in DOMAIN positions |-> trace[positions[k]]]

\* DiagnosticReport.outcome
ReportedOutcome(trace) ==
    LET complete == Of(trace, "WF_COMPLETE")
    IN  IF complete = <<>> THEN None ELSE Last(complete).what

\* DiagnosticReport.ending
ReportedEnding(trace) ==
    LET routes == Of(trace, "WF_ROUTE")
    IN  IF routes = <<>> \/ Of(trace, "WF_COMPLETE") = <<>> THEN None ELSE Last(routes).then

\* Variant: the results are taken in the order of the contracts.
ResultInOrder(trace, k) ==
    LET complete == Of(trace, "CC_COMPLETE")
    IN  IF k \in DOMAIN complete THEN complete[k].what ELSE None

\* The result shown for the k-th contract that started: results are kept by
\* node, the last one recorded there.
ResultShown(trace, k) ==
    LET complete == Of(trace, "CC_COMPLETE")
        there == {j \in DOMAIN complete : complete[j].node = Of(trace, "CC_START")[k].node}
    IN  IF there = {} THEN None ELSE complete[Max(there)].what

\* DiagnosticReport.contracts
ReportedContracts(trace) ==
    LET started == Of(trace, "CC_START")
    IN  [k \in DOMAIN started |->
            [node |-> started[k].node, contract |-> started[k].what,
             result |-> ResultShown(trace, k)]]

\* DiagnosticReport.has_structural_failure
StructuralFailure(trace) == Of(trace, "ERROR") # <<>> \/ ReportedOutcome(trace) = None
=============================================================================
