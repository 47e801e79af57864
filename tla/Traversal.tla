----------------------------- MODULE Traversal -----------------------------
(***************************************************************************)
(* One call of api.run_workflow: the scheduler walks a sealed workflow     *)
(* (scheduler.run_wf), the dispatcher runs the steps of the contract at    *)
(* each node (dispatcher.execute_cc), capabilities are called and may run  *)
(* further workflows of the package inside theirs, and everything writes   *)
(* to one trace (evidence.TraceWriter).                                    *)
(*                                                                         *)
(* It is one thread of control.  What is not determined is what transforms *)
(* and capabilities answer, which bindings reach a value, what a           *)
(* capability does with an exception of a workflow it called, and when the *)
(* process is killed.                                                      *)
(*                                                                         *)
(* The sealed package is a value: the tables of RuntimePackage.dispatch,   *)
(* with node keys made unique over the package.                            *)
(***************************************************************************)
EXTENDS TraceReport

CONSTANTS
    Packages,   \* the sealed packages a run may meet
    Workflows, Nodes, Exits,
    Contracts,  \* addresses found at nodes: contracts and admission gates
    Outcomes,   \* result statuses
    Moments,    \* event fqdns an announcement may name
    Stores,     \* entity stores
    Absent,     \* a moment that was declared and is missing from the seal
    MaxHops,    \* scheduler._MAX_HOPS
    MaxDepth,   \* bound on workflows run inside workflows
    MaxCalls    \* bound on the workflows one capability call runs

Namespaces == {"transition", "outcome"}
Unregistered == <<"unregistered">>
Conditions == (Namespaces \X Outcomes) \cup {Unregistered}

\* A table with an entry for some of the keys.
Table(f, keys, values) == DOMAIN f \subseteq keys /\ \A key \in DOMAIN f : f[key] \in values

IsSequence(s) == Len(s) \in Nat /\ DOMAIN s = 1..Len(s)

IsStep(step) ==
    /\ step.kind \in {"ct", "cs"}
    /\ step.handler \in {"present", "absent"}
    /\ step.calls \subseteq Workflows
    /\ step.writes \in Stores \cup {None}
    /\ Table(step.on, Outcomes, {"continue", "exit", "evaluate"})

\* RuntimePackage.dispatch, handlers and vocab, as far as a traversal reads them.
WellTyped(p) ==
    /\ p.entry \in [Workflows -> Nodes \cup {None}]
    /\ p.contract \in [Nodes -> Contracts]
    /\ DOMAIN p.pipeline \subseteq Contracts
    /\ \A c \in DOMAIN p.pipeline :
          /\ IsSequence(p.pipeline[c])
          /\ \A i \in DOMAIN p.pipeline[c] : IsStep(p.pipeline[c][i])
    /\ p.admission \subseteq Contracts
    /\ p.vocab \subseteq Namespaces \X Outcomes
    /\ p.consulted \in [Workflows -> SUBSET Stores]
    /\ \A n \in Nodes :
          /\ Table(p.routing[n], Conditions, Nodes)
          /\ Table(p.terminal[n], Conditions, Exits)
          /\ Table(p.emits[n], Outcomes, Seq(Moments \cup {Absent}))

ASSUME TraversalAssumption ==
    /\ \A p \in Packages : WellTyped(p)
    /\ {"SUCCESS", "VIOLATION", "ACK", "NACK"} \subseteq Outcomes
    /\ Outcomes \cap {"none", "raised", "killed"} = {}
    /\ MaxHops \in Nat /\ MaxDepth \in Nat /\ MaxCalls \in Nat
    /\ None \notin Nodes \cup Exits \cup Outcomes \cup Stores
    /\ None \notin {"continue", "exit", "evaluate", "route"}
    /\ Exits \cap Outcomes = {}

VARIABLES
    pkg,      \* the package of the run
    stack,    \* the traversals in progress, the innermost last
    raised,   \* an exception on its way out of the innermost one
    trace,    \* the trace file
    started,  \* how many traversals have started
    ran,      \* history: every capability call, with the length of the trace then
    result    \* how run_workflow ended

vars == <<pkg, stack, raised, trace, started, ran, result>>

Frames == [run : Nat, wf : Workflows, node : Nodes, hops : Nat,
           place : {"node", "steps", "inside", "calling", "complete", "announce", "route"},
           step : Nat, outcome : Outcomes, calls : Nat]

EventTypes == {"WF_START", "WF_COMPLETE", "CC_START", "CC_STEP", "CC_COMPLETE",
               "WF_ROUTE", "EVENT", "ERROR"}

TypeOK ==
    /\ pkg \in Packages
    /\ stack \in Seq(Frames)
    /\ raised \in {"none", "refusal", "raw"}
    /\ \A i \in DOMAIN trace : trace[i].type \in EventTypes /\ trace[i].run \in 0..started
    /\ started \in Nat
    /\ \A i \in DOMAIN ran : ran[i].after \in 0..Len(trace)
    /\ result \in Outcomes \cup {"none", "raised", "killed"}

Init ==
    /\ pkg \in Packages
    /\ stack = <<>>
    /\ raised = "none"
    /\ trace = <<>>
    /\ started = 0
    /\ ran = <<>>
    /\ result = "none"

-----------------------------------------------------------------------------
Top == Last(stack)
SetTop(frame) == stack' = Front(stack) \o <<frame>>

Event(type, what, then) ==
    [type |-> type, run |-> Top.run, node |-> Top.node, step |-> 0, what |-> what, then |-> then]

\* TraceWriter._emit: one line per event, flushed, in the order of the calls.
Write(events) == trace' = trace \o events

Pipeline == pkg.pipeline[pkg.contract[Top.node]]
Step == Pipeline[Top.step]
At(place) == stack # <<>> /\ raised = "none" /\ Top.place = place
AtStep == At("steps") /\ Top.step <= Len(Pipeline)

\* An exception leaves the innermost traversal, which records nothing more.
Escape(events) ==
    /\ Write(events)
    /\ stack' = Front(stack)
    /\ raised' = "raw"
    /\ UNCHANGED <<pkg, started, ran, result>>

\* A refusal is recorded where it is determined, the workflow is completed as
\* refused, and a RecordedRefusal leaves it.
Refuse(events) ==
    /\ Write(events \o <<Event("WF_COMPLETE", "VIOLATION", None)>>)
    /\ stack' = Front(stack)
    /\ raised' = "refusal"
    /\ UNCHANGED <<pkg, started, ran, result>>

\* The innermost traversal goes on, having written some events.
GoOn(events, frame) ==
    /\ Write(events)
    /\ SetTop(frame)
    /\ UNCHANGED <<pkg, raised, started, ran, result>>

-----------------------------------------------------------------------------
(***************************************************************************)
(* scheduler.run_wf                                                        *)
(***************************************************************************)
\* A nested traversal writes with the writer of the run it is in, and TraceWriter
\* names the workflow it was made for in every line it writes.
WriterOf(wf, below) == IF below = <<>> THEN wf ELSE below[1].wf

\* A workflow without an entry raises before it writes anything.  What was asked
\* for ("wf") is nowhere in the file: the line names the workflow of the writer.
RunWf(wf, below) ==
    IF pkg.entry[wf] = None
    THEN /\ raised' = "raw"
         /\ stack' = below
         /\ UNCHANGED <<trace, started>>
    ELSE /\ started' = started + 1
         /\ stack' = Append(below,
               [run |-> started + 1, wf |-> wf, node |-> pkg.entry[wf], hops |-> 0,
                place |-> "node", step |-> 0, outcome |-> "SUCCESS", calls |-> 0])
         /\ trace' = Append(trace, [type |-> "WF_START", run |-> started + 1,
                                    node |-> None, step |-> 0, what |-> WriterOf(wf, below),
                                    then |-> None, wf |-> wf])
         /\ UNCHANGED raised

HopsLeft == Top.hops < MaxHops

TooManyHops == At("node") /\ ~HopsLeft /\ Escape(<<>>)

AtContract == At("node") /\ HopsLeft /\ pkg.contract[Top.node] \in DOMAIN pkg.pipeline
AtGate == At("node") /\ HopsLeft /\ pkg.contract[Top.node] \notin DOMAIN pkg.pipeline

\* A binding of the workflow is malformed, or a list in it names a source that
\* is not there.
BindingFails == AtContract /\ Refuse(<<Event("ERROR", "capability fault", None)>>)

StartContract ==
    /\ AtContract
    /\ GoOn(<<Event("CC_START", pkg.contract[Top.node], None)>>,
            [Top EXCEPT !.hops = @ + 1, !.place = "steps", !.step = 1,
                        !.outcome = "SUCCESS", !.calls = 0])

\* The inputs, taken from an earlier result, do not serialise: the event is not
\* written and the exception is nobody's refusal.
InputsUnwritable == AtContract /\ Escape(<<>>)

\* _admit: the declared checks hold of the payload, or they do not.
Admit ==
    /\ AtGate
    /\ pkg.contract[Top.node] \in pkg.admission
    /\ \E outcome \in {"ACK", "NACK"} :
          GoOn(<<Event("CC_STEP", outcome, "route")>>,
               [Top EXCEPT !.hops = @ + 1, !.place = "route", !.outcome = outcome])

\* Variant: a gate that declares nothing admits, having said so.
AdmitUndeclared ==
    /\ AtGate
    /\ pkg.contract[Top.node] \notin pkg.admission
    /\ GoOn(<<Event("ERROR", "no admission contract", None), Event("CC_STEP", "ACK", "route")>>,
            [Top EXCEPT !.hops = @ + 1, !.place = "route", !.outcome = "ACK"])

NoAdmissionContract ==
    /\ AtGate
    /\ pkg.contract[Top.node] \notin pkg.admission
    /\ Refuse(<<Event("ERROR", "no admission contract", None)>>)

\* The moments sealed for the transition are announced in the sealed order; one
\* that is missing from the seal is announced as missing.
Announced ==
    IF Top.outcome \in DOMAIN pkg.emits[Top.node] THEN pkg.emits[Top.node][Top.outcome] ELSE <<>>

EventsFor(moments) == [k \in DOMAIN moments |-> Event("EVENT", moments[k], None)]

\* Variant: the moments are announced in another order than the sealed one.
AnnounceReversed ==
    /\ At("announce")
    /\ GoOn(EventsFor(Reverse(Announced)), [Top EXCEPT !.place = "route"])

Announce ==
    /\ At("announce")
    /\ GoOn(EventsFor(Announced), [Top EXCEPT !.place = "route"])

\* An announcement carries the surface; one that does not serialise is not
\* written, nor is anything after it.
SurfaceUnwritable ==
    /\ At("announce")
    /\ \E k \in DOMAIN Announced :
          /\ Announced[k] # Absent
          /\ \A j \in 1..(k - 1) : Announced[j] = Absent
          /\ Escape(EventsFor(SubSeq(Announced, 1, k - 1)))

\* _condition_addr: the transition namespace first, then the outcome namespace.
Condition(outcome) ==
    IF <<"transition", outcome>> \in pkg.vocab THEN <<"transition", outcome>>
    ELSE IF <<"outcome", outcome>> \in pkg.vocab THEN <<"outcome", outcome>>
    ELSE Unregistered

Routed(node, outcome) == Condition(outcome) \in DOMAIN pkg.routing[node]
Ending(node, outcome) == Condition(outcome) \in DOMAIN pkg.terminal[node]

\* Variant: routing is looked up by the contract that ran, not by the node.
RouteByContract ==
    /\ At("route")
    /\ \E node \in Nodes :
          /\ pkg.contract[node] = pkg.contract[Top.node]
          /\ Routed(node, Top.outcome)
          /\ LET next == pkg.routing[node][Condition(Top.outcome)]
             IN  GoOn(<<Event("WF_ROUTE", Top.outcome, next)>>,
                      [Top EXCEPT !.place = "node", !.node = next])

RouteOn ==
    /\ At("route")
    /\ Routed(Top.node, Top.outcome)
    /\ LET next == pkg.routing[Top.node][Condition(Top.outcome)]
       IN  GoOn(<<Event("WF_ROUTE", Top.outcome, next)>>,
                [Top EXCEPT !.place = "node", !.node = next])

\* The traversal returns: to run_workflow, or to the capability that asked for it.
Return(ending, outcome) ==
    /\ Write(<<Event("WF_ROUTE", Top.outcome, ending), Event("WF_COMPLETE", Top.outcome, None)>>)
    /\ IF Len(stack) = 1
       THEN stack' = <<>> /\ result' = outcome
       ELSE /\ stack' = Front(Front(stack)) \o <<[Last(Front(stack)) EXCEPT !.place = "inside"]>>
            /\ UNCHANGED result
    /\ UNCHANGED <<pkg, raised, started, ran>>

\* Variant: the ending reached is returned in place of the outcome.
ReturnEnding ==
    /\ At("route")
    /\ ~Routed(Top.node, Top.outcome)
    /\ Ending(Top.node, Top.outcome)
    /\ LET ending == pkg.terminal[Top.node][Condition(Top.outcome)] IN Return(ending, ending)

RouteToEnding ==
    /\ At("route")
    /\ ~Routed(Top.node, Top.outcome)
    /\ Ending(Top.node, Top.outcome)
    /\ Return(pkg.terminal[Top.node][Condition(Top.outcome)], Top.outcome)

RouteNowhere ==
    /\ At("route")
    /\ ~Routed(Top.node, Top.outcome)
    /\ ~Ending(Top.node, Top.outcome)
    /\ Refuse(<<Event("ERROR", "unrouted outcome", None), Event("WF_ROUTE", Top.outcome, None)>>)

-----------------------------------------------------------------------------
(***************************************************************************)
(* dispatcher.execute_cc                                                   *)
(***************************************************************************)
\* A binding of the step reaches nothing, or a transform faults.
StepFails == AtStep /\ Refuse(<<Event("ERROR", "capability fault", None)>>)

HandlerMissing == AtStep /\ Step.handler = "absent" /\ Escape(<<>>)

\* A step that would write a store its workflow only consults is refused unrun.
ReadOnly == Step.writes \in pkg.consulted[Top.wf]

\* The capability is loaded and called.
RunCapability ==
    /\ AtStep
    /\ Step.kind = "cs"
    /\ Step.handler = "present"
    /\ ~ReadOnly
    /\ SetTop([Top EXCEPT !.place = "inside", !.calls = 0])
    /\ ran' = Append(ran, [run |-> Top.run, node |-> Top.node, after |-> Len(trace)])
    /\ UNCHANGED <<pkg, raised, trace, started, result>>

\* workflow_executor: the capability has another workflow run.
CallWorkflow ==
    /\ At("inside")
    /\ Top.calls < MaxCalls
    /\ Len(stack) < MaxDepth
    /\ \E wf \in Step.calls :
          RunWf(wf, Front(stack) \o <<[Top EXCEPT !.place = "calling", !.calls = @ + 1]>>)
    /\ UNCHANGED <<pkg, ran, result>>

\* Variant: an exception of a capability leaves the dispatcher as it is.
CapabilityEscapes == At("inside") /\ Escape(<<>>)

\* The capability raises or states no outcome, or its result lacks a field the
\* contract maps: it has had its effect, and execution refuses.
CapabilityFails == At("inside") /\ Refuse(<<Event("ERROR", "capability fault", None)>>)

\* What a step may answer: a transform succeeds or refuses, a capability states
\* any outcome.
Answered ==
    IF At("inside") THEN Outcomes
    ELSE IF ~AtStep \/ Step.handler = "absent" THEN {}
    ELSE IF Step.kind = "ct" THEN {"SUCCESS", "VIOLATION"}
    ELSE IF ReadOnly THEN {"VIOLATION"} ELSE {}

\* The record of a step names the step.
StepEvent(outcome, then) == [Event("CC_STEP", outcome, then) EXCEPT !.step = Top.step]

Continuation(outcome) == IF outcome \in DOMAIN Step.on THEN Step.on[outcome] ELSE None

\* Variant: the absence of a continuation is read as going on.
EndStepAnyway ==
    \E outcome \in Answered :
        LET then == Continuation(outcome)
            record == StepEvent(outcome, then)
        IN  GoOn(<<record>>, [Top EXCEPT !.outcome = outcome,
                                  !.place = IF then = "exit" THEN "complete" ELSE "steps",
                                  !.step = @ + 1])

EndStep ==
    \E outcome \in Answered :
        LET then == Continuation(outcome)
            record == StepEvent(outcome, then)
        IN  CASE then = "continue" ->
                    GoOn(<<record>>, [Top EXCEPT !.outcome = outcome, !.place = "steps",
                                                 !.step = @ + 1])
              [] then = "exit" ->
                    GoOn(<<record>>, [Top EXCEPT !.outcome = outcome, !.place = "complete"])
              [] then = "evaluate" -> Refuse(<<record, Event("ERROR", "unknown continuation", None)>>)
              [] then = None -> Refuse(<<record, Event("ERROR", "unlisted step outcome", None)>>)

\* Variant: a contract completes when its steps have run out, and not before.
CompleteAfterLast ==
    /\ At("steps") /\ Top.step > Len(Pipeline)
    /\ GoOn(<<Event("CC_COMPLETE", Top.outcome, None)>>, [Top EXCEPT !.place = "announce"])

CompleteContract ==
    /\ \/ At("complete")
       \/ At("steps") /\ Top.step > Len(Pipeline)
    /\ GoOn(<<Event("CC_COMPLETE", Top.outcome, None)>>, [Top EXCEPT !.place = "announce"])

-----------------------------------------------------------------------------
(***************************************************************************)
(* An exception that has left a traversal.                                 *)
(***************************************************************************)
\* The capability that asked for it handles it and goes on.
Catch ==
    /\ raised # "none"
    /\ stack # <<>>
    /\ raised' = "none"
    /\ SetTop([Top EXCEPT !.place = "inside"])
    /\ UNCHANGED <<pkg, trace, started, ran, result>>

\* It leaves the capability too, and the dispatcher takes it for a failure of
\* the capability, whatever it is.
LetThrough ==
    /\ raised # "none"
    /\ stack # <<>>
    /\ Refuse(<<Event("ERROR", "capability fault", None)>>)

\* Variant: run_workflow records every exception.
SurfaceAll ==
    /\ raised # "none"
    /\ stack = <<>>
    /\ Write(<<[type |-> "ERROR", run |-> 0, node |-> None, step |-> 0,
                what |-> "exception", then |-> None]>>)
    /\ raised' = "none"
    /\ result' = "raised"
    /\ UNCHANGED <<pkg, stack, started, ran>>

\* run_workflow records an exception unless it is a RecordedRefusal, closes the
\* trace and raises it to its caller.
Surface ==
    /\ raised # "none"
    /\ stack = <<>>
    /\ IF raised = "raw"
       THEN Write(<<[type |-> "ERROR", run |-> 0, node |-> None, step |-> 0,
                     what |-> "exception", then |-> None]>>)
       ELSE UNCHANGED trace
    /\ raised' = "none"
    /\ result' = "raised"
    /\ UNCHANGED <<pkg, stack, started, ran>>

\* run_workflow is called for a workflow of the package.
Invoke ==
    /\ stack = <<>> /\ trace = <<>> /\ raised = "none" /\ result = "none"
    /\ \E wf \in Workflows : RunWf(wf, <<>>)
    /\ UNCHANGED <<pkg, ran, result>>

\* The process is killed.  Every line written was flushed, and is in the file.
Kill ==
    /\ stack # <<>>
    /\ stack' = <<>>
    /\ raised' = "none"
    /\ result' = "killed"
    /\ UNCHANGED <<pkg, trace, started, ran>>

-----------------------------------------------------------------------------
SchedulerStep ==
    \/ TooManyHops \/ BindingFails \/ StartContract \/ InputsUnwritable
    \/ Admit \/ NoAdmissionContract \/ Announce \/ SurfaceUnwritable
    \/ RouteOn \/ RouteToEnding \/ RouteNowhere

DispatcherStep ==
    \/ StepFails \/ HandlerMissing \/ RunCapability \/ CallWorkflow
    \/ CapabilityFails \/ EndStep \/ CompleteContract

ExceptionStep == Catch \/ LetThrough \/ Surface

RunStep == Invoke \/ SchedulerStep \/ DispatcherStep \/ ExceptionStep

Next == RunStep \/ Kill

Spec == Init /\ [][Next]_vars

\* The interpreter goes on, and what it calls comes back.
FairSpec == Spec /\ WF_vars(RunStep)

-----------------------------------------------------------------------------
(***************************************************************************)
(* What the trace of a run shows.                                          *)
(***************************************************************************)
\* What a traversal wrote before event i, and the last of some events.
Earlier(events, i) == {j \in 1..(i - 1) : events[j].run = events[i].run}
Latest(j, S) == \A k \in S : k <= j

\* The outcome at a node: of its contract, or of its gate.
Admission(e) == e.type = "CC_STEP" /\ e.then = "route"
Determines(e) == e.type = "CC_COMPLETE" \/ Admission(e)

SealedNext(node, outcome) ==
    IF Routed(node, outcome) THEN pkg.routing[node][Condition(outcome)]
    ELSE IF Ending(node, outcome) THEN pkg.terminal[node][Condition(outcome)]
    ELSE None

PathSealed(events, i) ==
    LET e == events[i]
        earlier == Earlier(events, i)
        turns == {j \in earlier : Determines(events[j]) \/ events[j].type = "WF_ROUTE"}
    IN  /\ e.type \in {"CC_START", "CC_STEP", "CC_COMPLETE"} =>
              IF turns = {}
              THEN \E j \in earlier : events[j].type = "WF_START" /\ e.node = pkg.entry[events[j].wf]
              ELSE \E j \in turns : /\ Latest(j, turns)
                                    /\ events[j].type = "WF_ROUTE" /\ events[j].then = e.node
        /\ e.type = "WF_ROUTE" =>
              /\ \E j \in turns : /\ Latest(j, turns)
                                  /\ Determines(events[j])
                                  /\ events[j].node = e.node /\ events[j].what = e.what
              /\ e.then = SealedNext(e.node, e.what)
        /\ e.type = "WF_COMPLETE" =>
              \/ \E j \in earlier : events[j].type = "ERROR"
              \/ /\ i - 1 \in earlier
                 /\ events[i - 1].type = "WF_ROUTE" /\ events[i - 1].what = e.what
                 /\ events[i - 1].then \in Exits

\* ARCHITECTURE.md:203: "the path in the trace is a path present in the compiled
\* graph".  Every traversal begins at the entry of the workflow it was asked for
\* (not of the one its WF_START names, see PathIsOfTheNamed), is always at the
\* node it was last routed to, determines an outcome there before it is routed
\* again, and is routed on that outcome and where the seal says that outcome goes
\* from that node.  scheduler.py:240: "Termination is now declared ...; its
\* absence is the dead end": one that completes without having refused has just
\* been routed to an exit, and completes with the outcome that took it there.
PathIsSealed == \A i \in DOMAIN trace : PathSealed(trace, i)

\* The events inside a contract, and what its next step would be.
InPipeline(e) == e.type = "CC_STEP" /\ ~Admission(e)
InContract(e) == e.type = "CC_START" \/ InPipeline(e)
PipelineOf(e) == pkg.pipeline[pkg.contract[e.node]]
NextStep(e) == IF e.type = "CC_START" THEN 1 ELSE e.step + 1
GoesOn(e) == e.type = "CC_START" \/ e.then = "continue"
Finished(e) == e.then = "exit" \/ (GoesOn(e) /\ NextStep(e) > Len(PipelineOf(e)))

StepsSealed(events, i) ==
    LET e == events[i]
        earlier == Earlier(events, i)
    IN  /\ e.type = "CC_START" => e.what = pkg.contract[e.node]
        /\ InPipeline(e) =>
              /\ e.step \in DOMAIN PipelineOf(e)
              /\ LET on == PipelineOf(e)[e.step].on
                 IN  e.then = IF e.what \in DOMAIN on THEN on[e.what] ELSE None
        /\ InPipeline(e) \/ e.type = "CC_COMPLETE" =>
              \E j \in earlier : Latest(j, earlier) /\ InContract(events[j]) /\ events[j].node = e.node
        /\ \A j \in earlier : Latest(j, earlier) /\ InContract(events[j]) =>
              IF Finished(events[j])
              THEN /\ e.type = "CC_COMPLETE"
                   /\ e.what = IF events[j].type = "CC_START" THEN "SUCCESS" ELSE events[j].what
              ELSE \/ e.type = "ERROR"
                   \/ InPipeline(e) /\ GoesOn(events[j]) /\ e.step = NextStep(events[j])

\* Inside a contract the steps run are those of the sealed pipeline, one after
\* the other from the first, each goes on or ends as the contract declares for
\* its outcome, and the contract completes with the outcome of its last step and
\* in no other way.
StepsAreSealed == \A i \in DOMAIN trace : StepsSealed(trace, i)

\* The moments sealed for what event e determined; and between events i and n
\* nothing was written but announcements.
SealedMoments(e) == IF e.what \in DOMAIN pkg.emits[e.node] THEN pkg.emits[e.node][e.what] ELSE <<>>
Announcing(events, i, n) ==
    events[i].type = "CC_COMPLETE" /\ \A k \in (i + 1)..n : events[k].type = "EVENT"

AnnouncementsSealed(events, i) ==
    LET e == events[i]
    IN  IF e.type = "EVENT"
        THEN \E j \in Earlier(events, i) :
                /\ Announcing(events, j, i - 1)
                /\ events[j].node = e.node
                /\ i - j \in DOMAIN SealedMoments(events[j]) /\ e.what = SealedMoments(events[j])[i - j]
        ELSE \A j \in Earlier(events, i) :
                Announcing(events, j, i - 1) => i - 1 - j = Len(SealedMoments(events[j]))

\* The moments announced after a contract are those sealed for its outcome at
\* its node, in the sealed order, and the traversal goes on only when all were.
AnnouncementsAreSealed == \A i \in DOMAIN trace : AnnouncementsSealed(trace, i)

\* A traversal that has refused does nothing more: it runs no step and no
\* capability, announces nothing, takes no route, and is completed as refused.
NothingAfterRefusal ==
    \A i \in DOMAIN trace :
        /\ \A j \in Earlier(trace, i) : trace[j].type = "ERROR" =>
              \/ trace[i].type = "WF_ROUTE" /\ trace[i].then = None
              \/ trace[i].type = "WF_COMPLETE" /\ trace[i].what = "VIOLATION"
        /\ trace[i].type = "ERROR" =>
              \A k \in DOMAIN ran : ran[k].run = trace[i].run => ran[k].after < i

\* The caller's view and the trace agree: a run that raised has exactly one
\* ERROR that is not about a workflow run inside it, and one that returned has
\* none and ends with the completion of the outcome it returned.
FailureIsRecordedOnce ==
    LET errors == {i \in DOMAIN trace : trace[i].type = "ERROR" /\ trace[i].run <= 1}
    IN  /\ result = "raised" => Cardinality(errors) = 1
        /\ result \in Outcomes =>
              /\ errors = {}
              /\ Last(trace).type = "WF_COMPLETE"
              /\ Last(trace).run = 1
              /\ Last(trace).what = result

\* "Every run emits a trace, produced by the same traversal that produced the
\* effects": in a run that was not killed, the next thing recorded of a
\* traversal after it called a capability is that step or its failure, though
\* the call may have run whole workflows meanwhile.
EffectsAreRecorded ==
    result \in Outcomes \cup {"raised"} =>
        \A k \in DOMAIN ran : \E j \in (ran[k].after + 1)..Len(trace) :
            /\ trace[j].run = ran[k].run /\ trace[j].node = ran[k].node
            /\ trace[j].type \in {"CC_STEP", "ERROR"}
            /\ \A i \in (ran[k].after + 1)..(j - 1) : trace[i].run # ran[k].run

\* How a contract that started at position i of the trace completed, if it did:
\* one that does not is the last of its traversal.
Completion(i) ==
    LET after == {j \in (i + 1)..Len(trace) : trace[j].type = "CC_COMPLETE" /\ trace[j].run = trace[i].run}
    IN  IF after = {} THEN None ELSE trace[Min(after)].what

\* The examiner tells a completed run from a failed one, and its outcome and
\* ending are those of the run and not of a workflow run inside it.  At any
\* moment it shows for a contract that was started the one sealed for its node,
\* and how it completed itself, or nothing if it has not, unless its node was
\* visited again, by whatever traversal.
ReportAgrees ==
    /\ LET rows == ReportedContracts(trace)
       IN  \A k \in DOMAIN rows :
              /\ rows[k].contract = pkg.contract[rows[k].node]
              /\ (\A j \in DOMAIN rows \ {k} : rows[j].node # rows[k].node) =>
                    rows[k].result = Completion(Positions(trace, "CC_START")[k])
    /\ result \in Outcomes =>
          LET routes == {i \in DOMAIN trace : trace[i].type = "WF_ROUTE" /\ trace[i].run = 1}
          IN  /\ ReportedOutcome(trace) = result
              /\ ReportedEnding(trace) = trace[Max(routes)].then
    /\ result = "raised" => StructuralFailure(trace)

\* Every run ends: with an outcome, with an exception, or killed.
RunEnds == (stack # <<>> \/ raised # "none") ~> result # "none"

-----------------------------------------------------------------------------
(***************************************************************************)
(* What the documentation says and the code does not do.                   *)
(***************************************************************************)
\* evidence.py:70: "Whoever catches the exception further up must not record it
\* again".
RecordedOnce ==
    [][raised = "refusal" => Of(trace', "ERROR") = Of(trace, "ERROR")]_vars

\* ARCHITECTURE.md:203: "the path in the trace is a path present in the compiled
\* graph", for one who has the trace and the graph: what a traversal records first
\* after its WF_START is at the entry of the workflow that WF_START names.
PathIsOfTheNamed ==
    \A i \in DOMAIN trace :
        LET earlier == Earlier(trace, i)
        IN  (trace[i].node # None /\ \A j \in earlier : trace[j].type = "WF_START") =>
              \A j \in earlier : trace[i].node = pkg.entry[trace[j].what]

\* DiagnosticReport.outcome: "WF_COMPLETE's result, or None when the run never
\* completed", which is the run and not a workflow run inside it.
OutcomeIsOfTheRun ==
    result # "none" /\ (\A i \in DOMAIN trace : trace[i].type = "WF_COMPLETE" => trace[i].run # 1) =>
        ReportedOutcome(trace) = None

\* examine/__init__.py:7: "reports the path the run took, node by node, the
\* contracts it ran and their results": of a run that returned, the result shown
\* for a contract is how that contract completed.
ResultsAreTheirs ==
    result \in Outcomes =>
        LET rows == ReportedContracts(trace)
        IN  \A k \in DOMAIN rows : rows[k].result = Completion(Positions(trace, "CC_START")[k])
=============================================================================
