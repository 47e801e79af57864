---------------------------- MODULE ContractData ----------------------------
(***************************************************************************)
(* What the contracts of a run and their steps are given.  A workflow      *)
(* binds the inputs of each contract to its payload and to the surfaces of *)
(* contracts it came from (memory.ExecutionContext), a contract binds the  *)
(* inputs of each step to its own and to the results of earlier steps, and *)
(* maps the result of a step to names of its surface (dispatcher.py).  A   *)
(* capability may run a workflow of the package, whose surface is then its *)
(* result (module Traversal has what else the two may do to each other).   *)
(*                                                                         *)
(* A value is the sequence of its origins, one unless a binding put a list *)
(* together: the event of the step that made it, or 0 for what was there   *)
(* before the run.  A value present as null is a value.  A name is a path: *)
(* the raw result of a step is found under names of its own.  Left out:    *)
(* admission gates, which bind nothing, mappings in a binding, and what a  *)
(* capability does with an exception: a refusal ends the run.              *)
(***************************************************************************)
EXTENDS Naturals, Sequences, SequencesExt

CONSTANTS
    Packages, Workflows, Nodes, Contracts,
    Steps,     \* the names of steps
    Names,     \* the names of fields
    Internal,  \* the names that stay inside a contract
    Outcomes,
    Payload,   \* the names of the payload
    MaxHops,   \* scheduler._MAX_HOPS
    None

\* Where a field of the raw result of a step is addressed.
Raw(name) == <<"capability_result">> \o name

\* A path of a result, in an input or an output; what else an input may be, one
\* or a list of them; and what else an output may be.
IsPath(b) ==
    \/ b.from \in {"sealed", "malformed"}
    \/ /\ b.from = "results"
       /\ b.of \in Contracts \cup Steps
       /\ b.name \in Names \cup {Raw(name) : name \in Names}

IsSequence(s) == Len(s) \in Nat /\ DOMAIN s = 1..Len(s)

IsPart(b) == IsPath(b) \/ (b.from = "inputs" /\ b.name \in Names)
IsInput(b) ==
    IF b.from = "list" THEN IsSequence(b.parts) /\ \A i \in DOMAIN b.parts : IsPart(b.parts[i])
    ELSE IsPart(b)
IsOutput(b) == IsPath(b) \/ b.from = "outcome" \/ (b.from = "result" /\ b.name \in Names)

IsStep(step) ==
    /\ step.name \in Steps
    /\ step.calls \in Workflows \cup {None}
    /\ step.makes \subseteq Names
    /\ DOMAIN step.inputs \cup DOMAIN step.outputs \subseteq Names
    /\ \A x \in DOMAIN step.inputs : IsInput(step.inputs[x])
    /\ \A x \in DOMAIN step.outputs : IsOutput(step.outputs[x])
    /\ DOMAIN step.on \subseteq Outcomes /\ \A o \in DOMAIN step.on : step.on[o] \in {"continue", "exit"}

ASSUME DataAssumption ==
    /\ \A p \in Packages :
          /\ p.entry \in [Workflows -> Nodes]
          /\ p.contract \in [Nodes -> Contracts]
          /\ \A c \in Contracts :
                /\ IsSequence(p.pipeline[c])
                /\ \A i \in DOMAIN p.pipeline[c] : IsStep(p.pipeline[c][i])
          /\ \A n \in Nodes :
                /\ DOMAIN p.bindings[n] \subseteq Names
                /\ \A x \in DOMAIN p.bindings[n] : IsInput(p.bindings[n][x])
                /\ DOMAIN p.routing[n] \subseteq Outcomes
                /\ \A o \in DOMAIN p.routing[n] : p.routing[n][o] \in Nodes \cup {None}
    /\ "SUCCESS" \in Outcomes
    /\ MaxHops \in Nat
    /\ Names \subseteq Seq(STRING) /\ Payload \subseteq Names /\ Internal \subseteq Names
    /\ None \notin Nodes \cup Workflows

VARIABLES
    pkg,     \* the package
    stack,   \* the workflows in progress, the innermost last
    trace,   \* the trace, and with each step what it was given and what it gave
    result   \* how the run ended

vars == <<pkg, stack, trace, result>>

Top == Last(stack)
SetTop(f) == stack' = Front(stack) \o <<f>>
Pipeline == pkg.pipeline[pkg.contract[Top.node]]
Step == Pipeline[Top.step]

At(place) == stack # <<>> /\ Top.place = place
AtStep == At("steps") /\ Top.step <= Len(Pipeline)

\* Tables: the entries of f, and where it has none those of g.
Over(f, g) == [x \in DOMAIN f \cup DOMAIN g |-> IF x \in DOMAIN f THEN f[x] ELSE g[x]]
Put(f, key, value) == [x \in DOMAIN f \cup {key} |-> IF x = key THEN value ELSE f[x]]
Empty == [x \in {} |-> x]

\* An event of the workflow that began with event `run`, and of the contract
\* that began with event `visit`.
Event(type, f, given, made) ==
    [type |-> type, run |-> f.run, visit |-> f.visit, node |-> f.node, step |-> f.step,
     given |-> given, made |-> made, outcome |-> f.outcome, raw |-> Empty, called |-> 0]

-----------------------------------------------------------------------------
(***************************************************************************)
(* Bindings.                                                               *)
(***************************************************************************)
From(table, name) == IF name \in DOMAIN table THEN table[name] ELSE None

\* The value of one path, or None if its source is not there.
Source(b, inputs, results) ==
    CASE b.from = "sealed" -> <<[by |-> 0, name |-> <<"sealed">>]>>
      [] b.from = "inputs" -> From(inputs, b.name)
      [] b.from = "results" -> IF b.of \in DOMAIN results THEN From(results[b.of], b.name) ELSE None
      [] OTHER -> None

Parts(b) == IF b.from = "list" THEN b.parts ELSE <<b>>

Value(b, inputs, results) ==
    LET found == [i \in DOMAIN Parts(b) |-> Source(Parts(b)[i], inputs, results)]
    IN  IF \E i \in DOMAIN found : found[i] = None THEN None ELSE FlattenSeq(found)

Malformed(b) == \E i \in DOMAIN Parts(b) : Parts(b)[i].from = "malformed"
NotRun(b, results) ==
    \E i \in DOMAIN Parts(b) : Parts(b)[i].from = "results" /\ Parts(b)[i].of \notin DOMAIN results

\* A list with a member that is not there would move the others.
Refused(b, inputs, results) ==
    Malformed(b) \/ (b.from = "list" /\ Value(b, inputs, results) = None)

\* A source that is not there is left out, never given as null.
Bound(bindings, inputs, results) ==
    [x \in {x \in DOMAIN bindings : Value(bindings[x], inputs, results) # None} |->
        Value(bindings[x], inputs, results)]

-----------------------------------------------------------------------------
(***************************************************************************)
(* The workflow (scheduler.run_wf).                                        *)
(***************************************************************************)
\* A workflow begins with a context of its own.
Begun(workflow, payload, run) ==
    [run |-> run, node |-> pkg.entry[workflow], payload |-> payload, results |-> Empty, hops |-> 0,
     place |-> "node", visit |-> 0, given |-> Empty, step |-> 0, steps |-> Empty,
     surface |-> Empty, outcome |-> "SUCCESS", answer |-> None]

Refuse ==
    /\ stack' = <<>>
    /\ result' = "refused"
    /\ UNCHANGED <<pkg, trace>>

Init ==
    /\ pkg \in Packages
    /\ LET payload == [name \in Payload |-> <<[by |-> 0, name |-> name]>>]
       IN  \E w \in Workflows :
              /\ stack = <<Begun(w, payload, 1)>>
              /\ trace = <<Event("WF_START", Begun(w, payload, 1), Empty, payload)>>
    /\ result = "none"

Bindings == pkg.bindings[Top.node]
Bindable == \A x \in DOMAIN Bindings : ~Refused(Bindings[x], Top.payload, Top.results)

\* A contract begins with what its node binds and with nothing else.
Visit ==
    /\ LET begun == [Top EXCEPT !.hops = @ + 1, !.place = "steps", !.visit = Len(trace) + 1,
                                !.given = Bound(Bindings, Top.payload, Top.results), !.step = 1,
                                !.steps = Empty, !.surface = Empty, !.outcome = "SUCCESS"]
       IN  /\ SetTop(begun)
           /\ trace' = Append(trace, Event("CC_START", begun, begun.given, Empty))
    /\ UNCHANGED <<pkg, result>>

\* Variant: the number of hops is not limited.
BindUnlimited == At("node") /\ Bindable /\ Visit

BindContract == At("node") /\ Top.hops < MaxHops /\ Bindable /\ Visit

RefuseContract == At("node") /\ (Top.hops = MaxHops \/ ~Bindable) /\ Refuse

-----------------------------------------------------------------------------
(***************************************************************************)
(* The steps of a contract (dispatcher.execute_cc).                        *)
(***************************************************************************)
StepBindable ==
    \A x \in DOMAIN Step.inputs :
        ~Refused(Step.inputs[x], Top.given, Top.steps) /\ ~NotRun(Step.inputs[x], Top.steps)

StepGiven == Bound(Step.inputs, Top.given, Top.steps)

\* Variant: a result is mapped however the step ended.
MappedAlways(b, outcome, raw) ==
    CASE b.from = "outcome" -> <<[by |-> 0, name |-> <<outcome>>]>>
      [] b.from = "result" -> From(raw, b.name)
      [] OTHER -> Source(b, Empty, Top.steps)

\* A result is mapped only when the step succeeded; its outcome, what is sealed
\* and a field of an earlier step are mapped in any case.
Mapped(b, outcome, raw) ==
    CASE b.from = "outcome" -> <<[by |-> 0, name |-> <<outcome>>]>>
      [] b.from = "result" -> IF outcome = "SUCCESS" THEN From(raw, b.name) ELSE None
      [] OTHER -> Source(b, Empty, Top.steps)

Fragment(outcome, raw) ==
    [x \in {x \in DOMAIN Step.outputs : Mapped(Step.outputs[x], outcome, raw) # None} |->
        Mapped(Step.outputs[x], outcome, raw)]

\* A successful result must have every field that is mapped from it.
Mappable(outcome, raw) ==
    \A x \in DOMAIN Step.outputs :
        LET b == Step.outputs[x]
        IN  /\ ~Malformed(b) /\ ~NotRun(b, Top.steps)
            /\ b.from = "result" /\ outcome = "SUCCESS" => b.name \in DOMAIN raw

\* The fragment and the raw result, as later steps address them.
Kept(fragment, raw) ==
    Over(fragment, [path \in {Raw(name) : name \in DOMAIN raw} |-> raw[Tail(path)]])

\* The outcome is recorded with the fragment, and then asked for its
\* continuation; if it has none the run is refused.
EndStep(outcome, raw, called) ==
    IF ~Mappable(outcome, raw) THEN Refuse
    ELSE
        /\ trace' = Append(trace, [Event("CC_STEP", Top, StepGiven, Fragment(outcome, raw))
                                      EXCEPT !.outcome = outcome, !.raw = raw, !.called = called])
        /\ UNCHANGED pkg
        /\ \/ /\ outcome \notin DOMAIN Step.on
              /\ stack' = <<>> /\ result' = "refused"
           \/ /\ outcome \in DOMAIN Step.on
              /\ SetTop([Top EXCEPT
                     !.steps = Put(@, Step.name, Kept(Fragment(outcome, raw), raw)),
                     !.surface = Over(Fragment(outcome, raw), @),
                     !.outcome = outcome, !.answer = None,
                     !.step = IF Step.on[outcome] = "exit" THEN Len(Pipeline) + 1 ELSE @ + 1])
              /\ UNCHANGED result

\* A transform or a capability answers with an outcome and some of its fields.
RunStep ==
    /\ AtStep /\ Step.calls = None /\ StepBindable
    /\ \E outcome \in Outcomes : \E fields \in SUBSET Step.makes :
          EndStep(outcome, [name \in fields |-> <<[by |-> Len(trace) + 1, name |-> name]>>], 0)

\* The inputs do not resolve, or the step fails in a way nothing is routed on.
FailStep == AtStep /\ Refuse

\* A capability runs a workflow on what it was given.
RunWorkflow ==
    /\ AtStep /\ Step.calls # None /\ Top.answer = None /\ StepBindable
    /\ LET begun == Begun(Step.calls, StepGiven, Len(trace) + 1)
       IN  /\ stack' = Append(stack, begun)
           /\ trace' = Append(trace, Event("WF_START", begun, Empty, StepGiven))
    /\ UNCHANGED <<pkg, result>>

\* It answers with the outcome and the surface of that workflow.
AnswerOfWorkflow ==
    /\ AtStep /\ Top.answer # None
    /\ EndStep(Top.answer.outcome, Top.answer.surface, Top.answer.run)

\* An input no step has put on the surface is passed on, unless it is internal.
Surface == Over(Top.surface, [x \in DOMAIN Top.given \ Internal |-> Top.given[x]])

\* The surface is recorded for contracts further on, and the workflow goes where
\* the outcome is routed from this node.
Complete(results) ==
    LET routing == pkg.routing[Top.node]
        ended == [Top EXCEPT !.surface = Surface, !.results = results, !.place = "node"]
    IN  /\ At("steps") /\ Top.step > Len(Pipeline)
        /\ trace' = Append(trace, Event("CC_COMPLETE", Top, Empty, Surface))
        /\ UNCHANGED pkg
        /\ \/ /\ Top.outcome \notin DOMAIN routing
              /\ stack' = <<>> /\ result' = "refused"
           \/ /\ Top.outcome \in DOMAIN routing /\ routing[Top.outcome] # None
              /\ SetTop([ended EXCEPT !.node = routing[Top.outcome]])
              /\ UNCHANGED result
           \/ /\ Top.outcome \in DOMAIN routing /\ routing[Top.outcome] = None
              /\ IF Len(stack) = 1 THEN stack' = <<>> /\ result' = Top.outcome
                 ELSE /\ stack' = Front(Front(stack)) \o
                          <<[Last(Front(stack)) EXCEPT !.answer =
                                [outcome |-> Top.outcome, surface |-> Surface, run |-> Top.run]]>>
                      /\ UNCHANGED result

\* Variant: the first surface of a contract is kept.
CompleteContractOnce == Complete(Over(Top.results, Put(Empty, pkg.contract[Top.node], Surface)))

CompleteContract == Complete(Put(Top.results, pkg.contract[Top.node], Surface))

Next ==
    \/ BindContract \/ RefuseContract \/ RunStep \/ FailStep \/ RunWorkflow \/ AnswerOfWorkflow
    \/ CompleteContract

Spec == Init /\ [][Next]_vars

-----------------------------------------------------------------------------
IsValue(v) ==
    \A i \in DOMAIN v :
        /\ v[i].by \in 0..Len(trace)
        /\ v[i].name \in Names \cup {<<"sealed">>} \cup {<<o>> : o \in Outcomes}
IsRecord(f, keys) == DOMAIN f \subseteq keys /\ \A x \in DOMAIN f : IsValue(f[x])

TypeOK ==
    /\ pkg \in Packages
    /\ result \in Outcomes \cup {"none", "refused"}
    /\ \A i \in DOMAIN stack :
          /\ stack[i].node \in Nodes /\ stack[i].hops \in 0..MaxHops
          /\ stack[i].place \in {"node", "steps"}
          /\ IsRecord(stack[i].payload, Names) /\ IsRecord(stack[i].given, Names)
          /\ IsRecord(stack[i].surface, Names)
          /\ \A c \in DOMAIN stack[i].results : IsRecord(stack[i].results[c], Names)
          /\ \A s \in DOMAIN stack[i].steps :
                IsRecord(stack[i].steps[s], Names \cup {Raw(name) : name \in Names})

\* What the first n events say: the surface of each contract when it last
\* completed in a workflow, and the results of the steps of one visit.
Latest(t, events) == t[Max(events)]

Completed(t, n, run) == {k \in 1..n : t[k].type = "CC_COMPLETE" /\ t[k].run = run}
Completions(t, n, run, contract) ==
    {k \in Completed(t, n, run) : pkg.contract[t[k].node] = contract}

Surfaces(t, n, run) ==
    [contract \in {c \in Contracts : Completions(t, n, run, c) # {}} |->
        Latest(t, Completions(t, n, run, contract)).made]

StepOf(e) == pkg.pipeline[pkg.contract[e.node]][e.step]
StepsOf(t, n, visit) == {k \in 1..n : t[k].type = "CC_STEP" /\ t[k].visit = visit}
RunsOf(t, n, visit, name) == {k \in StepsOf(t, n, visit) : StepOf(t[k]).name = name}
MadeBy(t, n, visit, name) == {k \in StepsOf(t, n, visit) : name \in DOMAIN t[k].made}

Results(t, n, visit) ==
    [name \in {StepOf(t[k]).name : k \in StepsOf(t, n, visit)} |->
        LET last == Latest(t, RunsOf(t, n, visit, name)) IN Kept(last.made, last.raw)]

Accounted(t, i) ==
    LET e == t[i]
        n == i - 1
    IN  CASE e.type = "CC_START" ->
                e.given = Bound(pkg.bindings[e.node], t[e.run].made, Surfaces(t, n, e.run))
          [] e.type = "CC_STEP" ->
                /\ e.given = Bound(StepOf(e).inputs, t[e.visit].given, Results(t, n, e.visit))
                /\ e.called # 0 =>
                      /\ t[e.called].made = e.given
                      /\ e.raw = Latest(t, Completed(t, n, e.called)).made
          [] e.type = "CC_COMPLETE" ->
                LET by(x) == MadeBy(t, n, e.visit, x)
                    given == t[e.visit].given
                IN  /\ DOMAIN e.made = {x \in Names : by(x) # {} \/ x \in DOMAIN given \ Internal}
                    /\ \A x \in DOMAIN e.made :
                          e.made[x] = IF by(x) # {} THEN Latest(t, by(x)).made[x] ELSE given[x]
          [] OTHER -> TRUE

\* memory.py:40: "Store a CC's output surface for downstream bindings".  Every
\* contract was given what its node binds of the payload of its own workflow and
\* of the surfaces its contracts last completed with in it; every step what it
\* binds of the inputs of its contract and of the steps of the same visit; a
\* workflow run inside a step what that step was given, and the step its
\* surface; and a contract ends with what its steps mapped, the later before the
\* earlier, and with its other inputs, and nothing internal.  However often a
\* contract is come to again, also by a workflow that runs inside another.
\* The trace only grows: what holds of its last event at any time holds of all.
AccountedFor == Accounted(trace, Len(trace))

\* dispatcher.py:617: "Any other outcome maps nothing from the result".  What a
\* step that did not succeed made reaches no contract, no workflow and no caller
\* unless a later step of its contract takes it from the raw result by name.
TakenByName(e, name) ==
    \E j \in (e.step + 1)..Len(pkg.pipeline[pkg.contract[e.node]]) :
        LET later == pkg.pipeline[pkg.contract[e.node]][j]
            taken(b) == b.from = "results" /\ b.of = StepOf(e).name /\ b.name = Raw(name)
            takes(b) == \E i \in DOMAIN Parts(b) : taken(Parts(b)[i])
        IN  (\E x \in DOMAIN later.inputs : takes(later.inputs[x]))
            \/ (\E x \in DOMAIN later.outputs : takes(later.outputs[x]))

NothingOfARefusal ==
    LET e == Last(trace)
        shown == IF e.type = "CC_START" THEN e.given ELSE e.made
    IN  e.type # "CC_STEP" =>
            \A x \in DOMAIN shown : \A k \in DOMAIN shown[x] :
                LET o == shown[x][k]
                IN  o.by = 0 \/ trace[o.by].outcome = "SUCCESS" \/ TakenByName(trace[o.by], o.name)
=============================================================================
