-------------------------- MODULE TransformReplay --------------------------
(***************************************************************************)
(* The transforms of a run and its replay.  A transform is a sealed stream *)
(* of atoms, molecules (streams of their own) and loops over either        *)
(* (ct_executor.py).  Every atom run leaves a record in the trace, with    *)
(* its result if the atom is not deterministic; a replay runs the same     *)
(* workflow on the same inputs with the results of those records           *)
(* (replay.py).                                                            *)
(*                                                                         *)
(* A run is the sequence of contracts it comes to and the transforms of    *)
(* each; the first input is the payload and each transform is given the    *)
(* output of the one before.  A refusal ends the run, as the workflows of  *)
(* these packages route it.  What capabilities do is left out.  A build    *)
(* runs single transforms with the same executor, as cases of its own      *)
(* (module Conformance).                                                   *)
(***************************************************************************)
EXTENDS Naturals, Sequences, SequencesExt

CONSTANTS
    Runs,          \* the runs: sequences of contracts with their transforms
    Transforms, Molecules,
    Body,          \* the atom_stream of each
    Emits,         \* the symbol its output is taken from
    Symbols, Values, Payload,
    Draws,         \* what an atom that is not deterministic may answer
    Answer(_, _),  \* what a deterministic atom answers to what it is given
    Members,       \* the members of a value that is a list
    Written(_),    \* what is read back of a value written to the trace
    None

Answers == Values \cup {"refusal", "fault"}

\* What a path of the IR may name, and the steps of a stream.
References == ({"inputs"} \X Nat) \cup ({"results"} \X Symbols) \cup {<<"iterator">>, <<"accumulator">>}

IsStep(step) ==
    /\ step.form \in {"atom", "molecule", "loop", "each"}
    /\ step.form \in {"molecule", "each"} => step.name \in Molecules
    /\ step.purity \in {"ct_pure", "ct_impure"}
    /\ step.form \in {"atom", "loop"} /\ step.purity = "ct_impure" => Draws[step.name] \subseteq Answers
    /\ step.out \in Symbols \cup {None}
    /\ step.args \in Seq(References)
    /\ {step.over, step.start} \subseteq References \cup {None}

IsSequence(s) == Len(s) \in Nat /\ DOMAIN s = 1..Len(s)

\* The results of a stream have names of their own.
NamedApart(stream) ==
    \A i, j \in DOMAIN stream : stream[i].out # None /\ stream[i].out = stream[j].out => i = j

\* A loop in progress: what it goes through, how many rounds it has begun and
\* ended, and what they have left.
Loops == [items : Seq(Values), n : Nat, accumulator : Values \cup {None}, last : Values \cup {None}]

ASSUME ReplayAssumption ==
    /\ \A s \in Transforms \cup Molecules :
          /\ IsSequence(Body[s]) /\ NamedApart(Body[s])
          /\ \A i \in DOMAIN Body[s] : IsStep(Body[s][i])
    /\ \A r \in Runs : IsSequence(r) /\ \A i \in DOMAIN r : r[i].pipeline \in Seq(Transforms)
    /\ Emits \in [Transforms \cup Molecules -> Symbols]
    /\ Members \in [Values -> Seq(Values) \cup {None}]
    /\ \A v \in Values : Written(v) \in Values /\ Written(Written(v)) = Written(v)
    /\ Payload \in Values
    /\ None \notin Values \cup Symbols \cup Loops
    /\ {"refusal", "fault"} \cap Values = {}
    /\ Symbols \cap Nat = {}

VARIABLES
    run,       \* the run
    phase,     \* whether it is the original, the replay or a case of a build
    at,        \* the contract and the transform it has come to
    carried,   \* the value the next transform is given
    stack,     \* the streams in progress, the innermost last
    trace,     \* the trace file
    done,      \* how it ended
    first,     \* the trace and the end of the original, once there is a replay
    recorded,  \* <<the results that stand for atoms>>, TraceWriter._replay or those of a case, or <<>>
    drawn      \* history: what atoms that are not deterministic answered, but in a replay

vars == <<run, phase, at, carried, stack, trace, done, first, recorded, drawn>>

Table(f, keys, values) == DOMAIN f \subseteq keys /\ \A key \in DOMAIN f : f[key] \in values

IsFrame(f) ==
    /\ f.stream \in Transforms \cup Molecules
    /\ f.idx \in 1..(Len(Body[f.stream]) + 1)
    /\ f.inputs \in Seq(Values)
    /\ Table(f.vars, Symbols, Values)
    /\ f.loop = None \/ f.loop \in Loops

TypeOK ==
    /\ phase \in {"original", "replay", "case"}
    /\ phase # "case" => run \in Runs
    /\ at.contract \in 1..(Len(run) + 1) /\ at.step \in Nat
    /\ carried \in Values
    /\ \A i \in DOMAIN stack : IsFrame(stack[i])
    /\ \A i \in DOMAIN trace : trace[i].type \in {"CC_START", "CT_STEP", "CC_STEP", "ERROR"}
    /\ done \in {"no", "SUCCESS", "VIOLATION", "raised", "killed", "unsupplied", "judged"}
    /\ \A i \in DOMAIN recorded : \A key \in DOMAIN recorded[i] : recorded[i][key] \in Values
    /\ \A i \in DOMAIN drawn : drawn[i].answer \in Answers

AtBegin ==
    /\ at = [contract |-> 1, step |-> 0]
    /\ carried = Payload
    /\ stack = <<>>
    /\ trace = <<>>
    /\ done = "no"

Init ==
    /\ run \in Runs
    /\ phase = "original"
    /\ AtBegin
    /\ first = None
    /\ recorded = <<>>
    /\ drawn = <<>>

-----------------------------------------------------------------------------
Contract == run[at.contract]
Transform == Contract.pipeline[at.step]

Event(type, what) == [type |-> type, cc |-> Contract.cc, what |-> what]

\* The contract is started, and its inputs written.
StartContract ==
    /\ done = "no" /\ stack = <<>>
    /\ at.contract <= Len(run) /\ at.step = 0
    /\ trace' = Append(trace, Event("CC_START", Written(carried)))
    /\ at' = [at EXCEPT !.step = 1]
    /\ UNCHANGED <<run, phase, carried, stack, done, first, recorded, drawn>>

EndContract ==
    /\ done = "no" /\ stack = <<>>
    /\ at.contract <= Len(run) /\ at.step = Len(Contract.pipeline) + 1
    /\ at' = [contract |-> at.contract + 1, step |-> 0]
    /\ UNCHANGED <<run, phase, carried, stack, trace, done, first, recorded, drawn>>

EndRun ==
    /\ done = "no" /\ stack = <<>>
    /\ at.contract = Len(run) + 1
    /\ done' = "SUCCESS"
    /\ UNCHANGED <<run, phase, at, carried, stack, trace, first, recorded, drawn>>

\* A transform begins, and so does every molecule, with inputs and results of its own.
Frame(stream, prefix, inputs) ==
    [stream |-> stream, idx |-> 1, prefix |-> prefix, inputs |-> inputs, vars |-> <<>>, loop |-> None]

StartTransform ==
    /\ done = "no" /\ stack = <<>>
    /\ at.contract <= Len(run) /\ at.step \in DOMAIN Contract.pipeline
    /\ stack' = <<Frame(Transform, <<>>, <<carried>>)>>
    /\ UNCHANGED <<run, phase, at, carried, trace, done, first, recorded, drawn>>

-----------------------------------------------------------------------------
Top == Last(stack)
AtStep == done = "no" /\ stack # <<>> /\ Top.idx <= Len(Body[Top.stream])
Step == Body[Top.stream][Top.idx]
SetTop(f) == stack' = Front(stack) \o <<f>>

\* The name of a step in a path.
Symbol == IF Step.out # None THEN <<Step.out>> ELSE <<Top.idx>>

\* What the paths of the context reach: the iterator and the accumulator only in a loop.
Reached ==
    {<<"inputs", i>> : i \in DOMAIN Top.inputs} \cup {<<"results", s>> : s \in DOMAIN Top.vars}
    \cup IF Top.loop = None THEN {}
         ELSE {<<"iterator">>}
              \cup (IF Top.loop.accumulator = None THEN {} ELSE {<<"accumulator">>})

Reach(ref) ==
    CASE ref[1] = "inputs" -> Top.inputs[ref[2]]
      [] ref[1] = "results" -> Top.vars[ref[2]]
      [] ref[1] = "iterator" -> Top.loop.items[Top.loop.n + 1]
      [] ref[1] = "accumulator" -> Top.loop.accumulator

Resolvable == \A i \in DOMAIN Step.args : Step.args[i] \in Reached
Given == [i \in DOMAIN Step.args |-> Reach(Step.args[i])]

Set(f, symbol, value) ==
    [s \in DOMAIN f.vars \cup ({symbol} \ {None}) |-> IF s = symbol THEN value ELSE f.vars[s]]
Onward(f, value) == [f EXCEPT !.vars = Set(f, Step.out, value), !.idx = @ + 1]

\* The events of a run; a case has the records of its atoms only.
Told(event) == trace' = IF phase = "case" THEN trace ELSE Append(trace, event)

\* The step refuses: a declared outcome, which ends the run; or it fails in a
\* way its declaration does not answer for, and nothing is routed.
Refuse ==
    /\ Told(Event("CC_STEP", "VIOLATION"))
    /\ stack' = <<>>
    /\ done' = "VIOLATION"

Error(reason) == [type |-> "ERROR", cc |-> Contract.cc, reason |-> reason]

Fault(reason) ==
    /\ Told(Error(reason))
    /\ stack' = <<>>
    /\ done' = "raised"

\* The reasons: a path that reaches nothing, the first of those of a step, and a
\* stream without its output.  What an atom raises goes by what it is given.
Unresolved(ref) == <<"unresolved", ref>>
FirstMissing == Step.args[Min({i \in DOMAIN Step.args : Step.args[i] \notin Reached})]
Raised == <<"raised", Step.name, Given>>
Unproduced == <<"unproduced", Emits[Top.stream]>>

Around == UNCHANGED <<run, phase, at, carried, first, recorded>>
Unrun == UNCHANGED drawn

\* Where an atom stands in a run: the key of its outcome.
Key(path) == <<Contract.cc, Transform, path>>

\* No result was recorded for an atom: a fault in a replay, which says so, and in
\* a case a refusal of its runner.
Unsupplied(path) ==
    IF phase = "case" THEN done' = "unsupplied" /\ stack' = <<>> /\ UNCHANGED trace
    ELSE Fault(<<"unrecorded", Key(path)>>)

\* An atom is run: what it may answer, and what is remembered of it.  One that
\* cannot be given its inputs is remembered to have failed: a recorded result
\* stands for an atom before its inputs are resolved.
Impure == Step.purity = "ct_impure"
Possible == IF Impure THEN Draws[Step.name] ELSE {Answer(Step.name, Given)}

Ran(path, answer) ==
    drawn' = IF Impure /\ phase # "replay"
             THEN Append(drawn, [key |-> Key(path), answer |-> answer])
             ELSE drawn

\* The failure of an atom.  That it was declared not to be deterministic is not in
\* the file.
Failing(reason) == IF Impure THEN <<"drawing", reason>> ELSE reason

-----------------------------------------------------------------------------
(***************************************************************************)
(* A step that is an atom.                                                 *)
(***************************************************************************)
Path == Append(Top.prefix, Symbol)

\* One record per atom run, with values only where they determine.
Record(path, value, replayed) ==
    [type |-> "CT_STEP", cc |-> Contract.cc, ct |-> Transform, path |-> path, atom |-> Step.name,
     purity |-> Step.purity, what |-> IF Impure THEN Written(value) ELSE None, replayed |-> replayed]

Observe(path, value, replayed) == trace' = Append(trace, Record(path, value, replayed))

\* Variant: an atom without a recorded result is run.
SubstitutedIfRecorded == recorded # <<>> /\ Impure /\ Key(Path) \in DOMAIN recorded[1]

Substituted == recorded # <<>> /\ Impure

RunAtom ==
    /\ AtStep /\ Step.form = "atom"
    /\ ~Substituted
    /\ Around
    /\ \/ ~Resolvable /\ Fault(Failing(Unresolved(FirstMissing))) /\ Ran(Path, "fault")
       \/ /\ Resolvable
          /\ \E answer \in Possible :
                /\ Ran(Path, answer)
                /\ \/ answer = "refusal" /\ Refuse
                   \/ answer = "fault" /\ Fault(Failing(Raised))
                   \/ /\ answer \in Values
                      /\ SetTop(Onward(Top, answer))
                      /\ Observe(Path, answer, "no")
                      /\ UNCHANGED done

\* Variant: what is not run leaves no record.
SubstituteQuietly ==
    /\ AtStep /\ Step.form = "atom"
    /\ Substituted
    /\ Around /\ Unrun
    /\ \/ Key(Path) \notin DOMAIN recorded[1] /\ Unsupplied(Path)
       \/ /\ Key(Path) \in DOMAIN recorded[1]
          /\ SetTop(Onward(Top, recorded[1][Key(Path)]))
          /\ UNCHANGED <<trace, done>>

\* The recorded result stands for the atom, which is not run if there is none.
Substitute ==
    /\ AtStep /\ Step.form = "atom"
    /\ Substituted
    /\ Around /\ Unrun
    /\ \/ Key(Path) \notin DOMAIN recorded[1] /\ Unsupplied(Path)
       \/ /\ Key(Path) \in DOMAIN recorded[1]
          /\ SetTop(Onward(Top, recorded[1][Key(Path)]))
          /\ Observe(Path, recorded[1][Key(Path)], "yes")
          /\ UNCHANGED done

-----------------------------------------------------------------------------
(***************************************************************************)
(* A molecule, and a loop: of an atom, or of a molecule.                   *)
(***************************************************************************)
EnterMolecule ==
    /\ AtStep /\ Step.form = "molecule"
    /\ Around /\ Unrun
    /\ \/ ~Resolvable /\ Fault(Unresolved(FirstMissing))
       \/ /\ Resolvable
          /\ stack' = Append(stack, Frame(Step.name, Path, Given))
          /\ UNCHANGED <<trace, done>>

Looping == AtStep /\ Step.form \in {"loop", "each"}

Optional == Reached \cup {None}
Collection == IF Step.over = None THEN <<>> ELSE Members[Reach(Step.over)]

\* The collection is resolved first, then the initial accumulator.
BeginLoop ==
    /\ Looping /\ Top.loop = None
    /\ Around /\ Unrun
    /\ \/ Step.over \notin Optional /\ Fault(Unresolved(Step.over))
       \/ Step.over \in Optional /\ Collection = None /\ Refuse
       \/ /\ Step.over \in Optional /\ Collection # None /\ Step.start \notin Optional
          /\ Fault(Unresolved(Step.start))
       \/ /\ Step.over \in Optional /\ Collection # None /\ Step.start \in Optional
          /\ SetTop([Top EXCEPT !.loop =
                [items |-> Collection, n |-> 0, last |-> None,
                 accumulator |-> IF Step.start = None THEN None ELSE Reach(Step.start)]])
          /\ UNCHANGED <<trace, done>>

Round == Looping /\ Top.loop # None /\ Top.loop.n < Len(Top.loop.items)

\* What a round leaves: the result, also in the accumulator if there is one.
NextRound(f, value) ==
    [f EXCEPT !.loop.n = @ + 1, !.loop.last = value,
              !.loop.accumulator = IF @ = None THEN None ELSE value]

\* An atom in a loop is run with neither a path, nor an observer, nor what was
\* recorded, also in a replay.
LoopAtom ==
    /\ Round /\ Step.form = "loop"
    /\ Around
    /\ \/ ~Resolvable /\ Fault(Unresolved(FirstMissing)) /\ Unrun
       \/ /\ Resolvable
          /\ \E answer \in Possible :
                /\ Ran(None, answer)
                /\ \/ answer = "refusal" /\ Refuse
                   \/ answer = "fault" /\ Fault(Failing(Raised))
                   \/ /\ answer \in Values
                      /\ SetTop(NextRound(Top, answer))
                      /\ UNCHANGED <<trace, done>>

\* Variant: every round has the path of the loop.
RoundPathOfLoop == Path

\* A round of a molecule has its number in the path.
RoundPath == Append(Top.prefix, Symbol \o <<Top.loop.n>>)

LoopMolecule ==
    /\ Round /\ Step.form = "each"
    /\ Around /\ Unrun
    /\ \/ ~Resolvable /\ Fault(Unresolved(FirstMissing))
       \/ /\ Resolvable
          /\ stack' = Append(stack, Frame(Step.name, RoundPath, Given))
          /\ UNCHANGED <<trace, done>>

\* Variant: a loop without a round has a result as well.
EndLoopAlways ==
    /\ Looping /\ Top.loop # None /\ Top.loop.n = Len(Top.loop.items)
    /\ Around /\ Unrun
    /\ SetTop([Onward(Top, Top.loop.last) EXCEPT !.loop = None])
    /\ UNCHANGED <<trace, done>>

\* The last result, if there was a round, is the result of the loop.
EndLoop ==
    /\ Looping /\ Top.loop # None /\ Top.loop.n = Len(Top.loop.items)
    /\ Around /\ Unrun
    /\ SetTop([Top EXCEPT !.vars = IF Top.loop.last = None THEN @ ELSE Set(Top, Step.out, Top.loop.last),
                          !.idx = @ + 1, !.loop = None])
    /\ UNCHANGED <<trace, done>>

-----------------------------------------------------------------------------
(***************************************************************************)
(* The end of a stream.                                                    *)
(***************************************************************************)
AtEnd == done = "no" /\ stack # <<>> /\ Top.idx = Len(Body[Top.stream]) + 1
Produced == Emits[Top.stream] \in DOMAIN Top.vars
Output == Top.vars[Emits[Top.stream]]

\* A molecule emits one value into the stream, or the round, it was entered from.
EmitMolecule ==
    /\ AtEnd /\ Len(stack) > 1
    /\ Around /\ Unrun
    /\ \/ ~Produced /\ Fault(Unproduced)
       \/ /\ Produced
          /\ LET caller == stack[Len(stack) - 1]
                 step == Body[caller.stream][caller.idx]
                 resumed == IF step.form = "each" THEN NextRound(caller, Output)
                            ELSE [caller EXCEPT !.vars = Set(caller, step.out, Output), !.idx = @ + 1]
             IN  stack' = Front(Front(stack)) \o <<resumed>>
          /\ UNCHANGED <<trace, done>>

EndTransform ==
    /\ AtEnd /\ Len(stack) = 1 /\ phase # "case"
    /\ Unrun
    /\ UNCHANGED <<run, phase, first, recorded>>
    /\ \/ ~Produced /\ Fault(Unproduced) /\ UNCHANGED <<at, carried>>
       \/ /\ Produced
          /\ trace' = Append(trace, Event("CC_STEP", "SUCCESS"))
          /\ stack' = <<>>
          /\ carried' = Output
          /\ at' = [at EXCEPT !.step = @ + 1]
          /\ UNCHANGED done

Kill ==
    /\ done = "no" /\ phase = "original"
    /\ done' = "killed"
    /\ stack' = <<>>
    /\ UNCHANGED <<run, phase, at, carried, trace, first, recorded, drawn>>

-----------------------------------------------------------------------------
(***************************************************************************)
(* The replay.                                                             *)
(***************************************************************************)
\* Every recorded outcome by contract, transform and path; of several the last.
Outcomes(events) ==
    {i \in DOMAIN events : events[i].type = "CT_STEP" /\ events[i].purity = "ct_impure"}
KeyOf(e) == <<e.cc, e.ct, e.path>>

RecordedOutcomes(events) ==
    [key \in {KeyOf(events[i]) : i \in Outcomes(events)} |->
        events[Max({i \in Outcomes(events) : KeyOf(events[i]) = key})].what]

\* The same workflow is run again on the same inputs.
Replay ==
    /\ phase = "original" /\ done # "no"
    /\ phase' = "replay"
    /\ first' = [trace |-> trace, done |-> done]
    /\ recorded' = <<RecordedOutcomes(trace)>>
    /\ at' = [contract |-> 1, step |-> 0]
    /\ carried' = Payload
    /\ stack' = <<>>
    /\ trace' = <<>>
    /\ done' = "no"
    /\ UNCHANGED <<run, drawn>>

ContractStep == StartContract \/ StartTransform \/ EndTransform \/ EndContract \/ EndRun

StreamStep ==
    \/ RunAtom \/ Substitute \/ EnterMolecule \/ EmitMolecule
    \/ BeginLoop \/ LoopAtom \/ LoopMolecule \/ EndLoop

Next == ContractStep \/ StreamStep \/ Kill \/ Replay

Spec == Init /\ [][Next]_vars

-----------------------------------------------------------------------------
\* The records of one execution of a transform have paths of their own, at any
\* depth of molecules and in every round of a loop: the key under which an
\* outcome is kept names one atom run there.
PathsAreDistinct ==
    \A i, j \in DOMAIN trace :
        i < j /\ trace[i].type = "CT_STEP" /\ trace[j].type = "CT_STEP" =>
            \/ trace[i].path # trace[j].path
            \/ \E k \in i..j : trace[k].type # "CT_STEP"

\* The original can be reproduced: every atom that is not deterministic was run
\* where it is observed, failed or gave a result that reads back as it was
\* written (it did not refuse), and no two share a key.
Reproducible ==
    /\ \A i \in DOMAIN drawn :
          /\ drawn[i].key[3] # None
          /\ drawn[i].answer # "refusal"
          /\ drawn[i].answer \in Values => Written(drawn[i].answer) = drawn[i].answer
    /\ \A i, j \in DOMAIN drawn : drawn[i].key = drawn[j].key => i = j

\* replay.compare: the events but for the mark of what was replayed.
Determinative(events) ==
    [i \in DOMAIN events |->
        IF events[i].type = "CT_STEP" THEN [events[i] EXCEPT !.replayed = "no"] ELSE events[i]]

Agreement(original, replayed) ==
    IF first.done = "killed"
    THEN IsPrefix(original, replayed) \/ IsPrefix(replayed, original)
    ELSE /\ IsPrefix(replayed, original)
         /\ done # "no" => replayed = original /\ done = first.done

Agrees == Agreement(Determinative(first.trace), Determinative(trace))

\* What a replay can have in common with the failure of an atom it does not run:
\* that there was one, there.
Reasoned(reason) == IF reason[1] \in {"drawing", "unrecorded"} THEN None ELSE reason

Reproduced(events) ==
    LET kept == Determinative(events)
    IN  [i \in DOMAIN kept |->
            IF kept[i].type = "ERROR" THEN [kept[i] EXCEPT !.reason = Reasoned(@)] ELSE kept[i]]

\* replay.py:8: the trace of a replay must "agree with the original in
\* everything the trace declares determinative".  The replay follows a
\* reproducible original event by event, and ends where and as it ended; of an
\* original that was killed it follows what there is.  The reasons agree as well,
\* but not that of an atom that is not deterministic (FailureIsReproduced).
ReplayAgrees ==
    phase = "replay" /\ Reproducible => Agreement(Reproduced(first.trace), Reproduced(trace))

\* ct_executor.py:92: in a replay "an atom declared not deterministic is never
\* run, and its recorded result for the same path is used instead"; a path with
\* none "is refused rather than run, because running it would make the replay a
\* new execution".  Every result in the trace of a replay is one the original
\* recorded for the same contract, transform and path, also of an original that
\* refused, failed or was killed before it came there, and also when one of
\* several was replaced by a later one.
ResultsAreRecorded ==
    phase = "replay" =>
        \A i \in Outcomes(trace) : \E j \in Outcomes(first.trace) :
            KeyOf(trace[i]) = KeyOf(first.trace[j]) /\ trace[i].what = first.trace[j].what

-----------------------------------------------------------------------------
\* README.md:123: "replay substitutes the recorded result, so a run is
\* reproducible even when a step is not".
AlwaysAgrees == phase = "replay" => Agrees

\* replay.py:8: "Its trace must then agree with the original in everything the
\* trace declares determinative", the reason of a failure included.
FailureIsReproduced == phase = "replay" /\ Reproducible => Agrees

\* README.md:121: "A non-deterministic atom's result is recorded where it is
\* produced".
ResultsAreKept ==
    phase = "original" =>
        \A i \in DOMAIN drawn : drawn[i].answer \in Values =>
            \E j \in Outcomes(trace) : KeyOf(trace[j]) = drawn[i].key
=============================================================================
