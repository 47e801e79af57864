# protocol_runtime in TLA+

This directory is the verification project of `protocol_runtime`, the execution engine of
Protocol-Governed Computing. It holds TLA+ modules translated from the Python source under `src/`,
TLC configurations that check them on small instances, and theorems with proofs that TLAPS checks
for every value of the constants. `PROJECT.json` is the machine-readable index: which definition
models which lines, which run checks which property, which change of a definition each property
would notice.

## The system

A *snapshot* is a sealed composition of workflows. The runtime boots it once, verifies it, and runs
workflows from it; every run leaves a trace. A snapshot also says *where* workflows run: in the
calling process, on a pool of processes of one host (`LOCAL_MULTI_WORKER`), or on a group of nodes
that share a store (`FEDERATED_NODE`).

| component | source | state it keeps | operations |
|---|---|---|---|
| federated store | `federation/store.py` | one file per unit in `queue/`, `claims/`, `outcomes/` | enqueue, list, claim, record and read an outcome |
| federated coordinator | `federation/coordinator.py` | its snapshot identity; one thread per request | submit (admit a unit or refuse it), status, health |
| federated worker | `federation/worker.py` | its snapshot identity, the listing it goes through, the unit in hand | start, list, check, claim, run, record |
| boundary client | `federation/client.py`, `api.invoke_workflow` | the unit it waits for | submit, wait, tell the caller |
| local coordinator | `coordinator.py` | a pool of processes and one future per unit; claims in the store | dispatch, claim, run, collect |
| workflow traversal | `scheduler.py`, `dispatcher.py` | place in the graph, results so far, hops | admit, run a contract's steps, announce, route, refuse |
| evidence | `evidence.py` | the trace file of a run | one event per thing that happens |
| run entry and residence | `api.run_workflow`, `api.resident`, `boot.py` | up to four booted snapshots under a lock | boot, keep, run, record an escape |
| transform execution, replay | `ct_execute.py`, `ct_executor.py`, `replay.py` | none beyond a run; recorded outcomes | run atoms and molecules, substitute recorded results |
| bindings | `memory.py`, `dispatcher._resolve_value`, `_apply_outputs` | the payload and contract surfaces of one workflow, the step results of one visit of a contract | bind inputs, map results, merge and record a surface |
| loader | `loader.py` | frozen package of one domain | read the sealed tables |
| examination | `examine/` | none | read a trace and report it |
| conformance | `conformance.py` | the results of the cases of one build | run a case, judge it, tell the build |
| command line, drawing, release script | `cli.py`, `trace_viz.py`, `scripts/` | none | parse arguments, print, draw |

How they interact: a boundary calls the coordinator over HTTP; the coordinator and the workers meet
only in the store; a worker (of either kind) calls `run_workflow`, which drives the scheduler, which
drives the dispatcher, which calls capabilities, which may call the scheduler again through a closure
(`_make_workflow_executor`); all of them write the one trace of the run, which the examiner and the
replay read afterwards.

What is hard: processes that race for units with nothing but the file system between them; parties
lost between two writes; connections lost between sending and hearing; three directories read one
after the other while a unit moves through them; snapshots rebuilt under running processes; failures
inside runs inside runs, each recorded by somebody.

## What makes each component correct

- **federated node group.** An admitted unit runs at most once, whoever races, dies or is restarted;
  an outcome is that of the one run, by the worker that holds the claim, under the snapshot the sender
  held; a caller is told what the store holds, and is refused only if its unit will never run; what
  nobody took is taken by a worker that is left.
- **local coordinator.** The same single execution over any number of dispatches, coordinators and
  repeated units; the outcomes a dispatch returns agree with the claims and with the runs; nothing is
  left running when it returns; it does return.
- **workflow traversal, contract execution, evidence, run entry.** The trace is the run: the path in it
  is a path of the seal, it ends where an ending is declared, an effect has its record, a refusal is the
  last thing a traversal determines, and the caller's view and the trace agree.
- **examination.** What the examiner reads from a trace is how the run ended, and the contracts it shows
  are those that ran, each with its own result (the first of several visits of one node is not, below).
- **resident snapshots.** A snapshot is booted once per key and is what its root's manifest named since
  the call began, whole if nobody wrote to it meanwhile, signed where an anchor asks for it; a refused
  boot leaves nothing behind. What is read beside the boot, the placement and the classification, agrees
  with what was booted as far as nobody wrote to the root in between.
- **transform execution and replay.** The key under which an outcome is recorded names one atom run; every
  result in a replay is one recorded for its atom, and a replay follows every original that can be reproduced.
- **bindings.** What a contract or a step is given comes from the place it is bound to, in the workflow and
  the visit it belongs to and as it is at that time; what a refused step made is nobody's input unless it is
  asked for by name.
- **loader.** A table that is executed is one whose hash the manifest names.
- **conformance.** A case passes only by what the transform itself did, and a build is admitted only if
  every case of it was run and passed and no vector went without a case.
- **command line, drawing, release script.** They print what the others return.

## Modules

| module | models | role |
|---|---|---|
| `FederatedStore` | `federation/store.py` | the files, and the writes that change them |
| `UnitLedger` | - | abstract: what a node group promises about a unit |
| `Federation` | `federation/*.py`, `api.invoke_workflow` | coordinator threads, callers and workers over `FederatedStore`; refines `UnitLedger` |
| `FederationProofs` | - | the inductive invariant and the theorems about `Federation` |
| `LocalCoordinator` | `coordinator.py` | dispatches, their pools and the claims |
| `LocalCoordinatorProofs` | - | the inductive invariant and the theorems about `LocalCoordinator` |
| `TraceReport` | `examine/` | what the examiner reads from a sequence of events |
| `Traversal` | `scheduler.py`, `dispatcher.py`, `evidence.py`, `api.run_workflow` | one run, with the runs inside it; extends `TraceReport` |
| `TraversalProofs` | - | the inductive invariant and the theorems about `Traversal` |
| `ListLemmas` | - | facts about sequences that the proofs of several modules use |
| `ContractData` | `memory.py`, `dispatcher.py`, `scheduler.py` | what contracts and steps are given, and what becomes of their results |
| `ContractDataProofs` | - | the inductive invariant and the theorems about `ContractData` |
| `ResidentSnapshots` | `api.py`, `boot.py`, `loader.py`, `evidence.py` | threads, the lock, the disk and a rebuild; placement and classification |
| `ResidentSnapshotsProofs` | - | the inductive invariant and the theorems about `ResidentSnapshots` |
| `TransformReplay` | `ct_executor.py`, `replay.py`, `evidence.py` | the transforms of a run, its trace and its replay |
| `Conformance` | `conformance.py` | the cases of a build and its verdict; extends `TransformReplay` |
| `ConformanceProofs` | - | the inductive invariant and the theorems about `Conformance`, and so about `TransformReplay` |
| `ReplayProofs` | - | the theorem that a replay agrees with its original, over `ConformanceProofs` |
| `MC...` | - | values of the constants for TLC |

An operator whose comment begins with "Variant:" is a mistake the code does not make: the change of a
definition that `PROJECT.json` names for a property, under which that property fails. Nothing else uses
it.

### Federation

The state follows the processes. `queue`, `sealed`, `claims`, `outcomes` are the files of the store.
`handler[u]` is the coordinator thread that serves the caller of unit `u`: receiving, enqueueing,
reading outcome, claim and queue in that order, answering. `call[u]` is that caller: submitting,
polling, told. `pc[w]`, `todo[w]`, `cur[w]`, `wsnap[w]` are a worker's place in `run_once`, the rest of
its listing, its unit and the snapshot it booted. `root[p]` is the snapshot on disk at each party's
`snapshot_root`, which a rebuild changes under it. `runs` and `ranOn` are history: how often
`run_workflow` was entered for a unit, and on which snapshot.

One action is one step between two points at which another process can be noticed: an exclusive
create and the write after it are two (`CreateUnit`, `FillUnit`), so are the check and the claim
(`Check`, `ClaimWon`/`ClaimLost`), the claim and the run (`Begin`), the run and its outcome (`Finish`).

A caller's unit identity is a fresh uuid made by the coordinator, so the call and the unit it would
become share one number. The order of the numbers is the order of `sorted(queue.glob(...))`.

Faults are bounded by `MaxFaults`: the coordinator is lost with its threads, a store call in a thread
fails, a connection drops, a worker is killed (also what a failing store call does to it). Rebuilds
are bounded by `MaxRebuilds`.

`UnitLedger` says what a node group promises with no store and no processes: a unit is admitted, begun
and ended once each, and its sender is refused only if the unit is never admitted, and otherwise told its
real end or nothing. `Federation` implements it: a unit is admitted when its record is whole, begun when
it is claimed, ended when its outcome is in place.

### LocalCoordinator

A *task* is a position of the list given to `dispatch`; a list may name a unit twice, so a unit may have
several tasks. `stage[c]` is where `dispatch` stands (`Dispatch`, `Collect`, `Return`, `Raise`), `future[c]`
the futures of its tasks, `waiting[c]` those no process has taken, `at[c][s]` and `task[c][s]` the place
and the task of each pool process. `claims[u]` names the task, the dispatch and the coordinator that won
the exclusive create. `Take`, `Claim`, `ClaimFails`, `Begin`, `Finish` and `FinishUnsent` are `_execute`
with `_claim`; `FinishUnsent` is the run whose result cannot be sent back to the coordinator.

The pool (`concurrent.futures.ProcessPoolExecutor`) is not in the repository and is modelled from its use:
tasks are taken in order, a lost process breaks the pool (`Break`), a broken pool fails every future that
is not done and terminates the other processes (`Terminate`), and the `with` block is left only when the
pool has drained.

### Traversal and TraceReport

`stack` holds the traversals in progress, the innermost last: a capability may run another workflow
inside a step (`CallWorkflow`), so a frame is one activation of `scheduler.run_wf` with its node, its step
and its hops. `raised` is an exception on its way out of the innermost one. `trace` is the file, one event
per line, and `result` is how `run_workflow` ended. The sealed package is one value with the tables the
code reads: entry, contract of a node, pipeline, admission checks, vocabulary, routing, endings, moments.

The scheduler's actions are `StartContract`, `Admit`, `Announce`, `RouteOn`, `RouteToEnding`,
`RouteNowhere` and their refusals; the dispatcher's are `RunCapability`, `CallWorkflow`, `EndStep`,
`CompleteContract` and theirs; `Catch` and `LetThrough` are the two things a capability can do with the
exception of a workflow it called, `Surface` is the handler in `run_workflow`. A traversal inside a capability
writes with the writer of the run it is in, which names its own workflow in every line (`WriterOf`): the
`WF_START` of the inner one names the outer workflow. Two fields of an event are therefore not in the file, and
only properties read them: `run` numbers the traversals of a trace, and `wf`, in a `WF_START`, is the workflow it
was asked for, at whose entry `PathIsSealed` has its path begin. What transforms and
capabilities answer, and whether a binding reaches a value, is left open here: every answer is a step. Both
kinds of exception the code tells apart are kept: one that has been recorded (`RecordedRefusal`) and one
that has not.

`TraceReport` is what `examine` derives from the events: completed or failed, outcome, ending, and a row
per contract with its node and its result.

### ContractData

The same walk, seen from its data. A frame of `stack` is one `run_wf` with its `ExecutionContext` (`payload`,
`results` by contract address), and, in a contract, `given` (its inputs), `steps` (`step_results` by step
name) and `surface`. `BindContract` resolves the bindings of a node, `RunStep` resolves the inputs of a step
and maps what it answers (`EndStep`), `RunWorkflow` and `AnswerOfWorkflow` are a capability that runs a
workflow on what it was given, and `CompleteContract` adds the inputs no step replaced, records the surface
and routes. A value is made of *origins*: which event of the trace made it, and under which name. So a
property can follow a value from the step that made it, through surfaces, contracts and workflows, to where
it is read; what the values are does not matter, since no code here computes with them.

Two things the code keeps apart are kept apart: a source that is not there is left out of a mapping, while a
list with such a member, a malformed path and, in a step, a step that has not run are refusals; and a result is
mapped only if the step succeeded, while its raw form stays addressable. `AccountedFor` rebuilds each input
and each surface from the trace alone, where nothing is ever overwritten, and compares; it looks at the last
event, since the trace only grows.

### ResidentSnapshots

A thread calls `run_workflow` (`OpenTrace`), or `invoke_workflow`, which first asks for the placement of the
root (`ReadPlacement`, `PassOverPlacement`, `KnowPlacement`) and either runs here or submits (`Submit`,
`NoCoordinator`). A run reads the classification for its header from the disk (`OpenTrace`,
`NoClassification`) after the boot. Threads of one process call `resident` (`Stat`, `Acquire`, `Hit`, `Miss`, `Keep`, `Refuse`), which boots
under the lock: `Accept` and `Verify` are acceptance, which reads the manifest a second time and recomputes
the constituents, `Authenticate` the signature, `LoadTables` and `LoadRecord` the loader, which reads every
file once more. The disk changes meanwhile: a rebuild writes the manifest and, per domain, a table and the
record of its hash, in any order (`WriteManifest`, `WriteDomain`), and may be cut short
(`AbandonRebuild`). Between calls the environment may come to name a trust anchor (`ChangeAnchor`).

Abstractions: the canonical records are one file per root; a manifest is always present; rewriting it changes its file status (`stat` reads size and
time, and both may stay: the code's key rests on this too); a hash stands for what it is a hash of; the
vocabulary, read after the tables, is left out. A file that is being written may or may not be readable,
so a boot under a rebuild may refuse at any point or go on.

### TransformReplay

A run is a sequence of contracts and their transforms; the first transform is given the payload, each
other the output of the one before. A transform is a stream of steps: an atom, a molecule (a stream of its
own), a loop over an atom (`_execute_loop`) or over a molecule (`_run_loop_body`). `stack` holds the
streams in progress with their inputs, results, path and loop. `RunAtom`, `Substitute`, `EnterMolecule`,
`EmitMolecule`, `BeginLoop`, `LoopAtom`, `LoopMolecule`, `EndLoop` and `EndTransform` are the branches of the
executor; each has its refusals and faults. When the run has ended, in whatever way, `Replay` reads the
outcomes back from its trace by contract, transform and path, and the same run begins again with them.
`drawn` is history: what atoms that are not deterministic answered in the original, a failure also where one
could not be given its inputs.

Abstractions: one output per transform and one accumulator per loop; a capability does nothing; a refusal
ends the run. Values are told apart only by the lists they are, and
by whether they read back from the trace as they were written (`Written`: a tuple comes back as a list).

An `ERROR` has its reason, told apart as the wording does (`Error`, `Fault`): a path that reaches nothing, what an
atom raised for what it was given, an output that is missing, a result that was not recorded (`Unsupplied`).
One mark in it is not in the file: that the atom which failed was declared not to be deterministic (`Failing`).
`compare` is `Determinative` and `Agreement`; which fields are observational is the snapshot's classification
and not in `src/`, and no field of an `ERROR` is taken to be. `ReplayAgrees` compares the reasons as well, but for
the failure of such an atom (`Reproduced`): its replay does not run it and cannot say why it failed, which is
what `FailureIsReproduced` shows.

### Conformance

A build is one more way to begin (`BuildInit`): `RunCase` puts the transform of the next case on the stack of
`TransformReplay`, with the results the case supplies in the place of recorded ones, and the executor's own
actions run it. `JudgeRefusal`, `JudgeFault` and `JudgeResult` are the ways `_run_case` ends, `Misplaced` and
`Report` those of `run_domain`. A case is its target, its input, the results it supplies and what it expects;
a build is its transforms, which of them are carried from another build, which have vectors, and its cases.
The forms of assertions (`_assert_structural`) and the fields of a result are left out: an expectation is a
value, or is met by any.

## Runs

Every property of a passing run has a change of the model, a plausible mistake in that code, under which
that run reports it violated. Deadlock is looked for except where the system may stop: a dispatch or a run
that has ended is not followed by another.

| run | question | bounds, and why they are enough |
|---|---|---|
| `federation_safety` | single execution, the claimant's outcome, one authority, what callers are told; the refinement of `UnitLedger` | 1 unit, 2 workers, 2 snapshots, any 2 faults, 2 rebuilds: a race takes two workers; two faults are a loss and a loss during the recovery from it; two rebuilds take a root away from a snapshot and back. Units meet only in a listing and in the record that ends a worker, which is what the next two runs have two units for; the theorems hold for any number |
| `federation_liveness` | what must eventually happen | 2 units, 1 worker, 2 faults: with one worker nobody else can do its work |
| `federation_poison` | (violated) an admitted unit is executed | 2 units, 1 worker, a lost coordinator |
| `federation_rebuilt` | (violated) a unit runs on the snapshot it is sealed against | 1 unit, 1 worker, 2 snapshots, 1 rebuild |
| `local_safety` | two coordinators over one `data_root` | 2 units in either order, 2 processes each, 1 fault of any kind |
| `local_redispatch` | one coordinator again and again: single execution, and a dispatch ends | lists of one and two and with a unit twice, 2 dispatches, 2 processes, 2 faults: a loss in the first dispatch and in the second |
| `traversal_safety` | the trace is the run, and the run ends | a sound package and nine with one thing wrong; a cycle, two nodes with one contract, a workflow inside a capability; 4 hops reach every node and the limit, depth 2 is one workflow inside another |
| `traversal_recorded` | (violated) a failure is recorded once | the same packages, 3 hops |
| `resident_safety` | boots, placements and headers under a rebuild | 2 threads, 1 root, 2 versions that differ in a domain and in where they run, 1 rebuild, `Limit` 2 so that an eviction happens (4 keys can arise) |
| `replay_safety` | a replay against its original; the verdict of a build | a run of three transforms over two contracts, a contract visited twice, streams with one thing wrong in each, and one whose second visit goes through a list without members; molecules two deep, lists of two. Builds of two transforms, own or carried, with and without vectors, of up to three cases: right ones, and nine with one thing wrong, alone and after a right one |
| `replay_twice` | (violated) every run is reproducible | one contract visited twice, atoms whose answers read back as written |
| `data_safety` | whose values contracts and steps are given | three sound packages and six with one thing wrong; a cycle over two contracts, one of them run again by a workflow inside a capability, a name that is internal; 4 hops take the cycle twice, so that a surface is recorded over an older one and read |

The symmetry sets permute workers, coordinators, pool processes or threads, which are told apart by
nothing. Runs of liveness properties use none.

`MaxFaults` bounds what the environment does to processes, connections and calls; `MaxRebuilds` the
rebuilds; `MaxDispatches` the dispatches of one coordinator (the code has no such limit); `MaxHops` is the
code's own `_MAX_HOPS` at a smaller value; `MaxDepth` the workflows inside workflows and `MaxCalls` the
workflows one capability call runs (the code limits neither); `Limit` is `_RESIDENT_LIMIT` at a smaller
value. The safety theorems below hold for every value of those that appear in them.

### Fairness

- `Federation`: `StartCoordinator` and the steps of the workers in `Reliable` are weakly fair, for whoever
  operates the group starts them again when they are down (nothing in the code does; `Boot` and `Join` are
  among a worker's steps). The steps of a serving thread and of a waiting caller are weakly fair, unit by
  unit: `ThreadingHTTPServer` gives each request a thread and `submit_and_wait` polls without an end.
  Nobody has to invoke anything, and no fault has to happen.
- `LocalCoordinator`: the steps of `dispatch` and the executor's manager thread, and of each pool process.
  The termination of the processes of a broken pool is a signal and is fair on its own, since a process
  with tasks could otherwise run on for ever.
- `Traversal`: the interpreter goes on and what a step calls returns; being killed is not fair, and ends the
  run. A capability that asks for workflows without end is not in the model (`MaxCalls`).
- `ResidentSnapshots`, `TransformReplay`, `Conformance`, `ContractData`: none. The first has no liveness property; that a lock is given
  back is part of `BootedOnce`, and deadlock is looked for. The others are sequential.

## What is proved

TLAPS checks these for every set of units, workers, snapshots, coordinators, processes and lists, and for
every bound. The assumptions are the named `ASSUME`s of the modules: units are numbers, `None` is none of the
things it is compared with, bounds are natural numbers, lists are not empty; and a stream is a sequence of steps whose results have names
of their own, none of which looks like the number of a step (`ReplayAssumption`); the names of fields are paths
(`DataAssumption`). What `ReplayAssumption` says is what a compiled
stream is; the executor does not check it, and where a stream named two results alike, two records would have
one path. TLC evaluates them too.

**`FederationProofs`**: `TypeCorrect`, `ExecutedOnce`, `OutcomeOwned`, `RefusalHolds`, `AdmissionHolds`,
`ResultTold`, `OneAuthority`, `EvidenceKept` and `LedgerKept`, that is all safety properties of the federation's
passing runs, the refinement included, and two more that the refinement implies (`RefusalHolds`,
`ResultTold`) and no run repeats. The exclusive create is not enough by itself: single execution
needs that a worker between claim and run is the *holder* of the claim and that the unit has not run yet. The
invariant `IInv` has four parts. `TypeOK`. `StoreInv`: what the three directories say of one unit fits
together (a claim implies a whole record; an outcome implies a claim, one run and the sealed snapshot).
`WorkerInv`: what a worker at each place of `run_once` may rely on. `CallInv`: which thread may serve a call,
and what it has done for it; in particular that a thread that answers "lost" does not exist, which is the
race between the three reads of `status` and the moving unit. Every action keeps each part (one lemma per
part and group of actions); the theorems follow from `IInv`, `EvidenceKept` and `LedgerKept` from a step
taken in a state where it holds.

**`LocalCoordinatorProofs`**: `TypeCorrect`, `ExecutedOnce`, `QuietWhenIdle` and `ReportTold`, that is all
safety properties of the two local runs. Here too the exclusive create alone is not enough, since a
coordinator that dispatches again meets claims of its own: a claim names the task of one dispatch, and the
invariant says which tasks may still claim. `PoolInv`: a task is waiting or in one hand, never two;
`ClaimInv`: claims are of this dispatch or an earlier one, and a unit runs under a claim; `HandInv` and
`WaitInv`: a task that has not claimed yet holds nothing, one that has is the holder; `FutureInv`: what a
future says of its task is what the store says.

**`ResidentSnapshotsProofs`**: `TypeCorrect`, `OneBootOfAKey`, `GivenIsCurrent`, `UndisturbedIsWhole`,
`BesideTheBoot` and `SignedUnderAnchor`, that is all safety properties of the resident run, for any number of
threads, roots, versions and domains and a store of any size. Two things make them less than obvious. A key is
taken by `stat` before the lock, and a rebuild may come before the boot; so the invariant says of every key in
a hand, in the store or at a caller which version it stands for, and that the version a boot accepted is one
the manifest has named since. And every file is read twice, once to verify it and once to load it; so the
invariant says what a boot has compared and what it has taken so far, as long as nobody has written to its
root, and a second part of it says that what is read beside the boot, the placement and the classification,
is of the manifest's version as long as that holds.

**`ConformanceProofs`**: `TypeCorrect`, `PathsApart`, `PassedProves` and `VerdictTold`, for
any streams, molecules in molecules to any depth, loops of any length, any runs, vectors and cases. The executor
keeps no list of the paths it has used, and that a path names one atom run rests on where the streams in
progress stand. `PathInv` says it: the path of each stream extends that of the stream around it by the
component of the step it was entered from; and a recent record whose path extends that of a stream in progress
goes on with a component the stream has *given out*, by a step it has passed or a round it has ended, or with
the one it waits for. The step a stream is at has given out nothing (`Fresh`), so what is observed or
entered next is new; and giving out never goes back (`Advanced`, `RoundEnded`). `StackInv` says that every
stream but the innermost waits at a molecule or in a round, which is what `EmitMolecule` returns to; `CaseInv`
and `TellInv` carry what a result says of its case to the verdict. One lemma per action shows that it moves
the streams as `PathInv` needs, and one that it keeps the rest.

**`TraversalProofs`**: `TypeCorrect`, `PathAlwaysSealed`, `StepsAlwaysSealed`, `AnnouncementsAlwaysSealed`,
`NothingEverAfterRefusal`, `FailureAlwaysRecordedOnce`, `EffectsAlwaysRecorded` and `ReportAlwaysAgrees`, for packages of any size,
sound or not (only the types of the tables are assumed, `TraversalAssumption`), runs of any length and workflows
in workflows to any depth. A traversal keeps its node, its step and its outcome, and nothing of what it wrote;
that what it writes next is sealed rests on how its frame stands to the events of its own in the trace, which
lie scattered among those of the workflows it called; and nothing is asked of the name in a `WF_START` (the
lemmas about the start of a traversal hold with any). `FrameOK` says how: a frame at a node was last routed
there (`AtNode`), one that announces or routes has determined its outcome there and was not routed since
(`Decided`), one inside a contract stands at the step after the last it recorded (`Within`) or behind an exit
(`Leaving`), one with announcements to make has just completed (`JustCompleted`), and none has refused
(`Quiet`). Of the rest of `IInv`, `StackInv` says that every frame but the innermost waits for a call and that
runs are numbered along the stack, `TraceInv` that every event is sealed by those before it, `RanInv` that a
call is on record or still in progress, `ErrorInv` which failures of the run itself are on record at each stage.
The properties are stated event by event over what the same traversal wrote *before*, so what was sealed once
stays so (`EventKept`), and a step has to answer only for what it adds. The proof has one lemma per way in
which a step may end, whatever action takes it: the traversal goes on or leaves its contract (`OnwardKeeps`,
`LeftKeeps`, `CompletedKeeps`), refuses or faults (`RefusedKeeps`, `FaultKeeps`), returns to its caller
(`RouteToEndingKeeps`), starts another (`StartsKeeps`), or the run is over (`EndedKeeps`); announcements are
written as one block (`AnnouncedWell`), and a block that is cut short is a refusal.
`ReportAlwaysAgrees` needs no more of the state: it follows from `IInv` and what the examiner selects.
`Positions` is a recursive function; that it lists the events of a type in their order, each once
(`PositionsAre`), is proved from the least counterexample. A row's result is then that of the last completion at
its node (`LastOf`); where the node was come to once, the start before that completion is found backwards
(`StartOf`), the completion of a start forwards (`EndOf`), and the two are of one visit (`ResultOf`).

**`ReplayProofs`**: `ReplayAlwaysAgrees` and `ReplayDrawsNothing`, for any runs, streams and answers. The first compares two executions, and there
is one state: the replay overwrites that of the original and keeps its trace only. The invariant `AgreeInv` says
that there is a *history* (`History`): views, of which the first is the beginning, each leads to the next
(`Leads`) with the answer that `drawn` remembers for its atom, and the last is where the original is, or ended
(`OriginalInv`). `Goes` is that next view as a function of a view and an answer, one branch per action of the
executor; a lemma per action shows that its step is what `Goes` says (`RunAtomGoes`, `SubstituteGoes`,
`LoopAtomGoes`, `MuteSteps`). While the original runs, its history grows by a view (`OriginalMoves`), and its
trace has a record for each answer that is a value and for no other (`Remembered`). A view holds of a trace
what a replay reproduces of it, the reasons with it (`Reasons`). In the replay of a reproducible original, where
no two answers share a key, the results read back are then those answers (`ReadBack`), a step leads where the
history leads (`ReplayStep`), and so the replay stands at a view of the history, or, if
the original was killed, goes on from its last (`ReplayInv`). That a view has one successor is what makes the
agreement hold; an earlier form of `Reproducible`, which forgot atoms that were not given their inputs, failed
in the lemma for `Substitute`, and TLC showed the run (below). A failed original ends with a reason that its last
view and the answer there determine, so its replay, which comes to the same view, fails there with the same
reason, or, at an atom it does not run, with the one that `Reproduced` sets equal to it.

`ReplayDrawsNothing` asks nothing of the original, and speaks of results and not of steps: whatever the replay
records was recorded before under the same contract, transform and path. It holds since what `recorded` has under
a key is the result of some event of the original with that key (`SourceInv`), which a later visit may have
replaced by another's and a failed or killed original may not have come to.

**`ContractDataProofs`**: `TypeCorrect`, `AlwaysAccountedFor` and `NothingEverOfARefusal`, for any packages,
sound or not, bindings of any form, contracts that are come to any number of times and workflows in workflows to
any depth. The code keeps tables and overwrites them: `results` when a contract is come to again, `steps` when a
step name is used again, `surface` when two steps map to one name, while workflows inside a step write to the
same trace. The properties say what such a table should hold from the trace alone, so `IInv` says of every
frame that its tables *are* what the events of its own say last (`Fits`), and of a frame that waits for a
workflow that the workflow was given what its step is (`Standing`), so that the answer comes back to the step it
was asked for (`AnswerFits`). An event adds to the tables of the workflow and the visit it is of and to no
others, since runs and visits are numbered by their first events and the frames of a stack were begun one after
the other: that is the lemma each action rests on. `NothingEverOfARefusal` needs to know of every value in a frame
where its origins may be (`FrameValues`). What a contract may pass on is `Passable`: from before the run, of a
step that succeeded, or taken by name. The raw results its steps may still be asked for need not be
(`StepOrigins`), and become so only by the name under which they are asked for, by a later step of the same
contract, which is what the property excepts.

`ListLemmas` holds what these proofs need about appending, about stacks, about the least and the greatest of a
set of numbers and about flattened lists, over the library's sequences.

**Only model-checked.** Liveness under fairness (`RunEnds` and the liveness of both coordinators) and everything
with ENABLED, which are beyond the installed provers. So are the induction theorems of the library; what
little is needed by induction (`FlattenType`, `PositionsAre`, the histories of `ReplayProofs`) is proved from the
least counterexample (`LeastMember`) or carried along by an invariant. All safety properties of the passing runs
are proved; the violated ones, those of the runs and those stated beside them, are shown by TLC's
counterexamples.

## Where the code and its documentation disagree

Shown by a run:

- `federation_poison`: a record left empty by a coordinator lost between create and write (`store.py:82`;
  `store.py:3` says a record is seen "whole or not at all") ends every worker that lists it, before the units
  that sort after it. `client.py:76` says an admitted unit is always executed in the end.
- `federation_rebuilt`: `worker.py:63` runs a unit on what is at `snapshot_root` now, not on what was booted;
  `worker.py:8` says it executes only units sealed against the snapshot it booted.
- `traversal_recorded`: the refusal of a workflow run by a capability is recorded where it happened and once
  more at `dispatcher.py:494` as a fault of the capability; `evidence.py:71` says nobody may.
- `replay_twice`: outcomes are kept by contract, transform and path (`replay.py:44`), and a contract that
  runs twice leaves the second time's for both.

Stated in a module, in its last section, without a run of their own. Each takes the place of the properties
in the configuration named with it, and TLC then reports it violated:

- `FailedIsNotAdmitted` (`FederationPoison.cfg`, as INVARIANT): `api.py:150` says that a failure
  `invoke_workflow` raises "is always one in which nothing was admitted"; `api.py:172` raises after admission,
  for a unit whose run failed. `RefusalHolds` is about the refusals and `ResultTold` about what is raised at
  the end.
- `UnclaimedIsFree` (`LocalSafety.cfg`): `coordinator.py:73` says that `unclaimed` never lists units already
  claimed; it lists those whose run failed (`:74`), and those are claimed, so a later dispatch of them is told
  `claimed_elsewhere`.
- `PathIsOfTheNamed` (`TraversalRecorded.cfg`, as INVARIANT): a workflow run by a capability writes under the
  name of the outer workflow (`dispatcher.py:351`, `evidence.py:139`, `:270`), so a reader who looks for its
  path in the graph of the workflow the trace names, as `ARCHITECTURE.md:202` proposes, does not find it.
- `OutcomeIsOfTheRun` (the same): `reporter.py:20` has the outcome of a run "None when the run never
  completed"; `examine/__init__.py:37` takes the last completion in the trace, which may be that of a
  workflow inside it.
- `ResultsAreTheirs` (the same): `examine/__init__.py:29` keeps results by node, so each row of a node that was
  come to twice shows the last result; `:7` promises the contracts a run ran and their results. `ReportAgrees`
  is about the nodes come to once.
- `ResidentIsVerified` (`ResidentSafety.cfg`): tables are read anew (`loader.py:186`) after acceptance verified
  them, and are compared with nothing but the hash beside them; `boot.py:14` calls what is resident
  hash-verified. `WholeUnlessDisturbed` says what is left of that.
- `PlacementOfTheBooted` (the same): `api.py:129` keeps a placement for ever, one read while its record was
  being written too, since "the snapshot is immutable" (`:130`), while `api.py:94` provides for rebuilds in
  place.
- `HeaderOfTheBooted` (the same): `evidence.py:46` reads the classification from the disk for every run, so the
  header of a trace may be of another version than the run, although "nothing reads the snapshot again" after
  a boot (`api.py:90`). `ReadBesideTheBoot` says when neither of the two happens.
- `FailureIsReproduced` (`ReplayTwice.cfg`, with `Runs <- Separate` and `Draws <- Drawable`): the failure of an
  atom that is not deterministic is not recorded as an outcome, so its replay fails with "no recorded outcome"
  (`evidence.py:205`) as its reason and not with the original's (`dispatcher.py:212`), and `compare` reports a
  difference; `replay.py:8` says that the traces must agree.
- `ResultsAreKept` (`ReplayTwice.cfg`, with `Runs <- Wrong`): an atom in a loop of its own is neither observed
  nor substituted (`ct_executor.py:329`), although `README.md:121` has every such result recorded.

Met while modelling, beside these:

- `ct_executor.py:258`: an atom that draws and refuses leaves no record, so its replay faults where the original
  took the route of a violation. `Reproducible` excludes it.
- `ct_executor.py:180`: a recorded result is put in the place of an atom before its inputs are resolved (`:228`).
  An atom of the original that could not be given them, as after a loop without a round in front of it, failed
  and left no record; if the contract was come to before, the replay goes on with the result of that time
  where the original ended, although `README.md:122` has every run reproducible. `Reproducible` counts the failure
  as an answer, so that the two share a key.
- `dispatcher.py:274` merges "cc_inputs fields not covered by pipeline outputs"; the code merges those no step
  has *put* on the surface (`:281`), so after a step that refused, a declared output carries the input of the
  same name (`Surface` in `ContractData`).
- `conformance.py:18` calls a case with supplied results "also a proof of replay"; an atom in a loop of its own
  is neither observed nor given one, so it runs and the case may pass (`LoopAtom`), and a case that expects a
  refusal passes (`:286`) without a look at results no step used (`:296`).
- `evidence.py:106`: two runs of one workflow with one payload in one millisecond share a trace file.

## What is not modelled, and why

`cli.py`, `trace_viz.py` and `scripts/verify_release.py` have no state that outlives a call and no
concurrency; they parse arguments, call the components above and print. The replay command is in
`TransformReplay`. Of `loader.py` the order of the reads and what they are compared with is modelled, and its
tables are the constants of `Traversal` and `ContractData`; the form of a table is not. Of `conformance.py`
the vocabulary of assertions is left out. The identity of a trace (`make_trace_id`) is not modelled: each run
writes a trace of its own here. The policy a capability is configured with (`_expand_policy`) is formatting.
A capability states an outcome in `Outcomes` here; `dispatcher.py:501` looks only at whether it states one, and an
outcome that is no string and cannot be looked up (a list, say) would raise a `TypeError` after the effect and
before its `CC_STEP`, which `EffectsAreRecorded` therefore does not speak of.
HTTP is present as requests that arrive, answers that
are lost, and connections that break; a connection that hangs without ever breaking is not (the client has
no timeout once connected, and says so).

## Plan

1. The identity of traces: two writers of one file.
