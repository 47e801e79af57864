-------------------------- MODULE LocalCoordinator --------------------------
(***************************************************************************)
(* The coordinating party of LOCAL_MULTI_WORKER (runtime/coordinator.py):  *)
(* dispatch hands a list of units to a pool of processes, each process     *)
(* claims a unit in the store before it runs it, and dispatch returns one  *)
(* outcome per unit or raises.                                             *)
(*                                                                         *)
(* Several coordinators may share one data_root, and each may dispatch     *)
(* again; a list may name a unit twice.  A task is a position of the list. *)
(* The pool is concurrent.futures.ProcessPoolExecutor, modelled from how   *)
(* dispatch uses it: tasks are taken in order, a process that is lost      *)
(* breaks the pool, a broken pool fails every future that is not done and  *)
(* terminates the other processes, and leaving the with block waits.       *)
(***************************************************************************)
EXTENDS Naturals, Sequences

CONSTANTS
    Units, Coordinators,
    Slots,         \* the processes of one pool
    Batches,       \* the lists a coordinator may be asked to dispatch
    None,          \* no claim
    FaultKinds,    \* which environment faults a run allows
    MaxFaults,     \* bound on environment faults
    MaxDispatches  \* bound on the dispatches of one coordinator

ASSUME LocalAssumption ==
    /\ Batches \subseteq Seq(Units) \ {<<>>}
    /\ MaxFaults \in Nat
    /\ MaxDispatches \in Nat

\* Who holds a claim: the task of one dispatch of one coordinator.  The file
\* names a worker and a pid.
Taker == [by : Coordinators, turn : Nat, task : Nat]

ASSUME TakerAssumption == None \notin Taker

VARIABLES
    claims,     \* claims/<unit>.claim.json
    stage,      \* where dispatch stands in each coordinator
    turn,       \* which dispatch of the coordinator it is
    batch,      \* its units
    future,     \* the future of each task
    waiting,    \* the tasks no process has taken yet
    pool,       \* whether the executor has noticed a lost process
    at,         \* where each process of the pool stands
    task,       \* the task it has in hand
    collected,  \* the tasks whose outcome has been appended
    report,     \* the states of the outcomes the last dispatch returned, if it did
    runs,       \* history: how often run_workflow was entered for a unit
    ended,      \* history: how that run ended
    faults      \* environment faults so far

store == <<claims, runs, ended>>
dispatchVars == <<stage, turn, batch, collected, report>>
poolVars == <<future, waiting, pool, at, task>>
vars == <<store, dispatchVars, poolVars, faults>>

FutureState == {"pending", "executed", "failed", "elsewhere", "raised"}
ProcessState == {"idle", "claiming", "claimed", "running", "dead"}

TypeOK ==
    /\ claims \in [Units -> Taker \cup {None}]
    /\ stage \in [Coordinators -> {"idle", "collecting", "raising", "lost"}]
    /\ turn \in [Coordinators -> Nat]
    /\ batch \in [Coordinators -> Seq(Units)]
    /\ future \in [Coordinators -> Seq(FutureState)]
    /\ waiting \in [Coordinators -> SUBSET Nat]
    /\ pool \in [Coordinators -> {"sound", "broken"}]
    /\ at \in [Coordinators -> [Slots -> ProcessState]]
    /\ task \in [Coordinators -> [Slots -> Nat]]
    /\ collected \in [Coordinators -> SUBSET Nat]
    /\ report \in [Coordinators -> Seq(FutureState)]
    /\ runs \in [Units -> Nat]
    /\ ended \in [Units -> {"no", "executed", "failed"}]
    /\ faults \in Nat

Init ==
    /\ claims = [u \in Units |-> None]
    /\ stage = [c \in Coordinators |-> "idle"]
    /\ turn = [c \in Coordinators |-> 0]
    /\ batch = [c \in Coordinators |-> <<>>]
    /\ future = [c \in Coordinators |-> <<>>]
    /\ waiting = [c \in Coordinators |-> {}]
    /\ pool = [c \in Coordinators |-> "sound"]
    /\ at = [c \in Coordinators |-> [s \in Slots |-> "dead"]]
    /\ task = [c \in Coordinators |-> [s \in Slots |-> 0]]
    /\ collected = [c \in Coordinators |-> {}]
    /\ report = [c \in Coordinators |-> <<>>]
    /\ runs = [u \in Units |-> 0]
    /\ ended = [u \in Units |-> "no"]
    /\ faults = 0

\* The environment spends one of its bounded faults.
Fault(kind) ==
    /\ kind \in FaultKinds
    /\ faults < MaxFaults
    /\ faults' = faults + 1

-----------------------------------------------------------------------------
(***************************************************************************)
(* dispatch.                                                               *)
(***************************************************************************)
\* A new pool, and every unit of the list submitted to it.  (An empty list
\* returns before anything happens; a pool that breaks during the submission
\* raises there, which the caller cannot tell from Raise.)
Dispatch(c) ==
    /\ stage[c] = "idle"
    /\ turn[c] < MaxDispatches
    /\ turn' = [turn EXCEPT ![c] = @ + 1]
    /\ \E list \in Batches :
          /\ batch' = [batch EXCEPT ![c] = list]
          /\ future' = [future EXCEPT ![c] = [t \in DOMAIN list |-> "pending"]]
          /\ waiting' = [waiting EXCEPT ![c] = DOMAIN list]
    /\ stage' = [stage EXCEPT ![c] = "collecting"]
    /\ pool' = [pool EXCEPT ![c] = "sound"]
    /\ at' = [at EXCEPT ![c] = [s \in Slots |-> "idle"]]
    /\ task' = [task EXCEPT ![c] = [s \in Slots |-> 0]]
    /\ collected' = [collected EXCEPT ![c] = {}]
    /\ report' = [report EXCEPT ![c] = <<>>]
    /\ UNCHANGED <<store, faults>>

\* Variant: a future that raises is passed over.
CollectPast(c) ==
    /\ stage[c] = "collecting"
    /\ \E t \in DOMAIN future[c] \ collected[c] :
          /\ future[c][t] # "pending"
          /\ collected' = [collected EXCEPT ![c] = @ \cup {t}]
    /\ UNCHANGED <<stage, turn, batch, report, store, poolVars, faults>>

\* Variant: a future that raised is left for later.
CollectDone(c) ==
    /\ stage[c] = "collecting"
    /\ \E t \in DOMAIN future[c] \ collected[c] :
          /\ future[c][t] \notin {"pending", "raised"}
          /\ collected' = [collected EXCEPT ![c] = @ \cup {t}]
    /\ UNCHANGED <<stage, turn, batch, report, store, poolVars, faults>>

\* as_completed yields the futures that are done in whatever order they were;
\* result() re-raises what a future holds instead of an outcome, and nothing
\* catches that.
Collect(c) ==
    /\ stage[c] = "collecting"
    /\ \E t \in DOMAIN future[c] \ collected[c] :
          /\ future[c][t] # "pending"
          /\ IF future[c][t] = "raised"
             THEN stage' = [stage EXCEPT ![c] = "raising"] /\ UNCHANGED collected
             ELSE collected' = [collected EXCEPT ![c] = @ \cup {t}] /\ UNCHANGED stage
    /\ UNCHANGED <<turn, batch, report, store, poolVars, faults>>

\* What shutdown(wait=True) waits for at the end of the with block.
Drained(c) ==
    /\ \A t \in DOMAIN future[c] : future[c][t] # "pending"
    /\ \A s \in Slots : at[c][s] = "dead" \/ (pool[c] = "sound" /\ at[c][s] = "idle")

Return(c) ==
    /\ stage[c] = "collecting"
    /\ collected[c] = DOMAIN future[c]
    /\ Drained(c)
    /\ stage' = [stage EXCEPT ![c] = "idle"]
    /\ report' = [report EXCEPT ![c] = future[c]]
    /\ UNCHANGED <<turn, batch, collected, store, poolVars, faults>>

\* Variant: the pool is left without waiting for it.
RaiseAtOnce(c) ==
    /\ stage[c] = "raising"
    /\ stage' = [stage EXCEPT ![c] = "idle"]
    /\ UNCHANGED <<turn, batch, collected, report, store, poolVars, faults>>

\* Dispatch.unclaimed, of what the last dispatch returned.
Unclaimed(c) == {batch[c][t] : t \in {t \in DOMAIN report[c] : report[c][t] = "failed"}}

\* The exception leaves dispatch, and the outcomes appended so far go with it.
Raise(c) ==
    /\ stage[c] = "raising"
    /\ Drained(c)
    /\ stage' = [stage EXCEPT ![c] = "idle"]
    /\ UNCHANGED <<turn, batch, collected, report, store, poolVars, faults>>

\* The coordinating process is killed; the processes of its pool go on with
\* what they hold and what is queued.
CrashCoordinator(c) ==
    /\ stage[c] \in {"collecting", "raising"}
    /\ Fault("coordinator")
    /\ stage' = [stage EXCEPT ![c] = "lost"]
    /\ UNCHANGED <<turn, batch, collected, report, store, poolVars>>

-----------------------------------------------------------------------------
(***************************************************************************)
(* One process of the pool: _execute, with _claim.                         *)
(***************************************************************************)
InHand(c, s) == batch[c][task[c][s]]
Mine(c, s) == [by |-> c, turn |-> turn[c], task |-> task[c][s]]

Take(c, s) ==
    /\ at[c][s] = "idle"
    /\ stage[c] # "idle"
    /\ \E t \in waiting[c] :
          /\ \A other \in waiting[c] : t <= other
          /\ waiting' = [waiting EXCEPT ![c] = @ \ {t}]
          /\ task' = [task EXCEPT ![c][s] = t]
    /\ at' = [at EXCEPT ![c][s] = "claiming"]
    /\ UNCHANGED <<future, pool, store, dispatchVars, faults>>

\* The process is done with its task.  A future the broken pool has already
\* failed stays failed.
Resolve(c, s, result) ==
    /\ future' = [future EXCEPT ![c][task[c][s]] = IF @ = "pending" THEN result ELSE @]
    /\ at' = [at EXCEPT ![c][s] = "idle"]
    /\ UNCHANGED <<waiting, pool, task>>

\* Variant: the claim file is opened without O_EXCL.
ClaimOver(c, s) ==
    /\ at[c][s] = "claiming"
    /\ claims' = [claims EXCEPT ![InHand(c, s)] = Mine(c, s)]
    /\ at' = [at EXCEPT ![c][s] = "claimed"]
    /\ UNCHANGED <<future, waiting, pool, task, runs, ended, dispatchVars, faults>>

\* The exclusive create decides.
Claim(c, s) ==
    /\ at[c][s] = "claiming"
    /\ IF claims[InHand(c, s)] = None
       THEN /\ claims' = [claims EXCEPT ![InHand(c, s)] = Mine(c, s)]
            /\ at' = [at EXCEPT ![c][s] = "claimed"]
            /\ UNCHANGED <<future, waiting, pool, task>>
       ELSE /\ Resolve(c, s, "elsewhere")
            /\ UNCHANGED claims
    /\ UNCHANGED <<runs, ended, dispatchVars, faults>>

\* The store refuses the create, or takes the file and refuses its content.
\* Either raises out of the task; in the second case the claim stands.
ClaimFails(c, s) ==
    /\ at[c][s] = "claiming"
    /\ Fault("store")
    /\ \/ UNCHANGED claims
       \/ /\ claims[InHand(c, s)] = None
          /\ claims' = [claims EXCEPT ![InHand(c, s)] = Mine(c, s)]
    /\ Resolve(c, s, "raised")
    /\ UNCHANGED <<runs, ended, dispatchVars>>

Begin(c, s) ==
    /\ at[c][s] = "claimed"
    /\ at' = [at EXCEPT ![c][s] = "running"]
    /\ runs' = [runs EXCEPT ![InHand(c, s)] = @ + 1]
    /\ UNCHANGED <<future, waiting, pool, task, claims, ended, dispatchVars, faults>>

\* Variant: the outcome's state is the status of the run.
FinishStatus(c, s) ==
    /\ at[c][s] = "running"
    /\ ended' = [ended EXCEPT ![InHand(c, s)] = "executed"]
    /\ Resolve(c, s, "VIOLATION")
    /\ UNCHANGED <<claims, runs, dispatchVars, faults>>

\* An exception of the run is an outcome like another.
Finish(c, s) ==
    /\ at[c][s] = "running"
    /\ \E state \in {"executed", "failed"} :
          /\ ended' = [ended EXCEPT ![InHand(c, s)] = state]
          /\ Resolve(c, s, state)
    /\ UNCHANGED <<claims, runs, dispatchVars, faults>>

\* The run ended and its outcome cannot be sent back: the status carries the
\* surface of the run, which need not be picklable.
FinishUnsent(c, s) ==
    /\ at[c][s] = "running"
    /\ Fault("result")
    /\ ended' = [ended EXCEPT ![InHand(c, s)] = "executed"]
    /\ Resolve(c, s, "raised")
    /\ UNCHANGED <<claims, runs, dispatchVars>>

Die(c, s) ==
    /\ at' = [at EXCEPT ![c][s] = "dead"]
    /\ UNCHANGED <<future, waiting, pool, task, store, dispatchVars>>

KillProcess(c, s) ==
    /\ stage[c] # "idle"
    /\ at[c][s] # "dead"
    /\ Fault("worker")
    /\ Die(c, s)

-----------------------------------------------------------------------------
(***************************************************************************)
(* The executor's manager thread.                                          *)
(***************************************************************************)
Break(c) ==
    /\ stage[c] \in {"collecting", "raising"}
    /\ pool[c] = "sound"
    /\ \E s \in Slots : at[c][s] = "dead"
    /\ pool' = [pool EXCEPT ![c] = "broken"]
    /\ future' = [future EXCEPT ![c] =
            [t \in DOMAIN @ |-> IF @[t] = "pending" THEN "raised" ELSE @[t]]]
    /\ UNCHANGED <<waiting, at, task, store, dispatchVars, faults>>

Terminate(c, s) ==
    /\ stage[c] \in {"collecting", "raising"}
    /\ pool[c] = "broken"
    /\ at[c][s] # "dead"
    /\ Die(c, s)
    /\ UNCHANGED faults

-----------------------------------------------------------------------------
ProcessStep(c, s) ==
    Take(c, s) \/ Claim(c, s) \/ Begin(c, s) \/ Finish(c, s) \/ Terminate(c, s)

DispatchStep(c) == Collect(c) \/ Return(c) \/ Raise(c) \/ Break(c)

Next == \E c \in Coordinators :
    \/ Dispatch(c) \/ DispatchStep(c) \/ CrashCoordinator(c)
    \/ \E s \in Slots :
          ProcessStep(c, s) \/ ClaimFails(c, s) \/ FinishUnsent(c, s) \/ KillProcess(c, s)

Spec == Init /\ [][Next]_vars

(***************************************************************************)
(* Processes keep running and runs end; the manager thread and dispatch    *)
(* keep going.  The termination of a broken pool's processes is a signal   *)
(* and needs a fairness of its own: a process that has tasks could         *)
(* otherwise take its own steps instead for as long as it has any.         *)
(***************************************************************************)
FairSpec ==
    /\ Spec
    /\ \A c \in Coordinators :
          /\ WF_vars(DispatchStep(c))
          /\ \A s \in Slots : WF_vars(ProcessStep(c, s)) /\ WF_vars(Terminate(c, s))

-----------------------------------------------------------------------------
\* However often and by however many coordinators a unit is dispatched, and
\* whatever is lost meanwhile, run_workflow is entered for it at most once
\* (coordinator.py: "a unit whose worker was lost is not re-dispatched").
SingleExecution == \A u \in Units : runs[u] <= 1

\* What dispatch returned is what happened: a task is reported executed or
\* failed exactly when that task claimed its unit and its run ended so, and
\* elsewhere exactly when somebody else holds the claim.
ReportIsTrue ==
    \A c \in Coordinators : stage[c] = "idle" /\ report[c] # <<>> =>
        /\ Len(report[c]) = Len(batch[c])
        /\ \A t \in DOMAIN batch[c] :
              LET holder == claims[batch[c][t]]
                  mine == [by |-> c, turn |-> turn[c], task |-> t]
              IN  /\ holder # None
                  /\ report[c][t] = IF holder = mine THEN ended[batch[c][t]] ELSE "elsewhere"

\* Once dispatch has returned or raised, none of its processes is still at a
\* unit: what the caller finds in the store of its own units is final.
NothingLeftRunning ==
    \A c \in Coordinators, s \in Slots :
        stage[c] = "idle" => at[c][s] \notin {"claiming", "claimed", "running"}

\* A dispatch returns or raises, unless its own process is lost: a lost pool
\* process does not leave it waiting for a future nobody will complete.
DispatchEnds ==
    \A c \in Coordinators : stage[c] = "collecting" ~> stage[c] \in {"idle", "lost"}

-----------------------------------------------------------------------------
(***************************************************************************)
(* What the documentation says and the code does not do.                   *)
(***************************************************************************)
\* Dispatch.unclaimed: "Units still available to a later dispatch — never those
\* already claimed."
UnclaimedIsFree ==
    \A c \in Coordinators : stage[c] = "idle" =>
        \A u \in Unclaimed(c) : claims[u] = None
=============================================================================
