----------------------------- MODULE Federation -----------------------------
(***************************************************************************)
(* A federated node group: boundaries that call api.invoke_workflow, the   *)
(* coordinating node (runtime/federation/coordinator.py), worker nodes     *)
(* (worker.py) and the store they share.                                   *)
(*                                                                         *)
(* Every call of invoke_workflow that reaches the coordinator is given a   *)
(* fresh unit_id if it is admitted, so a call and its unit carry the same  *)
(* number: call[u] is the caller's side, handler[u] the coordinator thread *)
(* that serves it, and queue[u], claims[u], outcomes[u] what the store     *)
(* holds of it.                                                            *)
(***************************************************************************)
EXTENDS FederatedStore

CONSTANTS
    Coordinator, Boundary,  \* the two parties that are not workers
    FaultKinds,             \* which environment faults a run allows
    Reliable,               \* the workers that are started again when they are down
    MaxFaults,              \* bound on environment faults
    MaxRebuilds             \* bound on rebuilds of a snapshot in place

Parties == Workers \cup {Coordinator, Boundary}

ASSUME FederationAssumption ==
    /\ Reliable \subseteq Workers
    /\ MaxFaults \in Nat
    /\ MaxRebuilds \in Nat
    /\ Coordinator \notin Workers
    /\ Boundary \notin Workers
    /\ Coordinator # Boundary

VARIABLES
    root,     \* the snapshot identity at each party's snapshot_root, on disk
    coord,    \* whether the coordinator process is serving
    csnap,    \* FederatedCoordinator.snapshot_id, read when it booted
    call,     \* where the invocation of each unit stands at the boundary
    sent,     \* the snapshot_id the boundary put in the request
    handler,  \* the coordinator thread serving the call
    pc,       \* where each worker process stands
    wsnap,    \* FederatedWorker.snapshot_id, read when it booted
    todo,     \* the units of the listing run_once is iterating that are left
    cur,      \* the unit a worker holds
    runs,     \* history: how often run_workflow was entered for a unit
    ranOn,    \* history: the snapshot on disk when it was entered
    faults,   \* environment faults so far
    rebuilds  \* rebuilds so far

coordVars == <<coord, csnap, handler>>
callVars == <<call, sent>>
workerVars == <<pc, wsnap, todo, cur>>
history == <<runs, ranOn>>
bounds == <<faults, rebuilds>>
vars == <<storeVars, coordVars, callVars, workerVars, history, root, bounds>>

CallState == {"idle", "posting", "polling", "asking",
              "returned", "failed", "refused", "unknown", "lost"}
HandlerState == {"none", "received", "enqueueing", "accept", "refuse",
                 "look_outcome", "look_claim", "look_queue",
                 "say_executed", "say_failed", "say_pending", "say_lost"}
WorkerState == {"down", "joining", "idle", "iterating", "checking",
                "claiming", "claimed", "running"}

TypeOK ==
    /\ StoreTypeOK
    /\ root \in [Parties -> Snapshots]
    /\ coord \in {"down", "serving"}
    /\ csnap \in Snapshots \cup {None}
    /\ call \in [Units -> CallState]
    /\ sent \in [Units -> Snapshots \cup {None}]
    /\ handler \in [Units -> HandlerState]
    /\ pc \in [Workers -> WorkerState]
    /\ wsnap \in [Workers -> Snapshots \cup {None}]
    /\ todo \in [Workers -> SUBSET Units]
    /\ cur \in [Workers -> Units \cup {None}]
    /\ runs \in [Units -> Nat]
    /\ ranOn \in [Units -> Snapshots \cup {None}]
    /\ faults \in Nat
    /\ rebuilds \in Nat

Init ==
    /\ StoreInit
    /\ root \in [Parties -> Snapshots]
    /\ coord = "down"
    /\ csnap = None
    /\ call = [u \in Units |-> "idle"]
    /\ sent = [u \in Units |-> None]
    /\ handler = [u \in Units |-> "none"]
    /\ pc = [w \in Workers |-> "down"]
    /\ wsnap = [w \in Workers |-> None]
    /\ todo = [w \in Workers |-> {}]
    /\ cur = [w \in Workers |-> None]
    /\ runs = [u \in Units |-> 0]
    /\ ranOn = [u \in Units |-> None]
    /\ faults = 0
    /\ rebuilds = 0

\* The environment spends one of its bounded faults.
Fault(kind) ==
    /\ kind \in FaultKinds
    /\ faults < MaxFaults
    /\ faults' = faults + 1
    /\ UNCHANGED rebuilds

-----------------------------------------------------------------------------
(***************************************************************************)
(* The coordinator.  ThreadingHTTPServer serves every request in a thread  *)
(* of its own; handler[u] is the thread that serves call u.                *)
(***************************************************************************)
StartCoordinator ==
    /\ coord = "down"
    /\ coord' = "serving"
    /\ csnap' = root[Coordinator]
    /\ UNCHANGED <<storeVars, callVars, handler, workerVars, history, root, bounds>>

\* The process is lost with every thread in it; files it created stay.
CrashCoordinator ==
    /\ coord = "serving"
    /\ Fault("coordinator")
    /\ coord' = "down"
    /\ handler' = [u \in Units |-> "none"]
    /\ UNCHANGED <<storeVars, callVars, csnap, workerVars, history, root>>

\* Variant: 202 is answered while the record is still being written.
AdmitEarly(u) ==
    /\ handler[u] = "received"
    /\ sent[u] = csnap
    /\ CreateUnit(u, csnap)
    /\ handler' = [handler EXCEPT ![u] = "accept"]
    /\ UNCHANGED <<coord, csnap, callVars, workerVars, history, root, bounds>>

\* submit: a malformed body (400), another snapshot (409) or a domain the
\* sealed snapshot does not hold (404) is refused before anything is written.
Admit(u) ==
    /\ handler[u] = "received"
    /\ \/ \E known \in BOOLEAN :
            /\ sent[u] # csnap \/ ~known
            /\ handler' = [handler EXCEPT ![u] = "refuse"]
            /\ UNCHANGED storeVars
       \/ /\ sent[u] = csnap
          /\ CreateUnit(u, csnap)
          /\ handler' = [handler EXCEPT ![u] = "enqueueing"]
    /\ UNCHANGED <<coord, csnap, callVars, workerVars, history, root, bounds>>

Enqueued(u) ==
    /\ handler[u] = "enqueueing"
    /\ FillUnit(u)
    /\ handler' = [handler EXCEPT ![u] = "accept"]
    /\ UNCHANGED <<coord, csnap, callVars, workerVars, history, root, bounds>>

\* A store call raises (a full or unreachable store): the thread ends without
\* an answer and the server closes the connection.
HandlerFails(u) ==
    /\ handler[u] \in {"received", "enqueueing", "look_outcome", "look_claim", "look_queue"}
    /\ Fault("store")
    /\ handler' = [handler EXCEPT ![u] = "none"]
    /\ UNCHANGED <<storeVars, coord, csnap, callVars, workerVars, history, root>>

\* Variant: an outcome that says "failed" is reported like one still to come.
LookExecuted(u) ==
    /\ handler[u] = "look_outcome"
    /\ handler' = [handler EXCEPT ![u] =
            IF outcomes[u] # None /\ outcomes[u].state = "executed"
            THEN "say_executed" ELSE "look_claim"]
    /\ UNCHANGED <<storeVars, coord, csnap, callVars, workerVars, history, root, bounds>>

\* status reads the three directories one after the other.
LookOutcome(u) ==
    /\ handler[u] = "look_outcome"
    /\ handler' = [handler EXCEPT ![u] =
            IF outcomes[u] = None THEN "look_claim"
            ELSE IF outcomes[u].state = "executed" THEN "say_executed" ELSE "say_failed"]
    /\ UNCHANGED <<storeVars, coord, csnap, callVars, workerVars, history, root, bounds>>

LookClaim(u) ==
    /\ handler[u] = "look_claim"
    /\ handler' = [handler EXCEPT ![u] = IF IsClaimed(u) THEN "say_pending" ELSE "look_queue"]
    /\ UNCHANGED <<storeVars, coord, csnap, callVars, workerVars, history, root, bounds>>

LookQueue(u) ==
    /\ handler[u] = "look_queue"
    /\ handler' = [handler EXCEPT ![u] = IF u \in Queued THEN "say_pending" ELSE "say_lost"]
    /\ UNCHANGED <<storeVars, coord, csnap, callVars, workerVars, history, root, bounds>>

-----------------------------------------------------------------------------
(***************************************************************************)
(* The boundary: invoke_workflow and submit_and_wait.                      *)
(***************************************************************************)
\* Connecting is bounded: a coordinator that is not there is a refusal.
Invoke(u) ==
    /\ call[u] = "idle"
    /\ IF coord = "serving"
       THEN /\ call' = [call EXCEPT ![u] = "posting"]
            /\ sent' = [sent EXCEPT ![u] = root[Boundary]]
            /\ handler' = [handler EXCEPT ![u] = "received"]
       ELSE /\ call' = [call EXCEPT ![u] = "refused"]
            /\ UNCHANGED <<sent, handler>>
    /\ UNCHANGED <<storeVars, coord, csnap, workerVars, history, root, bounds>>

\* The answer of a request arrives.  A caller that has stopped listening
\* ("unknown") hears nothing.
Answer(said) ==
    CASE said = "accept"       -> "polling"
      [] said = "refuse"       -> "refused"
      [] said = "say_executed" -> "returned"
      [] said = "say_failed"   -> "failed"
      [] said = "say_pending"  -> "polling"
      [] said = "say_lost"     -> "lost"

Reply(u) ==
    /\ handler[u] \in {"accept", "refuse", "say_executed", "say_failed", "say_pending", "say_lost"}
    /\ call' = [call EXCEPT ![u] = IF @ \in {"posting", "asking"} THEN Answer(handler[u]) ELSE @]
    /\ handler' = [handler EXCEPT ![u] = "none"]
    /\ UNCHANGED <<storeVars, coord, csnap, sent, workerVars, history, root, bounds>>

Poll(u) ==
    /\ call[u] = "polling"
    /\ coord = "serving"
    /\ call' = [call EXCEPT ![u] = "asking"]
    /\ handler' = [handler EXCEPT ![u] = "look_outcome"]
    /\ UNCHANGED <<storeVars, coord, csnap, sent, workerVars, history, root, bounds>>

\* An open request ends without an answer.  While submitting, whether the unit
\* was admitted is unknown; while waiting, the caller asks again.
AfterLoss(state) == IF state = "posting" THEN "unknown" ELSE "polling"

\* The server closed the connection: its thread or its process is gone.
NoticeLoss(u) ==
    /\ call[u] \in {"posting", "asking"}
    /\ handler[u] = "none"
    /\ call' = [call EXCEPT ![u] = AfterLoss(@)]
    /\ UNCHANGED <<storeVars, coordVars, sent, workerVars, history, root, bounds>>

\* The network drops the connection.  The thread of a submission goes on
\* regardless; the thread of a status request only reads, and is forgotten.
DropConnection(u) ==
    /\ call[u] \in {"posting", "asking"}
    /\ Fault("connection")
    /\ call' = [call EXCEPT ![u] = AfterLoss(@)]
    /\ handler' = [handler EXCEPT ![u] = IF call[u] = "asking" THEN "none" ELSE @]
    /\ UNCHANGED <<storeVars, coord, csnap, sent, workerVars, history, root>>

-----------------------------------------------------------------------------
(***************************************************************************)
(* A worker: FederatedWorker.__init__, run_forever, run_once, _execute.    *)
(***************************************************************************)
Boot(w) ==
    /\ pc[w] = "down"
    /\ pc' = [pc EXCEPT ![w] = "joining"]
    /\ wsnap' = [wsnap EXCEPT ![w] = root[w]]
    /\ UNCHANGED <<storeVars, coordVars, callVars, todo, cur, history, root, bounds>>

\* require_same_snapshot: asked once, when the worker starts.
Join(w) ==
    /\ pc[w] = "joining"
    /\ pc' = [pc EXCEPT ![w] = IF coord = "serving" /\ csnap = wsnap[w] THEN "idle" ELSE "down"]
    /\ UNCHANGED <<storeVars, coordVars, callVars, wsnap, todo, cur, history, root, bounds>>

List(w) ==
    /\ pc[w] = "idle"
    /\ pc' = [pc EXCEPT ![w] = "iterating"]
    /\ todo' = [todo EXCEPT ![w] = Queued]
    /\ UNCHANGED <<storeVars, coordVars, callVars, wsnap, cur, history, root, bounds>>

\* Variant: run_forever makes one pass and stops taking units.
EndLastPass(w) ==
    /\ pc[w] = "iterating"
    /\ todo[w] = {}
    /\ UNCHANGED vars

EndPass(w) ==
    /\ pc[w] = "iterating"
    /\ todo[w] = {}
    /\ pc' = [pc EXCEPT ![w] = "idle"]
    /\ UNCHANGED <<storeVars, coordVars, callVars, wsnap, todo, cur, history, root, bounds>>

\* The process ends: the listing and the unit in hand are gone, claims stay.
Dies(w) ==
    /\ pc' = [pc EXCEPT ![w] = "down"]
    /\ todo' = [todo EXCEPT ![w] = {}]
    /\ cur' = [cur EXCEPT ![w] = None]

First(w, u) == u \in todo[w] /\ \A v \in todo[w] : u <= v

\* The next record of the listing, in the order of the unit ids.  json.loads
\* raises on one that is not whole, and nothing between here and the end of the
\* process catches it.
ReadTorn(w, u) ==
    /\ pc[w] = "iterating"
    /\ First(w, u)
    /\ queue[u] = "torn"
    /\ Dies(w)
    /\ UNCHANGED <<storeVars, coordVars, callVars, wsnap, history, root, bounds>>

\* Variant: units of any snapshot are taken.
ReadAnySnapshot(w, u) ==
    /\ pc[w] = "iterating"
    /\ First(w, u)
    /\ queue[u] = "whole"
    /\ todo' = [todo EXCEPT ![w] = @ \ {u}]
    /\ pc' = [pc EXCEPT ![w] = "checking"]
    /\ cur' = [cur EXCEPT ![w] = u]
    /\ UNCHANGED <<storeVars, coordVars, callVars, wsnap, history, root, bounds>>

ReadWhole(w, u) ==
    /\ pc[w] = "iterating"
    /\ First(w, u)
    /\ queue[u] = "whole"
    /\ todo' = [todo EXCEPT ![w] = @ \ {u}]
    /\ IF sealed[u] # wsnap[w]
       THEN UNCHANGED <<pc, cur>>
       ELSE /\ pc' = [pc EXCEPT ![w] = "checking"]
            /\ cur' = [cur EXCEPT ![w] = u]
    /\ UNCHANGED <<storeVars, coordVars, callVars, wsnap, history, root, bounds>>

\* Leave the unit in hand and go on with the listing.
Skip(w) ==
    /\ pc' = [pc EXCEPT ![w] = "iterating"]
    /\ cur' = [cur EXCEPT ![w] = None]

\* Variant: a claimed unit without an outcome is taken to be abandoned and run.
CheckOutcome(w) ==
    /\ pc[w] = "checking"
    /\ IF outcomes[cur[w]] # None
       THEN Skip(w)
       ELSE /\ pc' = [pc EXCEPT ![w] = IF IsClaimed(cur[w]) THEN "claimed" ELSE "claiming"]
            /\ UNCHANGED cur
    /\ UNCHANGED <<storeVars, coordVars, callVars, wsnap, todo, history, root, bounds>>

Check(w) ==
    /\ pc[w] = "checking"
    /\ IF IsClaimed(cur[w])
       THEN Skip(w)
       ELSE pc' = [pc EXCEPT ![w] = "claiming"] /\ UNCHANGED cur
    /\ UNCHANGED <<storeVars, coordVars, callVars, wsnap, todo, history, root, bounds>>

ClaimWon(w) ==
    /\ pc[w] = "claiming"
    /\ WinClaim(cur[w], w)
    /\ pc' = [pc EXCEPT ![w] = "claimed"]
    /\ UNCHANGED <<coordVars, callVars, wsnap, todo, cur, history, root, bounds>>

\* Variant: what Store.claim returns is not looked at.
ClaimIgnored(w) ==
    /\ pc[w] = "claiming"
    /\ IsClaimed(cur[w])
    /\ pc' = [pc EXCEPT ![w] = "claimed"]
    /\ UNCHANGED <<storeVars, coordVars, callVars, wsnap, todo, cur, history, root, bounds>>

ClaimLost(w) ==
    /\ pc[w] = "claiming"
    /\ IsClaimed(cur[w])
    /\ Skip(w)
    /\ UNCHANGED <<storeVars, coordVars, callVars, wsnap, todo, history, root, bounds>>

\* _execute calls run_workflow on the snapshot_root: the run is determined by
\* the snapshot found there now.
Begin(w) ==
    /\ pc[w] = "claimed"
    /\ pc' = [pc EXCEPT ![w] = "running"]
    /\ runs' = [runs EXCEPT ![cur[w]] = @ + 1]
    /\ ranOn' = [ranOn EXCEPT ![cur[w]] = root[w]]
    /\ UNCHANGED <<storeVars, coordVars, callVars, wsnap, todo, cur, root, bounds>>

\* Variant: a run that raises ends the pass without a record.
FinishOnSuccess(w) ==
    /\ pc[w] = "running"
    /\ \/ RecordOutcome(cur[w], [worker |-> w, snapshot |-> wsnap[w], state |-> "executed"])
       \/ UNCHANGED storeVars
    /\ Skip(w)
    /\ UNCHANGED <<coordVars, callVars, wsnap, todo, history, root, bounds>>

\* Variant: a run that raises gives its unit back, to be tried again.
FinishReleases(w) ==
    /\ pc[w] = "running"
    /\ \/ RecordOutcome(cur[w], [worker |-> w, snapshot |-> wsnap[w], state |-> "executed"])
       \/ /\ claims' = [claims EXCEPT ![cur[w]] = None]
          /\ UNCHANGED <<queue, sealed, outcomes>>
    /\ Skip(w)
    /\ UNCHANGED <<coordVars, callVars, wsnap, todo, history, root, bounds>>

\* Variant: the record of a failure does not say where it failed.
FinishBare(w) ==
    /\ pc[w] = "running"
    /\ RecordOutcome(cur[w], [state |-> "failed"])
    /\ Skip(w)
    /\ UNCHANGED <<coordVars, callVars, wsnap, todo, history, root, bounds>>

\* The run ends and its outcome is renamed into place.  "failed" stands for any
\* exception of the run, and for a surface that does not serialise.
Finish(w) ==
    /\ pc[w] = "running"
    /\ \E state \in {"executed", "failed"} :
          RecordOutcome(cur[w], [worker |-> w, snapshot |-> wsnap[w], state |-> state])
    /\ Skip(w)
    /\ UNCHANGED <<coordVars, callVars, wsnap, todo, history, root, bounds>>

\* The process is killed, its host is lost, or a store call in it raises.
CrashWorker(w) ==
    /\ pc[w] # "down"
    /\ Fault("worker")
    /\ Dies(w)
    /\ UNCHANGED <<storeVars, coordVars, callVars, wsnap, history, root>>

-----------------------------------------------------------------------------
\* The snapshot at a party's snapshot_root is rebuilt in place.
Rebuild(p) ==
    /\ rebuilds < MaxRebuilds
    /\ rebuilds' = rebuilds + 1
    /\ \E s \in Snapshots \ {root[p]} : root' = [root EXCEPT ![p] = s]
    /\ UNCHANGED <<storeVars, coordVars, callVars, workerVars, history, faults>>

HandlerStep(u) ==
    Admit(u) \/ Enqueued(u) \/ LookOutcome(u) \/ LookClaim(u) \/ LookQueue(u) \/ Reply(u)

WaitStep(u) == Poll(u) \/ NoticeLoss(u)

PassStep(w) ==
    \/ List(w) \/ EndPass(w) \/ Check(w) \/ ClaimWon(w) \/ ClaimLost(w) \/ Begin(w) \/ Finish(w)
    \/ \E u \in Units : ReadTorn(w, u) \/ ReadWhole(w, u)

WorkerStep(w) == Boot(w) \/ Join(w) \/ PassStep(w)

Next ==
    \/ StartCoordinator
    \/ CrashCoordinator
    \/ \E u \in Units :
          HandlerStep(u) \/ HandlerFails(u) \/ Invoke(u) \/ WaitStep(u) \/ DropConnection(u)
    \/ \E w \in Workers : WorkerStep(w) \/ CrashWorker(w)
    \/ \E p \in Parties : Rebuild(p)

Spec == Init /\ [][Next]_vars

(***************************************************************************)
(* Fairness.  The coordinator and the workers of Reliable are started      *)
(* again when they are down (by whoever runs the node group: nothing in    *)
(* the code does); a running process and a waiting caller keep taking      *)
(* steps.  Nobody has to invoke anything, and faults need not happen.      *)
(***************************************************************************)
FairSpec ==
    /\ Spec
    /\ WF_vars(StartCoordinator)
    /\ \A u \in Units : WF_vars(HandlerStep(u)) /\ WF_vars(WaitStep(u))
    /\ \A w \in Reliable : WF_vars(WorkerStep(w))

-----------------------------------------------------------------------------
(***************************************************************************)
(* Safety.                                                                 *)
(***************************************************************************)
\* A unit is executed at most once, whatever workers race for it, die holding
\* it or are started again (worker.py: claim before execute; the test
\* test_each_unit_executes_exactly_once_across_workers runs one schedule).
SingleExecution == \A u \in Units : runs[u] <= 1

\* An outcome stands for one run, made by the worker that holds the claim: no
\* outcome is written for a unit that was not run, nor by somebody else.
OutcomeOfTheClaimant ==
    \A u \in Units : outcomes[u] # None =>
        /\ runs[u] = 1
        /\ outcomes[u].worker = claims[u]

\* "Block, never misreport": a caller told that its unit was refused, or that
\* the coordinator cannot be reached, has no unit in the queue, now or later.
RefusedIsNotAdmitted ==
    \A u \in Units : call[u] = "refused" => u \notin Queued /\ handler[u] = "none"

\* A caller told that its unit is admitted has a whole record in the queue, and
\* no answer ever tells it that the unit is lost: not while the unit passes
\* from queue to claim to outcome between the three reads of status, and not
\* over a restart of the coordinator, which remembers nothing.
AdmittedIsKept ==
    \A u \in Units :
        /\ call[u] \in {"polling", "asking", "returned", "failed"} => queue[u] = "whole"
        /\ call[u] # "lost"

\* What invoke_workflow returns or raises at the end of the wait is what the
\* store holds: the caller is told the end its own unit had.
ResultIsTheRecord ==
    \A u \in Units :
        /\ call[u] = "returned" => outcomes[u] # None /\ outcomes[u].state = "executed"
        /\ call[u] = "failed" => outcomes[u] # None /\ outcomes[u].state = "failed"

\* Claims and outcomes are evidence: neither is ever taken back or rewritten,
\* although the rename that writes an outcome would replace an earlier one.
EvidenceIsFinal ==
    [][\A u \in Units :
          /\ claims[u] # None => claims'[u] = claims[u]
          /\ outcomes[u] # None => outcomes'[u] = outcomes[u]]_vars

\* One authority: a unit is claimed only by a worker that booted the snapshot
\* the boundary held when it sent the unit, though the coordinator, the worker
\* and the boundary each read their own snapshot_root at their own time.
OneSnapshot ==
    \A u \in Units :
        /\ outcomes[u] # None => outcomes[u].snapshot = sent[u]
        /\ \A w \in Workers :
              pc[w] \in {"claimed", "running"} /\ cur[w] = u => wsnap[w] = sent[u]

-----------------------------------------------------------------------------
(***************************************************************************)
(* The node group implements the ledger of UnitLedger.  A unit is admitted *)
(* when its record is whole, begun when it is claimed, and ended when its  *)
(* outcome is in place.                                                    *)
(***************************************************************************)
LedgerState == [u \in Units |->
    IF outcomes[u] # None THEN outcomes[u].state
    ELSE IF claims[u] # None THEN "begun"
    ELSE IF queue[u] = "whole" THEN "queued"
    ELSE "none"]

LedgerTold == [u \in Units |->
    IF call[u] \in {"refused", "unknown", "failed", "lost"} THEN call[u]
    ELSE IF call[u] = "returned" THEN "executed"
    ELSE "nothing"]

Ledger == INSTANCE UnitLedger WITH state <- LedgerState, told <- LedgerTold

\* Every step of the node group is a step of the ledger or leaves it as it is.
ImplementsLedger == Ledger!Spec

-----------------------------------------------------------------------------
(***************************************************************************)
(* Liveness, under FairSpec.                                               *)
(***************************************************************************)
\* A record that nobody is going to complete: the thread that created it ended
\* between the create and the write.
Poisoned == \E u \in Units : queue[u] = "torn" /\ handler[u] = "none"

\* EO-5: an admitted unit that nobody claimed is taken by a worker that is
\* left, whatever becomes of the others, as long as no record is poisoned.
UnclaimedWorkMoves == \A u \in Units : queue[u] = "whole" ~> claims[u] # None \/ Poisoned

\* The claim of u stands and its worker no longer holds the unit.
LostWithItsWorker(u) ==
    /\ claims[u] # None
    /\ outcomes[u] = None
    /\ ~(pc[claims[u]] \in {"claimed", "running"} /\ cur[claims[u]] = u)

\* A begun unit gets its outcome, whether the run returns or raises, unless a
\* fault takes the worker that holds it.
BegunUnitEnds ==
    \A u \in Units : claims[u] \in Reliable ~>
        outcomes[u] # None \/ (faults > 0 /\ LostWithItsWorker(u))

\* A caller that waits for a unit with an outcome is told it, through restarts
\* of the coordinator and lost connections.
WaitEnds ==
    \A u \in Units : outcomes[u] # None /\ call[u] \in {"polling", "asking"} ~>
        call[u] \in {"returned", "failed"}

-----------------------------------------------------------------------------
(***************************************************************************)
(* What the documentation says and the code does not do.                   *)
(***************************************************************************)
\* client.py:76-79: an admitted unit is waited for through a store outage, a
\* coordinator restart or an undrained queue, "because every one of those ends
\* with the unit executed".
AdmittedIsExecuted == \A u \in Units : call[u] = "polling" ~> outcomes[u] # None

\* worker.py:8: "A worker executes only units sealed against the snapshot it
\* booted", so the snapshot it executes a unit on is the unit's.
RunsOnTheSealedSnapshot == \A u \in Units : runs[u] > 0 => ranOn[u] = sealed[u]

\* api.invoke_workflow: "a failure it raises is always one in which nothing was
\* admitted".
FailedIsNotAdmitted == \A u \in Units : call[u] = "failed" => u \notin Queued
=============================================================================
