-------------------------- MODULE FederationProofs --------------------------
(***************************************************************************)
(* Proofs about Federation, for any set of units, workers and snapshots    *)
(* and any number of faults, restarts and rebuilds.                        *)
(*                                                                         *)
(* None of the safety properties is inductive by itself: that a unit is    *)
(* executed once rests on what a worker between its claim and its outcome  *)
(* knows of the store, and that a refusal is final rests on which thread   *)
(* may still write.  IInv adds exactly that.                               *)
(***************************************************************************)
EXTENDS Federation, TLAPS

Holding == {"checking", "claiming", "claimed", "running"}
Submitting == {"received", "enqueueing", "accept", "refuse"}
Asking == {"look_outcome", "look_claim", "look_queue", "say_executed", "say_failed", "say_pending"}

\* What the three directories say about one unit fits together.
StoreInv ==
    \A u \in Units :
        /\ claims[u] = None => runs[u] = 0
        /\ claims[u] # None => queue[u] = "whole"
        /\ runs[u] <= 1
        /\ outcomes[u] # None =>
              /\ runs[u] = 1
              /\ outcomes[u].worker = claims[u]
              /\ outcomes[u].snapshot = sealed[u]
              /\ claims[u] # None
        /\ queue[u] # "absent" => sealed[u] = sent[u]

\* A worker that holds a unit has read a whole record of its own snapshot; one
\* that has won the claim is alone with the unit.
WorkerOK(w) ==
    /\ pc[w] # "down" => wsnap[w] \in Snapshots
    /\ pc[w] \in Holding =>
          /\ cur[w] \in Units
          /\ queue[cur[w]] = "whole"
          /\ sealed[cur[w]] = wsnap[w]
    /\ pc[w] \in {"claimed", "running"} =>
          /\ claims[cur[w]] = w
          /\ outcomes[cur[w]] = None
    /\ pc[w] = "claimed" => runs[cur[w]] = 0
    /\ pc[w] = "running" => runs[cur[w]] = 1

WorkerInv == \A w \in Workers : WorkerOK(w)

\* Which thread may serve a call, and what it has done for it so far.
CallInv ==
    \A u \in Units :
        /\ handler[u] \in Submitting => call[u] \in {"posting", "unknown"}
        /\ handler[u] \in Asking => call[u] = "asking"
        /\ handler[u] # "say_lost"
        /\ handler[u] \in {"received", "refuse"} => queue[u] = "absent"
        /\ handler[u] = "enqueueing" => queue[u] = "torn"
        /\ handler[u] = "accept" => queue[u] = "whole"
        /\ call[u] \in {"idle", "refused"} => queue[u] = "absent"
        /\ call[u] \in {"polling", "asking", "returned", "failed"} => queue[u] = "whole"
        /\ call[u] # "lost"
        /\ handler[u] = "say_executed" => outcomes[u] # None /\ outcomes[u].state = "executed"
        /\ handler[u] = "say_failed" => outcomes[u] # None /\ outcomes[u].state = "failed"
        /\ call[u] = "returned" => outcomes[u] # None /\ outcomes[u].state = "executed"
        /\ call[u] = "failed" => outcomes[u] # None /\ outcomes[u].state = "failed"

IInv == TypeOK /\ StoreInv /\ WorkerInv /\ CallInv

-----------------------------------------------------------------------------
(***************************************************************************)
(* Types.                                                                  *)
(***************************************************************************)
LEMMA InitType == Init => TypeOK
  BY FederationAssumption DEF Init, StoreInit, TypeOK, StoreTypeOK, CallState, HandlerState,
     WorkerState, Parties

LEMMA CoordinatorType ==
  ASSUME TypeOK, StartCoordinator \/ CrashCoordinator
  PROVE  TypeOK'
<1> USE DEF TypeOK, StoreTypeOK, storeVars, callVars, workerVars, history, bounds, Fault
<1>1. CASE StartCoordinator
  BY <1>1 DEF StartCoordinator, Parties
<1>2. CASE CrashCoordinator
  BY <1>2 DEF CrashCoordinator, HandlerState
<1> QED
  BY <1>1, <1>2

LEMMA HandlerType ==
  ASSUME TypeOK, NEW u \in Units, HandlerStep(u) \/ HandlerFails(u)
  PROVE  TypeOK'
<1> USE DEF TypeOK, StoreTypeOK, storeVars, callVars, workerVars, history, bounds, Fault
<1>1. CASE Admit(u)
  BY <1>1 DEF Admit, CreateUnit, HandlerState
<1>2. CASE Enqueued(u)
  BY <1>2 DEF Enqueued, FillUnit, HandlerState
<1>3. CASE LookOutcome(u)
  BY <1>3 DEF LookOutcome, HandlerState
<1>4. CASE LookClaim(u)
  BY <1>4 DEF LookClaim, HandlerState
<1>5. CASE LookQueue(u)
  BY <1>5 DEF LookQueue, HandlerState
<1>6. CASE Reply(u)
  BY <1>6 DEF Reply, Answer, HandlerState, CallState
<1>7. CASE HandlerFails(u)
  BY <1>7 DEF HandlerFails, HandlerState
<1> QED
  BY <1>1, <1>2, <1>3, <1>4, <1>5, <1>6, <1>7 DEF HandlerStep

LEMMA CallType ==
  ASSUME TypeOK, NEW u \in Units, Invoke(u) \/ WaitStep(u) \/ DropConnection(u)
  PROVE  TypeOK'
<1> USE DEF TypeOK, StoreTypeOK, storeVars, coordVars, workerVars, history, bounds, Fault,
            HandlerState, CallState, AfterLoss
<1>1. CASE Invoke(u)
  BY <1>1 DEF Invoke, Parties
<1>2. CASE Poll(u)
  BY <1>2 DEF Poll
<1>3. CASE NoticeLoss(u)
  BY <1>3 DEF NoticeLoss
<1>4. CASE DropConnection(u)
  BY <1>4 DEF DropConnection
<1> QED
  BY <1>1, <1>2, <1>3, <1>4 DEF WaitStep

\* The part of WorkerInv that makes the worker's actions typed.
HoldsAUnit ==
    \A w \in Workers :
        /\ pc[w] # "down" => wsnap[w] \in Snapshots
        /\ pc[w] \in Holding => cur[w] \in Units

LEMMA WorkerType ==
  ASSUME TypeOK, HoldsAUnit, NEW w \in Workers, WorkerStep(w) \/ CrashWorker(w)
  PROVE  TypeOK'
<1> USE DEF TypeOK, StoreTypeOK, storeVars, coordVars, callVars, history, bounds, Fault,
            HoldsAUnit, Holding, WorkerState
<1>1. CASE Boot(w)
  BY <1>1 DEF Boot, Parties
<1>2. CASE Join(w)
  BY <1>2 DEF Join
<1>3. CASE List(w)
  BY <1>3 DEF List, Queued
<1>4. CASE EndPass(w)
  BY <1>4 DEF EndPass
<1>5. ASSUME NEW u \in Units, ReadTorn(w, u) PROVE TypeOK'
  BY <1>5 DEF ReadTorn, Dies
<1>6. ASSUME NEW u \in Units, ReadWhole(w, u) PROVE TypeOK'
  BY <1>6 DEF ReadWhole
<1>7. CASE Check(w)
  BY <1>7 DEF Check, Skip
<1>8. CASE ClaimWon(w)
  BY <1>8 DEF ClaimWon, WinClaim
<1>9. CASE ClaimLost(w)
  BY <1>9 DEF ClaimLost, Skip
<1>10. CASE Begin(w)
  BY <1>10 DEF Begin, Parties
<1>11. CASE Finish(w)
  <2>1. PICK state \in {"executed", "failed"} :
           RecordOutcome(cur[w], [worker |-> w, snapshot |-> wsnap[w], state |-> state])
    BY <1>11 DEF Finish
  <2>2. wsnap[w] \in Snapshots
    BY <1>11 DEF Finish
  <2> QED
    BY <1>11, <2>1, <2>2 DEF Finish, RecordOutcome, OutcomeRecord, Skip
<1>12. CASE CrashWorker(w)
  BY <1>12 DEF CrashWorker, Dies
<1> QED
  BY <1>1, <1>2, <1>3, <1>4, <1>5, <1>6, <1>7, <1>8, <1>9, <1>10, <1>11, <1>12
  DEF WorkerStep, PassStep

LEMMA RebuildType ==
  ASSUME TypeOK, NEW p \in Parties, Rebuild(p)
  PROVE  TypeOK'
  BY DEF TypeOK, StoreTypeOK, Rebuild, storeVars, coordVars, callVars, workerVars, history
-----------------------------------------------------------------------------
(***************************************************************************)
(* Each action keeps the rest of the invariant.                            *)
(***************************************************************************)
LEMMA InitInv == Init => StoreInv /\ WorkerInv /\ CallInv
  BY DEF Init, StoreInit, StoreInv, WorkerInv, WorkerOK, CallInv, Holding, Submitting, Asking

LEMMA CoordinatorInv ==
  ASSUME IInv, StartCoordinator \/ CrashCoordinator
  PROVE  StoreInv' /\ WorkerInv' /\ CallInv'
<1> USE DEF IInv, TypeOK, storeVars, callVars, workerVars, history, bounds, Fault,
        StoreInv, WorkerInv, WorkerOK, CallInv, Submitting, Asking
<1>1. CASE StartCoordinator
  BY <1>1 DEF StartCoordinator
<1>2. CASE CrashCoordinator
  BY <1>2 DEF CrashCoordinator
<1> QED
  BY <1>1, <1>2

LEMMA HandlerInv ==
  ASSUME IInv, NEW u \in Units, HandlerStep(u) \/ HandlerFails(u)
  PROVE  StoreInv' /\ WorkerInv' /\ CallInv'
<1> USE StoreAssumption
    DEF IInv, TypeOK, StoreTypeOK, storeVars, callVars, workerVars, history, bounds, Fault,
        StoreInv, WorkerInv, WorkerOK, CallInv, Holding, Submitting, Asking
<1>1. CASE Admit(u)
  <2>1. StoreInv'
    BY <1>1 DEF Admit, CreateUnit
  <2>2. ASSUME NEW v \in Workers PROVE WorkerOK(v)'
    <3>1. CASE UNCHANGED storeVars
      BY <1>1, <3>1 DEF Admit
    <3>2. CASE CreateUnit(u, csnap)
      <4>1. pc[v] \in Holding => cur[v] # u
        BY <3>2 DEF CreateUnit
      <4> QED
        BY <1>1, <3>2, <4>1 DEF Admit, CreateUnit
    <3> QED
      BY <1>1, <3>1, <3>2 DEF Admit
  <2>3. CallInv'
    BY <1>1 DEF Admit, CreateUnit
  <2> QED
    BY <2>1, <2>2, <2>3
<1>2. CASE Enqueued(u)
  <2>1. StoreInv'
    <3>1. ASSUME NEW v \in Units, v # u PROVE queue'[v] = queue[v]
      BY <1>2, <3>1 DEF Enqueued, FillUnit
    <3>2. queue[u] = "torn" /\ queue'[u] = "whole"
      BY <1>2 DEF Enqueued, FillUnit
    <3> QED
      BY <1>2, <3>1, <3>2 DEF Enqueued, FillUnit
  <2>2. WorkerInv'
    BY <1>2 DEF Enqueued, FillUnit
  <2>3. CallInv'
    BY <1>2 DEF Enqueued, FillUnit
  <2> QED
    BY <2>1, <2>2, <2>3
<1>3. CASE LookOutcome(u)
  BY <1>3 DEF LookOutcome, OutcomeRecord
<1>4. CASE LookClaim(u)
  BY <1>4 DEF LookClaim
<1>5. CASE LookQueue(u)
  BY <1>5 DEF LookQueue, Queued
<1>6. CASE Reply(u)
  BY <1>6 DEF Reply, Answer
<1>7. CASE HandlerFails(u)
  BY <1>7 DEF HandlerFails
<1> QED
  BY <1>1, <1>2, <1>3, <1>4, <1>5, <1>6, <1>7 DEF HandlerStep

LEMMA BoundaryInv ==
  ASSUME IInv, NEW u \in Units, Invoke(u) \/ WaitStep(u) \/ DropConnection(u)
  PROVE  StoreInv' /\ WorkerInv' /\ CallInv'
<1> USE DEF IInv, TypeOK, StoreTypeOK, storeVars, coordVars, workerVars, history, bounds, Fault,
            StoreInv, WorkerInv, WorkerOK, CallInv, Holding, Submitting, Asking, AfterLoss, HandlerState,
            CallState
<1>1. CASE Invoke(u)
  BY <1>1 DEF Invoke
<1>2. CASE Poll(u)
  BY <1>2 DEF Poll
<1>3. CASE NoticeLoss(u)
  BY <1>3 DEF NoticeLoss
<1>4. CASE DropConnection(u)
  BY <1>4 DEF DropConnection
<1> QED
  BY <1>1, <1>2, <1>3, <1>4 DEF WaitStep

LEMMA WorkerStepInv ==
  ASSUME IInv, NEW w \in Workers, WorkerStep(w) \/ CrashWorker(w)
  PROVE  StoreInv' /\ WorkerInv' /\ CallInv'
<1> USE StoreAssumption
    DEF IInv, TypeOK, StoreTypeOK, storeVars, coordVars, callVars, history, bounds, Fault,
        StoreInv, WorkerInv, WorkerOK, CallInv, Holding
<1>1. CASE Boot(w)
  BY <1>1 DEF Boot, Parties
<1>2. CASE Join(w)
  BY <1>2 DEF Join
<1>3. CASE List(w)
  BY <1>3 DEF List
<1>4. CASE EndPass(w)
  BY <1>4 DEF EndPass
<1>5. ASSUME NEW u \in Units, ReadTorn(w, u) PROVE StoreInv' /\ WorkerInv' /\ CallInv'
  BY <1>5 DEF ReadTorn, Dies
<1>6. ASSUME NEW u \in Units, ReadWhole(w, u) PROVE StoreInv' /\ WorkerInv' /\ CallInv'
  BY <1>6 DEF ReadWhole
<1>7. CASE Check(w)
  <2>1. StoreInv' /\ CallInv'
    BY <1>7 DEF Check
  <2>2. ASSUME NEW v \in Workers PROVE WorkerOK(v)'
    <3>1. CASE v = w
      BY <1>7, <3>1 DEF Check, Skip
    <3>2. CASE v # w
      <4>1. pc'[v] = pc[v] /\ cur'[v] = cur[v]
        BY <1>7, <3>2 DEF Check, Skip
      <4> QED
        BY <1>7, <4>1 DEF Check
    <3> QED
      BY <3>1, <3>2
  <2> QED
    BY <2>1, <2>2
<1>8. CASE ClaimWon(w)
  <2>1. StoreInv'
    BY <1>8 DEF ClaimWon, WinClaim, IsClaimed
  <2>2. ASSUME NEW v \in Workers PROVE WorkerOK(v)'
    <3>1. CASE v = w
      <4>1. claims[cur[w]] = None /\ runs[cur[w]] = 0 /\ outcomes[cur[w]] = None
        <5>1. cur[w] \in Units /\ claims[cur[w]] = None
          BY <1>8 DEF ClaimWon, WinClaim, IsClaimed
        <5>2. \A x \in Units : claims[x] = None => runs[x] = 0 /\ outcomes[x] = None
          OBVIOUS
        <5> QED
          BY <5>1, <5>2
      <4>2. claims'[cur[w]] = w
        BY <1>8 DEF ClaimWon, WinClaim
      <4> QED
        BY <1>8, <3>1, <4>1, <4>2 DEF ClaimWon, WinClaim
    <3>2. CASE v # w
      <4>1. pc[v] \in {"claimed", "running"} => cur[v] # cur[w]
        BY <1>8, <3>2 DEF ClaimWon, WinClaim, IsClaimed
      <4> QED
        BY <1>8, <3>2, <4>1 DEF ClaimWon, WinClaim, IsClaimed
    <3> QED
      BY <3>1, <3>2
  <2>3. CallInv'
    BY <1>8 DEF ClaimWon, WinClaim, IsClaimed
  <2> QED
    BY <2>1, <2>2, <2>3
<1>9. CASE ClaimLost(w)
  <2>1. StoreInv' /\ CallInv'
    BY <1>9 DEF ClaimLost
  <2>2. ASSUME NEW v \in Workers PROVE WorkerOK(v)'
    <3>1. CASE v = w
      BY <1>9, <3>1 DEF ClaimLost, Skip
    <3>2. CASE v # w
      <4>1. pc'[v] = pc[v] /\ cur'[v] = cur[v]
        BY <1>9, <3>2 DEF ClaimLost, Skip
      <4> QED
        BY <1>9, <4>1 DEF ClaimLost
    <3> QED
      BY <3>1, <3>2
  <2> QED
    BY <2>1, <2>2
<1>10. CASE Begin(w)
  <2>1. StoreInv'
    BY <1>10 DEF Begin
  <2>2. WorkerInv'
    BY <1>10 DEF Begin
  <2>3. CallInv'
    BY <1>10 DEF Begin
  <2> QED
    BY <2>1, <2>2, <2>3
<1>11. CASE Finish(w)
  <2>1. PICK state \in {"executed", "failed"} :
           RecordOutcome(cur[w], [worker |-> w, snapshot |-> wsnap[w], state |-> state])
    BY <1>11 DEF Finish
  <2>2. StoreInv'
    BY <1>11, <2>1 DEF Finish, RecordOutcome, Skip
  <2>3. WorkerInv'
    BY <1>11, <2>1 DEF Finish, RecordOutcome, Skip
  <2>4. CallInv'
    BY <1>11, <2>1 DEF Finish, RecordOutcome, Skip
  <2> QED
    BY <2>2, <2>3, <2>4
<1>12. CASE CrashWorker(w)
  BY <1>12 DEF CrashWorker, Dies
<1> QED
  BY <1>1, <1>2, <1>3, <1>4, <1>5, <1>6, <1>7, <1>8, <1>9, <1>10, <1>11, <1>12
  DEF WorkerStep, PassStep

LEMMA RebuildInv ==
  ASSUME IInv, NEW p \in Parties, Rebuild(p)
  PROVE  StoreInv' /\ WorkerInv' /\ CallInv'
  BY DEF IInv, Rebuild, storeVars, coordVars, callVars, workerVars, history,
         StoreInv, WorkerInv, WorkerOK, CallInv

LEMMA StepInv == IInv /\ [Next]_vars => IInv'
<1> SUFFICES ASSUME IInv, [Next]_vars PROVE IInv'
  OBVIOUS
<1>1. HoldsAUnit
  BY DEF IInv, WorkerInv, WorkerOK, HoldsAUnit
<1>2. CASE StartCoordinator \/ CrashCoordinator
  BY <1>2, CoordinatorType, CoordinatorInv DEF IInv
<1>3. ASSUME NEW u \in Units, HandlerStep(u) \/ HandlerFails(u) PROVE IInv'
  BY <1>3, HandlerType, HandlerInv DEF IInv
<1>4. ASSUME NEW u \in Units, Invoke(u) \/ WaitStep(u) \/ DropConnection(u) PROVE IInv'
  BY <1>4, CallType, BoundaryInv DEF IInv
<1>5. ASSUME NEW w \in Workers, WorkerStep(w) \/ CrashWorker(w) PROVE IInv'
  BY <1>1, <1>5, WorkerType, WorkerStepInv DEF IInv
<1>6. ASSUME NEW p \in Parties, Rebuild(p) PROVE IInv'
  BY <1>6, RebuildType, RebuildInv DEF IInv
<1>7. CASE UNCHANGED vars
  BY <1>7 DEF vars, storeVars, coordVars, callVars, workerVars, history, bounds,
     IInv, TypeOK, StoreTypeOK, StoreInv, WorkerInv, WorkerOK, CallInv
<1> QED
  BY <1>2, <1>3, <1>4, <1>5, <1>6, <1>7 DEF Next

\* Every reachable state of a node group is one the invariant describes.
THEOREM Invariance == Spec => []IInv
<1>1. Init => IInv
  BY InitType, InitInv DEF IInv
<1> QED
  BY <1>1, StepInv, PTL DEF Spec

-----------------------------------------------------------------------------
\* The variables keep their types (the state of FederatedStore and of the three
\* kinds of process).
THEOREM TypeCorrect == Spec => []TypeOK
<1>1. IInv => TypeOK
  BY DEF IInv
<1> QED
  BY <1>1, Invariance, PTL

\* Exclusive creation of the claim is enough for a unit to be executed at most
\* once: no lease, no clock and no agreement between workers is needed.
THEOREM ExecutedOnce == Spec => []SingleExecution
<1>1. IInv => SingleExecution
  BY DEF IInv, StoreInv, SingleExecution
<1> QED
  BY <1>1, Invariance, PTL

\* An outcome is evidence of one run by the worker whose claim is in the store.
THEOREM OutcomeOwned == Spec => []OutcomeOfTheClaimant
<1>1. IInv => OutcomeOfTheClaimant
  BY DEF IInv, StoreInv, OutcomeOfTheClaimant
<1> QED
  BY <1>1, Invariance, PTL

\* "Block, never misreport", first half: a refusal is never contradicted.
THEOREM RefusalHolds == Spec => []RefusedIsNotAdmitted
<1>1. IInv => RefusedIsNotAdmitted
  BY DEF IInv, TypeOK, CallInv, RefusedIsNotAdmitted, Queued, HandlerState, Submitting, Asking
<1> QED
  BY <1>1, Invariance, PTL

\* "Block, never misreport", second half: an admission is never taken back.
THEOREM AdmissionHolds == Spec => []AdmittedIsKept
<1>1. IInv => AdmittedIsKept
  BY DEF IInv, CallInv, AdmittedIsKept
<1> QED
  BY <1>1, Invariance, PTL

\* The end a caller is told is the end the store records.
THEOREM ResultTold == Spec => []ResultIsTheRecord
<1>1. IInv => ResultIsTheRecord
  BY DEF IInv, CallInv, ResultIsTheRecord
<1> QED
  BY <1>1, Invariance, PTL

\* A unit is taken and reported under the snapshot identity it was sent with.
THEOREM OneAuthority == Spec => []OneSnapshot
<1>1. IInv => OneSnapshot
  <2> SUFFICES ASSUME IInv, NEW u \in Units
               PROVE  /\ outcomes[u] # None => outcomes[u].snapshot = sent[u]
                      /\ \A w \in Workers :
                            pc[w] \in {"claimed", "running"} /\ cur[w] = u => wsnap[w] = sent[u]
    BY DEF OneSnapshot
  <2>1. queue[u] = "whole" => sealed[u] = sent[u]
    BY DEF IInv, StoreInv
  <2>2. outcomes[u] # None => queue[u] = "whole" /\ outcomes[u].snapshot = sealed[u]
    BY DEF IInv, StoreInv
  <2>3. ASSUME NEW w \in Workers, pc[w] \in {"claimed", "running"}, cur[w] = u
        PROVE  queue[u] = "whole" /\ sealed[u] = wsnap[w]
    BY <2>3 DEF IInv, WorkerInv, WorkerOK, Holding
  <2> QED
    BY <2>1, <2>2, <2>3
<1> QED
  BY <1>1, Invariance, PTL

\* Claims and outcomes are never taken back or rewritten: only the worker alone
\* with a unit writes its outcome, and it does so once.
THEOREM EvidenceKept == Spec => EvidenceIsFinal
<1> DEFINE Kept == \A u \in Units :
              /\ claims[u] # None => claims'[u] = claims[u]
              /\ outcomes[u] # None => outcomes'[u] = outcomes[u]
<1>1. IInv /\ [Next]_vars => [Kept]_vars
  <2> SUFFICES ASSUME IInv, Next PROVE Kept
    OBVIOUS
  <2> USE DEF IInv, TypeOK, StoreTypeOK
  <2>1. CASE UNCHANGED <<claims, outcomes>>
    BY <2>1
  <2>2. ASSUME NEW w \in Workers, ClaimWon(w) PROVE Kept
    BY <2>2 DEF ClaimWon, WinClaim, IsClaimed
  <2>3. ASSUME NEW w \in Workers, Finish(w) PROVE Kept
    <3>1. outcomes[cur[w]] = None
      BY <2>3 DEF Finish, WorkerInv, WorkerOK
    <3>2. \A u \in Units : u # cur[w] => outcomes'[u] = outcomes[u]
      BY <2>3 DEF Finish, RecordOutcome
    <3>3. UNCHANGED claims
      BY <2>3 DEF Finish, RecordOutcome
    <3> QED
      BY <3>1, <3>2, <3>3
  <2> QED
    BY <2>1, <2>2, <2>3
    DEF Next, HandlerStep, WaitStep, WorkerStep, PassStep, storeVars,
        StartCoordinator, CrashCoordinator, HandlerFails, Invoke, DropConnection, CrashWorker,
        Rebuild, Admit, CreateUnit, Enqueued, FillUnit, LookOutcome, LookClaim, LookQueue, Reply,
        Poll, NoticeLoss, Boot, Join, List, EndPass, Check, ClaimLost, Begin, ReadTorn, ReadWhole
<1> QED
  BY <1>1, Invariance, PTL DEF EvidenceIsFinal, Spec

-----------------------------------------------------------------------------
(***************************************************************************)
(* Refinement of UnitLedger.  The steps that move the ledger are the write *)
(* of the record, the claim, the outcome, and the five ways in which a     *)
(* call comes to an end.                                                   *)
(***************************************************************************)
LEMMA LedgerInit == Init => Ledger!Init
  BY DEF Init, StoreInit, Ledger!Init, LedgerState, LedgerTold

\* The ledger sees the three directories and the callers, and nothing else.
LEMMA LedgerStutter ==
  ASSUME UNCHANGED <<storeVars, call>>
  PROVE  UNCHANGED Ledger!vars
  BY DEF storeVars, Ledger!vars, LedgerState, LedgerTold

LEMMA LedgerStore ==
  ASSUME IInv, NEW u \in Units, Admit(u) \/ Enqueued(u)
  PROVE  [Ledger!Next]_Ledger!vars
<1> USE DEF IInv, TypeOK, StoreTypeOK, StoreInv
<1>1. UNCHANGED LedgerTold
  BY DEF Admit, Enqueued, callVars, LedgerTold
<1>2. CASE Admit(u)
  <2>1. UNCHANGED LedgerState
    BY <1>2 DEF Admit, CreateUnit, storeVars, LedgerState
  <2> QED
    BY <1>1, <2>1 DEF Ledger!vars
<1>3. CASE Enqueued(u)
  <2>1. LedgerState[u] = "none" /\ LedgerState' = [LedgerState EXCEPT ![u] = "queued"]
    BY <1>3 DEF Enqueued, FillUnit, LedgerState
  <2>2. LedgerTold[u] # "refused"
    BY <1>3 DEF Enqueued, CallInv, Submitting, LedgerTold
  <2>3. Ledger!Admit(u)
    BY <1>1, <2>1, <2>2 DEF Ledger!Admit
  <2> QED
    BY <2>3 DEF Ledger!Next
<1> QED
  BY <1>2, <1>3

LEMMA LedgerWork ==
  ASSUME IInv, NEW w \in Workers, ClaimWon(w) \/ Finish(w)
  PROVE  [Ledger!Next]_Ledger!vars
<1> USE DEF IInv, TypeOK, StoreTypeOK
<1> DEFINE u == cur[w]
<1>1. u \in Units /\ queue[u] = "whole"
  BY DEF ClaimWon, Finish, WorkerInv, WorkerOK, Holding
<1>2. UNCHANGED LedgerTold
  BY DEF ClaimWon, Finish, callVars, LedgerTold
<1>3. CASE ClaimWon(w)
  <2>1. claims[u] = None /\ outcomes[u] = None
    BY <1>1, <1>3 DEF ClaimWon, WinClaim, IsClaimed, StoreInv
  <2>2. LedgerState[u] = "queued"
    BY <1>1, <2>1 DEF LedgerState
  <2>3. LedgerState' = [LedgerState EXCEPT ![u] = "begun"]
    BY <1>1, <1>3, <2>1, StoreAssumption DEF ClaimWon, WinClaim, LedgerState
  <2>4. Ledger!Begin(u)
    BY <1>2, <2>2, <2>3 DEF Ledger!Begin
  <2> QED
    BY <1>1, <2>4 DEF Ledger!Next
<1>4. CASE Finish(w)
  <2>1. claims[u] = w /\ outcomes[u] = None
    BY <1>4 DEF Finish, WorkerInv, WorkerOK
  <2>2. LedgerState[u] = "begun"
    BY <1>1, <2>1, StoreAssumption DEF LedgerState
  <2>3. PICK e \in {"executed", "failed"} :
           RecordOutcome(u, [worker |-> w, snapshot |-> wsnap[w], state |-> e])
    BY <1>4 DEF Finish
  <2>4. outcomes'[u] # None /\ outcomes'[u].state = e
    <3>1. wsnap[w] \in Snapshots
      BY <1>4 DEF Finish, WorkerInv, WorkerOK
    <3>2. [worker |-> w, snapshot |-> wsnap[w], state |-> e] \in OutcomeRecord
      BY <3>1 DEF OutcomeRecord
    <3> QED
      BY <1>1, <2>3, <3>2, RecordAssumption DEF RecordOutcome
  <2>5. LedgerState' = [LedgerState EXCEPT ![u] = e]
    BY <1>1, <2>3, <2>4 DEF RecordOutcome, LedgerState
  <2>6. Ledger!End(u)
    BY <1>2, <2>2, <2>5 DEF Ledger!End, Ledger!Ends
  <2> QED
    BY <1>1, <2>6 DEF Ledger!Next
<1> QED
  BY <1>3, <1>4

LEMMA LedgerCall ==
  ASSUME IInv, NEW u \in Units, Reply(u) \/ Invoke(u) \/ NoticeLoss(u) \/ DropConnection(u)
  PROVE  [Ledger!Next]_Ledger!vars
<1> USE DEF IInv, TypeOK, StoreTypeOK, CallState
<1>1. UNCHANGED LedgerState
  BY DEF Reply, Invoke, NoticeLoss, DropConnection, storeVars, LedgerState
<1>2. PICK next : call' = [call EXCEPT ![u] = next]
  BY DEF Reply, Invoke, NoticeLoss, DropConnection
<1>3. next = call[u] \/ call[u] \in {"idle", "posting", "asking"}
  BY <1>2 DEF Reply, Invoke, NoticeLoss, DropConnection
<1>4. CASE next = call[u]
  BY <1>1, <1>2, <1>4 DEF Ledger!vars, LedgerTold
<1>5. CASE next # call[u] /\ next = "refused"
  <2>1. LedgerTold[u] = "nothing" /\ LedgerTold' = [LedgerTold EXCEPT ![u] = "refused"]
    BY <1>2, <1>3, <1>5 DEF LedgerTold
  <2>2. queue[u] = "absent"
    <3>1. handler[u] = "refuse" \/ call[u] = "idle"
      BY <1>2, <1>5 DEF Reply, Answer, Invoke, NoticeLoss, DropConnection, AfterLoss
    <3> QED
      BY <3>1 DEF CallInv
  <2>3. LedgerState[u] = "none"
    BY <2>2 DEF LedgerState, StoreInv
  <2>4. Ledger!Refuse(u)
    BY <1>1, <2>1, <2>3 DEF Ledger!Refuse
  <2> QED
    BY <2>4 DEF Ledger!Next
<1>6. CASE next # call[u] /\ next = "unknown"
  <2>1. LedgerTold[u] = "nothing" /\ LedgerTold' = [LedgerTold EXCEPT ![u] = "unknown"]
    BY <1>2, <1>3, <1>6 DEF LedgerTold
  <2>2. Ledger!Disconnect(u)
    BY <1>1, <2>1 DEF Ledger!Disconnect
  <2> QED
    BY <2>2 DEF Ledger!Next
<1>7. CASE next # call[u] /\ next \in {"returned", "failed"}
  <2>1. handler[u] = IF next = "returned" THEN "say_executed" ELSE "say_failed"
    BY <1>2, <1>7 DEF Reply, Answer, Invoke, NoticeLoss, DropConnection, AfterLoss
  <2>2. LedgerState[u] = IF next = "returned" THEN "executed" ELSE "failed"
    BY <1>7, <2>1 DEF CallInv, LedgerState
  <2>3. LedgerTold[u] = "nothing" /\ LedgerTold' = [LedgerTold EXCEPT ![u] = LedgerState[u]]
    BY <1>2, <1>3, <1>7, <2>2 DEF LedgerTold
  <2>4. Ledger!Tell(u)
    BY <1>1, <1>7, <2>2, <2>3 DEF Ledger!Tell, Ledger!Ends
  <2> QED
    BY <2>4 DEF Ledger!Next
<1>8. CASE next # call[u] /\ next \in {"posting", "polling"}
  <2>1. UNCHANGED LedgerTold
    BY <1>2, <1>3, <1>8 DEF LedgerTold
  <2> QED
    BY <1>1, <2>1 DEF Ledger!vars
<1>9. next \in {"refused", "unknown", "returned", "failed", "posting", "polling", call[u]}
  BY <1>2 DEF Reply, Answer, Invoke, NoticeLoss, DropConnection, AfterLoss, CallInv
<1> QED
  BY <1>4, <1>5, <1>6, <1>7, <1>8, <1>9

\* A node group keeps the ledger: no schedule of its processes, no fault, no
\* restart and no rebuild makes it do to a unit, or tell a caller, anything the
\* ledger does not allow.
THEOREM LedgerKept == Spec => ImplementsLedger
<1>1. IInv /\ [Next]_vars => [Ledger!Next]_Ledger!vars
  <2> SUFFICES ASSUME IInv, [Next]_vars PROVE [Ledger!Next]_Ledger!vars
    OBVIOUS
  <2>1. CASE UNCHANGED <<storeVars, call>>
    BY <2>1, LedgerStutter
  <2>2. ASSUME NEW u \in Units, Admit(u) \/ Enqueued(u) PROVE [Ledger!Next]_Ledger!vars
    BY <2>2, LedgerStore
  <2>3. ASSUME NEW w \in Workers, ClaimWon(w) \/ Finish(w) PROVE [Ledger!Next]_Ledger!vars
    BY <2>3, LedgerWork
  <2>4. ASSUME NEW u \in Units, Reply(u) \/ Invoke(u) \/ NoticeLoss(u) \/ DropConnection(u)
        PROVE  [Ledger!Next]_Ledger!vars
    BY <2>4, LedgerCall
  <2>5. ASSUME NEW u \in Units, Poll(u) PROVE [Ledger!Next]_Ledger!vars
    <3>1. UNCHANGED <<LedgerState, LedgerTold>>
      BY <2>5 DEF Poll, storeVars, LedgerState, LedgerTold
    <3> QED
      BY <3>1 DEF Ledger!vars
  <2> QED
    BY <2>1, <2>2, <2>3, <2>4, <2>5
    DEF Next, vars, HandlerStep, WaitStep, WorkerStep, PassStep, callVars,
        StartCoordinator, CrashCoordinator, HandlerFails, CrashWorker, Rebuild,
        LookOutcome, LookClaim, LookQueue,
        Boot, Join, List, EndPass, Check, ClaimLost, Begin, ReadTorn, ReadWhole
<1> QED
  BY <1>1, LedgerInit, Invariance, PTL DEF Spec, ImplementsLedger, Ledger!Spec
=============================================================================
