----------------------- MODULE LocalCoordinatorProofs -----------------------
(***************************************************************************)
(* Proofs about LocalCoordinator, for any coordinators over one data_root, *)
(* any lists of units, pools of any size and any number of faults.         *)
(*                                                                         *)
(* The exclusive create alone does not make a unit run once: a process     *)
(* must also be the only one that ever acts for the holder of the claim.   *)
(* So the invariant says which tasks may still claim, and that a task is   *)
(* in one hand at most.                                                    *)
(***************************************************************************)
EXTENDS LocalCoordinator, SequenceTheorems, TLAPS

Live == {"claiming", "claimed", "running"}
Open == {"pending", "raised"}
Ticket(c, t) == [by |-> c, turn |-> turn[c], task |-> t]

\* A task is waiting or in one hand at most, and an idle coordinator has no
\* process at work.
PoolOK(c) ==
    /\ DOMAIN future[c] = DOMAIN batch[c]
    /\ waiting[c] \subseteq DOMAIN batch[c]
    /\ \A s \in Slots : at[c][s] \in Live => task[c][s] \in DOMAIN batch[c] \ waiting[c]
    /\ \A s, z \in Slots :
          s # z /\ at[c][s] \in Live /\ at[c][z] \in Live => task[c][s] # task[c][z]
    /\ stage[c] = "idle" => \A s \in Slots : at[c][s] \notin Live

PoolInv == \A c \in Coordinators : PoolOK(c)

\* A claim is of this dispatch or an earlier one; a unit runs under a claim.
ClaimInv ==
    \A u \in Units :
        /\ claims[u] # None => claims[u].turn <= turn[claims[u].by]
        /\ claims[u] = None => runs[u] = 0
        /\ runs[u] <= 1

\* A task that has not claimed holds nothing; one that has is the holder.
HandOK(c, s) ==
    /\ at[c][s] = "claiming" => \A u \in Units : claims[u] # Ticket(c, task[c][s])
    /\ at[c][s] \in {"claimed", "running"} => claims[InHand(c, s)] = Ticket(c, task[c][s])
    /\ at[c][s] = "claimed" => runs[InHand(c, s)] = 0

HandInv == \A c \in Coordinators, s \in Slots : HandOK(c, s)

WaitOK(c) == \A t \in waiting[c], u \in Units : claims[u] # Ticket(c, t)

WaitInv == \A c \in Coordinators : WaitOK(c)

\* What a future says of its task is what the store says of it.
FutureOK(c) ==
    /\ \A s \in Slots : at[c][s] \in Live => future[c][task[c][s]] \in Open
    /\ \A t \in waiting[c] : future[c][t] \in Open
    /\ \A t \in DOMAIN batch[c] :
          /\ future[c][t] \in {"executed", "failed"} =>
                claims[batch[c][t]] = Ticket(c, t) /\ ended[batch[c][t]] = future[c][t]
          /\ future[c][t] = "elsewhere" =>
                claims[batch[c][t]] # None /\ claims[batch[c][t]] # Ticket(c, t)
          /\ t \in collected[c] => future[c][t] \notin Open
    /\ IF stage[c] = "idle"
       THEN report[c] # <<>> => report[c] = future[c] /\ collected[c] = DOMAIN future[c]
       ELSE report[c] = <<>>

FutureInv == \A c \in Coordinators : FutureOK(c)

IInv == TypeOK /\ PoolInv /\ ClaimInv /\ HandInv /\ WaitInv /\ FutureInv

-----------------------------------------------------------------------------
(***************************************************************************)
(* Types.                                                                  *)
(***************************************************************************)
LEMMA InitType == Init => TypeOK
  BY LocalAssumption DEF Init, TypeOK, FutureState, ProcessState

\* A list of futures stays one when a future is resolved or the open ones fail.
LEMMA ResolvedFutures ==
  ASSUME NEW f \in Seq(FutureState), NEW t \in DOMAIN f, NEW r \in FutureState
  PROVE  /\ [f EXCEPT ![t] = IF @ = "pending" THEN r ELSE @] \in Seq(FutureState)
         /\ DOMAIN [f EXCEPT ![t] = IF @ = "pending" THEN r ELSE @] = DOMAIN f
<1> DEFINE e == IF f[t] = "pending" THEN r ELSE f[t]
<1>1. DOMAIN f = 1..Len(f)
  BY LenProperties
<1>2. e \in FutureState
  BY <1>1, ElementOfSeq
<1>3. [f EXCEPT ![t] = e] \in Seq(FutureState)
  BY <1>1, <1>2, ExceptSeq
<1> QED
  BY <1>3

LEMMA BrokenFutures ==
  ASSUME NEW f \in Seq(FutureState)
  PROVE  /\ [t \in DOMAIN f |-> IF f[t] = "pending" THEN "raised" ELSE f[t]] \in Seq(FutureState)
         /\ DOMAIN [t \in DOMAIN f |-> IF f[t] = "pending" THEN "raised" ELSE f[t]] = DOMAIN f
  BY LenProperties DEF FutureState

LEMMA FreshFutures ==
  ASSUME NEW list \in Seq(Units)
  PROVE  /\ [t \in DOMAIN list |-> "pending"] \in Seq(FutureState)
         /\ DOMAIN list \subseteq Nat
  BY LenProperties DEF FutureState

\* A process at work has a task of its coordinator's list in hand.
LEMMA InHandType ==
  ASSUME TypeOK, PoolInv, NEW c \in Coordinators, NEW s \in Slots, at[c][s] \in Live
  PROVE  /\ task[c][s] \in DOMAIN batch[c]
         /\ task[c][s] \in DOMAIN future[c]
         /\ task[c][s] \in Nat
         /\ InHand(c, s) \in Units
<1>1. task[c][s] \in DOMAIN batch[c] /\ DOMAIN future[c] = DOMAIN batch[c]
  BY DEF PoolInv, PoolOK
<1>2. batch[c] \in Seq(Units)
  BY DEF TypeOK
<1>3. DOMAIN batch[c] = 1..Len(batch[c]) /\ Len(batch[c]) \in Nat
  BY <1>2, LenProperties
<1>4. batch[c][task[c][s]] \in Units
  BY <1>1, <1>2, <1>3, ElementOfSeq
<1> QED
  BY <1>1, <1>3, <1>4 DEF InHand

LEMMA DispatchType ==
  ASSUME TypeOK, PoolInv, NEW c \in Coordinators, Dispatch(c)
  PROVE  TypeOK'
<1>1. PICK list \in Batches :
         /\ batch' = [batch EXCEPT ![c] = list]
         /\ future' = [future EXCEPT ![c] = [t \in DOMAIN list |-> "pending"]]
         /\ waiting' = [waiting EXCEPT ![c] = DOMAIN list]
  BY DEF Dispatch
<1>2. list \in Seq(Units)
  BY LocalAssumption
<1>3. [t \in DOMAIN list |-> "pending"] \in Seq(FutureState) /\ DOMAIN list \in SUBSET Nat
  BY <1>2, FreshFutures
<1>4. <<>> \in Seq(FutureState)
  BY EmptySeq
<1> QED
  BY <1>1, <1>2, <1>3, <1>4 DEF Dispatch, TypeOK, store, ProcessState

LEMMA DispatchStepType ==
  ASSUME TypeOK, PoolInv, NEW c \in Coordinators, DispatchStep(c) \/ CrashCoordinator(c)
  PROVE  TypeOK'
<1> USE DEF TypeOK, store, poolVars, dispatchVars, Fault
<1>1. CASE Collect(c)
  <2>1. future[c] \in Seq(FutureState)
    OBVIOUS
  <2>2. DOMAIN future[c] = 1..Len(future[c]) /\ Len(future[c]) \in Nat
    BY <2>1, LenProperties
  <2>3. PICK t \in DOMAIN future[c] :
           \/ stage' = [stage EXCEPT ![c] = "raising"] /\ collected' = collected
           \/ collected' = [collected EXCEPT ![c] = @ \cup {t}] /\ stage' = stage
    BY <1>1 DEF Collect
  <2>4. collected[c] \cup {t} \in SUBSET Nat
    BY <2>2
  <2>5. stage' \in [Coordinators -> {"idle", "collecting", "raising", "lost"}]
    BY <2>3
  <2>6. collected' \in [Coordinators -> SUBSET Nat]
    BY <2>3, <2>4
  <2>7. /\ claims' = claims /\ turn' = turn /\ batch' = batch /\ future' = future
        /\ waiting' = waiting /\ pool' = pool /\ at' = at /\ task' = task
        /\ report' = report /\ runs' = runs /\ ended' = ended /\ faults' = faults
    BY <1>1 DEF Collect
  <2> QED
    BY <2>5, <2>6, <2>7
<1>2. CASE Return(c)
  BY <1>2 DEF Return
<1>3. CASE Raise(c)
  BY <1>3 DEF Raise
<1>4. CASE Break(c)
  BY <1>4, BrokenFutures DEF Break
<1>5. CASE CrashCoordinator(c)
  BY <1>5 DEF CrashCoordinator
<1> QED
  BY <1>1, <1>2, <1>3, <1>4, <1>5 DEF DispatchStep

LEMMA ProcessType ==
  ASSUME TypeOK, PoolInv, NEW c \in Coordinators, NEW s \in Slots,
         ProcessStep(c, s) \/ ClaimFails(c, s) \/ FinishUnsent(c, s) \/ KillProcess(c, s)
  PROVE  TypeOK'
<1> USE DEF TypeOK, store, poolVars, dispatchVars, Fault, ProcessState
<1>1. at[c][s] \in Live => task[c][s] \in DOMAIN future[c]
  BY InHandType
<1>2. ASSUME NEW r \in FutureState, at[c][s] \in Live, Resolve(c, s, r)
      PROVE  /\ future' \in [Coordinators -> Seq(FutureState)]
             /\ at' \in [Coordinators -> [Slots -> ProcessState]]
             /\ UNCHANGED <<waiting, pool, task>>
  <2>1. [future[c] EXCEPT ![task[c][s]] = IF @ = "pending" THEN r ELSE @] \in Seq(FutureState)
    BY <1>1, <1>2, ResolvedFutures
  <2> QED
    BY <1>2, <2>1 DEF Resolve
<1>3. ASSUME claims' = [claims EXCEPT ![InHand(c, s)] = Mine(c, s)]
      PROVE  claims' \in [Units -> Taker \cup {None}]
  <2>1. Mine(c, s) \in Taker
    BY DEF Mine, Taker
  <2> QED
    BY <1>3, <2>1
<1>4. CASE Take(c, s)
  BY <1>4 DEF Take
<1>5. CASE Claim(c, s)
  <2>1. CASE claims[InHand(c, s)] = None
    <3>1. claims' \in [Units -> Taker \cup {None}]
      BY <1>5, <1>3, <2>1 DEF Claim
    <3>2. at' = [at EXCEPT ![c][s] = "claimed"]
          /\ UNCHANGED <<future, waiting, pool, task, runs, ended, dispatchVars, faults>>
      BY <1>5, <2>1 DEF Claim
    <3> QED
      BY <3>1, <3>2
  <2>2. CASE claims[InHand(c, s)] # None
    BY <1>5, <1>2, <2>2 DEF Claim, Live, FutureState
  <2> QED
    BY <2>1, <2>2
<1>6. CASE Begin(c, s)
  <2>1. InHand(c, s) \in Units
    BY <1>6, InHandType DEF Begin, Live
  <2>2. runs' = [runs EXCEPT ![InHand(c, s)] = @ + 1]
    BY <1>6 DEF Begin
  <2>3. runs' \in [Units -> Nat]
    BY <2>1, <2>2
  <2> QED
    BY <1>6, <2>3 DEF Begin
<1>7. CASE Finish(c, s)
  BY <1>7, <1>2 DEF Finish, Live, FutureState
<1>8. CASE Terminate(c, s)
  BY <1>8 DEF Terminate, Die
<1>9. CASE ClaimFails(c, s)
  BY <1>9, <1>2, <1>3 DEF ClaimFails, Live, FutureState
<1>10. CASE FinishUnsent(c, s)
  <2>1. at[c][s] \in Live /\ InHand(c, s) \in Units
    BY <1>10, InHandType DEF FinishUnsent, Live
  <2>2. ended' = [ended EXCEPT ![InHand(c, s)] = "executed"] /\ Resolve(c, s, "raised")
    BY <1>10 DEF FinishUnsent
  <2>3. ended' \in [Units -> {"no", "executed", "failed"}]
    BY <2>1, <2>2
  <2> QED
    BY <1>10, <1>2, <2>1, <2>2, <2>3 DEF FinishUnsent, FutureState
<1>11. CASE KillProcess(c, s)
  BY <1>11 DEF KillProcess, Die
<1> QED
  BY <1>4, <1>5, <1>6, <1>7, <1>8, <1>9, <1>10, <1>11 DEF ProcessStep

-----------------------------------------------------------------------------
(***************************************************************************)
(* What a step of one kind cannot disturb.                                 *)
(***************************************************************************)
LEMMA TicketIdentity ==
  ASSUME NEW c, NEW d, NEW t, NEW v, Ticket(c, t) = Ticket(d, v)
  PROVE  c = d /\ t = v
  BY DEF Ticket

LEMMA TicketType ==
  ASSUME TypeOK, NEW c \in Coordinators, NEW t \in Nat
  PROVE  /\ Ticket(c, t) \in Taker
         /\ Ticket(c, t) # None
         /\ Ticket(c, t).by = c
         /\ Ticket(c, t).turn = turn[c]
<1>1. turn[c] \in Nat
  BY DEF TypeOK
<1>2. Ticket(c, t) \in Taker
  BY <1>1 DEF Ticket, Taker
<1>3. Ticket(c, t).by = c /\ Ticket(c, t).turn = turn[c]
  BY DEF Ticket
<1> QED
  BY <1>2, <1>3, TakerAssumption

LEMMA TicketKept ==
  ASSUME NEW c, NEW t, turn'[c] = turn[c]
  PROVE  Ticket(c, t)' = Ticket(c, t)
  BY DEF Ticket

\* One process moves; it is at work afterwards only if it was.
LEMMA PoolKept ==
  ASSUME TypeOK, PoolInv, NEW c \in Coordinators, NEW s \in Slots,
         UNCHANGED <<stage, batch, waiting, task>>,
         \A d \in Coordinators : DOMAIN future'[d] = DOMAIN future[d],
         \A d \in Coordinators, z \in Slots : at'[d][z] \in Live => at[d][z] \in Live
  PROVE  PoolInv'
<1> SUFFICES ASSUME NEW d \in Coordinators
             PROVE  PoolOK(d)'
  BY DEF PoolInv
<1>1. PoolOK(d)
  BY DEF PoolInv
<1> QED
  BY <1>1 DEF PoolOK

\* No claim is made and nobody gets further at work.
LEMMA HandKept ==
  ASSUME HandInv, UNCHANGED <<claims, runs, turn, batch, task>>,
         \A d \in Coordinators, z \in Slots : at'[d][z] \in Live => at'[d][z] = at[d][z]
  PROVE  HandInv'
<1> SUFFICES ASSUME NEW d \in Coordinators, NEW z \in Slots
             PROVE  HandOK(d, z)'
  BY DEF HandInv
<1>1. HandOK(d, z)
  BY DEF HandInv
<1>2. Ticket(d, task[d][z])' = Ticket(d, task[d][z])
  BY TicketKept
<1> QED
  BY <1>1, <1>2 DEF HandOK, InHand, Live

LEMMA WaitKept ==
  ASSUME WaitInv, UNCHANGED <<claims, turn>>,
         \A d \in Coordinators : waiting'[d] \subseteq waiting[d]
  PROVE  WaitInv'
<1> SUFFICES ASSUME NEW d \in Coordinators, NEW t \in waiting'[d], NEW u \in Units
             PROVE  claims'[u] # Ticket(d, t)'
  BY DEF WaitInv, WaitOK
<1>1. Ticket(d, t)' = Ticket(d, t)
  BY TicketKept
<1> QED
  BY <1>1 DEF WaitInv, WaitOK

\* The exclusive create: the claim goes to the task in hand and to no other.
LEMMA CreateKept ==
  ASSUME TypeOK, PoolInv, ClaimInv, HandInv, WaitInv,
         NEW c \in Coordinators, NEW s \in Slots, NEW v \in {"claimed", "idle"},
         at[c][s] = "claiming",
         claims[InHand(c, s)] = None,
         claims' = [claims EXCEPT ![InHand(c, s)] = Mine(c, s)],
         at' = [at EXCEPT ![c][s] = v],
         UNCHANGED <<runs, turn, batch, task, waiting>>
  PROVE  ClaimInv' /\ HandInv' /\ WaitInv'
<1> DEFINE mine == Ticket(c, task[c][s])
<1>1. Mine(c, s) = mine
  BY DEF Mine, Ticket
<1>2. /\ task[c][s] \in Nat /\ InHand(c, s) \in Units
      /\ task[c][s] \in DOMAIN batch[c] \ waiting[c]
  BY InHandType DEF Live, PoolInv, PoolOK
<1>3. mine \in Taker /\ mine # None /\ mine.by = c /\ mine.turn = turn[c]
  BY <1>2, TicketType
<1>4. \A u \in Units : claims'[u] = IF u = InHand(c, s) THEN mine ELSE claims[u]
  BY <1>1, <1>2 DEF TypeOK
<1>5. turn[c] \in Nat
  BY DEF TypeOK
<1> HIDE DEF mine
<1>6. ClaimInv'
  BY <1>3, <1>4, <1>5 DEF ClaimInv
<1>7. ASSUME NEW d \in Coordinators, NEW z \in Slots
      PROVE  HandOK(d, z)'
  <2>1. HandOK(d, z)
    BY DEF HandInv
  <2>2. Ticket(d, task[d][z])' = Ticket(d, task[d][z])
    BY TicketKept
  <2>3. CASE d = c /\ z = s
    <3>1. at'[d][z] = v /\ InHand(d, z)' = InHand(c, s)
      BY <2>3 DEF TypeOK, InHand
    <3>2. claims'[InHand(c, s)] = mine /\ runs'[InHand(c, s)] = 0
      BY <1>2, <1>4 DEF ClaimInv
    <3> QED
      BY <2>2, <2>3, <3>1, <3>2 DEF HandOK, mine
  <2>4. CASE ~(d = c /\ z = s)
    <3>1. at'[d][z] = at[d][z] /\ InHand(d, z)' = InHand(d, z)
      BY <2>4 DEF TypeOK, InHand
    <3>2. at[d][z] = "claiming" => mine # Ticket(d, task[d][z])
      BY <2>4, TicketIdentity DEF mine, PoolInv, PoolOK, Live
    <3>3. at[d][z] \in {"claimed", "running"} =>
            InHand(d, z) \in Units /\ claims[InHand(d, z)] # None
      BY <2>1, InHandType, TicketType DEF HandOK, Live
    <3> QED
      BY <1>4, <2>1, <2>2, <3>1, <3>2, <3>3 DEF HandOK
  <2> QED
    BY <2>3, <2>4
<1>8. ASSUME NEW d \in Coordinators, NEW t \in waiting'[d], NEW u \in Units
      PROVE  claims'[u] # Ticket(d, t)'
  <2>1. Ticket(d, t)' = Ticket(d, t)
    BY TicketKept
  <2>2. mine # Ticket(d, t)
    BY <1>2, TicketIdentity DEF mine
  <2> QED
    BY <1>4, <2>1, <2>2 DEF WaitInv, WaitOK
<1> QED
  BY <1>6, <1>7, <1>8 DEF HandInv, WaitInv, WaitOK

\* A claim that stands is not touched.
Standing == \A u \in Units : claims[u] # None => claims'[u] = claims[u]

\* Nobody's future changes; who is at work was, or took a waiting task.
LEMMA FutureKept ==
  ASSUME TypeOK, PoolInv, FutureInv, Standing, UNCHANGED <<dispatchVars, future, ended>>,
         \A d \in Coordinators : waiting'[d] \subseteq waiting[d],
         \A d \in Coordinators, z \in Slots : at'[d][z] \in Live =>
            \/ at[d][z] \in Live /\ task'[d][z] = task[d][z]
            \/ task'[d][z] \in waiting[d]
  PROVE  FutureInv'
<1> SUFFICES ASSUME NEW d \in Coordinators
             PROVE  FutureOK(d)'
  BY DEF FutureInv
<1> USE DEF dispatchVars
<1>1. FutureOK(d)
  BY DEF FutureInv
<1>2. \A s \in Slots : at'[d][s] \in Live => future'[d][task'[d][s]] \in Open
  BY <1>1 DEF FutureOK
<1>3. \A t \in waiting'[d] : future'[d][t] \in Open
  BY <1>1 DEF FutureOK
<1>4. ASSUME NEW t \in DOMAIN batch[d]
      PROVE  /\ future'[d][t] \in {"executed", "failed"} =>
                    claims'[batch[d][t]] = Ticket(d, t)' /\ ended'[batch[d][t]] = future'[d][t]
             /\ future'[d][t] = "elsewhere" =>
                    claims'[batch[d][t]] # None /\ claims'[batch[d][t]] # Ticket(d, t)'
             /\ t \in collected'[d] => future'[d][t] \notin Open
  <2>1. Ticket(d, t)' = Ticket(d, t)
    BY TicketKept
  <2>2. t \in Nat /\ batch[d][t] \in Units
    BY LenProperties, ElementOfSeq DEF TypeOK
  <2>3. Ticket(d, t) # None
    BY <2>2, TicketType
  <2> QED
    BY <1>1, <2>1, <2>2, <2>3 DEF FutureOK, Standing
<1> QED
  BY <1>1, <1>2, <1>3, <1>4 DEF FutureOK

\* A process resolves the future of its task, truly, and no future that says
\* something about a unit is contradicted.
LEMMA ResolveKept ==
  ASSUME TypeOK, PoolInv, FutureInv, Standing, UNCHANGED dispatchVars,
         NEW c \in Coordinators, NEW s \in Slots, at[c][s] \in Live,
         NEW r \in {"executed", "failed", "elsewhere", "raised"}, Resolve(c, s, r),
         \A u \in Units \ {InHand(c, s)} : ended'[u] = ended[u],
         \/ ended' = ended
         \/ claims[InHand(c, s)] = Ticket(c, task[c][s]),
         r \in {"executed", "failed"} =>
            claims'[InHand(c, s)] = Ticket(c, task[c][s]) /\ ended'[InHand(c, s)] = r,
         r = "elsewhere" =>
            claims'[InHand(c, s)] # None /\ claims'[InHand(c, s)] # Ticket(c, task[c][s])
  PROVE  FutureInv'
<1> SUFFICES ASSUME NEW d \in Coordinators
             PROVE  FutureOK(d)'
  BY DEF FutureInv
<1> USE DEF dispatchVars
<1> DEFINE k == task[c][s]
<1>1. FutureOK(d) /\ FutureOK(c) /\ PoolOK(c)
  BY DEF FutureInv, PoolInv
<1>2. k \in DOMAIN batch[c] /\ k \in DOMAIN future[c] /\ k \in Nat /\ InHand(c, s) \in Units
  BY InHandType
<1>3. future[c][k] \in Open /\ k \notin collected[c] /\ k \notin waiting[c]
  BY <1>1, <1>2 DEF FutureOK, PoolOK
<1>4. /\ \A t \in DOMAIN future[c] \ {k} : future'[c][t] = future[c][t]
      /\ future'[c][k] \in {r, "raised"}
      /\ d # c => future'[d] = future[d]
      /\ DOMAIN future'[c] = DOMAIN future[c]
  BY <1>2, <1>3 DEF Resolve, TypeOK, Open
<1>5. /\ \A z \in Slots : at'[d][z] \in Live =>
              at[d][z] \in Live /\ task'[d][z] = task[d][z] /\ ~(d = c /\ z = s)
      /\ waiting' = waiting
  BY DEF Resolve, TypeOK, Live
<1>6. DOMAIN future[d] = DOMAIN batch[d] /\ waiting[d] \subseteq DOMAIN batch[d]
  BY DEF PoolInv, PoolOK
<1>7. stage[c] # "idle"
  BY <1>1 DEF PoolOK
<1> HIDE DEF k
<1>8. ASSUME NEW z \in Slots, at'[d][z] \in Live
      PROVE  future'[d][task'[d][z]] \in Open
  <2>1. /\ at[d][z] \in Live /\ task'[d][z] = task[d][z] /\ ~(d = c /\ z = s)
        /\ task[d][z] \in DOMAIN future[d] /\ future[d][task[d][z]] \in Open
    BY <1>1, <1>5, <1>8, InHandType DEF FutureOK
  <2>2. d = c => task[d][z] # k
    BY <1>1, <2>1 DEF PoolOK, k
  <2> QED
    BY <1>4, <2>1, <2>2
<1>9. ASSUME NEW t \in waiting'[d]
      PROVE  future'[d][t] \in Open
  <2>1. t \in DOMAIN future[d] /\ future[d][t] \in Open /\ (d = c => t # k)
    BY <1>1, <1>3, <1>5, <1>6 DEF FutureOK
  <2> QED
    BY <1>4, <2>1
<1>10. ASSUME NEW t \in DOMAIN batch[d]
       PROVE  /\ future'[d][t] \in {"executed", "failed"} =>
                    claims'[batch[d][t]] = Ticket(d, t)' /\ ended'[batch[d][t]] = future'[d][t]
              /\ future'[d][t] = "elsewhere" =>
                    claims'[batch[d][t]] # None /\ claims'[batch[d][t]] # Ticket(d, t)'
              /\ t \in collected'[d] => future'[d][t] \notin Open
  <2>1. Ticket(d, t)' = Ticket(d, t)
    BY TicketKept
  <2>2. t \in Nat /\ batch[d][t] \in Units
    BY LenProperties, ElementOfSeq DEF TypeOK
  <2>3. CASE d = c /\ t = k
    <3>1. batch[d][t] = InHand(c, s) /\ Ticket(d, t) = Ticket(c, task[c][s])
      BY <2>3 DEF InHand, k
    <3>2. future'[d][t] \in {r, "raised"} /\ t \notin collected'[d]
      BY <1>3, <1>4, <2>3
    <3> QED
      BY <2>1, <3>1, <3>2
  <2>4. CASE ~(d = c /\ t = k)
    <3>1. future'[d][t] = future[d][t]
      BY <1>4, <1>6, <2>4
    <3>2. claims[batch[d][t]] = Ticket(d, t) => ended'[batch[d][t]] = ended[batch[d][t]]
      <4>1. Ticket(d, t) # Ticket(c, k)
        BY <2>4, TicketIdentity
      <4> QED
        BY <2>2, <2>4, <4>1 DEF k
    <3>3. Ticket(d, t) # None
      BY <2>2, TicketType
    <3> QED
      BY <1>1, <2>1, <2>2, <3>1, <3>2, <3>3 DEF FutureOK, Standing
  <2> QED
    BY <2>3, <2>4
<1>11. IF stage'[d] = "idle"
       THEN report'[d] # <<>> => report'[d] = future'[d] /\ collected'[d] = DOMAIN future'[d]
       ELSE report'[d] = <<>>
  BY <1>1, <1>4, <1>7 DEF FutureOK
<1> QED
  BY <1>8, <1>9, <1>10, <1>11 DEF FutureOK

-----------------------------------------------------------------------------
(***************************************************************************)
(* The steps of dispatch keep the invariant.                               *)
(***************************************************************************)
LEMMA DispatchKeeps ==
  ASSUME IInv, NEW c \in Coordinators, Dispatch(c)
  PROVE  IInv'
<1> USE DEF IInv
<1>1. PICK list \in Batches :
         /\ batch' = [batch EXCEPT ![c] = list]
         /\ future' = [future EXCEPT ![c] = [t \in DOMAIN list |-> "pending"]]
         /\ waiting' = [waiting EXCEPT ![c] = DOMAIN list]
  BY DEF Dispatch
<1>2. \A d \in Coordinators \ {c} :
         /\ turn'[d] = turn[d] /\ batch'[d] = batch[d] /\ future'[d] = future[d]
         /\ waiting'[d] = waiting[d] /\ stage'[d] = stage[d] /\ at'[d] = at[d]
         /\ task'[d] = task[d] /\ collected'[d] = collected[d] /\ report'[d] = report[d]
  BY <1>1 DEF Dispatch, TypeOK
<1>3. /\ turn'[c] = turn[c] + 1 /\ turn[c] \in Nat
      /\ batch'[c] = list /\ future'[c] = [t \in DOMAIN list |-> "pending"]
      /\ waiting'[c] = DOMAIN list /\ stage'[c] = "collecting"
      /\ \A s \in Slots : at'[c][s] = "idle"
      /\ collected'[c] = {} /\ report'[c] = <<>>
  BY <1>1 DEF Dispatch, TypeOK
<1>4. UNCHANGED <<claims, runs, ended>>
  BY DEF Dispatch, store
<1>5. PoolInv'
  <2> SUFFICES ASSUME NEW d \in Coordinators
               PROVE  PoolOK(d)'
    BY DEF PoolInv
  <2>1. CASE d = c
    BY <1>3, <2>1 DEF PoolOK, Live
  <2>2. CASE d # c
    BY <1>2, <2>2 DEF PoolInv, PoolOK
  <2> QED
    BY <2>1, <2>2
<1>6. ClaimInv'
  <2> SUFFICES ASSUME NEW u \in Units, claims[u] # None
               PROVE  claims[u].turn <= turn'[claims[u].by]
    BY <1>4 DEF ClaimInv
  <2>1. claims[u] \in Taker
    BY DEF TypeOK
  <2>2. claims[u].by \in Coordinators /\ claims[u].turn \in Nat
    BY <2>1 DEF Taker
  <2>3. claims[u].turn <= turn[claims[u].by]
    BY DEF ClaimInv
  <2>4. CASE claims[u].by = c
    BY <1>3, <2>2, <2>3, <2>4
  <2>5. CASE claims[u].by # c
    BY <1>2, <2>2, <2>3, <2>5
  <2> QED
    BY <2>4, <2>5
<1>7. \A t \in Nat, u \in Units : claims'[u] # Ticket(c, t)'
  <2> SUFFICES ASSUME NEW t \in Nat, NEW u \in Units, claims[u] = Ticket(c, t)'
               PROVE  FALSE
    BY <1>4
  <2>1. claims[u].by = c /\ claims[u].turn = turn[c] + 1 /\ claims[u] \in Taker
    <3>1. Ticket(c, t)' = [by |-> c, turn |-> turn[c] + 1, task |-> t]
      BY <1>3 DEF Ticket
    <3> QED
      BY <1>3, <3>1 DEF Taker
  <2>2. claims[u].turn <= turn[claims[u].by]
    BY <2>1, TakerAssumption DEF ClaimInv
  <2> QED
    BY <1>3, <2>1, <2>2
<1>8. HandInv'
  <2> SUFFICES ASSUME NEW d \in Coordinators, NEW s \in Slots
               PROVE  HandOK(d, s)'
    BY DEF HandInv
  <2>1. CASE d = c
    BY <1>3, <2>1 DEF HandOK
  <2>2. CASE d # c
    <3>1. Ticket(d, task[d][s])' = Ticket(d, task[d][s])
      BY <1>2, <2>2, TicketKept
    <3> QED
      BY <1>2, <1>4, <2>2, <3>1 DEF HandInv, HandOK, InHand
  <2> QED
    BY <2>1, <2>2
<1>9. WaitInv'
  <2> SUFFICES ASSUME NEW d \in Coordinators, NEW t \in waiting'[d], NEW u \in Units
               PROVE  claims'[u] # Ticket(d, t)'
    BY DEF WaitInv, WaitOK
  <2>1. CASE d = c
    <3>1. list \in Seq(Units)
      BY LocalAssumption
    <3>2. t \in Nat
      BY <1>3, <2>1, <3>1, LenProperties
    <3> QED
      BY <1>7, <2>1, <3>2
  <2>2. CASE d # c
    <3>1. Ticket(d, t)' = Ticket(d, t)
      BY <1>2, <2>2, TicketKept
    <3> QED
      BY <1>2, <1>4, <2>2, <3>1 DEF WaitInv, WaitOK
  <2> QED
    BY <2>1, <2>2
<1>10. FutureInv'
  <2> SUFFICES ASSUME NEW d \in Coordinators
               PROVE  FutureOK(d)'
    BY DEF FutureInv
  <2>1. CASE d = c
    BY <1>3, <2>1 DEF FutureOK, Live, Open
  <2>2. CASE d # c
    <3>1. FutureOK(d)
      BY DEF FutureInv
    <3>2. \A t : Ticket(d, t)' = Ticket(d, t)
      BY <1>2, <2>2, TicketKept
    <3> QED
      BY <1>2, <1>4, <2>2, <3>1, <3>2 DEF FutureOK
  <2> QED
    BY <2>1, <2>2
<1> QED
  BY <1>5, <1>6, <1>8, <1>9, <1>10, DispatchType

\* Collect, Return, Raise and the loss of a coordinator move nothing but its
\* stage, what it collected and what it reports.
LEMMA StageKeeps ==
  ASSUME IInv, NEW c \in Coordinators,
         UNCHANGED <<store, poolVars, turn, batch>>,
         \A d \in Coordinators \ {c} :
            stage'[d] = stage[d] /\ collected'[d] = collected[d] /\ report'[d] = report[d],
         stage[c] # "idle",
         stage'[c] = "idle" => \A s \in Slots : at[c][s] \notin Live,
         \A t \in collected'[c] \ collected[c] : future[c][t] \notin Open,
         IF stage'[c] = "idle"
         THEN report'[c] # <<>> => report'[c] = future[c] /\ collected'[c] = DOMAIN future[c]
         ELSE report'[c] = <<>>
  PROVE  PoolInv' /\ ClaimInv' /\ HandInv' /\ WaitInv' /\ FutureInv'
<1> USE DEF IInv, store, poolVars
<1>1. \A d, t : Ticket(d, t)' = Ticket(d, t)
  BY DEF Ticket
<1>2. PoolInv'
  <2> SUFFICES ASSUME NEW d \in Coordinators
               PROVE  PoolOK(d)'
    BY DEF PoolInv
  <2>1. PoolOK(d)
    BY DEF PoolInv
  <2> QED
    BY <2>1 DEF PoolOK
<1>3. ClaimInv' /\ HandInv' /\ WaitInv'
  BY <1>1 DEF ClaimInv, HandInv, HandOK, InHand, WaitInv, WaitOK
<1>4. FutureInv'
  <2> SUFFICES ASSUME NEW d \in Coordinators
               PROVE  FutureOK(d)'
    BY DEF FutureInv
  <2>1. FutureOK(d)
    BY DEF FutureInv
  <2>2. CASE d = c
    BY <1>1, <2>1, <2>2 DEF FutureOK
  <2>3. CASE d # c
    BY <1>1, <2>1, <2>3 DEF FutureOK
  <2> QED
    BY <2>2, <2>3
<1> QED
  BY <1>2, <1>3, <1>4

LEMMA CollectKeeps ==
  ASSUME IInv, NEW c \in Coordinators,
         Collect(c) \/ Return(c) \/ Raise(c) \/ CrashCoordinator(c)
  PROVE  PoolInv' /\ ClaimInv' /\ HandInv' /\ WaitInv' /\ FutureInv'
<1> USE DEF IInv
<1>1. FutureOK(c)
  BY DEF FutureInv
<1>2. UNCHANGED <<store, poolVars, turn, batch>>
  BY DEF Collect, Return, Raise, CrashCoordinator
<1>3. Drained(c) => \A s \in Slots : at[c][s] \notin Live
  BY DEF Drained, Live
<1>4. CASE Collect(c)
  <2>1. PICK t \in DOMAIN future[c] \ collected[c] :
          /\ future[c][t] # "pending"
          /\ \/ stage' = [stage EXCEPT ![c] = "raising"] /\ collected' = collected
             \/ /\ future[c][t] # "raised"
                /\ collected' = [collected EXCEPT ![c] = @ \cup {t}] /\ stage' = stage
    BY <1>4 DEF Collect
  <2>2. stage[c] = "collecting" /\ report' = report /\ report[c] = <<>>
    BY <1>1, <1>4 DEF Collect, FutureOK
  <2>3. /\ \A d \in Coordinators \ {c} : stage'[d] = stage[d] /\ collected'[d] = collected[d]
        /\ stage'[c] \in {"collecting", "raising"}
        /\ \A v \in collected'[c] \ collected[c] : future[c][v] \notin Open
    BY <2>1, <2>2 DEF TypeOK, Open
  <2> QED
    BY <1>2, <2>2, <2>3, StageKeeps
<1>5. CASE Return(c)
  <2>1. /\ stage' = [stage EXCEPT ![c] = "idle"] /\ report' = [report EXCEPT ![c] = future[c]]
        /\ collected' = collected /\ collected[c] = DOMAIN future[c] /\ stage[c] = "collecting"
        /\ Drained(c)
    BY <1>5 DEF Return
  <2>2. /\ \A d \in Coordinators \ {c} : stage'[d] = stage[d] /\ report'[d] = report[d]
        /\ stage'[c] = "idle" /\ report'[c] = future[c]
    BY <2>1 DEF TypeOK
  <2> QED
    BY <1>2, <1>3, <2>1, <2>2, StageKeeps
<1>6. CASE Raise(c)
  <2>1. /\ stage' = [stage EXCEPT ![c] = "idle"] /\ report' = report
        /\ collected' = collected /\ stage[c] = "raising" /\ Drained(c)
    BY <1>6 DEF Raise
  <2>2. /\ \A d \in Coordinators \ {c} : stage'[d] = stage[d]
        /\ stage'[c] = "idle" /\ report[c] = <<>>
    BY <1>1, <2>1 DEF TypeOK, FutureOK
  <2> QED
    BY <1>2, <1>3, <2>1, <2>2, StageKeeps
<1>7. CASE CrashCoordinator(c)
  <2>1. /\ stage' = [stage EXCEPT ![c] = "lost"] /\ report' = report
        /\ collected' = collected /\ stage[c] # "idle"
    BY <1>7 DEF CrashCoordinator
  <2>2. /\ \A d \in Coordinators \ {c} : stage'[d] = stage[d]
        /\ stage'[c] = "lost" /\ report[c] = <<>>
    BY <1>1, <2>1 DEF TypeOK, FutureOK
  <2> QED
    BY <1>2, <2>1, <2>2, StageKeeps
<1> QED
  BY <1>4, <1>5, <1>6, <1>7

LEMMA BreakKeeps ==
  ASSUME IInv, NEW c \in Coordinators, Break(c)
  PROVE  PoolInv' /\ ClaimInv' /\ HandInv' /\ WaitInv' /\ FutureInv'
<1> USE DEF IInv, store, dispatchVars
<1>1. /\ \A d \in Coordinators \ {c} : future'[d] = future[d]
      /\ DOMAIN future'[c] = DOMAIN future[c]
      /\ \A t \in DOMAIN future[c] :
            future'[c][t] = IF future[c][t] = "pending" THEN "raised" ELSE future[c][t]
      /\ stage[c] # "idle"
  BY DEF Break, TypeOK
<1>2. UNCHANGED <<waiting, at, task, claims, runs, ended, stage, turn, batch, collected, report>>
  BY DEF Break
<1>3. PoolInv'
  <2> SUFFICES ASSUME NEW d \in Coordinators
               PROVE  PoolOK(d)'
    BY DEF PoolInv
  <2>1. PoolOK(d) /\ DOMAIN future'[d] = DOMAIN future[d]
    BY <1>1 DEF PoolInv
  <2> QED
    BY <1>2, <2>1 DEF PoolOK
<1>4. HandInv'
  BY <1>2, HandKept
<1>5. WaitInv'
  BY <1>2, WaitKept
<1>6. ClaimInv'
  BY <1>2 DEF ClaimInv
<1>7. FutureInv'
  <2> SUFFICES ASSUME NEW d \in Coordinators
               PROVE  FutureOK(d)'
    BY DEF FutureInv
  <2>1. FutureOK(d) /\ PoolOK(d)
    BY DEF FutureInv, PoolInv
  <2>2. \A t : Ticket(d, t)' = Ticket(d, t)
    BY <1>2 DEF Ticket
  <2>3. CASE d = c
    <3>1. \A t \in DOMAIN batch[c] : future'[c][t] \in Open <=> future[c][t] \in Open
      BY <1>1, <2>1, <2>3 DEF PoolOK, Open
    <3>2. \A t \in DOMAIN batch[c] : future[c][t] \notin Open => future'[c][t] = future[c][t]
      BY <1>1, <2>1, <2>3 DEF PoolOK, Open
    <3>3. \A s \in Slots : at'[c][s] \in Live => future'[c][task'[c][s]] \in Open
      BY <1>2, <2>1, <2>3, <3>1 DEF PoolOK, FutureOK
    <3>4. \A t \in waiting'[c] : future'[c][t] \in Open
      BY <1>2, <2>1, <2>3, <3>1 DEF PoolOK, FutureOK
    <3>5. ASSUME NEW t \in DOMAIN batch[c]
          PROVE  /\ future'[c][t] \in {"executed", "failed"} =>
                        claims'[batch[c][t]] = Ticket(c, t) /\ ended'[batch[c][t]] = future'[c][t]
                 /\ future'[c][t] = "elsewhere" =>
                        claims'[batch[c][t]] # None /\ claims'[batch[c][t]] # Ticket(c, t)
                 /\ t \in collected'[c] => future'[c][t] \notin Open
      <4>1. future'[c][t] \notin Open => future'[c][t] = future[c][t]
        BY <3>1, <3>2
      <4> QED
        BY <1>2, <2>1, <2>3, <3>1, <4>1 DEF FutureOK, Open
    <3> QED
      BY <1>1, <1>2, <2>1, <2>2, <2>3, <3>3, <3>4, <3>5 DEF FutureOK
  <2>4. CASE d # c
    BY <1>1, <1>2, <2>1, <2>2, <2>4 DEF FutureOK
  <2> QED
    BY <2>3, <2>4
<1> QED
  BY <1>3, <1>4, <1>5, <1>6, <1>7

-----------------------------------------------------------------------------
(***************************************************************************)
(* The steps of a process keep the invariant.                              *)
(***************************************************************************)
\* A process at work belongs to a dispatch under way.
LEMMA AtWork ==
  ASSUME IInv, NEW c \in Coordinators, NEW s \in Slots, at[c][s] \in Live
  PROVE  /\ stage[c] # "idle"
         /\ Ticket(c, task[c][s]) = Mine(c, s)
         /\ Mine(c, s) \in Taker /\ Mine(c, s) # None
<1>1. stage[c] # "idle"
  BY DEF IInv, PoolInv, PoolOK
<1>2. Ticket(c, task[c][s]) = Mine(c, s)
  BY DEF Ticket, Mine
<1>3. task[c][s] \in Nat
  BY InHandType DEF IInv
<1> QED
  BY <1>1, <1>2, <1>3, TicketType DEF IInv

LEMMA TakeKeeps ==
  ASSUME IInv, NEW c \in Coordinators, NEW s \in Slots, Take(c, s)
  PROVE  PoolInv' /\ ClaimInv' /\ HandInv' /\ WaitInv' /\ FutureInv'
<1> USE DEF IInv, store, dispatchVars
<1>1. PICK t \in waiting[c] :
         /\ waiting' = [waiting EXCEPT ![c] = @ \ {t}]
         /\ task' = [task EXCEPT ![c][s] = t]
  BY DEF Take
<1>2. /\ stage[c] # "idle" /\ at[c][s] = "idle"
      /\ at' = [at EXCEPT ![c][s] = "claiming"]
      /\ UNCHANGED <<future, pool, claims, runs, ended, stage, turn, batch, collected, report>>
  BY DEF Take
<1>3. /\ waiting'[c] = waiting[c] \ {t}
      /\ \A d \in Coordinators \ {c} : waiting'[d] = waiting[d]
      /\ task'[c][s] = t /\ at'[c][s] = "claiming"
      /\ \A d \in Coordinators, z \in Slots : ~(d = c /\ z = s) =>
            task'[d][z] = task[d][z] /\ at'[d][z] = at[d][z]
  BY <1>1, <1>2 DEF TypeOK
<1>4. PoolInv'
  <2> SUFFICES ASSUME NEW d \in Coordinators
               PROVE  PoolOK(d)'
    BY DEF PoolInv
  <2>1. PoolOK(d)
    BY DEF PoolInv
  <2>2. CASE d = c
    <3>1. \A z \in Slots : at'[c][z] \in Live => task'[c][z] \in DOMAIN batch'[c] \ waiting'[c]
      BY <1>2, <1>3, <2>1, <2>2 DEF PoolOK
    <3>2. \A z, y \in Slots :
             z # y /\ at'[c][z] \in Live /\ at'[c][y] \in Live => task'[c][z] # task'[c][y]
      BY <1>2, <1>3, <2>1, <2>2 DEF PoolOK
    <3> QED
      BY <1>2, <1>3, <2>1, <2>2, <3>1, <3>2 DEF PoolOK
  <2>3. CASE d # c
    BY <1>2, <1>3, <2>1, <2>3 DEF PoolOK
  <2> QED
    BY <2>2, <2>3
<1>5. HandInv'
  <2> SUFFICES ASSUME NEW d \in Coordinators, NEW z \in Slots
               PROVE  HandOK(d, z)'
    BY DEF HandInv
  <2>1. \A v : Ticket(d, v)' = Ticket(d, v)
    BY <1>2 DEF Ticket
  <2>2. CASE d = c /\ z = s
    BY <1>2, <1>3, <2>1, <2>2 DEF HandOK, WaitInv, WaitOK
  <2>3. CASE ~(d = c /\ z = s)
    BY <1>2, <1>3, <2>1, <2>3 DEF HandInv, HandOK, InHand
  <2> QED
    BY <2>2, <2>3
<1>6. WaitInv'
  BY <1>2, <1>3, WaitKept
<1>7. ClaimInv'
  BY <1>2 DEF ClaimInv
<1>8. FutureInv'
  <2>1. \A d \in Coordinators : waiting'[d] \subseteq waiting[d]
    BY <1>3
  <2>2. \A d \in Coordinators, z \in Slots : at'[d][z] \in Live =>
            \/ at[d][z] \in Live /\ task'[d][z] = task[d][z]
            \/ task'[d][z] \in waiting[d]
    BY <1>3
  <2>3. Standing
    BY <1>2 DEF Standing
  <2>4. UNCHANGED <<dispatchVars, future, ended>>
    BY <1>2
  <2> QED
    BY <2>1, <2>2, <2>3, <2>4, FutureKept
<1> QED
  BY <1>4, <1>5, <1>6, <1>7, <1>8

\* A process that resolves its future, with or without a claim made.
LEMMA ResolvePool ==
  ASSUME IInv, NEW c \in Coordinators, NEW s \in Slots, at[c][s] \in Live,
         NEW r \in FutureState, Resolve(c, s, r), UNCHANGED dispatchVars
  PROVE  /\ PoolInv'
         /\ at' = [at EXCEPT ![c][s] = "idle"]
         /\ UNCHANGED <<waiting, task>>
         /\ \A d \in Coordinators, z \in Slots : at'[d][z] \in Live => at'[d][z] = at[d][z]
<1> USE DEF IInv, dispatchVars
<1>1. task[c][s] \in DOMAIN future[c]
  BY InHandType
<1>2. \A d \in Coordinators : DOMAIN future'[d] = DOMAIN future[d]
  BY <1>1, ResolvedFutures DEF Resolve, TypeOK
<1>3. at' = [at EXCEPT ![c][s] = "idle"] /\ UNCHANGED <<waiting, task>>
  BY DEF Resolve
<1>4. \A d \in Coordinators, z \in Slots : at'[d][z] \in Live => at'[d][z] = at[d][z]
  BY <1>3 DEF TypeOK, Live
<1>5. PoolInv'
  BY <1>2, <1>3, <1>4, PoolKept
<1> QED
  BY <1>3, <1>4, <1>5

LEMMA ClaimKeeps ==
  ASSUME IInv, NEW c \in Coordinators, NEW s \in Slots, Claim(c, s) \/ ClaimFails(c, s)
  PROVE  PoolInv' /\ ClaimInv' /\ HandInv' /\ WaitInv' /\ FutureInv'
<1> USE DEF IInv
<1>1. at[c][s] = "claiming" /\ at[c][s] \in Live /\ UNCHANGED <<runs, ended, dispatchVars>>
  BY DEF Claim, ClaimFails, Live
<1>2. InHand(c, s) \in Units
  BY <1>1, InHandType
<1>3. /\ Ticket(c, task[c][s]) = Mine(c, s)
      /\ Mine(c, s) \in Taker /\ Mine(c, s) # None
  BY <1>1, AtWork
<1>4. HandOK(c, s)
  BY DEF HandInv
<1>5. ASSUME claims[InHand(c, s)] = None,
             claims' = [claims EXCEPT ![InHand(c, s)] = Mine(c, s)]
      PROVE  Standing
  BY <1>2, <1>5 DEF Standing, TypeOK
<1>6. CASE Claim(c, s) /\ claims[InHand(c, s)] = None
  <2>1. /\ claims' = [claims EXCEPT ![InHand(c, s)] = Mine(c, s)]
        /\ at' = [at EXCEPT ![c][s] = "claimed"]
        /\ UNCHANGED <<future, waiting, pool, task>>
    BY <1>6 DEF Claim
  <2>2. UNCHANGED <<stage, turn, batch, collected, report>>
    BY <1>1 DEF dispatchVars
  <2>3. \A d \in Coordinators, z \in Slots : at'[d][z] \in Live => at[d][z] \in Live
    BY <1>1, <2>1 DEF TypeOK
  <2>4. PoolInv'
    BY <2>1, <2>2, <2>3, PoolKept
  <2>5. ClaimInv' /\ HandInv' /\ WaitInv'
    BY <1>1, <1>6, <2>1, <2>2, CreateKept
  <2>6. FutureInv'
    BY <1>1, <1>5, <1>6, <2>1, <2>3, FutureKept
  <2> QED
    BY <2>4, <2>5, <2>6
<1>7. CASE Claim(c, s) /\ claims[InHand(c, s)] # None
  <2>1. Resolve(c, s, "elsewhere") /\ claims' = claims
    BY <1>7 DEF Claim
  <2>2. /\ PoolInv' /\ UNCHANGED <<waiting, task>>
        /\ \A d \in Coordinators, z \in Slots : at'[d][z] \in Live => at'[d][z] = at[d][z]
    BY <1>1, <2>1, ResolvePool DEF FutureState
  <2>3. ClaimInv' /\ HandInv' /\ WaitInv'
    BY <1>1, <2>1, <2>2, HandKept, WaitKept DEF ClaimInv, dispatchVars
  <2>4. claims'[InHand(c, s)] # None /\ claims'[InHand(c, s)] # Ticket(c, task[c][s])
    BY <1>1, <1>2, <1>4, <1>7, <2>1 DEF HandOK
  <2>5. Standing
    BY <2>1 DEF Standing
  <2>6. FutureInv'
    BY <1>1, <2>1, <2>4, <2>5, ResolveKept
  <2> QED
    BY <2>2, <2>3, <2>6
<1>8. CASE ClaimFails(c, s)
  <2>1. Resolve(c, s, "raised")
    BY <1>8 DEF ClaimFails
  <2>2. /\ PoolInv' /\ UNCHANGED <<waiting, task>>
        /\ at' = [at EXCEPT ![c][s] = "idle"]
        /\ \A d \in Coordinators, z \in Slots : at'[d][z] \in Live => at'[d][z] = at[d][z]
    BY <1>1, <2>1, ResolvePool DEF FutureState
  <2>3. CASE claims' = claims
    <3>1. ClaimInv' /\ HandInv' /\ WaitInv'
      BY <1>1, <2>2, <2>3, HandKept, WaitKept DEF ClaimInv, dispatchVars
    <3>2. Standing
      BY <2>3 DEF Standing
    <3>3. FutureInv'
      BY <1>1, <2>1, <3>2, ResolveKept
    <3> QED
      BY <2>2, <3>1, <3>3
  <2>4. CASE /\ claims[InHand(c, s)] = None
             /\ claims' = [claims EXCEPT ![InHand(c, s)] = Mine(c, s)]
    <3>1. ClaimInv' /\ HandInv' /\ WaitInv'
      BY <1>1, <2>2, <2>4, CreateKept DEF dispatchVars
    <3>2. FutureInv'
      BY <1>1, <1>5, <2>1, <2>4, ResolveKept
    <3> QED
      BY <2>2, <3>1, <3>2
  <2> QED
    BY <1>8, <2>3, <2>4 DEF ClaimFails
<1> QED
  BY <1>6, <1>7, <1>8

LEMMA BeginKeeps ==
  ASSUME IInv, NEW c \in Coordinators, NEW s \in Slots, Begin(c, s)
  PROVE  PoolInv' /\ ClaimInv' /\ HandInv' /\ WaitInv' /\ FutureInv'
<1> USE DEF IInv
<1>1. /\ at[c][s] = "claimed" /\ at[c][s] \in Live /\ at' = [at EXCEPT ![c][s] = "running"]
      /\ runs' = [runs EXCEPT ![InHand(c, s)] = @ + 1]
      /\ UNCHANGED <<future, waiting, pool, task, claims, ended, dispatchVars>>
      /\ UNCHANGED <<stage, turn, batch, collected, report>>
  BY DEF Begin, Live, dispatchVars
<1>2. InHand(c, s) \in Units
  BY <1>1, InHandType
<1>3. /\ Ticket(c, task[c][s]) = Mine(c, s)
      /\ Mine(c, s) \in Taker /\ Mine(c, s) # None
  BY <1>1, AtWork
<1>4. claims[InHand(c, s)] = Ticket(c, task[c][s]) /\ runs[InHand(c, s)] = 0
  BY <1>1 DEF HandInv, HandOK
<1>5. /\ runs'[InHand(c, s)] = 1
      /\ \A u \in Units \ {InHand(c, s)} : runs'[u] = runs[u]
      /\ at'[c][s] = "running"
      /\ \A d \in Coordinators, z \in Slots : ~(d = c /\ z = s) => at'[d][z] = at[d][z]
  BY <1>1, <1>2, <1>4 DEF TypeOK
<1>6. \A d \in Coordinators, z \in Slots : at'[d][z] \in Live => at[d][z] \in Live
  BY <1>1, <1>5
<1>7. PoolInv'
  BY <1>1, <1>6, PoolKept
<1>8. ClaimInv'
  BY <1>1, <1>2, <1>3, <1>4, <1>5 DEF ClaimInv
<1>9. HandInv'
  <2> SUFFICES ASSUME NEW d \in Coordinators, NEW z \in Slots
               PROVE  HandOK(d, z)'
    BY DEF HandInv
  <2>1. Ticket(d, task[d][z])' = Ticket(d, task[d][z]) /\ InHand(d, z)' = InHand(d, z)
    BY <1>1, TicketKept DEF InHand
  <2>2. HandOK(d, z)
    BY DEF HandInv
  <2>3. CASE d = c /\ z = s
    BY <1>1, <1>4, <1>5, <2>1, <2>3 DEF HandOK
  <2>4. CASE ~(d = c /\ z = s)
    <3>1. at[d][z] = "claimed" => InHand(d, z) \in Units /\ InHand(d, z) # InHand(c, s)
      <4> SUFFICES ASSUME at[d][z] = "claimed"
                   PROVE  InHand(d, z) \in Units /\ InHand(d, z) # InHand(c, s)
        OBVIOUS
      <4>1. at[d][z] \in Live
        BY DEF Live
      <4>2. InHand(d, z) = InHand(c, s) => Ticket(d, task[d][z]) = Ticket(c, task[c][s])
        BY <1>4, <2>2 DEF HandOK
      <4>3. Ticket(d, task[d][z]) # Ticket(c, task[c][s])
        BY <1>1, <2>4, <4>1, TicketIdentity DEF PoolInv, PoolOK
      <4> QED
        BY <4>1, <4>2, <4>3, InHandType
    <3> QED
      BY <1>1, <1>5, <2>1, <2>2, <2>4, <3>1 DEF HandOK
  <2> QED
    BY <2>3, <2>4
<1>10. WaitInv'
  BY <1>1, WaitKept
<1>11. FutureInv'
  <2>1. Standing
    BY <1>1 DEF Standing
  <2> QED
    BY <1>1, <1>6, <2>1, FutureKept
<1> QED
  BY <1>7, <1>8, <1>9, <1>10, <1>11

LEMMA FinishKeeps ==
  ASSUME IInv, NEW c \in Coordinators, NEW s \in Slots, Finish(c, s) \/ FinishUnsent(c, s)
  PROVE  PoolInv' /\ ClaimInv' /\ HandInv' /\ WaitInv' /\ FutureInv'
<1> USE DEF IInv
<1>1. PICK r \in {"executed", "failed", "raised"} :
        /\ Resolve(c, s, r)
        /\ \E state \in {"executed", "failed"} :
              /\ ended' = [ended EXCEPT ![InHand(c, s)] = state]
              /\ r \in {"executed", "failed"} => r = state
  BY DEF Finish, FinishUnsent
<1>2. at[c][s] = "running" /\ at[c][s] \in Live /\ UNCHANGED <<claims, runs, dispatchVars>>
  BY DEF Finish, FinishUnsent, Live
<1>3. InHand(c, s) \in Units
  BY <1>2, InHandType
<1>4. claims[InHand(c, s)] = Ticket(c, task[c][s])
  BY <1>2 DEF HandInv, HandOK
<1>5. /\ PoolInv' /\ UNCHANGED <<waiting, task>>
      /\ \A d \in Coordinators, z \in Slots : at'[d][z] \in Live => at'[d][z] = at[d][z]
  BY <1>1, <1>2, ResolvePool DEF FutureState
<1>6. ClaimInv' /\ HandInv' /\ WaitInv'
  BY <1>2, <1>5, HandKept, WaitKept DEF ClaimInv, dispatchVars
<1>7. /\ \A u \in Units \ {InHand(c, s)} : ended'[u] = ended[u]
      /\ r \in {"executed", "failed"} => ended'[InHand(c, s)] = r
  BY <1>1, <1>3 DEF TypeOK
<1>8. Standing
  BY <1>2 DEF Standing
<1>9. FutureInv'
  BY <1>1, <1>2, <1>4, <1>7, <1>8, ResolveKept
<1> QED
  BY <1>5, <1>6, <1>9

LEMMA DieKeeps ==
  ASSUME IInv, NEW c \in Coordinators, NEW s \in Slots, KillProcess(c, s) \/ Terminate(c, s)
  PROVE  PoolInv' /\ ClaimInv' /\ HandInv' /\ WaitInv' /\ FutureInv'
<1> USE DEF IInv
<1>1. /\ at' = [at EXCEPT ![c][s] = "dead"]
      /\ UNCHANGED <<future, waiting, pool, task, claims, runs, ended, dispatchVars>>
      /\ UNCHANGED <<stage, turn, batch, collected, report>>
  BY DEF KillProcess, Terminate, Die, store, dispatchVars
<1>2. \A d \in Coordinators, z \in Slots : at'[d][z] \in Live => at'[d][z] = at[d][z]
  BY <1>1 DEF TypeOK, Live
<1>3. PoolInv'
  BY <1>1, <1>2, PoolKept
<1>4. ClaimInv' /\ HandInv' /\ WaitInv'
  BY <1>1, <1>2, HandKept, WaitKept DEF ClaimInv
<1>5. Standing
  BY <1>1 DEF Standing
<1>6. FutureInv'
  BY <1>1, <1>2, <1>5, FutureKept
<1> QED
  BY <1>3, <1>4, <1>6

-----------------------------------------------------------------------------
(***************************************************************************)
(* The invariant.                                                          *)
(***************************************************************************)
LEMMA InitHolds == Init => IInv
<1> SUFFICES ASSUME Init
             PROVE  IInv
  OBVIOUS
<1>1. PoolInv
  BY DEF Init, PoolInv, PoolOK, Live
<1>2. ClaimInv /\ HandInv /\ WaitInv
  BY DEF Init, ClaimInv, HandInv, HandOK, WaitInv, WaitOK
<1>3. FutureInv
  BY DEF Init, FutureInv, FutureOK, Live
<1> QED
  BY <1>1, <1>2, <1>3, InitType DEF IInv

LEMMA StepKeeps == IInv /\ [Next]_vars => IInv'
<1> SUFFICES ASSUME IInv, [Next]_vars
             PROVE  IInv'
  OBVIOUS
<1>1. CASE UNCHANGED vars
  <2>1. \A c, t : Ticket(c, t)' = Ticket(c, t)
    BY <1>1 DEF Ticket, vars, dispatchVars
  <2>2. TypeOK' /\ PoolInv'
    BY <1>1 DEF IInv, TypeOK, PoolInv, PoolOK, vars, store, dispatchVars, poolVars
  <2>3. ClaimInv' /\ HandInv' /\ WaitInv'
    BY <1>1, <2>1 DEF IInv, ClaimInv, HandInv, HandOK, InHand, WaitInv, WaitOK,
                      vars, store, dispatchVars, poolVars
  <2>4. FutureInv'
    BY <1>1, <2>1 DEF IInv, FutureInv, FutureOK, vars, store, dispatchVars, poolVars
  <2> QED
    BY <2>2, <2>3, <2>4 DEF IInv
<1>2. ASSUME NEW c \in Coordinators, Dispatch(c)
      PROVE  IInv'
  BY <1>2, DispatchKeeps
<1>3. ASSUME NEW c \in Coordinators, DispatchStep(c) \/ CrashCoordinator(c)
      PROVE  IInv'
  <2>1. TypeOK'
    BY <1>3, DispatchStepType DEF IInv
  <2> QED
    BY <1>3, <2>1, CollectKeeps, BreakKeeps DEF DispatchStep, IInv
<1>4. ASSUME NEW c \in Coordinators, NEW s \in Slots,
             ProcessStep(c, s) \/ ClaimFails(c, s) \/ FinishUnsent(c, s) \/ KillProcess(c, s)
      PROVE  IInv'
  <2>1. TypeOK'
    BY <1>4, ProcessType DEF IInv
  <2> QED
    BY <1>4, <2>1, TakeKeeps, ClaimKeeps, BeginKeeps, FinishKeeps, DieKeeps DEF ProcessStep, IInv
<1> QED
  BY <1>1, <1>2, <1>3, <1>4 DEF Next

\* Every variable keeps its type, and the five parts of the invariant hold, in
\* every state coordinator.py and its pools can reach.
THEOREM Invariance == Spec => []IInv
  BY InitHolds, StepKeeps, PTL DEF Spec

\* The store, the futures and the processes keep their types (coordinator.py).
THEOREM TypeCorrect == Spec => []TypeOK
<1>1. IInv => TypeOK
  BY DEF IInv
<1> QED
  BY <1>1, Invariance, PTL

\* run_workflow is entered at most once for a unit, however many coordinators
\* share the store and whatever is lost (coordinator.py, _claim and _execute).
THEOREM ExecutedOnce == Spec => []SingleExecution
<1>1. IInv => SingleExecution
  BY DEF IInv, ClaimInv, SingleExecution
<1> QED
  BY <1>1, Invariance, PTL

\* No process of a pool is at a unit once its dispatch has returned or raised
\* (coordinator.py, the with block of dispatch).
THEOREM QuietWhenIdle == Spec => []NothingLeftRunning
<1>1. IInv => NothingLeftRunning
  BY DEF IInv, PoolInv, PoolOK, NothingLeftRunning, Live
<1> QED
  BY <1>1, Invariance, PTL

\* The outcomes dispatch returns agree with the claims and with how the runs
\* ended (coordinator.py, _execute and the collection of the futures).
THEOREM ReportTold == Spec => []ReportIsTrue
<1>1. IInv => ReportIsTrue
  <2> SUFFICES ASSUME IInv, NEW c \in Coordinators, stage[c] = "idle", report[c] # <<>>
               PROVE  /\ Len(report[c]) = Len(batch[c])
                      /\ \A t \in DOMAIN batch[c] :
                            LET holder == claims[batch[c][t]]
                                mine == [by |-> c, turn |-> turn[c], task |-> t]
                            IN  /\ holder # None
                                /\ report[c][t] = IF holder = mine THEN ended[batch[c][t]]
                                                  ELSE "elsewhere"
    BY DEF ReportIsTrue
  <2>1. FutureOK(c) /\ PoolOK(c) /\ TypeOK
    BY DEF IInv, FutureInv, PoolInv
  <2>2. report[c] = future[c] /\ collected[c] = DOMAIN future[c]
        /\ DOMAIN future[c] = DOMAIN batch[c]
    BY <2>1 DEF FutureOK, PoolOK
  <2>3. future[c] \in Seq(FutureState) /\ batch[c] \in Seq(Units)
    BY <2>1 DEF TypeOK
  <2>4. Len(report[c]) = Len(batch[c])
    BY <2>2, <2>3, LenProperties
  <2>5. ASSUME NEW t \in DOMAIN batch[c]
        PROVE  /\ claims[batch[c][t]] # None
               /\ report[c][t] = IF claims[batch[c][t]] = Ticket(c, t) THEN ended[batch[c][t]]
                                 ELSE "elsewhere"
    <3>1. future[c][t] \in FutureState /\ t \in Nat
      BY <2>2, <2>3, LenProperties, ElementOfSeq
    <3>2. future[c][t] \in {"executed", "failed", "elsewhere"}
      BY <2>1, <2>2, <3>1 DEF FutureOK, FutureState, Open
    <3>3. Ticket(c, t) # None
      BY <2>1, <3>1, TicketType
    <3> QED
      BY <2>1, <2>2, <3>2, <3>3 DEF FutureOK
  <2> QED
    BY <2>4, <2>5 DEF Ticket
<1> QED
  BY <1>1, Invariance, PTL
=============================================================================
