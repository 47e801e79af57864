------------------------- MODULE ContractDataProofs -------------------------
(***************************************************************************)
(* Proofs about what contracts and steps are given, for any packages and   *)
(* workflows in workflows to any depth.                                    *)
(*                                                                         *)
(* A frame of the stack keeps tables that are overwritten; the trace       *)
(* overwrites nothing.  The invariant says that the tables of a frame are  *)
(* what the events of its own say last (Fits), and of every value in them  *)
(* where its origins may be (FrameValues).                                 *)
(***************************************************************************)
EXTENDS ContractData, ListLemmas

\* A frame and its place.
FrameKeys == {"run", "node", "payload", "results", "hops", "place", "visit", "given", "step",
              "steps", "surface", "outcome", "answer"}

PipelineAt(node) == pkg.pipeline[pkg.contract[node]]

Placed(f) ==
    /\ DOMAIN f = FrameKeys
    /\ f.node \in Nodes /\ f.hops \in 0..MaxHops /\ f.outcome \in Outcomes
    /\ f.place \in {"node", "steps"}
    /\ f.step \in Nat /\ (f.place = "steps" => f.step > 0)

InStep(f) == f.place = "steps" /\ f.step <= Len(PipelineAt(f.node))
GivenTo(f) == Bound(PipelineAt(f.node)[f.step].inputs, f.given, f.steps)

\* The tables of a frame are what the trace says.
VisitFits(t, f) ==
    /\ f.visit \in (f.run + 1)..Len(t)
    /\ t[f.visit].given = f.given
    /\ f.steps = Results(t, Len(t), f.visit)
    /\ DOMAIN f.surface = {x \in Names : MadeBy(t, Len(t), f.visit, x) # {}}
    /\ \A x \in DOMAIN f.surface : f.surface[x] = Latest(t, MadeBy(t, Len(t), f.visit, x)).made[x]

Fits(t, f) ==
    /\ f.run \in 1..Len(t)
    /\ t[f.run].made = f.payload
    /\ f.results = Surfaces(t, Len(t), f.run)
    /\ f.place = "steps" => VisitFits(t, f)

AnswerFits(t, f) ==
    f.answer # None =>
        /\ InStep(f)
        /\ f.answer.run \in 1..Len(t)
        /\ t[f.answer.run].made = GivenTo(f)
        /\ Completed(t, Len(t), f.answer.run) # {}
        /\ f.answer.surface = Latest(t, Completed(t, Len(t), f.answer.run)).made

\* Where the origins of a value may be: anywhere, in what may be passed on, and
\* in what a step of the visit may be asked for.
KnownNames == Names \cup {<<"sealed">>} \cup {<<o>> : o \in Outcomes}
Origins(t) == [by : 0..Len(t), name : KnownNames]
Passable(t) ==
    {o \in Origins(t) : o.by = 0 \/ t[o.by].outcome = "SUCCESS" \/ TakenByName(t[o.by], o.name)}
StepOrigins(t, f, s, x) ==
    {o \in Origins(t) :
        \/ o \in Passable(t)
        \/ /\ x = Raw(o.name) /\ o.by # 0
           /\ t[o.by].node = f.node /\ t[o.by].step \in Nat /\ t[o.by].step < f.step
           /\ StepOf(t[o.by]).name = s}

TableOf(f, keys, S) == DOMAIN f \subseteq keys /\ \A x \in DOMAIN f : f[x] \in Seq(S)
StepNames == Names \cup {Raw(name) : name \in Names}

FrameValues(t, f) ==
    /\ TableOf(f.payload, Names, Passable(t))
    /\ TableOf(f.given, Names, Passable(t))
    /\ TableOf(f.surface, Names, Passable(t))
    /\ \A c \in DOMAIN f.results : TableOf(f.results[c], Names, Passable(t))
    /\ \A s \in DOMAIN f.steps : TableOf(f.steps[s], StepNames, Origins(t))
    /\ f.place = "steps" =>
          \A s \in DOMAIN f.steps : \A x \in DOMAIN f.steps[s] : f.steps[s][x] \in Seq(StepOrigins(t, f, s, x))
    /\ f.answer # None => TableOf(f.answer.surface, Names, Passable(t)) /\ f.answer.outcome \in Outcomes

Kinds ==
    /\ pkg \in Packages
    /\ result \in Outcomes \cup {"none", "refused"}
    /\ IsList(stack) /\ IsList(trace) /\ trace # <<>>

\* Every workflow but the innermost waits in a step for the next one, which was
\* given what that step was.
Standing(s) ==
    /\ \A d \in DOMAIN s : Placed(s[d])
    /\ \A d \in DOMAIN s : d < Len(s) =>
          InStep(s[d]) /\ s[d].answer = None /\ s[d + 1].payload = GivenTo(s[d])
    /\ \A c, d \in DOMAIN s : c < d => s[c].run < s[d].run /\ s[c].visit < s[d].run

StackInv == Standing(stack)

EventInv ==
    /\ \A k \in DOMAIN trace : trace[k].run \in 1..Len(trace) /\ trace[k].visit \in 0..Len(trace)
    /\ AccountedFor
    /\ NothingOfARefusal

FitInv == \A d \in DOMAIN stack : Fits(trace, stack[d]) /\ AnswerFits(trace, stack[d])

ValueInv == \A d \in DOMAIN stack : FrameValues(trace, stack[d])

Sound(t, f) == Fits(t, f) /\ AnswerFits(t, f) /\ FrameValues(t, f)

IInv == Kinds /\ StackInv /\ EventInv /\ FitInv /\ ValueInv

-----------------------------------------------------------------------------
(***************************************************************************)
(* What an event adds to what the trace says.                              *)
(***************************************************************************)
Grows(t, u, e) ==
    /\ Len(t) \in Nat /\ Len(u) = Len(t) + 1
    /\ DOMAIN t = 1..Len(t) /\ DOMAIN u = 1..(Len(t) + 1)
    /\ \A k \in 1..Len(t) : u[k] = t[k]
    /\ u[Len(t) + 1] = e

LEMMA AppendGrows ==
  ASSUME NEW t, IsList(t), NEW e
  PROVE  IsList(Append(t, e)) /\ Grows(t, Append(t, e), e)
BY ListFacts, ListAppend DEF Grows

LEMMA LatestStays ==
  ASSUME NEW t, NEW u, NEW e, Grows(t, u, e), NEW S \in SUBSET (1..Len(t)), S # {}
  PROVE  Latest(u, S) = Latest(t, S)
<1>1. Max(S) \in 1..Len(t)
  BY MaxMember DEF Grows
<1> QED
  BY <1>1 DEF Grows, Latest

LEMMA LatestIsNew ==
  ASSUME NEW t, NEW u, NEW e, Grows(t, u, e), NEW S \in SUBSET (1..Len(t))
  PROVE  Latest(u, S \cup {Len(t) + 1}) = e
<1>1. Max(S \cup {Len(t) + 1}) = Len(t) + 1
  BY MaxOfMore DEF Grows
<1> QED
  BY <1>1 DEF Grows, Latest

\* The events meant are positions of the trace, and are what they were.
LEMMA EventsMeant ==
  ASSUME NEW t, NEW n, NEW r, NEW c, NEW s, NEW x
  PROVE  /\ Completed(t, n, r) \in SUBSET (1..n) /\ Completions(t, n, r, c) \in SUBSET (1..n)
         /\ StepsOf(t, n, r) \in SUBSET (1..n) /\ RunsOf(t, n, r, s) \in SUBSET (1..n)
         /\ MadeBy(t, n, r, x) \in SUBSET (1..n)
BY DEF Completed, Completions, StepsOf, RunsOf, MadeBy

LEMMA PastEvents ==
  ASSUME NEW t, NEW u, NEW e, Grows(t, u, e), NEW r, NEW c, NEW s, NEW x
  PROVE  /\ Completed(u, Len(t), r) = Completed(t, Len(t), r)
         /\ Completions(u, Len(t), r, c) = Completions(t, Len(t), r, c)
         /\ StepsOf(u, Len(t), r) = StepsOf(t, Len(t), r)
         /\ RunsOf(u, Len(t), r, s) = RunsOf(t, Len(t), r, s)
         /\ MadeBy(u, Len(t), r, x) = MadeBy(t, Len(t), r, x)
<1>1. \A k \in 1..Len(t) : u[k] = t[k]
  BY DEF Grows
<1>2. Completed(u, Len(t), r) = Completed(t, Len(t), r)
  BY <1>1 DEF Completed
<1>3. StepsOf(u, Len(t), r) = StepsOf(t, Len(t), r)
  BY <1>1 DEF StepsOf
<1>4. Completions(u, Len(t), r, c) = Completions(t, Len(t), r, c)
  BY <1>1, <1>2, EventsMeant DEF Completions
<1>5. RunsOf(u, Len(t), r, s) = RunsOf(t, Len(t), r, s)
  <2>1. \A k \in StepsOf(t, Len(t), r) : u[k] = t[k]
    BY <1>1, EventsMeant
  <2> QED
    BY <1>3, <2>1 DEF RunsOf
<1>6. MadeBy(u, Len(t), r, x) = MadeBy(t, Len(t), r, x)
  <2>1. \A k \in StepsOf(t, Len(t), r) : u[k] = t[k]
    BY <1>1, EventsMeant
  <2> QED
    BY <1>3, <2>1 DEF MadeBy
<1> QED
  BY <1>2, <1>3, <1>4, <1>5, <1>6

LEMMA PastSurfaces ==
  ASSUME NEW t, NEW u, NEW e, Grows(t, u, e), NEW r
  PROVE  Surfaces(u, Len(t), r) = Surfaces(t, Len(t), r)
<1> DEFINE D == {c \in Contracts : Completions(t, Len(t), r, c) # {}}
<1>1. {c \in Contracts : Completions(u, Len(t), r, c) # {}} = D
  BY PastEvents
<1>2. \A c \in D : Latest(u, Completions(u, Len(t), r, c)) = Latest(t, Completions(t, Len(t), r, c))
  <2> TAKE c \in D
  <2>1. Completions(u, Len(t), r, c) = Completions(t, Len(t), r, c)
    BY PastEvents
  <2>2. Completions(t, Len(t), r, c) \in SUBSET (1..Len(t)) /\ Completions(t, Len(t), r, c) # {}
    BY EventsMeant
  <2> QED
    BY <2>1, <2>2, LatestStays
<1>3. Surfaces(u, Len(t), r) = [c \in D |-> Latest(u, Completions(u, Len(t), r, c)).made]
  BY <1>1 DEF Surfaces
<1>4. Surfaces(t, Len(t), r) = [c \in D |-> Latest(t, Completions(t, Len(t), r, c)).made]
  BY DEF Surfaces
<1> HIDE DEF D
<1> QED
  BY <1>2, <1>3, <1>4

LEMMA PastResults ==
  ASSUME NEW t, NEW u, NEW e, Grows(t, u, e), NEW v
  PROVE  Results(u, Len(t), v) = Results(t, Len(t), v)
<1> DEFINE D == {StepOf(t[k]).name : k \in StepsOf(t, Len(t), v)}
           R(w, s) == Latest(w, RunsOf(w, Len(t), v, s))
<1>0. \A k \in StepsOf(t, Len(t), v) : u[k] = t[k]
  BY EventsMeant DEF Grows
<1>1. {StepOf(u[k]).name : k \in StepsOf(u, Len(t), v)} = D
  BY <1>0, PastEvents
<1>2. \A s \in D : R(u, s) = R(t, s)
  <2> TAKE s \in D
  <2>1. RunsOf(u, Len(t), v, s) = RunsOf(t, Len(t), v, s)
    BY PastEvents
  <2>2. RunsOf(t, Len(t), v, s) \in SUBSET (1..Len(t))
    BY EventsMeant
  <2>3. RunsOf(t, Len(t), v, s) # {}
    BY DEF RunsOf
  <2> QED
    BY <2>1, <2>2, <2>3, LatestStays
<1>3. Results(u, Len(t), v) = [s \in D |-> Kept(R(u, s).made, R(u, s).raw)]
  BY <1>1 DEF Results
<1>4. Results(t, Len(t), v) = [s \in D |-> Kept(R(t, s).made, R(t, s).raw)]
  BY DEF Results
<1> HIDE DEF D, R
<1> QED
  BY <1>2, <1>3, <1>4

\* One event more.
LEMMA OneMoreEvent ==
  ASSUME NEW t, NEW u, NEW e, Grows(t, u, e)
  PROVE  /\ Len(t) + 1 \in 1..Len(u) /\ u[Len(t) + 1] = e
         /\ \A k \in 1..Len(t) : k \in 1..Len(u) /\ u[k] = t[k]
         /\ \A k \in 1..Len(u) : k \in 1..Len(t) \/ k = Len(t) + 1
BY DEF Grows

LEMMA NextCompleted ==
  ASSUME NEW t, NEW u, NEW e, Grows(t, u, e), NEW r
  PROVE  Completed(u, Len(u), r) =
            IF e.type = "CC_COMPLETE" /\ e.run = r THEN Completed(t, Len(t), r) \cup {Len(t) + 1}
            ELSE Completed(t, Len(t), r)
BY OneMoreEvent DEF Completed

LEMMA NextCompletions ==
  ASSUME NEW t, NEW u, NEW e, Grows(t, u, e), NEW r, NEW c
  PROVE  Completions(u, Len(u), r, c) =
            IF e.type = "CC_COMPLETE" /\ e.run = r /\ pkg.contract[e.node] = c
            THEN Completions(t, Len(t), r, c) \cup {Len(t) + 1} ELSE Completions(t, Len(t), r, c)
<1>1. \A k \in Completed(t, Len(t), r) : u[k] = t[k]
  BY EventsMeant DEF Grows
<1>2. u[Len(t) + 1] = e
  BY DEF Grows
<1> QED
  BY <1>1, <1>2, NextCompleted DEF Completions

LEMMA NextSteps ==
  ASSUME NEW t, NEW u, NEW e, Grows(t, u, e), NEW v
  PROVE  StepsOf(u, Len(u), v) =
            IF e.type = "CC_STEP" /\ e.visit = v THEN StepsOf(t, Len(t), v) \cup {Len(t) + 1}
            ELSE StepsOf(t, Len(t), v)
BY OneMoreEvent DEF StepsOf

LEMMA NextRuns ==
  ASSUME NEW t, NEW u, NEW e, Grows(t, u, e), NEW v, NEW s
  PROVE  RunsOf(u, Len(u), v, s) =
            IF e.type = "CC_STEP" /\ e.visit = v /\ StepOf(e).name = s
            THEN RunsOf(t, Len(t), v, s) \cup {Len(t) + 1} ELSE RunsOf(t, Len(t), v, s)
<1>1. \A k \in StepsOf(t, Len(t), v) : u[k] = t[k]
  BY EventsMeant DEF Grows
<1>2. u[Len(t) + 1] = e
  BY DEF Grows
<1> QED
  BY <1>1, <1>2, NextSteps DEF RunsOf

LEMMA NextMade ==
  ASSUME NEW t, NEW u, NEW e, Grows(t, u, e), NEW v, NEW x
  PROVE  MadeBy(u, Len(u), v, x) =
            IF e.type = "CC_STEP" /\ e.visit = v /\ x \in DOMAIN e.made
            THEN MadeBy(t, Len(t), v, x) \cup {Len(t) + 1} ELSE MadeBy(t, Len(t), v, x)
<1>1. \A k \in StepsOf(t, Len(t), v) : u[k] = t[k]
  BY EventsMeant DEF Grows
<1>2. u[Len(t) + 1] = e
  BY DEF Grows
<1> QED
  BY <1>1, <1>2, NextSteps DEF MadeBy

LEMMA SurfacesStay ==
  ASSUME NEW t, NEW u, NEW e, Grows(t, u, e), NEW r, ~(e.type = "CC_COMPLETE" /\ e.run = r)
  PROVE  Surfaces(u, Len(u), r) = Surfaces(t, Len(t), r)
<1>1. ASSUME NEW c PROVE Completions(u, Len(u), r, c) = Completions(u, Len(t), r, c)
  <2>1. Completions(u, Len(u), r, c) = Completions(t, Len(t), r, c)
    BY NextCompletions
  <2> QED
    BY <2>1, PastEvents
<1>2. Surfaces(u, Len(u), r) = Surfaces(u, Len(t), r)
  BY <1>1 DEF Surfaces
<1> QED
  BY <1>2, PastSurfaces

LEMMA SurfacesAfter ==
  ASSUME NEW t, NEW u, NEW e, Grows(t, u, e), NEW r, e.type = "CC_COMPLETE", e.run = r,
         pkg.contract[e.node] \in Contracts
  PROVE  Surfaces(u, Len(u), r) = Put(Surfaces(t, Len(t), r), pkg.contract[e.node], e.made)
<1> DEFINE d == pkg.contract[e.node]
           D == {c \in Contracts : Completions(t, Len(t), r, c) # {}}
           C(c) == Completions(t, Len(t), r, c)
           U(c) == Completions(u, Len(u), r, c)
<1>1. ASSUME NEW c PROVE U(c) = IF d = c THEN C(c) \cup {Len(t) + 1} ELSE C(c)
  <2>1. U(c) = IF e.type = "CC_COMPLETE" /\ e.run = r /\ pkg.contract[e.node] = c THEN C(c) \cup {Len(t) + 1} ELSE C(c)
    BY NextCompletions
  <2> QED
    BY <2>1
<1>2. \A c : C(c) \in SUBSET (1..Len(t))
  BY EventsMeant
<1>3. \A c \in D : C(c) # {}
  OBVIOUS
<1>4. D = {c \in Contracts : C(c) # {}}
  OBVIOUS
<1>5. Surfaces(t, Len(t), r) = [c \in D |-> Latest(t, C(c)).made]
  BY DEF Surfaces
<1>6. Surfaces(u, Len(u), r) = [c \in {c \in Contracts : U(c) # {}} |-> Latest(u, U(c)).made]
  BY DEF Surfaces
<1> HIDE DEF C, U, D, d
<1>7. {c \in Contracts : U(c) # {}} = D \cup {d}
  BY <1>1, <1>4 DEF d
<1>8. Latest(u, U(d)) = e
  BY <1>1, <1>2, LatestIsNew
<1>9. \A c \in D : c # d => Latest(u, U(c)) = Latest(t, C(c))
  <2> SUFFICES ASSUME NEW c \in D, c # d PROVE Latest(u, U(c)) = Latest(t, C(c))
    OBVIOUS
  <2>1. U(c) = C(c) /\ C(c) \in SUBSET (1..Len(t)) /\ C(c) # {}
    BY <1>1, <1>2, <1>3
  <2> QED
    BY <2>1, LatestStays
<1> QED
  BY <1>5, <1>6, <1>7, <1>8, <1>9 DEF Put, d

LEMMA ResultsStay ==
  ASSUME NEW t, NEW u, NEW e, Grows(t, u, e), NEW v, ~(e.type = "CC_STEP" /\ e.visit = v)
  PROVE  Results(u, Len(u), v) = Results(t, Len(t), v)
<1>1. StepsOf(u, Len(u), v) = StepsOf(u, Len(t), v)
  BY NextSteps, PastEvents
<1>2. ASSUME NEW s PROVE RunsOf(u, Len(u), v, s) = RunsOf(u, Len(t), v, s)
  <2>1. RunsOf(u, Len(u), v, s) = RunsOf(t, Len(t), v, s)
    BY NextRuns
  <2> QED
    BY <2>1, PastEvents
<1>3. Results(u, Len(u), v) = Results(u, Len(t), v)
  BY <1>1, <1>2 DEF Results
<1> QED
  BY <1>3, PastResults

LEMMA ResultsAfter ==
  ASSUME NEW t, NEW u, NEW e, Grows(t, u, e), NEW v, e.type = "CC_STEP", e.visit = v
  PROVE  Results(u, Len(u), v) = Put(Results(t, Len(t), v), StepOf(e).name, Kept(e.made, e.raw))
<1> DEFINE a == StepOf(e).name
           D == {StepOf(t[k]).name : k \in StepsOf(t, Len(t), v)}
           C(s) == RunsOf(t, Len(t), v, s)
           U(s) == RunsOf(u, Len(u), v, s)
<1>1. ASSUME NEW s PROVE U(s) = IF a = s THEN C(s) \cup {Len(t) + 1} ELSE C(s)
  <2>1. U(s) = IF e.type = "CC_STEP" /\ e.visit = v /\ StepOf(e).name = s THEN C(s) \cup {Len(t) + 1} ELSE C(s)
    BY NextRuns
  <2> QED
    BY <2>1
<1>2. \A s : C(s) \in SUBSET (1..Len(t))
  BY EventsMeant
<1>3. \A s \in D : C(s) # {}
  BY DEF RunsOf
<1>4. StepsOf(u, Len(u), v) = StepsOf(t, Len(t), v) \cup {Len(t) + 1}
  BY NextSteps
<1>5. \A k \in StepsOf(t, Len(t), v) : u[k] = t[k]
  BY EventsMeant DEF Grows
<1>6. {StepOf(u[k]).name : k \in StepsOf(u, Len(u), v)} = D \cup {a}
  BY <1>4, <1>5 DEF Grows
<1>7. Results(t, Len(t), v) = [s \in D |-> Kept(Latest(t, C(s)).made, Latest(t, C(s)).raw)]
  BY DEF Results
<1>8. Results(u, Len(u), v) = [s \in D \cup {a} |-> Kept(Latest(u, U(s)).made, Latest(u, U(s)).raw)]
  BY <1>6 DEF Results
<1> HIDE DEF C, U, D, a
<1>9. Latest(u, U(a)) = e
  BY <1>1, <1>2, LatestIsNew
<1>10. \A s \in D : s # a => Latest(u, U(s)) = Latest(t, C(s))
  <2> SUFFICES ASSUME NEW s \in D, s # a PROVE Latest(u, U(s)) = Latest(t, C(s))
    OBVIOUS
  <2>1. U(s) = C(s) /\ C(s) \in SUBSET (1..Len(t)) /\ C(s) # {}
    BY <1>1, <1>2, <1>3
  <2> QED
    BY <2>1, LatestStays
<1> QED
  BY <1>7, <1>8, <1>9, <1>10 DEF Put, a

LEMMA MadeStays ==
  ASSUME NEW t, NEW u, NEW e, Grows(t, u, e), NEW v, NEW x,
         ~(e.type = "CC_STEP" /\ e.visit = v /\ x \in DOMAIN e.made)
  PROVE  /\ MadeBy(u, Len(u), v, x) = MadeBy(t, Len(t), v, x)
         /\ MadeBy(t, Len(t), v, x) # {} =>
               Latest(u, MadeBy(u, Len(u), v, x)) = Latest(t, MadeBy(t, Len(t), v, x))
<1>1. MadeBy(u, Len(u), v, x) = MadeBy(t, Len(t), v, x)
  BY NextMade
<1>2. MadeBy(t, Len(t), v, x) \in SUBSET (1..Len(t))
  BY EventsMeant
<1> QED
  BY <1>1, <1>2, LatestStays

LEMMA MadeAfter ==
  ASSUME NEW t, NEW u, NEW e, Grows(t, u, e), NEW v, e.type = "CC_STEP", e.visit = v,
         NEW x, x \in DOMAIN e.made
  PROVE  MadeBy(u, Len(u), v, x) # {} /\ Latest(u, MadeBy(u, Len(u), v, x)) = e
<1>1. MadeBy(u, Len(u), v, x) = MadeBy(t, Len(t), v, x) \cup {Len(t) + 1}
  BY NextMade
<1>2. MadeBy(t, Len(t), v, x) \in SUBSET (1..Len(t))
  BY EventsMeant
<1>3. Latest(u, MadeBy(t, Len(t), v, x) \cup {Len(t) + 1}) = e
  BY <1>2, LatestIsNew
<1> QED
  BY <1>1, <1>3
-----------------------------------------------------------------------------
(***************************************************************************)
(* The package, and the workflow on top.                                   *)
(***************************************************************************)
LEMMA PackageFacts ==
  ASSUME pkg \in Packages, NEW n \in Nodes
  PROVE  /\ pkg.contract[n] \in Contracts
         /\ IsSequence(PipelineAt(n))
         /\ \A i \in DOMAIN PipelineAt(n) : IsStep(PipelineAt(n)[i])
         /\ \A x \in DOMAIN pkg.bindings[n] : x \in Names /\ IsInput(pkg.bindings[n][x])
         /\ \A o \in DOMAIN pkg.routing[n] : pkg.routing[n][o] \in Nodes \cup {None}
BY DataAssumption DEF PipelineAt

LEMMA EntryFacts ==
  ASSUME pkg \in Packages, NEW w \in Workflows
  PROVE  pkg.entry[w] \in Nodes
BY DataAssumption

LEMMA TopFacts ==
  ASSUME Kinds, stack # <<>>
  PROVE  /\ Len(stack) \in Nat \ {0} /\ DOMAIN stack = 1..Len(stack)
         /\ Len(stack) \in DOMAIN stack /\ Top = stack[Len(stack)]
<1>1. Len(stack) \in Nat /\ DOMAIN stack = 1..Len(stack)
  BY ListFacts DEF Kinds
<1>2. Len(stack) # 0
  BY EmptySeq DEF Kinds, IsList
<1> QED
  BY <1>1, <1>2 DEF Top, Last

LEMMA TraceFacts ==
  ASSUME Kinds
  PROVE  /\ Len(trace) \in Nat \ {0} /\ DOMAIN trace = 1..Len(trace)
         /\ Last(trace) = trace[Len(trace)]
<1>1. Len(trace) \in Nat /\ DOMAIN trace = 1..Len(trace)
  BY ListFacts DEF Kinds
<1>2. Len(trace) # 0
  BY EmptySeq DEF Kinds, IsList
<1> QED
  BY <1>1, <1>2 DEF Last

\* The step a workflow is in.
LEMMA StepFacts ==
  ASSUME pkg \in Packages, NEW f, Placed(f), InStep(f)
  PROVE  /\ f.step \in 1..Len(PipelineAt(f.node)) /\ Len(PipelineAt(f.node)) \in Nat
         /\ IsStep(PipelineAt(f.node)[f.step])
<1>1. IsSequence(PipelineAt(f.node)) /\ \A i \in DOMAIN PipelineAt(f.node) : IsStep(PipelineAt(f.node)[i])
  BY PackageFacts DEF Placed
<1>2. Len(PipelineAt(f.node)) \in Nat /\ DOMAIN PipelineAt(f.node) = 1..Len(PipelineAt(f.node))
  BY <1>1 DEF IsSequence
<1>3. f.step \in 1..Len(PipelineAt(f.node))
  BY <1>2 DEF Placed, InStep
<1> QED
  BY <1>1, <1>2, <1>3

\* What is said of the next state with the package of this one.
LEMMA SamePackage ==
  ASSUME pkg' = pkg
  PROVE  /\ Standing(stack') => StackInv'
         /\ (\A d \in DOMAIN stack' : Sound(trace', stack'[d])) => FitInv' /\ ValueInv'
         /\ Accounted(trace', Len(trace')) => AccountedFor'
<1>1. Standing(stack') => StackInv'
  <2>1. \A d : PipelineAt(stack[d].node)' = PipelineAt(stack'[d].node)
    BY DEF PipelineAt
  <2>2. \A d : GivenTo(stack[d])' = GivenTo(stack'[d])
    BY <2>1 DEF GivenTo
  <2>3. \A d : InStep(stack[d])' <=> InStep(stack'[d])
    BY <2>1 DEF InStep
  <2> QED
    BY <2>2, <2>3 DEF Standing, StackInv, Placed
<1>2. \A r : Surfaces(trace, Len(trace), r)' = Surfaces(trace', Len(trace'), r)
  BY DEF Surfaces, Completions, Completed, Latest
<1>3. \A v : Results(trace, Len(trace), v)' = Results(trace', Len(trace'), v)
  BY DEF Results, RunsOf, StepsOf, StepOf, Latest
<1>4. \A v, x : MadeBy(trace, Len(trace), v, x)' = MadeBy(trace', Len(trace'), v, x)
  BY DEF MadeBy, StepsOf
<1>5. (\A d \in DOMAIN stack' : Fits(trace', stack'[d])) => (\A d \in DOMAIN stack : Fits(trace, stack[d]))'
  <2>1. ASSUME NEW d \in DOMAIN stack', Fits(trace', stack'[d]) PROVE Fits(trace, stack[d])'
    BY <1>2, <1>3, <1>4, <2>1 DEF Fits, VisitFits, Latest
  <2> QED
    BY <2>1
<1>6. (\A d \in DOMAIN stack' : AnswerFits(trace', stack'[d])) =>
               (\A d \in DOMAIN stack : AnswerFits(trace, stack[d]))'
  BY DEF AnswerFits, InStep, PipelineAt, GivenTo, Completed, Latest
<1>7. (\A d \in DOMAIN stack' : FrameValues(trace', stack'[d])) =>
               (\A d \in DOMAIN stack : FrameValues(trace, stack[d]))'
  <2>1. \A k, x : TakenByName(trace[k], x)' = TakenByName(trace'[k], x)
    BY DEF TakenByName, StepOf
  <2>2. Passable(trace)' = Passable(trace')
    BY <2>1 DEF Passable, Origins
  <2>3. \A d, s, x : StepOrigins(trace, stack[d], s, x)' = StepOrigins(trace', stack'[d], s, x)
    BY <2>2 DEF StepOrigins, Origins, StepOf
  <2>4. Origins(trace)' = Origins(trace')
    BY DEF Origins
  <2>5. ASSUME NEW d \in DOMAIN stack', FrameValues(trace', stack'[d]) PROVE FrameValues(trace, stack[d])'
    BY <2>2, <2>3, <2>4, <2>5 DEF FrameValues, TableOf
  <2> QED
    BY <2>5
<1>8. Accounted(trace', Len(trace')) => AccountedFor'
  <2> DEFINE n == Len(trace') - 1
  <2>1. \A r : Surfaces(trace, Len(trace) - 1, r)' = Surfaces(trace', n, r)
    BY DEF Surfaces, Completions, Completed, Latest
  <2>2. \A v : Results(trace, Len(trace) - 1, v)' = Results(trace', n, v)
    BY DEF Results, RunsOf, StepsOf, StepOf, Latest
  <2>3. \A v, x : MadeBy(trace, Len(trace) - 1, v, x)' = MadeBy(trace', n, v, x)
    BY DEF MadeBy, StepsOf
  <2> QED
    BY <2>1, <2>2, <2>3 DEF AccountedFor, Accounted, StepOf, Completed, Latest
<1> QED
  BY <1>1, <1>5, <1>6, <1>7, <1>8 DEF Sound, FitInv, ValueInv
-----------------------------------------------------------------------------
(***************************************************************************)
(* What an event leaves as it was.                                         *)
(***************************************************************************)
LEMMA FitsStill ==
  ASSUME NEW t, NEW u, NEW e, Grows(t, u, e), NEW f, Fits(t, f), Len(t) \in Nat,
         ~(e.type = "CC_COMPLETE" /\ e.run = f.run),
         f.place = "steps" => ~(e.type = "CC_STEP" /\ e.visit = f.visit)
  PROVE  Fits(u, f)
<1>1. f.run \in 1..Len(u) /\ u[f.run] = t[f.run]
  BY DEF Fits, Grows
<1>2. Surfaces(u, Len(u), f.run) = Surfaces(t, Len(t), f.run)
  BY SurfacesStay
<1>3. ASSUME f.place = "steps" PROVE VisitFits(u, f)
  <2>1. VisitFits(t, f) /\ ~(e.type = "CC_STEP" /\ e.visit = f.visit)
    BY <1>3 DEF Fits
  <2>2. f.visit \in (f.run + 1)..Len(u) /\ u[f.visit] = t[f.visit]
    BY <1>1, <2>1 DEF VisitFits, Fits, Grows
  <2>3. Results(u, Len(u), f.visit) = Results(t, Len(t), f.visit)
    BY <2>1, ResultsStay
  <2>4. ASSUME NEW x
        PROVE  /\ MadeBy(u, Len(u), f.visit, x) = MadeBy(t, Len(t), f.visit, x)
               /\ MadeBy(t, Len(t), f.visit, x) # {} =>
                     Latest(u, MadeBy(u, Len(u), f.visit, x)) = Latest(t, MadeBy(t, Len(t), f.visit, x))
    BY <2>1, MadeStays
  <2>5. DOMAIN f.surface = {x \in Names : MadeBy(u, Len(u), f.visit, x) # {}}
    BY <2>1, <2>4 DEF VisitFits
  <2>6. \A x \in DOMAIN f.surface : f.surface[x] = Latest(u, MadeBy(u, Len(u), f.visit, x)).made[x]
    BY <2>1, <2>4 DEF VisitFits
  <2> QED
    BY <2>1, <2>2, <2>3, <2>5, <2>6 DEF VisitFits
<1> QED
  BY <1>1, <1>2, <1>3 DEF Fits

LEMMA OriginsStill ==
  ASSUME NEW t, NEW u, NEW e, Grows(t, u, e)
  PROVE  Origins(t) \in SUBSET Origins(u) /\ Passable(t) \in SUBSET Passable(u)
<1>1. Origins(t) \in SUBSET Origins(u)
  BY DEF Origins, Grows
<1>2. \A o \in Origins(t) : o.by = 0 \/ u[o.by] = t[o.by]
  BY DEF Origins, Grows
<1>3. Passable(t) \in SUBSET Passable(u)
  BY <1>1, <1>2 DEF Passable
<1> QED
  BY <1>1, <1>3

LEMMA StepOriginsStill ==
  ASSUME NEW t, NEW u, NEW e, Grows(t, u, e), NEW f, NEW g, g.node = f.node,
         f.step \in Nat, g.step \in Nat, f.step <= g.step, NEW s, NEW x
  PROVE  StepOrigins(t, f, s, x) \in SUBSET StepOrigins(u, g, s, x)
<1>1. Origins(t) \in SUBSET Origins(u) /\ Passable(t) \in SUBSET Passable(u)
  BY OriginsStill
<1>2. \A o \in Origins(t) : o.by = 0 \/ u[o.by] = t[o.by]
  BY DEF Origins, Grows
<1> SUFFICES ASSUME NEW o \in StepOrigins(t, f, s, x) PROVE o \in StepOrigins(u, g, s, x)
  OBVIOUS
<1>3. o \in Origins(t) /\ o \in Origins(u)
  BY <1>1 DEF StepOrigins
<1>4. CASE o \in Passable(t)
  BY <1>1, <1>3, <1>4 DEF StepOrigins
<1>5. CASE ~(o \in Passable(t))
  <2>1. /\ x = Raw(o.name) /\ o.by # 0
        /\ t[o.by].node = f.node /\ t[o.by].step \in Nat /\ t[o.by].step < f.step
        /\ StepOf(t[o.by]).name = s
    BY <1>5 DEF StepOrigins
  <2>2. u[o.by] = t[o.by]
    BY <1>2, <1>3, <2>1
  <2>3. t[o.by].step < g.step
    BY <2>1
  <2> QED
    BY <1>3, <2>1, <2>2, <2>3 DEF StepOrigins
<1> QED
  BY <1>4, <1>5

LEMMA TableStill ==
  ASSUME NEW f, NEW keys, NEW S, NEW T, S \in SUBSET T, TableOf(f, keys, S)
  PROVE  TableOf(f, keys, T)
BY SeqMonotonic DEF TableOf

LEMMA ValuesStill ==
  ASSUME NEW t, NEW u, NEW e, Grows(t, u, e), NEW f, Placed(f), FrameValues(t, f)
  PROVE  FrameValues(u, f)
<1>1. Origins(t) \in SUBSET Origins(u) /\ Passable(t) \in SUBSET Passable(u)
  BY OriginsStill
<1>2. ASSUME NEW g, TableOf(g, Names, Passable(t)) PROVE TableOf(g, Names, Passable(u))
  BY <1>1, <1>2, TableStill
<1>3. ASSUME NEW g, TableOf(g, StepNames, Origins(t)) PROVE TableOf(g, StepNames, Origins(u))
  BY <1>1, <1>3, TableStill
<1>4. ASSUME NEW s, NEW x, NEW v \in Seq(StepOrigins(t, f, s, x)) PROVE v \in Seq(StepOrigins(u, f, s, x))
  <2>1. f.step \in Nat /\ f.step <= f.step
    BY DEF Placed
  <2>2. StepOrigins(t, f, s, x) \in SUBSET StepOrigins(u, f, s, x)
    BY <2>1, StepOriginsStill
  <2> QED
    BY <2>2, SeqMonotonic
<1> QED
  BY <1>2, <1>3, <1>4 DEF FrameValues
-----------------------------------------------------------------------------
(***************************************************************************)
(* What a binding puts together.                                           *)
(***************************************************************************)
LEMMA SealedOrigin ==
  ASSUME NEW t, Len(t) \in Nat
  PROVE  <<[by |-> 0, name |-> <<"sealed">>]>> \in Seq(Passable(t))
<1> DEFINE o == [by |-> 0, name |-> <<"sealed">>]
<1>1. o \in Origins(t) /\ o.by = 0
  BY DEF Origins, KnownNames
<1>2. o \in Passable(t)
  BY <1>1 DEF Passable
<1> HIDE DEF o
<1>3. <<o>> \in Seq(Passable(t))
  BY <1>2
<1> QED
  BY <1>3 DEF o

LEMMA OutcomeOrigin ==
  ASSUME NEW t, Len(t) \in Nat, NEW outcome \in Outcomes
  PROVE  <<[by |-> 0, name |-> <<outcome>>]>> \in Seq(Passable(t))
<1> DEFINE o == [by |-> 0, name |-> <<outcome>>]
<1>1. o \in Origins(t) /\ o.by = 0
  BY DEF Origins, KnownNames
<1>2. o \in Passable(t)
  BY <1>1 DEF Passable
<1> HIDE DEF o
<1>3. <<o>> \in Seq(Passable(t))
  BY <1>2
<1> QED
  BY <1>3 DEF o

LEMMA PartsOfInput ==
  ASSUME NEW b, IsInput(b)
  PROVE  Len(Parts(b)) \in Nat /\ DOMAIN Parts(b) = 1..Len(Parts(b))
<1>1. CASE b.from = "list"
  BY <1>1 DEF IsInput, IsSequence, Parts
<1>2. CASE b.from # "list"
  <2> DEFINE s == <<b>>
  <2>1. Len(s) = 1 /\ DOMAIN s = 1..1
    OBVIOUS
  <2>2. Parts(b) = s
    BY <1>2 DEF Parts
  <2> HIDE DEF s
  <2> QED
    BY <2>1, <2>2
<1> QED
  BY <1>1, <1>2

LEMMA ValueType ==
  ASSUME NEW S, NEW b, IsInput(b), NEW inputs, NEW results, Value(b, inputs, results) # None,
         \A i \in DOMAIN Parts(b) :
            Source(Parts(b)[i], inputs, results) = None \/ Source(Parts(b)[i], inputs, results) \in Seq(S)
  PROVE  Value(b, inputs, results) \in Seq(S)
<1> DEFINE found == [i \in DOMAIN Parts(b) |-> Source(Parts(b)[i], inputs, results)]
<1>1. Len(Parts(b)) \in Nat /\ DOMAIN Parts(b) = 1..Len(Parts(b))
  BY PartsOfInput
<1>2. \A i \in 1..Len(Parts(b)) : found[i] = None \/ found[i] \in Seq(S)
  BY <1>1
<1>3. found = [i \in 1..Len(Parts(b)) |-> found[i]]
  BY <1>1
<1>4. Value(b, inputs, results) = IF \E i \in DOMAIN found : found[i] = None THEN None ELSE FlattenSeq(found)
  BY DEF Value
<1>5. DOMAIN found = 1..Len(Parts(b))
  BY <1>1
<1> HIDE DEF found
<1>6. (\A i \in DOMAIN found : found[i] # None) /\ Value(b, inputs, results) = FlattenSeq(found)
  BY <1>4
<1>7. found \in Seq(Seq(S))
  <2>1. \A i \in 1..Len(Parts(b)) : found[i] \in Seq(S)
    BY <1>2, <1>5, <1>6
  <2> QED
    BY <1>1, <1>3, <2>1, IsASeq
<1> QED
  BY <1>6, <1>7, FlattenType

LEMMA SourceType ==
  ASSUME NEW S, NEW b, NEW inputs, NEW results,
         <<[by |-> 0, name |-> <<"sealed">>]>> \in Seq(S),
         \A x \in DOMAIN inputs : inputs[x] \in Seq(S),
         b.from = "results" /\ b.of \in DOMAIN results /\ b.name \in DOMAIN results[b.of]
            => results[b.of][b.name] \in Seq(S)
  PROVE  Source(b, inputs, results) = None \/ Source(b, inputs, results) \in Seq(S)
<1>1. CASE b.from = "sealed"
  BY <1>1 DEF Source
<1>2. CASE b.from = "inputs"
  BY <1>2 DEF Source, From
<1>3. CASE b.from = "results"
  BY <1>3 DEF Source, From
<1>4. CASE b.from \notin {"sealed", "inputs", "results"}
  BY <1>4 DEF Source
<1> QED
  BY <1>1, <1>2, <1>3, <1>4

LEMMA BoundTable ==
  ASSUME NEW S, NEW bindings, DOMAIN bindings \in SUBSET Names,
         \A x \in DOMAIN bindings : IsInput(bindings[x]),
         NEW inputs, NEW results,
         \A x \in DOMAIN bindings : \A i \in DOMAIN Parts(bindings[x]) :
            \/ Source(Parts(bindings[x])[i], inputs, results) = None
            \/ Source(Parts(bindings[x])[i], inputs, results) \in Seq(S)
  PROVE  TableOf(Bound(bindings, inputs, results), Names, S)
<1> DEFINE D == {x \in DOMAIN bindings : Value(bindings[x], inputs, results) # None}
<1>1. Bound(bindings, inputs, results) = [x \in D |-> Value(bindings[x], inputs, results)]
  BY DEF Bound
<1>2. D \in SUBSET Names
  OBVIOUS
<1>3. \A x \in D : Value(bindings[x], inputs, results) \in Seq(S)
  <2> TAKE x \in D
  <2>1. IsInput(bindings[x]) /\ Value(bindings[x], inputs, results) # None
    OBVIOUS
  <2> QED
    BY <2>1, ValueType
<1> HIDE DEF D
<1> QED
  BY <1>1, <1>2, <1>3 DEF TableOf

\* What a node binds may be passed on.
LEMMA NodeBinds ==
  ASSUME pkg \in Packages, NEW t, Len(t) \in Nat, NEW f, Placed(f), FrameValues(t, f)
  PROVE  TableOf(Bound(pkg.bindings[f.node], f.payload, f.results), Names, Passable(t))
<1> DEFINE S == Passable(t)
           bindings == pkg.bindings[f.node]
<1>1. <<[by |-> 0, name |-> <<"sealed">>]>> \in Seq(S)
  BY SealedOrigin
<1>2. \A x \in DOMAIN f.payload : f.payload[x] \in Seq(S)
  BY DEF FrameValues, TableOf
<1>3. \A c \in DOMAIN f.results : \A x \in DOMAIN f.results[c] : f.results[c][x] \in Seq(S)
  BY DEF FrameValues, TableOf
<1>4. DOMAIN bindings \in SUBSET Names /\ \A x \in DOMAIN bindings : IsInput(bindings[x])
  BY PackageFacts DEF Placed
<1> HIDE DEF S, bindings
<1>5. ASSUME NEW b PROVE Source(b, f.payload, f.results) = None \/ Source(b, f.payload, f.results) \in Seq(S)
  <2>1. b.from = "results" /\ b.of \in DOMAIN f.results /\ b.name \in DOMAIN f.results[b.of]
            => f.results[b.of][b.name] \in Seq(S)
    BY <1>3
  <2> QED
    BY <1>1, <1>2, <2>1, SourceType
<1>6. TableOf(Bound(bindings, f.payload, f.results), Names, S)
  BY <1>4, <1>5, BoundTable
<1> QED
  BY <1>6 DEF S, bindings

\* What a part of the current step names may be passed on: if it is what a
\* failed step made, this is the step that takes it by name.
Takes(step, b) ==
    \/ \E x \in DOMAIN step.inputs : \E i \in DOMAIN Parts(step.inputs[x]) : Parts(step.inputs[x])[i] = b
    \/ \E x \in DOMAIN step.outputs : \E i \in DOMAIN Parts(step.outputs[x]) : Parts(step.outputs[x])[i] = b

LEMMA PartPassable ==
  ASSUME pkg \in Packages, NEW t, NEW f, Placed(f), InStep(f), FrameValues(t, f),
         NEW b, Takes(PipelineAt(f.node)[f.step], b), b.from = "results",
         b.of \in DOMAIN f.steps, b.name \in DOMAIN f.steps[b.of]
  PROVE  f.steps[b.of][b.name] \in Seq(Passable(t))
<1> DEFINE later == PipelineAt(f.node)[f.step]
           taken(a) == a.from = "results" /\ a.of = b.of /\ a.name = b.name
           takes(a) == \E i \in DOMAIN Parts(a) : taken(Parts(a)[i])
<1>1. f.step \in 1..Len(PipelineAt(f.node)) /\ Len(PipelineAt(f.node)) \in Nat
  BY StepFacts
<1>2. (\E x \in DOMAIN later.inputs : takes(later.inputs[x]))
      \/ (\E x \in DOMAIN later.outputs : takes(later.outputs[x]))
  BY DEF Takes
<1>3. f.steps[b.of][b.name] \in Seq(StepOrigins(t, f, b.of, b.name))
  BY DEF FrameValues, InStep
<1> HIDE DEF later, takes
<1>4. ASSUME NEW o \in StepOrigins(t, f, b.of, b.name) PROVE o \in Passable(t)
  <2>1. CASE o \in Passable(t)
    BY <2>1
  <2>2. CASE ~(o \in Passable(t))
    <3> DEFINE e == t[o.by]
    <3>1. /\ o \in Origins(t) /\ b.name = Raw(o.name)
          /\ e.node = f.node /\ e.step \in Nat /\ e.step < f.step
          /\ StepOf(e).name = b.of
      BY <2>2 DEF StepOrigins
    <3> HIDE DEF e
    <3>2. f.step \in (e.step + 1)..Len(PipelineAt(e.node))
      BY <1>1, <3>1
    <3>3. TakenByName(e, o.name)
      <4>1. later = pkg.pipeline[pkg.contract[e.node]][f.step]
        BY <3>1 DEF later, PipelineAt
      <4> QED
        BY <1>2, <3>1, <3>2, <4>1 DEF TakenByName, takes, PipelineAt
    <3> QED
      BY <3>1, <3>3 DEF Passable, e
  <2> QED
    BY <2>1, <2>2
<1>5. StepOrigins(t, f, b.of, b.name) \in SUBSET Passable(t)
  BY <1>4
<1> QED
  BY <1>3, <1>5, SeqMonotonic

LEMMA StepSource ==
  ASSUME pkg \in Packages, NEW t, Len(t) \in Nat, NEW f, Placed(f), InStep(f), FrameValues(t, f),
         NEW b, Takes(PipelineAt(f.node)[f.step], b), NEW inputs,
         \A x \in DOMAIN inputs : inputs[x] \in Seq(Passable(t))
  PROVE  Source(b, inputs, f.steps) = None \/ Source(b, inputs, f.steps) \in Seq(Passable(t))
<1>1. <<[by |-> 0, name |-> <<"sealed">>]>> \in Seq(Passable(t))
  BY SealedOrigin
<1>2. b.from = "results" /\ b.of \in DOMAIN f.steps /\ b.name \in DOMAIN f.steps[b.of]
            => f.steps[b.of][b.name] \in Seq(Passable(t))
  BY PartPassable
<1> QED
  BY <1>1, <1>2, SourceType

\* So may what a step is given.
LEMMA StepBinds ==
  ASSUME pkg \in Packages, NEW t, Len(t) \in Nat, NEW f, Placed(f), InStep(f), FrameValues(t, f)
  PROVE  TableOf(GivenTo(f), Names, Passable(t))
<1> DEFINE S == Passable(t)
           step == PipelineAt(f.node)[f.step]
           bindings == step.inputs
<1>1. \A x \in DOMAIN f.given : f.given[x] \in Seq(S)
  BY DEF FrameValues, TableOf
<1>2. DOMAIN bindings \in SUBSET Names /\ \A x \in DOMAIN bindings : IsInput(bindings[x])
  BY StepFacts DEF IsStep
<1>3. \A x \in DOMAIN bindings : \A i \in DOMAIN Parts(bindings[x]) : Takes(step, Parts(bindings[x])[i])
  BY DEF Takes
<1>4. \A b : Takes(step, b) =>
         Source(b, f.given, f.steps) = None \/ Source(b, f.given, f.steps) \in Seq(S)
  BY <1>1, StepSource
<1>5. TableOf(Bound(bindings, f.given, f.steps), Names, S)
  <2> HIDE DEF S, bindings, step
  <2> QED
    BY <1>2, <1>3, <1>4, BoundTable
<1> QED
  BY <1>5 DEF GivenTo
-----------------------------------------------------------------------------
(***************************************************************************)
(* What a step comes to.                                                   *)
(***************************************************************************)
LEMMA RawName ==
  ASSUME NEW name \in Names
  PROVE  Tail(Raw(name)) = name
<1> DEFINE S == STRING \cup {"capability_result"}
           p == <<"capability_result">>
           n == p \o name
<1>1. name \in Seq(S) /\ Len(name) \in Nat
  <2>1. name \in Seq(STRING)
    BY DataAssumption
  <2> QED
    BY <2>1, SeqMonotonic, LenProperties
<1>2. p \in Seq(S) /\ Len(p) = 1
  <2>1. "capability_result" \in S
    OBVIOUS
  <2>2. p \in Seq(S)
    BY <2>1
  <2>3. Len(p) = 1
    OBVIOUS
  <2> QED
    BY <2>2, <2>3
<1> HIDE DEF S, p
<1>3. /\ n \in Seq(S) /\ Len(n) = 1 + Len(name)
      /\ \A i \in 1..(1 + Len(name)) : n[i] = IF i <= 1 THEN p[i] ELSE name[i - 1]
  <2>1. /\ p \o name \in Seq(S) /\ Len(p \o name) = Len(p) + Len(name)
        /\ \A i \in 1..(Len(p) + Len(name)) : (p \o name)[i] = IF i <= Len(p) THEN p[i] ELSE name[i - Len(p)]
    BY <1>1, <1>2, ConcatProperties
  <2> QED
    BY <1>2, <2>1
<1> HIDE DEF n
<1>4. n # <<>>
  BY <1>1, <1>3, EmptySeq
<1>5. /\ Tail(n) \in Seq(S) /\ Len(Tail(n)) = Len(name)
      /\ \A i \in 1..Len(Tail(n)) : Tail(n)[i] = n[i + 1]
  BY <1>1, <1>3, <1>4, HeadTailProperties
<1>6. \A i \in 1..Len(name) : Tail(n)[i] = name[i]
  <2> TAKE i \in 1..Len(name)
  <2>1. i + 1 \in 1..(1 + Len(name)) /\ ~(i + 1 <= 1) /\ (i + 1) - 1 = i
    BY <1>1
  <2> QED
    BY <1>3, <1>5, <2>1
<1>7. Tail(n) = name
  BY <1>1, <1>5, <1>6, SeqEqual
<1> QED
  BY <1>7 DEF n, p, Raw

\* What a step answers with: what there was, or fields it made itself.
RawFits(t, raw) ==
    /\ DOMAIN raw \in SUBSET Names
    /\ \A x \in DOMAIN raw :
          raw[x] \in Seq(Passable(t)) \/ raw[x] = <<[by |-> Len(t) + 1, name |-> x]>>

LEMMA OwnOrigin ==
  ASSUME NEW t, NEW u, NEW e, Grows(t, u, e), NEW x \in Names, NEW o, o = [by |-> Len(t) + 1, name |-> x]
  PROVE  /\ o \in Origins(u) /\ u[o.by] = e /\ o.name = x /\ o.by # 0
         /\ e.outcome = "SUCCESS" => o \in Passable(u)
<1>1. Len(t) \in Nat /\ Len(u) = Len(t) + 1 /\ u[Len(t) + 1] = e
  BY DEF Grows
<1>2. Len(t) + 1 \in 0..Len(u) /\ Len(t) + 1 # 0
  BY <1>1
<1>3. o.by = Len(t) + 1 /\ o.name = x
  OBVIOUS
<1>4. o \in Origins(u)
  BY <1>2 DEF Origins, KnownNames
<1>5. u[o.by] = e /\ o.by # 0
  BY <1>1, <1>2, <1>3
<1> QED
  BY <1>3, <1>4, <1>5 DEF Passable

LEMMA Alone ==
  ASSUME NEW S, NEW o \in S
  PROVE  <<o>> \in Seq(S)
OBVIOUS

LEMMA RawPassable ==
  ASSUME NEW t, NEW u, NEW e, Grows(t, u, e), e.outcome = "SUCCESS", NEW raw, RawFits(t, raw),
         NEW x \in DOMAIN raw
  PROVE  raw[x] \in Seq(Passable(u))
<1>1. CASE raw[x] \in Seq(Passable(t))
  BY <1>1, OriginsStill, SeqMonotonic
<1>2. CASE raw[x] = <<[by |-> Len(t) + 1, name |-> x]>>
  <2> DEFINE o == [by |-> Len(t) + 1, name |-> x]
  <2>1. x \in Names
    BY DEF RawFits
  <2>2. o = [by |-> Len(t) + 1, name |-> x]
    OBVIOUS
  <2> HIDE DEF o
  <2>3. o \in Passable(u)
    BY <2>1, <2>2, OwnOrigin
  <2> QED
    BY <1>2, <2>2, <2>3, Alone
<1> QED
  BY <1>1, <1>2 DEF RawFits

LEMMA RawOrigins ==
  ASSUME NEW t, NEW u, NEW e, Grows(t, u, e), NEW raw, RawFits(t, raw), NEW x \in DOMAIN raw,
         NEW g, e.node = g.node, e.step \in Nat, e.step < g.step, NEW s, StepOf(e).name = s
  PROVE  raw[x] \in Seq(StepOrigins(u, g, s, Raw(x)))
<1>1. CASE raw[x] \in Seq(Passable(t))
  <2>1. Passable(t) \in SUBSET Passable(u) /\ Passable(u) \in SUBSET StepOrigins(u, g, s, Raw(x))
    BY OriginsStill DEF StepOrigins, Passable
  <2>2. Passable(t) \in SUBSET StepOrigins(u, g, s, Raw(x))
    BY <2>1
  <2> QED
    BY <1>1, <2>2, SeqMonotonic
<1>2. CASE raw[x] = <<[by |-> Len(t) + 1, name |-> x]>>
  <2> DEFINE o == [by |-> Len(t) + 1, name |-> x]
  <2>1. x \in Names
    BY DEF RawFits
  <2>2. o = [by |-> Len(t) + 1, name |-> x]
    OBVIOUS
  <2> HIDE DEF o
  <2>3. o \in Origins(u) /\ u[o.by] = e /\ o.name = x /\ o.by # 0
    BY <2>1, <2>2, OwnOrigin
  <2>4. o \in StepOrigins(u, g, s, Raw(x))
    BY <2>3 DEF StepOrigins
  <2> QED
    BY <1>2, <2>2, <2>4, Alone
<1> QED
  BY <1>1, <1>2 DEF RawFits

LEMMA FragmentTable ==
  ASSUME pkg \in Packages, NEW t, NEW u, NEW e, Grows(t, u, e), Placed(Top), InStep(Top),
         FrameValues(t, Top), NEW outcome \in Outcomes, e.outcome = outcome, NEW raw, RawFits(t, raw)
  PROVE  TableOf(Fragment(outcome, raw), Names, Passable(u))
<1> DEFINE S == Passable(u)
           D == {x \in DOMAIN Step.outputs : Mapped(Step.outputs[x], outcome, raw) # None}
<1>1. /\ DOMAIN Step.outputs \in SUBSET Names
      /\ \A x \in DOMAIN Step.outputs : IsOutput(Step.outputs[x])
  BY StepFacts DEF IsStep, Step, Pipeline, PipelineAt
<1>2. Len(t) \in Nat /\ Len(u) \in Nat
  BY DEF Grows
<1>3. \A v : v \in Seq(Passable(t)) => v \in Seq(S)
  BY OriginsStill, SeqMonotonic
<1>4. ASSUME NEW x \in D PROVE Mapped(Step.outputs[x], outcome, raw) \in Seq(S)
  <2> DEFINE b == Step.outputs[x]
  <2>1. x \in DOMAIN Step.outputs /\ IsOutput(b) /\ Mapped(b, outcome, raw) # None
    BY <1>1
  <2>2. CASE b.from = "outcome"
    <3>1. <<[by |-> 0, name |-> <<outcome>>]>> \in Seq(Passable(u))
      BY <1>2, OutcomeOrigin
    <3>2. Mapped(b, outcome, raw) = <<[by |-> 0, name |-> <<outcome>>]>>
      BY <2>2 DEF Mapped
    <3> QED
      BY <3>1, <3>2
  <2>3. CASE b.from = "result"
    <3>1. outcome = "SUCCESS" /\ Mapped(b, outcome, raw) = From(raw, b.name)
      BY <2>1, <2>3 DEF Mapped
    <3>2. b.name \in DOMAIN raw /\ From(raw, b.name) = raw[b.name]
      BY <2>1, <3>1 DEF From
    <3>3. raw[b.name] \in Seq(Passable(u))
      BY <3>1, <3>2, RawPassable
    <3> QED
      BY <3>1, <3>2, <3>3
  <2>4. CASE b.from \notin {"outcome", "result"}
    <3>1. Mapped(b, outcome, raw) = Source(b, Empty, Top.steps)
      BY <2>4 DEF Mapped
    <3>2. b.from # "list"
      BY <2>1, <2>4 DEF IsOutput, IsPath
    <3>3. Takes(PipelineAt(Top.node)[Top.step], b)
      <4>1. Parts(b) = <<b>>
        BY <3>2 DEF Parts
      <4>2. 1 \in DOMAIN Parts(b) /\ Parts(b)[1] = b
        BY <4>1
      <4> HIDE DEF b
      <4>3. \E i \in DOMAIN Parts(b) : Parts(b)[i] = b
        BY <4>2
      <4>4. Parts(b) = Parts(Step.outputs[x]) /\ x \in DOMAIN Step.outputs
        BY <2>1 DEF b
      <4> QED
        BY <4>3, <4>4 DEF Takes, Step, Pipeline, PipelineAt
    <3>4. \A y \in DOMAIN Empty : Empty[y] \in Seq(Passable(t))
      BY DEF Empty
    <3> HIDE DEF b
    <3>5. Source(b, Empty, Top.steps) = None \/ Source(b, Empty, Top.steps) \in Seq(Passable(t))
      BY <1>2, <3>3, <3>4, StepSource
    <3> QED
      BY <1>3, <2>1, <3>1, <3>5 DEF b
  <2> QED
    BY <2>2, <2>3, <2>4
<1>5. Fragment(outcome, raw) = [x \in D |-> Mapped(Step.outputs[x], outcome, raw)]
  BY DEF Fragment
<1>6. D \in SUBSET Names
  BY <1>1
<1> HIDE DEF D, S
<1> QED
  BY <1>4, <1>5, <1>6 DEF TableOf, S

\* What is kept of a step for the ones after it.
LEMMA KeptTable ==
  ASSUME NEW t, NEW u, NEW e, Grows(t, u, e), NEW raw, RawFits(t, raw),
         NEW g, e.node = g.node, e.step \in Nat, e.step < g.step, NEW s, StepOf(e).name = s,
         NEW fragment, TableOf(fragment, Names, Passable(u))
  PROVE  /\ TableOf(Kept(fragment, raw), StepNames, Origins(u))
         /\ \A x \in DOMAIN Kept(fragment, raw) : Kept(fragment, raw)[x] \in Seq(StepOrigins(u, g, s, x))
<1> DEFINE R == {Raw(name) : name \in DOMAIN raw}
           k == Kept(fragment, raw)
<1>1. DOMAIN raw \in SUBSET Names /\ DOMAIN fragment \in SUBSET Names
  BY DEF RawFits, TableOf
<1>2. k = [x \in DOMAIN fragment \cup R |-> IF x \in DOMAIN fragment THEN fragment[x] ELSE raw[Tail(x)]]
  BY DEF Kept, Over
<1>3. DOMAIN k \in SUBSET StepNames
  BY <1>1, <1>2 DEF StepNames
<1>4. ASSUME NEW x \in DOMAIN k PROVE k[x] \in Seq(StepOrigins(u, g, s, x))
  <2>1. CASE x \in DOMAIN fragment
    <3>1. k[x] \in Seq(Passable(u))
      BY <1>2, <2>1 DEF TableOf
    <3>2. Passable(u) \in SUBSET StepOrigins(u, g, s, x)
      BY DEF StepOrigins, Passable
    <3> QED
      BY <3>1, <3>2, SeqMonotonic
  <2>2. CASE x \notin DOMAIN fragment
    <3>1. PICK name \in DOMAIN raw : x = Raw(name)
      BY <1>2, <2>2
    <3>2. Tail(x) = name
      BY <1>1, <3>1, RawName
    <3>3. k[x] = raw[name]
      BY <1>2, <2>2, <3>2
    <3>4. raw[name] \in Seq(StepOrigins(u, g, s, Raw(name)))
      BY RawOrigins
    <3> QED
      BY <3>1, <3>3, <3>4
  <2> QED
    BY <2>1, <2>2
<1>5. ASSUME NEW x \in DOMAIN k PROVE k[x] \in Seq(Origins(u))
  <2>1. StepOrigins(u, g, s, x) \in SUBSET Origins(u)
    BY DEF StepOrigins
  <2>2. k[x] \in Seq(StepOrigins(u, g, s, x))
    BY <1>4
  <2> QED
    BY <2>1, <2>2, SeqMonotonic
<1> HIDE DEF k
<1>6. TableOf(k, StepNames, Origins(u))
  BY <1>3, <1>5 DEF TableOf
<1> QED
  BY <1>4, <1>6 DEF k

LEMMA OverTable ==
  ASSUME NEW S, NEW f, NEW g, TableOf(f, Names, S), TableOf(g, Names, S)
  PROVE  TableOf(Over(f, g), Names, S)
BY DEF TableOf, Over
-----------------------------------------------------------------------------
(***************************************************************************)
(* What becomes of the stack, and of the events, when the innermost        *)
(* workflow goes on.                                                       *)
(***************************************************************************)
\* An event of the innermost workflow, or the beginning of one.
OfTop(e) ==
    /\ e.type = "CC_COMPLETE" => e.run = Top.run
    /\ e.type = "CC_STEP" => e.visit = Top.visit /\ Top.place = "steps"

State == Kinds /\ StackInv /\ FitInv /\ ValueInv

LEMMA BelowStays ==
  ASSUME State, stack # <<>>, NEW u, NEW e, Grows(trace, u, e), OfTop(e),
         NEW d \in 1..(Len(stack) - 1)
  PROVE  Sound(u, stack[d])
<1> DEFINE l == Len(stack)
<1>1. l \in DOMAIN stack /\ d \in DOMAIN stack /\ d < l /\ Top = stack[l] /\ Len(trace) \in Nat
  BY TopFacts, TraceFacts DEF State
<1>2. /\ stack[d].run < Top.run /\ stack[d].visit < Top.run /\ stack[d].answer = None
      /\ Placed(stack[d])
  BY <1>1 DEF State, StackInv, Standing
<1>3. /\ Fits(trace, stack[d]) /\ FrameValues(trace, stack[d]) /\ Fits(trace, Top)
  BY <1>1 DEF State, FitInv, ValueInv
<1> HIDE DEF l
<1>4. Top.run \in Nat /\ stack[d].run \in Nat
  BY <1>1, <1>3 DEF Fits
<1>5. ~(e.type = "CC_COMPLETE" /\ e.run = stack[d].run)
  BY <1>2, <1>4 DEF OfTop
<1>6. ASSUME stack[d].place = "steps" PROVE ~(e.type = "CC_STEP" /\ e.visit = stack[d].visit)
  <2> SUFFICES ASSUME e.type = "CC_STEP" PROVE e.visit # stack[d].visit
    OBVIOUS
  <2>1. e.visit = Top.visit /\ Top.visit \in Nat /\ Top.run < Top.visit
    BY <1>1, <1>3, <1>4 DEF OfTop, Fits, VisitFits
  <2>2. stack[d].visit \in Nat
    BY <1>1, <1>3, <1>4, <1>6 DEF Fits, VisitFits
  <2> QED
    BY <1>2, <1>4, <2>1, <2>2
<1>7. Fits(u, stack[d])
  BY <1>1, <1>3, <1>5, <1>6, FitsStill
<1>8. FrameValues(u, stack[d])
  BY <1>2, <1>3, ValuesStill
<1> QED
  BY <1>2, <1>7, <1>8 DEF Sound, AnswerFits

LEMMA ReplacedKeeps ==
  ASSUME State, stack # <<>>, pkg' = pkg, NEW e, Grows(trace, trace', e), OfTop(e),
         NEW f, stack' = Front(stack) \o <<f>>, f.run = Top.run, f.payload = Top.payload,
         Placed(f), Sound(trace', f)
  PROVE  IsList(stack') /\ StackInv' /\ FitInv' /\ ValueInv'
<1> DEFINE l == Len(stack)
           n == stack'
<1>1. l \in Nat \ {0} /\ DOMAIN stack = 1..l /\ Top = stack[l]
  BY TopFacts DEF State
<1>2. /\ IsList(n) /\ Len(n) = l /\ DOMAIN n = 1..l
      /\ \A i \in 1..(l - 1) : n[i] = stack[i]
      /\ n[l] = f
  <2>1. IsList(stack) /\ n = Front(stack) \o <<f>>
    BY DEF State, Kinds
  <2> HIDE DEF n
  <2>2. IsList(n)
    BY <2>1, TopExchanged
  <2>3. Len(n) = l
    BY <2>1, TopExchanged
  <2>4. DOMAIN n = 1..l
    BY <2>1, TopExchanged
  <2>5. \A i \in 1..(l - 1) : n[i] = stack[i]
    BY <2>1, TopExchanged
  <2>6. n[l] = f
    BY <2>1, TopExchanged
  <2> QED
    BY <2>2, <2>3, <2>4, <2>5, <2>6
<1> HIDE DEF l
<1>3. \A d \in 1..l : d \in 1..(l - 1) \/ d = l
  BY <1>1
<1>4. \A d \in DOMAIN n : Sound(trace', n[d])
  <2> TAKE d \in DOMAIN n
  <2>1. CASE d \in 1..(l - 1)
    BY <1>2, <2>1, BelowStays DEF l
  <2> QED
    BY <1>2, <1>3, <2>1
<1>5. \A d \in 1..l : n[d].run = stack[d].run /\ n[d].payload = stack[d].payload
  BY <1>1, <1>2, <1>3
<1>6. Standing(stack)
  BY DEF State, StackInv
<1>7. Standing(n)
  <2>1. \A d \in DOMAIN n : Placed(n[d])
    BY <1>1, <1>2, <1>3, <1>6 DEF Standing
  <2>2. ASSUME NEW d \in DOMAIN n, d < Len(n)
        PROVE  InStep(n[d]) /\ n[d].answer = None /\ n[d + 1].payload = GivenTo(n[d])
    <3>0. d < l /\ d \in 1..l /\ Len(stack) = l
      BY <1>2, <2>2 DEF l
    <3>1. d \in 1..(l - 1) /\ n[d] = stack[d] /\ d + 1 \in 1..l /\ d \in DOMAIN stack /\ d < Len(stack)
      BY <1>1, <1>2, <3>0
    <3>2. InStep(stack[d]) /\ stack[d].answer = None /\ stack[d + 1].payload = GivenTo(stack[d])
      BY <1>6, <3>1 DEF Standing
    <3> QED
      BY <1>5, <3>1, <3>2
  <2>3. ASSUME NEW c \in DOMAIN n, NEW d \in DOMAIN n, c < d
        PROVE  n[c].run < n[d].run /\ n[c].visit < n[d].run
    <3>1. c \in 1..(l - 1) /\ n[c] = stack[c] /\ c \in DOMAIN stack /\ d \in DOMAIN stack
      BY <1>1, <1>2, <2>3
    <3>2. stack[c].run < stack[d].run /\ stack[c].visit < stack[d].run
      BY <1>6, <2>3, <3>1 DEF Standing
    <3> QED
      BY <1>1, <1>5, <3>1, <3>2
  <2> QED
    BY <2>1, <2>2, <2>3 DEF Standing
<1> QED
  BY <1>2, <1>4, <1>7, SamePackage DEF n

\* A workflow begins in the step of another.
LEMMA PushedKeeps ==
  ASSUME State, stack # <<>>, pkg' = pkg, NEW e, Grows(trace, trace', e), e.type = "WF_START",
         NEW f, stack' = Append(stack, f), f.run = Len(trace) + 1, f.payload = GivenTo(Top),
         InStep(Top), Top.answer = None, Placed(f), Sound(trace', f)
  PROVE  IsList(stack') /\ StackInv' /\ FitInv' /\ ValueInv'
<1> DEFINE l == Len(stack)
           n == stack'
           N == l + 1
<1>1. l \in Nat \ {0} /\ DOMAIN stack = 1..l /\ Top = stack[l] /\ Len(trace) \in Nat
  BY TopFacts, TraceFacts DEF State
<1>2. /\ IsList(n) /\ Len(n) = N /\ DOMAIN n = 1..N
      /\ \A i \in 1..l : n[i] = stack[i]
      /\ n[N] = f
  <2>1. IsList(stack) /\ n = Append(stack, f)
    BY DEF State, Kinds
  <2> HIDE DEF n
  <2> QED
    BY <2>1, ListAppend
<1>3. N \in Nat /\ l < N /\ \A d \in 1..N : d \in 1..l \/ d = N
  BY <1>1
<1>4. Standing(stack) /\ OfTop(e)
  BY DEF State, StackInv, OfTop
<1>5. \A d \in 1..l : Placed(stack[d]) /\ Fits(trace, stack[d]) /\ InStep(stack[d]) /\ stack[d].answer = None
  <2> TAKE d \in 1..l
  <2>1. Placed(stack[d]) /\ Fits(trace, stack[d])
    BY <1>1, <1>4 DEF State, FitInv, Standing
  <2>2. CASE d = l
    BY <1>1, <2>1, <2>2
  <2>3. CASE d # l
    <3> DEFINE k == Len(stack)
    <3>0. k \in Nat /\ d \in 1..k /\ d # k /\ d \in DOMAIN stack
      BY <1>1, <2>3
    <3> HIDE DEF k
    <3>1. d < k
      BY <3>0
    <3>2. d < Len(stack) /\ d \in DOMAIN stack
      BY <3>0, <3>1 DEF k
    <3> QED
      BY <1>4, <2>1, <3>2 DEF Standing
  <2> QED
    BY <2>2, <2>3
<1> HIDE DEF l
<1>6. \A d \in 1..l : Sound(trace', stack[d])
  <2> TAKE d \in 1..l
  <2>1. CASE d # l
    <3>0. d \in 1..(l - 1)
      BY <1>1, <2>1
    <3>1. d \in 1..(Len(stack) - 1)
      BY <3>0 DEF l
    <3> QED
      BY <1>4, <3>1, BelowStays
  <2>2. CASE d = l
    <3>1. Placed(Top) /\ Fits(trace, Top) /\ FrameValues(trace, Top) /\ Top.answer = None
      BY <1>1, <1>5 DEF State, ValueInv
    <3>2. Fits(trace', Top)
      BY <1>1, <3>1, FitsStill
    <3>3. FrameValues(trace', Top)
      BY <3>1, ValuesStill
    <3> QED
      BY <1>1, <2>2, <3>1, <3>2, <3>3 DEF Sound, AnswerFits
  <2> QED
    BY <2>1, <2>2
<1> HIDE DEF N
<1>7. \A d \in DOMAIN n : Sound(trace', n[d])
  BY <1>2, <1>3, <1>6
<1>8. Standing(n)
  <2>1. \A d \in DOMAIN n : Placed(n[d])
    BY <1>2, <1>3, <1>5
  <2>2. ASSUME NEW d \in DOMAIN n, d < Len(n)
        PROVE  InStep(n[d]) /\ n[d].answer = None /\ n[d + 1].payload = GivenTo(n[d])
    <3>1. d \in 1..l /\ n[d] = stack[d]
      BY <1>1, <1>2, <1>3, <2>2
    <3>2. n[d + 1].payload = GivenTo(stack[d])
      <4>1. CASE d = l
        BY <1>1, <1>2, <4>1 DEF N
      <4>2. CASE d # l
        <5>1. d + 1 \in 1..l /\ d \in DOMAIN stack /\ d < Len(stack)
          BY <1>1, <3>1, <4>2 DEF l
        <5>2. stack[d + 1].payload = GivenTo(stack[d])
          BY <1>4, <5>1 DEF Standing
        <5> QED
          BY <1>2, <5>1, <5>2
      <4> QED
        BY <4>1, <4>2
    <3> QED
      BY <1>5, <3>1, <3>2
  <2>3. ASSUME NEW c \in DOMAIN n, NEW d \in DOMAIN n, c < d
        PROVE  n[c].run < n[d].run /\ n[c].visit < n[d].run
    <3>1. c \in 1..l /\ n[c] = stack[c] /\ c \in DOMAIN stack
      BY <1>1, <1>2, <1>3, <2>3
    <3>2. CASE d \in 1..l
      <4>1. stack[c].run < stack[d].run /\ stack[c].visit < stack[d].run
        BY <1>1, <1>4, <2>3, <3>1, <3>2 DEF Standing
      <4> QED
        BY <1>2, <3>1, <3>2, <4>1
    <3>3. CASE d = N
      <4>1. stack[c].run \in 1..Len(trace) /\ stack[c].visit \in (stack[c].run + 1)..Len(trace)
        BY <1>5, <3>1 DEF Fits, VisitFits, InStep
      <4>2. n[d].run = Len(trace) + 1
        BY <1>2, <3>3
      <4> QED
        BY <1>1, <3>1, <4>1, <4>2
    <3> QED
      BY <1>2, <1>3, <3>2, <3>3
  <2> QED
    BY <2>1, <2>2, <2>3 DEF Standing
<1> QED
  BY <1>2, <1>7, <1>8, SamePackage DEF n

\* A workflow ends in the step of another, which has its answer.
LEMMA ReturnedKeeps ==
  ASSUME State, Len(stack) > 1, pkg' = pkg, NEW e, Grows(trace, trace', e), OfTop(e),
         NEW answer, stack' = Front(Front(stack)) \o <<[Last(Front(stack)) EXCEPT !.answer = answer]>>,
         answer.run = Top.run, Completed(trace', Len(trace'), Top.run) # {},
         answer.surface = Latest(trace', Completed(trace', Len(trace'), Top.run)).made,
         TableOf(answer.surface, Names, Passable(trace')), answer.outcome \in Outcomes
  PROVE  IsList(stack') /\ StackInv' /\ FitInv' /\ ValueInv'
<1> DEFINE l == Len(stack) - 1
           n == stack'
           g == stack[l]
           f == [Last(Front(stack)) EXCEPT !.answer = answer]
<1>1. Len(stack) \in Nat /\ DOMAIN stack = 1..Len(stack) /\ stack # <<>> /\ Len(trace) \in Nat
  BY ListFacts, TraceFacts, EmptySeq DEF State, Kinds
<1>2. l \in Nat \ {0} /\ Len(stack) = l + 1 /\ l \in DOMAIN stack /\ l < Len(stack) /\ l + 1 \in DOMAIN stack
  BY <1>1
<1>3. Top = stack[l + 1]
  BY <1>1, TopFacts DEF State
<1>4. /\ IsList(n) /\ Len(n) = l /\ DOMAIN n = 1..l
      /\ \A i \in 1..(l - 1) : n[i] = stack[i]
      /\ n[l] = f /\ Last(Front(stack)) = g
  <2>1. IsList(stack) /\ n = Front(Front(stack)) \o <<f>>
    BY DEF State, Kinds
  <2>2. Len(stack) - 2 = l - 1
    BY <1>1
  <2> HIDE DEF n, f
  <2>3. IsList(n)
    BY <2>1, TopDropped
  <2>4. Len(n) = l
    BY <2>1, TopDropped
  <2>5. DOMAIN n = 1..l
    BY <2>1, TopDropped
  <2>6. \A i \in 1..(l - 1) : n[i] = stack[i]
    <3>1. ASSUME NEW i \in 1..(Len(stack) - 2) PROVE n[i] = stack[i]
      BY <2>1, BelowDropped
    <3> QED
      BY <2>2, <3>1
  <2>7. n[l] = f
    BY <2>1, TopDropped
  <2>8. Last(Front(stack)) = g
    BY <2>1, TopDropped
  <2> QED
    BY <2>3, <2>4, <2>5, <2>6, <2>7, <2>8
<1>5. Standing(stack)
  BY DEF State, StackInv
<1>6. /\ Placed(g) /\ InStep(g) /\ Top.payload = GivenTo(g)
      /\ \A d \in 1..l : Sound(trace', stack[d])
  <2>1. Placed(g) /\ InStep(g) /\ stack[l + 1].payload = GivenTo(g)
    BY <1>2, <1>5 DEF Standing
  <2>2. \A d \in 1..l : d \in 1..(Len(stack) - 1)
    BY <1>2
  <2>3. \A d \in 1..l : Sound(trace', stack[d])
    BY <1>1, <2>2, BelowStays
  <2> QED
    BY <1>3, <2>1, <2>3
<1>7. f = [g EXCEPT !.answer = answer]
  BY <1>4
<1> HIDE DEF l, g, f
<1>8. /\ DOMAIN f = FrameKeys /\ f.answer = answer
      /\ f.run = g.run /\ f.node = g.node /\ f.payload = g.payload /\ f.results = g.results
      /\ f.hops = g.hops /\ f.place = g.place /\ f.visit = g.visit /\ f.given = g.given
      /\ f.step = g.step /\ f.steps = g.steps /\ f.surface = g.surface /\ f.outcome = g.outcome
  BY <1>6, <1>7 DEF Placed, FrameKeys
<1>9. Placed(f) /\ InStep(f) /\ GivenTo(f) = GivenTo(g)
  BY <1>6, <1>8 DEF Placed, InStep, GivenTo
<1>10. Sound(trace', f)
  <2>1. Fits(trace', g) /\ FrameValues(trace', g)
    BY <1>2, <1>6 DEF g, Sound
  <2>2. Fits(trace', f)
    BY <1>8, <2>1 DEF Fits, VisitFits
  <2>3. FrameValues(trace', f)
    <3>1. \A s, x : StepOrigins(trace', f, s, x) = StepOrigins(trace', g, s, x)
      BY <1>8 DEF StepOrigins
    <3> QED
      BY <1>8, <2>1, <3>1 DEF FrameValues
  <2>4. AnswerFits(trace', f)
    <3>1. Fits(trace, Top)
      BY <1>2, <1>3 DEF State, FitInv
    <3>2. Top.run \in 1..Len(trace') /\ trace'[Top.run].made = Top.payload
      BY <1>1, <3>1 DEF Fits, Grows
    <3> QED
      BY <1>6, <1>8, <1>9, <3>2 DEF AnswerFits
  <2> QED
    BY <2>2, <2>3, <2>4 DEF Sound
<1>11. \A d \in 1..l : d \in 1..(l - 1) \/ d = l
  BY <1>2
<1>12. \A d \in DOMAIN n : Sound(trace', n[d])
  <2> TAKE d \in DOMAIN n
  <2>1. CASE d \in 1..(l - 1)
    <3>1. d \in 1..l
      BY <1>4
    <3> QED
      BY <1>4, <1>6, <2>1, <3>1
  <2> QED
    BY <1>4, <1>10, <1>11, <2>1
<1>13. \A d \in 1..l : n[d].run = stack[d].run /\ n[d].payload = stack[d].payload
  BY <1>4, <1>8, <1>11 DEF g
<1>14. Standing(n)
  <2>1. \A d \in DOMAIN n : Placed(n[d])
    <3> TAKE d \in DOMAIN n
    <3>1. CASE d \in 1..(l - 1)
      <4>1. d \in DOMAIN stack /\ n[d] = stack[d]
        BY <1>1, <1>2, <1>4, <3>1
      <4> QED
        BY <1>5, <4>1 DEF Standing
    <3> QED
      BY <1>4, <1>9, <1>11, <3>1
  <2>2. ASSUME NEW d \in DOMAIN n, d < Len(n)
        PROVE  InStep(n[d]) /\ n[d].answer = None /\ n[d + 1].payload = GivenTo(n[d])
    <3>1. d \in 1..(l - 1) /\ n[d] = stack[d] /\ d + 1 \in 1..l /\ d \in DOMAIN stack /\ d < Len(stack)
      BY <1>1, <1>2, <1>4, <2>2
    <3>2. InStep(stack[d]) /\ stack[d].answer = None /\ stack[d + 1].payload = GivenTo(stack[d])
      BY <1>5, <3>1 DEF Standing
    <3> QED
      BY <1>13, <3>1, <3>2
  <2>3. ASSUME NEW c \in DOMAIN n, NEW d \in DOMAIN n, c < d
        PROVE  n[c].run < n[d].run /\ n[c].visit < n[d].run
    <3>1. c \in 1..(l - 1) /\ n[c] = stack[c] /\ c \in DOMAIN stack /\ d \in DOMAIN stack
      BY <1>1, <1>2, <1>4, <2>3
    <3>2. stack[c].run < stack[d].run /\ stack[c].visit < stack[d].run
      BY <1>5, <2>3, <3>1 DEF Standing
    <3> QED
      BY <1>4, <1>13, <3>1, <3>2
  <2> QED
    BY <2>1, <2>2, <2>3 DEF Standing
<1> QED
  BY <1>4, <1>12, <1>14, SamePackage DEF n

\* The run is over.
LEMMA OverKeeps ==
  ASSUME pkg' = pkg, stack' = <<>>
  PROVE  IsList(stack') /\ StackInv' /\ FitInv' /\ ValueInv'
<1>1. DOMAIN stack' = {}
  BY EmptySeq
<1>2. IsList(stack')
  BY EmptyList
<1>3. Standing(stack') /\ \A d \in DOMAIN stack' : Sound(trace', stack'[d])
  BY <1>1 DEF Standing
<1> QED
  BY <1>2, <1>3, SamePackage
-----------------------------------------------------------------------------
(***************************************************************************)
(* What is recorded.                                                       *)
(***************************************************************************)
LEMMA SameEvents ==
  ASSUME EventInv, UNCHANGED <<pkg, trace>>
  PROVE  EventInv'
<1>1. AccountedFor'
  BY SamePackage DEF EventInv, AccountedFor
<1>2. NothingOfARefusal'
  <2>1. \A k, x : TakenByName(trace[k], x)' <=> TakenByName(trace[k], x)
    BY DEF TakenByName, StepOf
  <2>2. Last(trace)' = Last(trace)
    OBVIOUS
  <2> QED
    BY <2>1, <2>2 DEF EventInv, NothingOfARefusal
<1> QED
  BY <1>1, <1>2 DEF EventInv

LEMMA EventKeeps ==
  ASSUME Kinds, EventInv, pkg' = pkg, NEW e, trace' = Append(trace, e),
         e.run \in 1..(Len(trace) + 1), e.visit \in 0..(Len(trace) + 1),
         Accounted(trace', Len(trace')),
         e.type # "CC_STEP" =>
            TableOf(IF e.type = "CC_START" THEN e.given ELSE e.made, Names, Passable(trace'))
  PROVE  IsList(trace') /\ trace' # <<>> /\ EventInv'
<1> DEFINE u == trace'
<1>1. IsList(u) /\ Grows(trace, u, e) /\ Len(trace) \in Nat
  BY AppendGrows, TraceFacts DEF Kinds
<1>2. Len(u) = Len(trace) + 1 /\ DOMAIN u = 1..Len(u) /\ u[Len(u)] = e
  BY <1>1 DEF Grows
<1>3. trace' # <<>>
  BY <1>1, <1>2, EmptySeq
<1>4. \A k \in DOMAIN u : u[k].run \in 1..Len(u) /\ u[k].visit \in 0..Len(u)
  <2> TAKE k \in DOMAIN u
  <2>1. CASE k = Len(u)
    BY <1>2, <2>1
  <2>2. CASE k # Len(u)
    <3>1. k \in 1..Len(trace) /\ k \in DOMAIN trace
      BY <1>1, <1>2, <2>2 DEF Grows
    <3>2. trace[k].run \in 1..Len(trace) /\ trace[k].visit \in 0..Len(trace)
      BY <3>1 DEF EventInv
    <3> QED
      BY <1>1, <1>2, <3>1, <3>2 DEF Grows
  <2> QED
    BY <2>1, <2>2
<1>5. AccountedFor'
  BY SamePackage
<1>6. NothingOfARefusal'
  <2> DEFINE shown == IF e.type = "CC_START" THEN e.given ELSE e.made
  <2>1. Last(trace') = e
    BY <1>2 DEF Last
  <2>2. \A k, x : TakenByName(trace[k], x)' = TakenByName(trace'[k], x)
    BY DEF TakenByName, StepOf
  <2>3. ASSUME e.type # "CC_STEP", NEW x \in DOMAIN shown, NEW k \in DOMAIN shown[x]
        PROVE  shown[x][k] \in Passable(trace')
    <3>1. shown[x] \in Seq(Passable(trace'))
      BY <2>3 DEF TableOf
    <3>2. k \in 1..Len(shown[x])
      BY <3>1, LenProperties
    <3> QED
      BY <3>1, <3>2, ElementOfSeq
  <2>4. ASSUME e.type # "CC_STEP", NEW x \in DOMAIN shown, NEW k \in DOMAIN shown[x], NEW o, o = shown[x][k]
        PROVE  o.by = 0 \/ trace'[o.by].outcome = "SUCCESS" \/ TakenByName(trace[o.by], o.name)'
    <3>1. o \in Passable(trace')
      BY <2>3, <2>4
    <3>2. TakenByName(trace[o.by], o.name)' = TakenByName(trace'[o.by], o.name)
      BY <2>2
    <3> QED
      BY <3>1, <3>2 DEF Passable
  <2> QED
    BY <2>1, <2>4 DEF NothingOfARefusal
<1> QED
  BY <1>1, <1>3, <1>4, <1>5, <1>6 DEF EventInv

LEMMA StartAccounted ==
  ASSUME NEW t, NEW u, NEW e, Grows(t, u, e), e.type = "CC_START", e.run \in 1..Len(t),
         e.given = Bound(pkg.bindings[e.node], t[e.run].made, Surfaces(t, Len(t), e.run))
  PROVE  Accounted(u, Len(u))
<1>1. u[Len(u)] = e /\ Len(u) - 1 = Len(t) /\ u[e.run] = t[e.run]
  BY DEF Grows
<1>2. Surfaces(u, Len(t), e.run) = Surfaces(t, Len(t), e.run)
  BY PastSurfaces
<1> QED
  BY <1>1, <1>2 DEF Accounted

LEMMA StepAccounted ==
  ASSUME NEW t, NEW u, NEW e, Grows(t, u, e), e.type = "CC_STEP", e.visit \in 1..Len(t),
         e.given = Bound(StepOf(e).inputs, t[e.visit].given, Results(t, Len(t), e.visit)),
         e.called # 0 =>
            /\ e.called \in 1..Len(t) /\ t[e.called].made = e.given
            /\ Completed(t, Len(t), e.called) # {}
            /\ e.raw = Latest(t, Completed(t, Len(t), e.called)).made
  PROVE  Accounted(u, Len(u))
<1>1. u[Len(u)] = e /\ Len(u) - 1 = Len(t) /\ u[e.visit] = t[e.visit]
  BY DEF Grows
<1>2. Results(u, Len(t), e.visit) = Results(t, Len(t), e.visit)
  BY PastResults
<1>3. ASSUME e.called # 0
      PROVE  u[e.called].made = e.given /\ e.raw = Latest(u, Completed(u, Len(t), e.called)).made
  <2>1. u[e.called] = t[e.called]
    BY <1>3 DEF Grows
  <2>2. Completed(u, Len(t), e.called) = Completed(t, Len(t), e.called)
    BY PastEvents
  <2>3. Completed(t, Len(t), e.called) \in SUBSET (1..Len(t))
    BY EventsMeant
  <2>4. Latest(u, Completed(t, Len(t), e.called)) = Latest(t, Completed(t, Len(t), e.called))
    BY <1>3, <2>3, LatestStays
  <2> QED
    BY <1>3, <2>1, <2>2, <2>4
<1> QED
  BY <1>1, <1>2, <1>3 DEF Accounted

LEMMA CompleteAccounted ==
  ASSUME NEW t, NEW u, NEW e, Grows(t, u, e), e.type = "CC_COMPLETE", e.visit \in 1..Len(t),
         DOMAIN e.made = {x \in Names : \/ MadeBy(t, Len(t), e.visit, x) # {}
                                        \/ x \in DOMAIN t[e.visit].given \ Internal},
         \A x \in DOMAIN e.made :
            e.made[x] = IF MadeBy(t, Len(t), e.visit, x) # {}
                        THEN Latest(t, MadeBy(t, Len(t), e.visit, x)).made[x] ELSE t[e.visit].given[x]
  PROVE  Accounted(u, Len(u))
<1>1. u[Len(u)] = e /\ Len(u) - 1 = Len(t) /\ u[e.visit] = t[e.visit]
  BY DEF Grows
<1>2. ASSUME NEW x
      PROVE  /\ MadeBy(u, Len(t), e.visit, x) = MadeBy(t, Len(t), e.visit, x)
             /\ MadeBy(t, Len(t), e.visit, x) # {} =>
                   Latest(u, MadeBy(t, Len(t), e.visit, x)) = Latest(t, MadeBy(t, Len(t), e.visit, x))
  <2>1. MadeBy(u, Len(t), e.visit, x) = MadeBy(t, Len(t), e.visit, x)
    BY PastEvents
  <2>2. MadeBy(t, Len(t), e.visit, x) \in SUBSET (1..Len(t))
    BY EventsMeant
  <2> QED
    BY <2>1, <2>2, LatestStays
<1>3. DOMAIN e.made = {x \in Names : \/ MadeBy(u, Len(t), e.visit, x) # {}
                                     \/ x \in DOMAIN u[e.visit].given \ Internal}
  BY <1>1, <1>2
<1>4. \A x \in DOMAIN e.made :
         e.made[x] = IF MadeBy(u, Len(t), e.visit, x) # {}
                     THEN Latest(u, MadeBy(u, Len(t), e.visit, x)).made[x] ELSE u[e.visit].given[x]
  BY <1>1, <1>2
<1> QED
  BY <1>1, <1>3, <1>4 DEF Accounted

LEMMA OtherAccounted ==
  ASSUME NEW t, NEW u, NEW e, Grows(t, u, e), e.type \notin {"CC_START", "CC_STEP", "CC_COMPLETE"}
  PROVE  Accounted(u, Len(u))
<1>1. u[Len(u)] = e
  BY DEF Grows
<1> QED
  BY <1>1 DEF Accounted
-----------------------------------------------------------------------------
(***************************************************************************)
(* The workflow.                                                           *)
(***************************************************************************)
LEMMA InRun ==
  ASSUME State, stack # <<>>
  PROVE  /\ pkg \in Packages /\ Placed(Top) /\ IsList(trace) /\ Len(trace) \in Nat
         /\ Fits(trace, Top) /\ AnswerFits(trace, Top) /\ FrameValues(trace, Top)
         /\ Top.run \in 1..Len(trace)
<1>1. Len(stack) \in DOMAIN stack /\ Top = stack[Len(stack)] /\ Len(trace) \in Nat
  BY TopFacts, TraceFacts DEF State
<1>2. pkg \in Packages /\ IsList(trace)
  BY DEF State, Kinds
<1>3. Placed(Top)
  BY <1>1 DEF State, StackInv, Standing
<1>4. Fits(trace, Top) /\ AnswerFits(trace, Top) /\ FrameValues(trace, Top)
  BY <1>1 DEF State, FitInv, ValueInv
<1> QED
  BY <1>1, <1>2, <1>3, <1>4 DEF Fits

LEMMA EventFields ==
  ASSUME NEW type, NEW f, NEW given, NEW made, NEW e, e = Event(type, f, given, made)
  PROVE  /\ e.type = type /\ e.run = f.run /\ e.visit = f.visit /\ e.node = f.node /\ e.step = f.step
         /\ e.given = given /\ e.made = made /\ e.outcome = f.outcome
BY DEF Event

LEMMA EmptyTable ==
  ASSUME NEW keys, NEW S
  PROVE  TableOf(Empty, keys, S) /\ DOMAIN Empty = {}
BY DEF TableOf, Empty

\* A workflow at its beginning.
LEMMA BegunSound ==
  ASSUME pkg \in Packages, NEW w \in Workflows, NEW u, Len(u) \in Nat \ {0}, NEW payload,
         TableOf(payload, Names, Passable(u)), u[Len(u)].made = payload,
         \A k \in 1..Len(u) : ~(u[k].type = "CC_COMPLETE" /\ u[k].run = Len(u)),
         NEW f, f = Begun(w, payload, Len(u))
  PROVE  /\ Placed(f) /\ Sound(u, f)
         /\ f.run = Len(u) /\ f.payload = payload /\ f.visit = 0
<1>1. /\ DOMAIN f = FrameKeys
      /\ f.run = Len(u) /\ f.node = pkg.entry[w] /\ f.payload = payload /\ f.results = Empty
      /\ f.hops = 0 /\ f.place = "node" /\ f.visit = 0 /\ f.given = Empty /\ f.step = 0
      /\ f.steps = Empty /\ f.surface = Empty /\ f.outcome = "SUCCESS" /\ f.answer = None
  BY DEF Begun, FrameKeys
<1>2. Placed(f)
  BY <1>1, EntryFacts, DataAssumption DEF Placed
<1>3. Fits(u, f)
  <2>1. \A c : Completions(u, Len(u), Len(u), c) = {}
    BY DEF Completions, Completed
  <2>2. {c \in Contracts : Completions(u, Len(u), Len(u), c) # {}} = {}
    BY <2>1
  <2>3. Surfaces(u, Len(u), Len(u)) = Empty
    BY <2>2 DEF Surfaces, Empty
  <2> QED
    BY <1>1, <2>3 DEF Fits
<1>4. FrameValues(u, f)
  BY <1>1, EmptyTable DEF FrameValues
<1>5. AnswerFits(u, f)
  BY <1>1 DEF AnswerFits
<1> QED
  BY <1>1, <1>2, <1>3, <1>4, <1>5 DEF Sound

\* A contract at its beginning.
LEMMA VisitSound ==
  ASSUME State, EventInv, stack # <<>>, Top.place = "node", Top.hops < MaxHops,
         NEW f, DOMAIN f = FrameKeys,
         f.run = Top.run, f.node = Top.node, f.payload = Top.payload, f.results = Top.results,
         f.place = "steps", f.visit = Len(trace) + 1, f.step = 1, f.steps = Empty,
         f.given = Bound(Bindings, Top.payload, Top.results),
         f.surface = Empty, f.outcome = "SUCCESS", f.answer = Top.answer,
         NEW hops, hops = Top.hops + 1, f.hops = hops,
         NEW e, NEW u, Grows(trace, u, e), e.type = "CC_START", e.given = f.given
  PROVE  Placed(f) /\ Sound(u, f)
<1>1. /\ pkg \in Packages /\ Placed(Top) /\ Len(trace) \in Nat
      /\ Fits(trace, Top) /\ AnswerFits(trace, Top) /\ FrameValues(trace, Top)
      /\ Top.run \in 1..Len(trace)
  BY InRun
<1>2. Placed(f)
  <2>1. f.hops \in 0..MaxHops
    BY <1>1, DataAssumption DEF Placed
  <2>2. f.outcome \in Outcomes
    BY DataAssumption
  <2> QED
    BY <1>1, <2>1, <2>2 DEF Placed
<1>3. f.answer = None
  BY <1>1 DEF AnswerFits, InStep
<1>4. Len(u) = Len(trace) + 1 /\ u[f.visit] = e
  BY DEF Grows
<1>5. \A k \in 1..Len(trace) : trace[k].visit # f.visit
  <2>1. \A k \in 1..Len(trace) : trace[k].visit \in 0..Len(trace)
    BY TraceFacts DEF EventInv, State
  <2> QED
    BY <1>1, <2>1
<1>6. StepsOf(u, Len(u), f.visit) = {}
  <2>1. StepsOf(u, Len(u), f.visit) = StepsOf(trace, Len(trace), f.visit)
    BY NextSteps
  <2> QED
    BY <1>5, <2>1 DEF StepsOf
<1>7. VisitFits(u, f)
  <2>1. f.visit \in (f.run + 1)..Len(u)
    BY <1>1, <1>4
  <2>2. Results(u, Len(u), f.visit) = Empty
    <3>1. {StepOf(u[k]).name : k \in StepsOf(u, Len(u), f.visit)} = {}
      BY <1>6
    <3> QED
      BY <3>1 DEF Results, Empty
  <2>3. \A x : MadeBy(u, Len(u), f.visit, x) = {}
    BY <1>6 DEF MadeBy
  <2>4. DOMAIN f.surface = {}
    BY EmptyTable
  <2> QED
    BY <1>4, <2>1, <2>2, <2>3, <2>4 DEF VisitFits
<1>8. Fits(u, f)
  <2>1. f.run \in 1..Len(u) /\ u[f.run].made = f.payload
    BY <1>1, <1>4 DEF Fits, Grows
  <2>2. Surfaces(u, Len(u), f.run) = Surfaces(trace, Len(trace), f.run)
    BY SurfacesStay
  <2>3. f.results = Surfaces(u, Len(u), f.run)
    BY <1>1, <2>2 DEF Fits
  <2> QED
    BY <1>7, <2>1, <2>3 DEF Fits
<1>9. FrameValues(u, f)
  <2>1. TableOf(f.given, Names, Passable(trace))
    BY <1>1, NodeBinds DEF Bindings
  <2>2. TableOf(f.given, Names, Passable(u))
    BY <2>1, OriginsStill, TableStill
  <2>3. FrameValues(u, Top)
    BY <1>1, ValuesStill
  <2> QED
    BY <1>3, <2>2, <2>3, EmptyTable DEF FrameValues
<1> QED
  BY <1>2, <1>3, <1>8, <1>9 DEF Sound, AnswerFits

LEMMA BindKeeps ==
  ASSUME IInv, BindContract
  PROVE  IInv'
<1> DEFINE hops == Top.hops + 1
           f == [Top EXCEPT !.hops = hops, !.place = "steps", !.visit = Len(trace) + 1,
                            !.given = Bound(Bindings, Top.payload, Top.results), !.step = 1,
                            !.steps = Empty, !.surface = Empty, !.outcome = "SUCCESS"]
           e == Event("CC_START", f, f.given, Empty)
<1>1. /\ stack # <<>> /\ Top.place = "node" /\ Top.hops < MaxHops
      /\ stack' = Front(stack) \o <<f>> /\ trace' = Append(trace, e) /\ UNCHANGED <<pkg, result>>
  BY DEF BindContract, At, Visit, SetTop
<1>2. State /\ EventInv /\ Kinds
  BY DEF IInv, State
<1>3. /\ Placed(Top) /\ IsList(trace) /\ Fits(trace, Top) /\ Len(trace) \in Nat /\ Top.run \in 1..Len(trace)
  BY <1>1, <1>2, InRun
<1> HIDE DEF hops
<1>4. /\ DOMAIN f = FrameKeys
      /\ f.run = Top.run /\ f.node = Top.node /\ f.payload = Top.payload /\ f.results = Top.results
      /\ f.place = "steps" /\ f.visit = Len(trace) + 1 /\ f.step = 1 /\ f.steps = Empty
      /\ f.given = Bound(Bindings, Top.payload, Top.results)
      /\ f.surface = Empty /\ f.outcome = "SUCCESS" /\ f.answer = Top.answer /\ f.hops = hops
  BY <1>3 DEF Placed, FrameKeys
<1> HIDE DEF f
<1>5. /\ e.type = "CC_START" /\ e.run = f.run /\ e.visit = f.visit /\ e.node = f.node /\ e.given = f.given
  BY EventFields
<1> HIDE DEF e
<1>6. Grows(trace, trace', e)
  BY <1>1, <1>3, AppendGrows
<1>7. Placed(f) /\ Sound(trace', f)
  <2>1. hops = Top.hops + 1
    BY DEF hops
  <2> QED
    BY <1>1, <1>2, <1>4, <1>5, <1>6, <2>1, VisitSound
<1>8. IsList(stack') /\ StackInv' /\ FitInv' /\ ValueInv'
  <2>1. OfTop(e)
    BY <1>5 DEF OfTop
  <2> QED
    BY <1>1, <1>2, <1>4, <1>6, <1>7, <2>1, ReplacedKeeps
<1>9. Accounted(trace', Len(trace'))
  <2>1. e.run = Top.run /\ e.node = Top.node /\ e.run \in 1..Len(trace)
    BY <1>3, <1>4, <1>5
  <2>2. e.given = Bound(pkg.bindings[e.node], trace[e.run].made, Surfaces(trace, Len(trace), e.run))
    BY <1>3, <1>4, <1>5, <2>1 DEF Fits, Bindings
  <2> QED
    BY <1>5, <1>6, <2>1, <2>2, StartAccounted
<1>10. IsList(trace') /\ trace' # <<>> /\ EventInv'
  <2>1. TableOf(e.given, Names, Passable(trace'))
    BY <1>5, <1>7 DEF Sound, FrameValues
  <2>2. e.run \in 1..(Len(trace) + 1) /\ e.visit \in 0..(Len(trace) + 1)
    BY <1>3, <1>4, <1>5
  <2> QED
    BY <1>1, <1>2, <1>5, <1>9, <2>1, <2>2, EventKeeps
<1>11. Kinds'
  BY <1>1, <1>2, <1>8, <1>10 DEF Kinds
<1> QED
  BY <1>8, <1>10, <1>11 DEF IInv

LEMMA RefuseKeeps ==
  ASSUME IInv, Refuse
  PROVE  IInv'
<1>1. stack' = <<>> /\ result' = "refused" /\ UNCHANGED <<pkg, trace>>
  BY DEF Refuse
<1>2. IsList(stack') /\ StackInv' /\ FitInv' /\ ValueInv'
  BY <1>1, OverKeeps
<1>3. EventInv'
  BY <1>1, SameEvents DEF IInv
<1>4. Kinds'
  BY <1>1, <1>2 DEF Kinds, IInv
<1> QED
  BY <1>2, <1>3, <1>4 DEF IInv
-----------------------------------------------------------------------------
(***************************************************************************)
(* The steps.                                                              *)
(***************************************************************************)
LEMMA RunWorkflowKeeps ==
  ASSUME IInv, RunWorkflow
  PROVE  IInv'
<1> DEFINE r == Len(trace) + 1
           f == Begun(Step.calls, StepGiven, r)
           e == Event("WF_START", f, Empty, StepGiven)
           u == trace'
<1>1. /\ stack # <<>> /\ Top.place = "steps" /\ Top.step <= Len(Pipeline)
      /\ Step.calls # None /\ Top.answer = None
      /\ stack' = Append(stack, f) /\ trace' = Append(trace, e) /\ UNCHANGED <<pkg, result>>
  BY DEF RunWorkflow, AtStep, At
<1>2. State /\ EventInv /\ Kinds
  BY DEF IInv, State
<1>3. /\ pkg \in Packages /\ Placed(Top) /\ IsList(trace) /\ FrameValues(trace, Top) /\ Len(trace) \in Nat
  BY <1>1, <1>2, InRun
<1>4. InStep(Top) /\ StepGiven = GivenTo(Top)
  BY <1>1 DEF InStep, GivenTo, StepGiven, Step, Pipeline, PipelineAt
<1>5. Step.calls \in Workflows
  BY <1>1, <1>3, <1>4, StepFacts DEF IsStep, Step, Pipeline, PipelineAt
<1>6. r \in Nat \ {0} /\ r = Len(trace) + 1
  BY <1>3
<1> HIDE DEF r
<1>7. /\ e.type = "WF_START" /\ e.run = f.run /\ e.visit = f.visit /\ e.made = StepGiven
  BY EventFields
<1> HIDE DEF e
<1>8. f.run = r /\ f.visit = 0
  BY DEF Begun
<1>9. Grows(trace, trace', e)
  BY <1>1, <1>3, AppendGrows
<1>10. Len(u) = r /\ u[r] = e /\ \A k \in 1..Len(trace) : u[k] = trace[k]
  BY <1>6, <1>9 DEF Grows
<1>11. TableOf(StepGiven, Names, Passable(u))
  <2>1. TableOf(GivenTo(Top), Names, Passable(trace))
    BY <1>3, <1>4, StepBinds
  <2> QED
    BY <1>4, <1>9, <2>1, OriginsStill, TableStill
<1>12. \A k \in 1..r : ~(u[k].type = "CC_COMPLETE" /\ u[k].run = r)
  <2> TAKE k \in 1..r
  <2>1. CASE k = r
    BY <1>7, <1>10, <2>1
  <2>2. CASE k # r
    <3>1. k \in 1..Len(trace) /\ k \in DOMAIN trace
      BY <1>2, <1>3, <1>6, <2>2, TraceFacts
    <3>2. trace[k].run \in 1..Len(trace)
      BY <1>2, <3>1 DEF EventInv
    <3> QED
      BY <1>3, <1>6, <1>10, <3>1, <3>2
  <2> QED
    BY <2>1, <2>2
<1>13. /\ Placed(f) /\ Sound(u, f) /\ f.payload = StepGiven
  <2>1. f = Begun(Step.calls, StepGiven, Len(u)) /\ Len(u) \in Nat \ {0}
    BY <1>6, <1>10
  <2>2. u[Len(u)].made = StepGiven /\ \A k \in 1..Len(u) : ~(u[k].type = "CC_COMPLETE" /\ u[k].run = Len(u))
    BY <1>7, <1>10, <1>12
  <2> HIDE DEF f, u
  <2> QED
    BY <1>3, <1>5, <1>11, <2>1, <2>2, BegunSound
<1> HIDE DEF f
<1>14. IsList(stack') /\ StackInv' /\ FitInv' /\ ValueInv'
  <2>1. f.run = Len(trace) + 1 /\ f.payload = GivenTo(Top)
    BY <1>4, <1>6, <1>8, <1>13
  <2> QED
    BY <1>1, <1>2, <1>4, <1>7, <1>9, <1>13, <2>1, PushedKeeps
<1>15. Accounted(trace', Len(trace'))
  BY <1>7, <1>9, OtherAccounted
<1>16. IsList(trace') /\ trace' # <<>> /\ EventInv'
  <2>1. e.run \in 1..(Len(trace) + 1) /\ e.visit \in 0..(Len(trace) + 1)
    BY <1>3, <1>6, <1>7, <1>8
  <2>2. TableOf(e.made, Names, Passable(trace'))
    BY <1>7, <1>11
  <2> QED
    BY <1>1, <1>2, <1>7, <1>15, <2>1, <2>2, EventKeeps
<1>17. Kinds'
  BY <1>1, <1>2, <1>14, <1>16 DEF Kinds
<1> QED
  BY <1>14, <1>16, <1>17 DEF IInv

\* A workflow after a step that ended with an outcome and a result.
LEMMA StepSound ==
  ASSUME State, stack # <<>>, InStep(Top),
         NEW e, NEW u, Grows(trace, u, e), e.type = "CC_STEP",
         e.visit = Top.visit, e.node = Top.node, e.step = Top.step,
         RawFits(trace, e.raw), TableOf(e.made, Names, Passable(u)), e.outcome \in Outcomes,
         NEW f, DOMAIN f = FrameKeys,
         f.run = Top.run, f.node = Top.node, f.payload = Top.payload, f.results = Top.results,
         f.hops = Top.hops, f.place = Top.place, f.visit = Top.visit, f.given = Top.given,
         f.step \in Nat, Top.step < f.step,
         f.steps = Put(Top.steps, StepOf(e).name, Kept(e.made, e.raw)),
         f.surface = Over(e.made, Top.surface), f.outcome = e.outcome, f.answer = None
  PROVE  Placed(f) /\ Sound(u, f)
<1>1. /\ Placed(Top) /\ Len(trace) \in Nat /\ Fits(trace, Top) /\ FrameValues(trace, Top)
      /\ Top.run \in 1..Len(trace) /\ Top.place = "steps" /\ VisitFits(trace, Top)
      /\ Top.step \in Nat
  BY InRun DEF InStep, Fits, Placed
<1>2. Placed(f)
  BY <1>1 DEF Placed
<1>3. Len(u) = Len(trace) + 1 /\ \A k \in 1..Len(trace) : u[k] = trace[k]
  BY DEF Grows
<1>4. VisitFits(u, f)
  <2>1. f.visit \in (f.run + 1)..Len(u) /\ u[f.visit].given = f.given
    BY <1>1, <1>3 DEF VisitFits
  <2>2. f.steps = Results(u, Len(u), f.visit)
    <3>1. Results(u, Len(u), f.visit) = Put(Results(trace, Len(trace), f.visit), StepOf(e).name, Kept(e.made, e.raw))
      BY ResultsAfter
    <3> QED
      BY <1>1, <3>1 DEF VisitFits
  <2>3. /\ DOMAIN f.surface = DOMAIN e.made \cup DOMAIN Top.surface
        /\ DOMAIN e.made \in SUBSET Names
    BY DEF Over, TableOf
  <2>4. ASSUME NEW x \in Names
        PROVE  /\ x \in DOMAIN f.surface <=> MadeBy(u, Len(u), f.visit, x) # {}
               /\ x \in DOMAIN f.surface => f.surface[x] = Latest(u, MadeBy(u, Len(u), f.visit, x)).made[x]
    <3>1. CASE x \in DOMAIN e.made
      <4>1. MadeBy(u, Len(u), f.visit, x) # {} /\ Latest(u, MadeBy(u, Len(u), f.visit, x)) = e
        BY <3>1, MadeAfter
      <4>2. x \in DOMAIN f.surface /\ f.surface[x] = e.made[x]
        BY <3>1 DEF Over
      <4> QED
        BY <4>1, <4>2
    <3>2. CASE x \notin DOMAIN e.made
      <4>1. /\ MadeBy(u, Len(u), f.visit, x) = MadeBy(trace, Len(trace), f.visit, x)
            /\ MadeBy(trace, Len(trace), f.visit, x) # {} =>
                  Latest(u, MadeBy(u, Len(u), f.visit, x)) = Latest(trace, MadeBy(trace, Len(trace), f.visit, x))
        BY <3>2, MadeStays
      <4>2. x \in DOMAIN Top.surface <=> MadeBy(trace, Len(trace), f.visit, x) # {}
        BY <1>1 DEF VisitFits
      <4>3. x \in DOMAIN Top.surface =>
               Top.surface[x] = Latest(trace, MadeBy(trace, Len(trace), f.visit, x)).made[x]
        BY <1>1 DEF VisitFits
      <4>4. /\ x \in DOMAIN f.surface <=> x \in DOMAIN Top.surface
            /\ x \in DOMAIN f.surface => f.surface[x] = Top.surface[x]
        BY <3>2 DEF Over
      <4> QED
        BY <4>1, <4>2, <4>3, <4>4
    <3> QED
      BY <3>1, <3>2
  <2>5. DOMAIN f.surface \in SUBSET Names
    <3>1. DOMAIN Top.surface \in SUBSET Names
      BY <1>1 DEF VisitFits
    <3> QED
      BY <2>3, <3>1
  <2>6. DOMAIN f.surface = {x \in Names : MadeBy(u, Len(u), f.visit, x) # {}}
    BY <2>4, <2>5
  <2>7. \A x \in DOMAIN f.surface : f.surface[x] = Latest(u, MadeBy(u, Len(u), f.visit, x)).made[x]
    BY <2>4, <2>5
  <2> QED
    BY <2>1, <2>2, <2>6, <2>7 DEF VisitFits
<1>5. Fits(u, f)
  <2>1. f.run \in 1..Len(u) /\ u[f.run].made = f.payload
    BY <1>1, <1>3 DEF Fits
  <2>2. Surfaces(u, Len(u), f.run) = Surfaces(trace, Len(trace), f.run)
    BY SurfacesStay
  <2>3. f.results = Surfaces(u, Len(u), f.run)
    BY <1>1, <2>2 DEF Fits
  <2> QED
    BY <1>4, <2>1, <2>3 DEF Fits
<1>6. FrameValues(u, f)
  <2>1. FrameValues(u, Top)
    BY <1>1, ValuesStill
  <2>2. TableOf(f.surface, Names, Passable(u))
    <3>1. TableOf(Top.surface, Names, Passable(u))
      BY <2>1 DEF FrameValues
    <3> QED
      BY <3>1, OverTable
  <2> DEFINE a == StepOf(e).name
             k == Kept(e.made, e.raw)
  <2>3. /\ TableOf(k, StepNames, Origins(u))
        /\ \A x \in DOMAIN k : k[x] \in Seq(StepOrigins(u, f, a, x))
    <3> HIDE DEF k
    <3>1. e.node = f.node /\ e.step \in Nat /\ e.step < f.step
      BY <1>1
    <3> QED
      BY <3>1, KeptTable DEF k
  <2> HIDE DEF a, k
  <2>4. f.steps = Put(Top.steps, a, k)
    BY DEF a, k
  <2>5. ASSUME NEW s \in DOMAIN f.steps
        PROVE  /\ TableOf(f.steps[s], StepNames, Origins(u))
               /\ \A x \in DOMAIN f.steps[s] : f.steps[s][x] \in Seq(StepOrigins(u, f, s, x))
    <3>1. CASE s = a
      <4>1. f.steps[s] = k
        BY <2>4, <3>1 DEF Put
      <4> QED
        BY <2>3, <3>1, <4>1
    <3>2. CASE s # a
      <4>1. s \in DOMAIN Top.steps /\ f.steps[s] = Top.steps[s]
        BY <2>4, <3>2 DEF Put
      <4>2. TableOf(Top.steps[s], StepNames, Origins(u))
        BY <2>1, <4>1 DEF FrameValues
      <4>3. ASSUME NEW x \in DOMAIN Top.steps[s]
            PROVE  Top.steps[s][x] \in Seq(StepOrigins(u, f, s, x))
        <5>1. Top.steps[s][x] \in Seq(StepOrigins(trace, Top, s, x))
          BY <1>1, <4>1 DEF FrameValues
        <5>2. Top.step <= f.step
          BY <1>1
        <5>3. StepOrigins(trace, Top, s, x) \in SUBSET StepOrigins(u, f, s, x)
          BY <1>1, <5>2, StepOriginsStill
        <5> QED
          BY <5>1, <5>3, SeqMonotonic
      <4> QED
        BY <4>1, <4>2, <4>3
    <3> QED
      BY <3>1, <3>2
  <2> QED
    BY <2>1, <2>2, <2>5 DEF FrameValues
<1> QED
  BY <1>2, <1>5, <1>6 DEF Sound, AnswerFits
\* A step ends with an outcome and a result, its own or that of a workflow.
Calls(called, raw) ==
    called # 0 =>
        /\ called \in 1..Len(trace) /\ trace[called].made = StepGiven
        /\ Completed(trace, Len(trace), called) # {}
        /\ raw = Latest(trace, Completed(trace, Len(trace), called)).made

LEMMA EndStepKeeps ==
  ASSUME IInv, AtStep, NEW outcome \in Outcomes, NEW raw, RawFits(trace, raw),
         NEW called, Calls(called, raw), EndStep(outcome, raw, called)
  PROVE  IInv'
<1>1. /\ stack # <<>> /\ Top.place = "steps" /\ Top.step <= Len(Pipeline)
  BY DEF AtStep, At
<1>2. State /\ EventInv /\ Kinds
  BY DEF IInv, State
<1>3. CASE ~Mappable(outcome, raw)
  <2>1. Refuse
    BY <1>3 DEF EndStep
  <2> QED
    BY <2>1, RefuseKeeps
<1>4. CASE Mappable(outcome, raw)
  <2> DEFINE e == [Event("CC_STEP", Top, StepGiven, Fragment(outcome, raw))
                      EXCEPT !.outcome = outcome, !.raw = raw, !.called = called]
             next == IF Step.on[outcome] = "exit" THEN Len(Pipeline) + 1 ELSE Top.step + 1
             f == [Top EXCEPT
                     !.steps = Put(Top.steps, Step.name, Kept(Fragment(outcome, raw), raw)),
                     !.surface = Over(Fragment(outcome, raw), Top.surface),
                     !.outcome = outcome, !.answer = None, !.step = next]
  <2>1. /\ trace' = Append(trace, e) /\ UNCHANGED pkg
        /\ \/ outcome \notin DOMAIN Step.on /\ stack' = <<>> /\ result' = "refused"
           \/ stack' = Front(stack) \o <<f>> /\ UNCHANGED result
    BY <1>4 DEF EndStep, SetTop
  <2>2. /\ pkg \in Packages /\ Placed(Top) /\ IsList(trace) /\ Len(trace) \in Nat
        /\ FrameValues(trace, Top) /\ Fits(trace, Top)
    BY <1>1, <1>2, InRun
  <2>3. InStep(Top) /\ Pipeline = PipelineAt(Top.node)
    BY <1>1 DEF InStep, Pipeline, PipelineAt
  <2>4. VisitFits(trace, Top) /\ Top.visit \in 1..Len(trace) /\ Top.run \in 1..Len(trace)
    <3>1. VisitFits(trace, Top) /\ Top.run \in 1..Len(trace)
      BY <1>1, <2>2 DEF Fits
    <3> QED
      BY <2>2, <3>1 DEF VisitFits
  <2>5. next \in Nat /\ Top.step < next
    <3>1. Top.step \in 1..Len(Pipeline) /\ Len(Pipeline) \in Nat
      BY <2>2, <2>3, StepFacts
    <3> QED
      BY <3>1
  <2> HIDE DEF next
  <2>6. /\ DOMAIN f = FrameKeys
        /\ f.run = Top.run /\ f.node = Top.node /\ f.payload = Top.payload /\ f.results = Top.results
        /\ f.hops = Top.hops /\ f.place = Top.place /\ f.visit = Top.visit /\ f.given = Top.given
        /\ f.step = next /\ f.outcome = outcome /\ f.answer = None
        /\ f.steps = Put(Top.steps, Step.name, Kept(Fragment(outcome, raw), raw))
        /\ f.surface = Over(Fragment(outcome, raw), Top.surface)
    BY <2>2 DEF Placed, FrameKeys
  <2> HIDE DEF f
  <2>7. /\ e.type = "CC_STEP" /\ e.run = Top.run /\ e.visit = Top.visit /\ e.node = Top.node
        /\ e.step = Top.step /\ e.given = StepGiven /\ e.made = Fragment(outcome, raw)
        /\ e.outcome = outcome /\ e.raw = raw /\ e.called = called
    BY DEF Event
  <2> HIDE DEF e
  <2>8. Grows(trace, trace', e)
    BY <2>1, <2>2, AppendGrows
  <2>9. StepOf(e) = Step
    BY <2>7 DEF StepOf, Step, Pipeline
  <2>10. TableOf(e.made, Names, Passable(trace'))
    <3>1. TableOf(Fragment(outcome, raw), Names, Passable(trace'))
      BY <2>2, <2>3, <2>7, <2>8, FragmentTable
    <3> QED
      BY <2>7, <3>1
  <2>11. Placed(f) /\ Sound(trace', f)
    <3>1. f.steps = Put(Top.steps, StepOf(e).name, Kept(e.made, e.raw)) /\ f.surface = Over(e.made, Top.surface)
      BY <2>6, <2>7, <2>9
    <3>2. f.step \in Nat /\ Top.step < f.step /\ f.outcome = e.outcome /\ RawFits(trace, e.raw) /\ e.outcome \in Outcomes
      BY <2>5, <2>6, <2>7
    <3> QED
      BY <1>1, <1>2, <2>3, <2>6, <2>7, <2>8, <2>10, <3>1, <3>2, StepSound
  <2>12. IsList(stack') /\ StackInv' /\ FitInv' /\ ValueInv'
    <3>1. CASE stack' = <<>>
      BY <2>1, <3>1, OverKeeps
    <3>2. CASE stack' = Front(stack) \o <<f>>
      <4>1. OfTop(e)
        BY <1>1, <2>7 DEF OfTop
      <4> QED
        BY <1>1, <1>2, <2>1, <2>6, <2>8, <2>11, <3>2, <4>1, ReplacedKeeps
    <3> QED
      BY <2>1, <3>1, <3>2
  <2>13. Accounted(trace', Len(trace'))
    <3>1. e.given = Bound(StepOf(e).inputs, trace[e.visit].given, Results(trace, Len(trace), e.visit))
      BY <2>4, <2>7, <2>9 DEF VisitFits, StepGiven
    <3>2. e.called # 0 =>
            /\ e.called \in 1..Len(trace) /\ trace[e.called].made = e.given
            /\ Completed(trace, Len(trace), e.called) # {}
            /\ e.raw = Latest(trace, Completed(trace, Len(trace), e.called)).made
      BY <2>7 DEF Calls
    <3>3. e.visit \in 1..Len(trace)
      BY <2>4, <2>7
    <3> QED
      BY <2>7, <2>8, <3>1, <3>2, <3>3, StepAccounted
  <2>14. IsList(trace') /\ trace' # <<>> /\ EventInv'
    <3>1. e.run \in 1..(Len(trace) + 1) /\ e.visit \in 0..(Len(trace) + 1)
      BY <2>2, <2>4, <2>7
    <3> QED
      BY <1>2, <2>1, <2>7, <2>13, <3>1, EventKeeps
  <2>15. Kinds'
    BY <1>2, <2>1, <2>12, <2>14 DEF Kinds
  <2> QED
    BY <2>12, <2>14, <2>15 DEF IInv
<1> QED
  BY <1>3, <1>4

LEMMA RunStepKeeps ==
  ASSUME IInv, RunStep
  PROVE  IInv'
<1> PICK outcome \in Outcomes, fields \in SUBSET Step.makes :
       EndStep(outcome, [name \in fields |-> <<[by |-> Len(trace) + 1, name |-> name]>>], 0)
  BY DEF RunStep
<1> DEFINE raw == [name \in fields |-> <<[by |-> Len(trace) + 1, name |-> name]>>]
<1>1. stack # <<>> /\ AtStep /\ Top.place = "steps" /\ Top.step <= Len(Pipeline)
  BY DEF RunStep, AtStep, At
<1>2. State
  BY DEF IInv, State
<1>3. Step.makes \in SUBSET Names
  <2>1. pkg \in Packages /\ Placed(Top)
    BY <1>1, <1>2, InRun
  <2>2. InStep(Top)
    BY <1>1 DEF InStep, Pipeline, PipelineAt
  <2> QED
    BY <2>1, <2>2, StepFacts DEF IsStep, Step, Pipeline, PipelineAt
<1>4. RawFits(trace, raw)
  BY <1>3 DEF RawFits
<1> HIDE DEF raw
<1>5. EndStep(outcome, raw, 0) /\ Calls(0, raw)
  BY DEF raw, Calls
<1> QED
  BY <1>1, <1>4, <1>5, EndStepKeeps

LEMMA AnswerKeeps ==
  ASSUME IInv, AnswerOfWorkflow
  PROVE  IInv'
<1>1. stack # <<>> /\ AtStep /\ Top.answer # None /\ EndStep(Top.answer.outcome, Top.answer.surface, Top.answer.run)
  BY DEF AnswerOfWorkflow, AtStep, At
<1>2. State
  BY DEF IInv, State
<1>3. AnswerFits(trace, Top) /\ FrameValues(trace, Top)
  BY <1>1, <1>2, InRun
<1>4. TableOf(Top.answer.surface, Names, Passable(trace)) /\ Top.answer.outcome \in Outcomes
  BY <1>1, <1>3 DEF FrameValues
<1>5. RawFits(trace, Top.answer.surface)
  BY <1>4 DEF RawFits, TableOf
<1>6. Calls(Top.answer.run, Top.answer.surface)
  <2>1. GivenTo(Top) = StepGiven
    BY DEF GivenTo, StepGiven, Step, Pipeline, PipelineAt
  <2> QED
    BY <1>1, <1>3, <2>1 DEF Calls, AnswerFits
<1> QED
  BY <1>1, <1>4, <1>5, <1>6, EndStepKeeps

LEMMA CompleteKeeps ==
  ASSUME IInv, CompleteContract
  PROVE  IInv'
<1> DEFINE contract == pkg.contract[Top.node]
           routing == pkg.routing[Top.node]
           results == Put(Top.results, contract, Surface)
           f == [Top EXCEPT !.surface = Surface, !.results = results, !.place = "node",
                            !.node = routing[Top.outcome]]
           answer == [outcome |-> Top.outcome, surface |-> Surface, run |-> Top.run]
           e == Event("CC_COMPLETE", Top, Empty, Surface)
           u == trace'
<1>1. /\ stack # <<>> /\ Top.place = "steps" /\ Top.step > Len(Pipeline)
      /\ trace' = Append(trace, e) /\ UNCHANGED pkg
      /\ \/ stack' = <<>> /\ result' = "refused"
         \/ /\ Top.outcome \in DOMAIN routing /\ routing[Top.outcome] # None
            /\ stack' = Front(stack) \o <<f>> /\ UNCHANGED result
         \/ stack' = <<>> /\ result' = Top.outcome
         \/ /\ Len(stack) # 1 /\ UNCHANGED result
            /\ stack' = Front(Front(stack)) \o <<[Last(Front(stack)) EXCEPT !.answer = answer]>>
  <2>1. Complete(results)
    BY DEF CompleteContract
  <2> HIDE DEF results
  <2> QED
    BY <2>1 DEF Complete, At, SetTop
<1>2. State /\ EventInv /\ Kinds
  BY DEF IInv, State
<1>3. /\ pkg \in Packages /\ Placed(Top) /\ IsList(trace) /\ Len(trace) \in Nat
      /\ FrameValues(trace, Top) /\ Fits(trace, Top) /\ AnswerFits(trace, Top) /\ Top.run \in 1..Len(trace)
  BY <1>1, <1>2, InRun
<1>4. VisitFits(trace, Top) /\ Top.visit \in 1..Len(trace)
  <2>1. VisitFits(trace, Top)
    BY <1>1, <1>3 DEF Fits
  <2> QED
    BY <1>3, <2>1 DEF VisitFits
<1>5. Top.answer = None
  <2>1. IsSequence(Pipeline) /\ Top.step \in Nat
    BY <1>3, PackageFacts DEF Placed, Pipeline, PipelineAt
  <2>2. Len(Pipeline) \in Nat
    BY <2>1 DEF IsSequence
  <2>3. ~InStep(Top)
    BY <1>1, <2>1, <2>2 DEF InStep, Pipeline, PipelineAt
  <2> QED
    BY <1>3, <2>3 DEF AnswerFits
<1>6. contract \in Contracts /\ \A o \in DOMAIN routing : routing[o] \in Nodes \cup {None}
  BY <1>3, PackageFacts DEF Placed
<1>7. /\ DOMAIN f = FrameKeys
      /\ f.run = Top.run /\ f.node = routing[Top.outcome] /\ f.payload = Top.payload
      /\ f.results = results /\ f.hops = Top.hops /\ f.place = "node" /\ f.given = Top.given
      /\ f.step = Top.step /\ f.steps = Top.steps /\ f.surface = Surface
      /\ f.outcome = Top.outcome /\ f.answer = Top.answer
  BY <1>3 DEF Placed, FrameKeys
<1> HIDE DEF f
<1>8. /\ e.type = "CC_COMPLETE" /\ e.run = Top.run /\ e.visit = Top.visit /\ e.node = Top.node
      /\ e.made = Surface
  BY EventFields
<1> HIDE DEF e
<1>9. Grows(trace, u, e)
  BY <1>1, <1>3, AppendGrows
<1>10. TableOf(Surface, Names, Passable(u)) /\ DOMAIN Surface \in SUBSET Names
  <2> DEFINE passed == [x \in DOMAIN Top.given \ Internal |-> Top.given[x]]
  <2>1. FrameValues(u, Top)
    BY <1>3, <1>9, ValuesStill
  <2>2. TableOf(passed, Names, Passable(u))
    BY <2>1 DEF FrameValues, TableOf
  <2>3. TableOf(Over(Top.surface, passed), Names, Passable(u))
    <3> HIDE DEF passed
    <3> QED
      BY <2>1, <2>2, OverTable DEF FrameValues
  <2>4. TableOf(Surface, Names, Passable(u))
    BY <2>3 DEF Surface
  <2> QED
    BY <2>4 DEF TableOf
<1>11. Completed(u, Len(u), Top.run) # {} /\ Latest(u, Completed(u, Len(u), Top.run)).made = Surface
  <2>1. Completed(u, Len(u), Top.run) = Completed(trace, Len(trace), Top.run) \cup {Len(trace) + 1}
    BY <1>8, <1>9, NextCompleted
  <2>2. Completed(trace, Len(trace), Top.run) \in SUBSET (1..Len(trace))
    BY EventsMeant
  <2>3. Latest(u, Completed(trace, Len(trace), Top.run) \cup {Len(trace) + 1}) = e
    BY <1>9, <2>2, LatestIsNew
  <2> QED
    BY <1>8, <2>1, <2>3
<1>12. OfTop(e)
  BY <1>8 DEF OfTop
<1>13. ASSUME Top.outcome \in DOMAIN routing, routing[Top.outcome] # None
       PROVE  Placed(f) /\ Sound(u, f)
  <2>1. f.node \in Nodes
    BY <1>6, <1>7, <1>13
  <2>2. Placed(f)
    BY <1>3, <1>7, <2>1 DEF Placed
  <2>3. Fits(u, f)
    <3>1. f.run \in 1..Len(u) /\ u[f.run].made = f.payload
      BY <1>3, <1>7, <1>9 DEF Fits, Grows
    <3>2. Surfaces(u, Len(u), Top.run) = Put(Surfaces(trace, Len(trace), Top.run), contract, Surface)
      BY <1>6, <1>8, <1>9, SurfacesAfter
    <3>3. f.results = Surfaces(u, Len(u), f.run)
      BY <1>3, <1>7, <3>2 DEF Fits
    <3> QED
      BY <1>7, <3>1, <3>3 DEF Fits
  <2>4. FrameValues(u, f)
    <3>1. FrameValues(u, Top)
      BY <1>3, <1>9, ValuesStill
    <3>2. ASSUME NEW c \in DOMAIN results PROVE TableOf(results[c], Names, Passable(u))
      <4>1. CASE c = contract
        BY <1>10, <4>1 DEF Put
      <4>2. CASE c # contract
        <5>1. c \in DOMAIN Top.results /\ results[c] = Top.results[c]
          BY <4>2 DEF Put
        <5> QED
          BY <3>1, <5>1 DEF FrameValues
      <4> QED
        BY <4>1, <4>2
    <3> HIDE DEF results
    <3> QED
      BY <1>5, <1>7, <1>10, <3>1, <3>2 DEF FrameValues
  <2>5. AnswerFits(u, f)
    BY <1>5, <1>7 DEF AnswerFits
  <2> QED
    BY <2>2, <2>3, <2>4, <2>5 DEF Sound
<1>14. IsList(stack') /\ StackInv' /\ FitInv' /\ ValueInv'
  <2>1. CASE stack' = <<>>
    BY <1>1, <2>1, OverKeeps
  <2>2. CASE Top.outcome \in DOMAIN routing /\ routing[Top.outcome] # None /\ stack' = Front(stack) \o <<f>>
    BY <1>1, <1>2, <1>7, <1>9, <1>12, <1>13, <2>2, ReplacedKeeps
  <2>3. CASE /\ Len(stack) # 1
             /\ stack' = Front(Front(stack)) \o <<[Last(Front(stack)) EXCEPT !.answer = answer]>>
    <3>1. Len(stack) > 1
      BY <1>1, <1>2, <2>3, TopFacts
    <3>2. answer.run = Top.run /\ answer.surface = Surface /\ answer.outcome \in Outcomes
      BY <1>3 DEF Placed
    <3> HIDE DEF answer
    <3>3. answer.surface = Latest(trace', Completed(trace', Len(trace'), Top.run)).made
      BY <1>11, <3>2
    <3>4. TableOf(answer.surface, Names, Passable(trace'))
      BY <1>10, <3>2
    <3> QED
      BY <1>1, <1>2, <1>9, <1>11, <1>12, <2>3, <3>1, <3>2, <3>3, <3>4, ReturnedKeeps
  <2> QED
    BY <1>1, <2>1, <2>2, <2>3
<1>15. Accounted(trace', Len(trace'))
  <2>1. /\ trace[e.visit].given = Top.given
        /\ DOMAIN Top.surface = {x \in Names : MadeBy(trace, Len(trace), e.visit, x) # {}}
        /\ \A x \in DOMAIN Top.surface :
              Top.surface[x] = Latest(trace, MadeBy(trace, Len(trace), e.visit, x)).made[x]
    BY <1>4, <1>8 DEF VisitFits
  <2>2. /\ DOMAIN Surface = DOMAIN Top.surface \cup (DOMAIN Top.given \ Internal)
        /\ \A x \in DOMAIN Surface :
              Surface[x] = IF x \in DOMAIN Top.surface THEN Top.surface[x] ELSE Top.given[x]
    BY DEF Surface, Over
  <2>3. DOMAIN e.made = {x \in Names : \/ MadeBy(trace, Len(trace), e.visit, x) # {}
                                       \/ x \in DOMAIN trace[e.visit].given \ Internal}
    BY <1>8, <1>10, <2>1, <2>2
  <2>4. ASSUME NEW x \in DOMAIN e.made
        PROVE  e.made[x] = IF MadeBy(trace, Len(trace), e.visit, x) # {}
                           THEN Latest(trace, MadeBy(trace, Len(trace), e.visit, x)).made[x]
                           ELSE trace[e.visit].given[x]
    <3>1. x \in Names /\ x \in DOMAIN Surface /\ e.made[x] = Surface[x]
      BY <1>8, <1>10
    <3>2. x \in DOMAIN Top.surface <=> MadeBy(trace, Len(trace), e.visit, x) # {}
      BY <2>1, <3>1
    <3> QED
      BY <2>1, <2>2, <3>1, <3>2
  <2>5. e.visit \in 1..Len(trace)
    BY <1>4, <1>8
  <2> QED
    BY <1>8, <1>9, <2>3, <2>4, <2>5, CompleteAccounted
<1>16. IsList(trace') /\ trace' # <<>> /\ EventInv'
  <2>1. e.run \in 1..(Len(trace) + 1) /\ e.visit \in 0..(Len(trace) + 1)
    BY <1>3, <1>4, <1>8
  <2>2. TableOf(e.made, Names, Passable(trace'))
    BY <1>8, <1>10
  <2> QED
    BY <1>1, <1>2, <1>8, <1>15, <2>1, <2>2, EventKeeps
<1>17. result' \in Outcomes \cup {"none", "refused"}
  BY <1>1, <1>2, <1>3 DEF Kinds, Placed
<1>18. Kinds'
  BY <1>1, <1>2, <1>14, <1>16, <1>17 DEF Kinds
<1> QED
  BY <1>14, <1>16, <1>18 DEF IInv
-----------------------------------------------------------------------------
(***************************************************************************)
(* The invariant holds.                                                    *)
(***************************************************************************)
LEMMA InitEstablishes ==
  ASSUME Init
  PROVE  IInv
<1> DEFINE payload == [name \in Payload |-> <<[by |-> 0, name |-> name]>>]
<1> PICK w \in Workflows :
       /\ stack = <<Begun(w, payload, 1)>>
       /\ trace = <<Event("WF_START", Begun(w, payload, 1), Empty, payload)>>
  BY DEF Init
<1> DEFINE f == Begun(w, payload, 1)
           e == Event("WF_START", f, Empty, payload)
<1>1. pkg \in Packages /\ result = "none"
  BY DEF Init
<1>2. e.type = "WF_START" /\ e.run = f.run /\ e.visit = f.visit /\ e.made = payload
  BY EventFields
<1>3. f.run = 1 /\ f.visit = 0
  BY DEF Begun
<1>4. TableOf(payload, Names, Passable(trace)) /\ \A x \in DOMAIN payload : \A k \in DOMAIN payload[x] : payload[x][k].by = 0
  <2>1. Len(trace) = 1
    OBVIOUS
  <2>2. ASSUME NEW x \in Payload PROVE payload[x] \in Seq(Passable(trace))
    <3> DEFINE o == [by |-> 0, name |-> x]
    <3>1. o \in Origins(trace) /\ o.by = 0
      BY <2>1, DataAssumption DEF Origins, KnownNames
    <3>2. o \in Passable(trace) /\ payload[x] = <<o>>
      BY <3>1 DEF Passable
    <3> HIDE DEF o, payload
    <3> QED
      BY <3>2, Alone
  <2>3. \A x \in Payload : DOMAIN payload[x] = {1} /\ payload[x][1].by = 0
    OBVIOUS
  <2>4. DOMAIN payload = Payload /\ Payload \in SUBSET Names
    BY DataAssumption
  <2> HIDE DEF payload
  <2> QED
    BY <2>2, <2>3, <2>4 DEF TableOf
<1> HIDE DEF payload
<1>5. stack = <<f>> /\ trace = <<e>>
  OBVIOUS
<1> HIDE DEF e
<1>6. Len(trace) = 1 /\ DOMAIN trace = {1} /\ trace[1] = e /\ IsList(trace) /\ trace # <<>>
  BY <1>5, OnlyOne
<1>7. /\ Placed(f) /\ Sound(trace, f)
  <2>1. f = Begun(w, payload, Len(trace)) /\ Len(trace) \in Nat \ {0} /\ trace[Len(trace)].made = payload
    BY <1>2, <1>6
  <2>2. \A k \in 1..Len(trace) : ~(trace[k].type = "CC_COMPLETE" /\ trace[k].run = Len(trace))
    BY <1>2, <1>6
  <2> HIDE DEF f
  <2> QED
    BY <1>1, <1>4, <2>1, <2>2, BegunSound
<1> HIDE DEF f
<1>8. Len(stack) = 1 /\ DOMAIN stack = {1} /\ stack[1] = f /\ IsList(stack)
  BY <1>5, OnlyOne
<1>9. StackInv /\ FitInv /\ ValueInv
  BY <1>7, <1>8 DEF StackInv, Standing, FitInv, ValueInv, Sound
<1>10. EventInv
  <2>1. \A k \in DOMAIN trace : trace[k].run \in 1..Len(trace) /\ trace[k].visit \in 0..Len(trace)
    BY <1>2, <1>3, <1>6
  <2>2. AccountedFor
    BY <1>2, <1>6 DEF AccountedFor, Accounted
  <2>3. NothingOfARefusal
    <3>1. Last(trace) = e
      BY <1>6 DEF Last
    <3> QED
      BY <1>2, <1>4, <3>1 DEF NothingOfARefusal
  <2> QED
    BY <2>1, <2>2, <2>3 DEF EventInv
<1> QED
  BY <1>1, <1>6, <1>8, <1>9, <1>10 DEF IInv, Kinds

LEMMA StutterKeeps ==
  ASSUME IInv, UNCHANGED vars
  PROVE  IInv'
<1>1. UNCHANGED <<pkg, stack, trace, result>>
  BY DEF vars
<1>2. Kinds'
  BY <1>1 DEF Kinds, IInv
<1>3. StackInv'
  BY <1>1, SamePackage DEF IInv, StackInv
<1>4. FitInv' /\ ValueInv'
  <2>1. \A d \in DOMAIN stack' : Sound(trace', stack'[d])
    BY <1>1 DEF IInv, FitInv, ValueInv, Sound
  <2> QED
    BY <1>1, <2>1, SamePackage
<1>5. EventInv'
  BY <1>1, SameEvents DEF IInv
<1> QED
  BY <1>2, <1>3, <1>4, <1>5 DEF IInv

LEMMA NextKeeps ==
  ASSUME IInv, Next
  PROVE  IInv'
<1>1. CASE BindContract
  BY <1>1, BindKeeps
<1>2. CASE RefuseContract
  BY <1>2, RefuseKeeps DEF RefuseContract
<1>3. CASE RunStep
  BY <1>3, RunStepKeeps
<1>4. CASE FailStep
  BY <1>4, RefuseKeeps DEF FailStep
<1>5. CASE RunWorkflow
  BY <1>5, RunWorkflowKeeps
<1>6. CASE AnswerOfWorkflow
  BY <1>6, AnswerKeeps
<1>7. CASE CompleteContract
  BY <1>7, CompleteKeeps
<1> QED
  BY <1>1, <1>2, <1>3, <1>4, <1>5, <1>6, <1>7 DEF Next

\* The tables of every workflow in progress are what the events of its own say
\* last, and no value in them comes from a step that failed unless the contract
\* asks for it by name, in every state of a run.
THEOREM Invariance == Spec => []IInv
<1>1. IInv /\ [Next]_vars => IInv'
  BY NextKeeps, StutterKeeps
<1> QED
  BY <1>1, InitEstablishes, PTL DEF Spec

LEMMA TableIsRecord ==
  ASSUME NEW f, NEW keys, TableOf(f, keys, Origins(trace))
  PROVE  IsRecord(f, keys)
<1>1. ASSUME NEW x \in DOMAIN f PROVE IsValue(f[x])
  <2>1. f[x] \in Seq(Origins(trace))
    BY <1>1 DEF TableOf
  <2>2. \A i \in DOMAIN f[x] : f[x][i] \in Origins(trace)
    BY <2>1, LenProperties, ElementOfSeq
  <2> QED
    BY <2>2 DEF IsValue, Origins, KnownNames
<1> QED
  BY <1>1 DEF IsRecord, TableOf

\* What workflows, contracts and steps are given and have made are records of
\* known names, whose values come from steps that were recorded.
THEOREM TypeCorrect == Spec => []TypeOK
<1>1. ASSUME IInv PROVE TypeOK
  <2>1. pkg \in Packages /\ result \in Outcomes \cup {"none", "refused"}
    BY <1>1 DEF IInv, Kinds
  <2>2. ASSUME NEW f, TableOf(f, Names, Passable(trace)) PROVE IsRecord(f, Names)
    <3>1. Passable(trace) \in SUBSET Origins(trace)
      BY DEF Passable
    <3>2. TableOf(f, Names, Origins(trace))
      BY <2>2, <3>1, TableStill
    <3> QED
      BY <3>2, TableIsRecord
  <2>3. ASSUME NEW i \in DOMAIN stack
        PROVE  /\ stack[i].node \in Nodes /\ stack[i].hops \in 0..MaxHops
               /\ stack[i].place \in {"node", "steps"}
               /\ IsRecord(stack[i].payload, Names) /\ IsRecord(stack[i].given, Names)
               /\ IsRecord(stack[i].surface, Names)
               /\ \A c \in DOMAIN stack[i].results : IsRecord(stack[i].results[c], Names)
               /\ \A s \in DOMAIN stack[i].steps :
                     IsRecord(stack[i].steps[s], Names \cup {Raw(name) : name \in Names})
    <3>1. Placed(stack[i]) /\ FrameValues(trace, stack[i])
      BY <1>1 DEF IInv, StackInv, Standing, ValueInv
    <3>2. \A s \in DOMAIN stack[i].steps : IsRecord(stack[i].steps[s], StepNames)
      BY <3>1, TableIsRecord DEF FrameValues
    <3> QED
      BY <2>2, <3>1, <3>2 DEF Placed, FrameValues, StepNames
  <2> QED
    BY <2>1, <2>3 DEF TypeOK
<1> QED
  BY <1>1, Invariance, PTL

\* memory.ExecutionContext and dispatcher.execute_cc: whatever the packages, and
\* however often a contract is come to again, also inside a workflow that one of
\* its own steps runs, contracts and steps are given what the latest events of
\* their own workflow and visit say, and end with it.
THEOREM AlwaysAccountedFor == Spec => []AccountedFor
<1>1. IInv => AccountedFor
  BY DEF IInv, EventInv
<1> QED
  BY <1>1, Invariance, PTL

\* dispatcher._apply_outputs: nothing a failed step made is shown by a contract or
\* given to one, however many bindings, lists and workflows it would have to
\* pass, unless a later step of its own contract takes it by name.
THEOREM NothingEverOfARefusal == Spec => []NothingOfARefusal
<1>1. IInv => NothingOfARefusal
  BY DEF IInv, EventInv
<1> QED
  BY <1>1, Invariance, PTL
=============================================================================
