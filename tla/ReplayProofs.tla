---------------------------- MODULE ReplayProofs ----------------------------
(***************************************************************************)
(* A replay agrees with its original: for any runs, streams and answers.   *)
(*                                                                         *)
(* There is one state, and the two executions are one after the other.     *)
(* What the original did is kept as the list of the views it went through, *)
(* each of which leads to the next with the answer that was remembered for *)
(* its atom; the replay stands at one of them.  If no two answers share a  *)
(* key, a view leads to one view only, and the results read from the trace *)
(* lead to the same one.                                                   *)
(***************************************************************************)
EXTENDS ConformanceProofs

\* What of a state an execution goes on from, and of its trace what a replay has
\* in common with it.
Place(where, value, streams, end, events) ==
    [at |-> where, carried |-> value, stack |-> streams, done |-> end, trace |-> events]
View == Place(at, carried, stack, done, Reproduced(trace))
Begin == Place([contract |-> 1, step |-> 0], Payload, <<>>, "no", <<>>)

\* An event as it determines, and what of it is reproduced.
Kept(e) == IF e.type = "CT_STEP" THEN [e EXCEPT !.replayed = "no"] ELSE e
Plain(e) ==
    IF Kept(e).type = "ERROR" THEN [Kept(e) EXCEPT !.reason = Reasoned(@)] ELSE Kept(e)

-----------------------------------------------------------------------------
(***************************************************************************)
(* The step an execution takes from a view v of the run r.                 *)
(***************************************************************************)
TopAt(v) == Last(v.stack)
StepAt(v) == StepOf(TopAt(v))
ContractAt(r, v) == r[v.at.contract]
TransformAt(r, v) == ContractAt(r, v).pipeline[v.at.step]
EventAt(r, v, type, what) == [type |-> type, cc |-> ContractAt(r, v).cc, what |-> what]
ErrorAt(r, v, reason) == [type |-> "ERROR", cc |-> ContractAt(r, v).cc, reason |-> reason]

ReachedAt(f) ==
    {<<"inputs", i>> : i \in DOMAIN f.inputs} \cup {<<"results", s>> : s \in DOMAIN f.vars}
    \cup IF f.loop = None THEN {}
         ELSE {<<"iterator">>} \cup (IF f.loop.accumulator = None THEN {} ELSE {<<"accumulator">>})
ReachAt(f, ref) ==
    CASE ref[1] = "inputs" -> f.inputs[ref[2]]
      [] ref[1] = "results" -> f.vars[ref[2]]
      [] ref[1] = "iterator" -> f.loop.items[f.loop.n + 1]
      [] ref[1] = "accumulator" -> f.loop.accumulator
ResolvableAt(f) == \A i \in DOMAIN StepOf(f).args : StepOf(f).args[i] \in ReachedAt(f)
GivenAt(f) == [i \in DOMAIN StepOf(f).args |-> ReachAt(f, StepOf(f).args[i])]
PathAt(f) == Append(f.prefix, IF StepOf(f).out # None THEN <<StepOf(f).out>> ELSE <<f.idx>>)
RoundPathAt(f) ==
    Append(f.prefix, (IF StepOf(f).out # None THEN <<StepOf(f).out>> ELSE <<f.idx>>) \o <<f.loop.n>>)
KeyAt(r, v) == <<ContractAt(r, v).cc, TransformAt(r, v), PathAt(TopAt(v))>>
MissingAt(f) ==
    Unresolved(StepOf(f).args[Min({i \in DOMAIN StepOf(f).args : StepOf(f).args[i] \notin ReachedAt(f)})])
RaisedAt(f) == <<"raised", StepOf(f).name, GivenAt(f)>>
CollectionAt(f) == IF StepOf(f).over = None THEN <<>> ELSE Members[ReachAt(f, StepOf(f).over)]
OnwardAt(f, x) == [f EXCEPT !.vars = Set(f, StepOf(f).out, x), !.idx = @ + 1]

\* The frames a loop begins and ends with.
LoopBegun(f) ==
    [f EXCEPT !.loop =
        [items |-> CollectionAt(f), n |-> 0, last |-> None,
         accumulator |-> IF StepOf(f).start = None THEN None ELSE ReachAt(f, StepOf(f).start)]]
LoopEnded(f) ==
    [f EXCEPT !.vars = IF f.loop.last = None THEN @ ELSE Set(f, StepOf(f).out, f.loop.last),
              !.idx = @ + 1, !.loop = None]

RecordAt(r, v, x) ==
    [type |-> "CT_STEP", cc |-> ContractAt(r, v).cc, ct |-> TransformAt(r, v),
     path |-> PathAt(TopAt(v)), atom |-> StepAt(v).name, purity |-> StepAt(v).purity,
     what |-> IF StepAt(v).purity = "ct_impure" THEN Written(x) ELSE None, replayed |-> "no"]

RefusesAt(r, v) ==
    Place(v.at, v.carried, <<>>, "VIOLATION", Append(v.trace, EventAt(r, v, "CC_STEP", "VIOLATION")))
FaultsAt(r, v, reason) ==
    Place(v.at, v.carried, <<>>, "raised", Append(v.trace, ErrorAt(r, v, reason)))
WithStack(v, streams) == Place(v.at, v.carried, streams, v.done, v.trace)
WithTop(v, f) == WithStack(v, Front(v.stack) \o <<f>>)
Inside(v, f) == WithStack(v, Append(v.stack, f))

\* At an atom, and at an atom in a loop, which answers x.
AtAtom(v) ==
    /\ v.stack # <<>> /\ AtStepOf(TopAt(v))
    /\ StepAt(v).form = "atom"
AtLoopAtom(v) ==
    /\ v.stack # <<>> /\ AtStepOf(TopAt(v))
    /\ StepAt(v).form = "loop"
    /\ TopAt(v).loop # None /\ TopAt(v).loop.n < Len(TopAt(v).loop.items)

\* The reason of a failure that is not the answer of an atom that draws.
ReasonAt(f) == IF ResolvableAt(f) THEN RaisedAt(f) ELSE MissingAt(f)

AtomGoes(r, v, x) ==
    IF x = "refusal" THEN RefusesAt(r, v)
    ELSE IF x = "fault"
    THEN FaultsAt(r, v, IF StepAt(v).purity = "ct_impure" THEN None ELSE ReasonAt(TopAt(v)))
    ELSE Place(v.at, v.carried, Front(v.stack) \o <<OnwardAt(TopAt(v), x)>>, v.done,
               Append(v.trace, RecordAt(r, v, x)))
RoundGoes(r, v, x) ==
    IF x = "refusal" THEN RefusesAt(r, v)
    ELSE IF x = "fault"
    THEN FaultsAt(r, v, IF StepAt(v).purity = "ct_impure" /\ ResolvableAt(TopAt(v)) THEN None
                        ELSE ReasonAt(TopAt(v)))
    ELSE WithTop(v, NextRound(TopAt(v), x))

\* Between transforms; at the end of a stream; at the other steps.
BetweenGoes(r, v) ==
    IF v.at.contract <= Len(r)
    THEN IF v.at.step = 0
         THEN Place([contract |-> v.at.contract, step |-> 1], v.carried, v.stack, v.done,
                    Append(v.trace, EventAt(r, v, "CC_START", Written(v.carried))))
         ELSE IF v.at.step \in DOMAIN ContractAt(r, v).pipeline
         THEN WithStack(v, <<Frame(TransformAt(r, v), <<>>, <<v.carried>>)>>)
         ELSE Place([contract |-> v.at.contract + 1, step |-> 0], v.carried, v.stack, v.done, v.trace)
    ELSE Place(v.at, v.carried, v.stack, "SUCCESS", v.trace)

OutputAt(f) == f.vars[Emits[f.stream]]
ResumedBy(caller, x) ==
    IF StepOf(caller).form = "each" THEN NextRound(caller, x)
    ELSE [caller EXCEPT !.vars = Set(caller, StepOf(caller).out, x), !.idx = @ + 1]
EndGoes(r, v) ==
    LET f == TopAt(v)
    IN  IF Emits[f.stream] \notin DOMAIN f.vars THEN FaultsAt(r, v, <<"unproduced", Emits[f.stream]>>)
        ELSE IF Len(v.stack) > 1
        THEN WithStack(v, Front(Front(v.stack))
                          \o <<ResumedBy(v.stack[Len(v.stack) - 1], OutputAt(f))>>)
        ELSE Place([contract |-> v.at.contract, step |-> v.at.step + 1], OutputAt(f), <<>>, v.done,
                   Append(v.trace, EventAt(r, v, "CC_STEP", "SUCCESS")))

BeginGoes(r, v) ==
    LET f == TopAt(v)
        optional == ReachedAt(f) \cup {None}
    IN  IF StepOf(f).over \notin optional THEN FaultsAt(r, v, Unresolved(StepOf(f).over))
        ELSE IF CollectionAt(f) = None THEN RefusesAt(r, v)
        ELSE IF StepOf(f).start \notin optional THEN FaultsAt(r, v, Unresolved(StepOf(f).start))
        ELSE WithTop(v, LoopBegun(f))

EnterGoes(r, v, path) ==
    IF ~ResolvableAt(TopAt(v)) THEN FaultsAt(r, v, MissingAt(TopAt(v)))
    ELSE Inside(v, Frame(StepAt(v).name, path, GivenAt(TopAt(v))))

StepGoes(r, v) ==
    IF StepAt(v).form = "molecule" THEN EnterGoes(r, v, PathAt(TopAt(v)))
    ELSE IF TopAt(v).loop = None THEN BeginGoes(r, v)
    ELSE IF TopAt(v).loop.n < Len(TopAt(v).loop.items) THEN EnterGoes(r, v, RoundPathAt(TopAt(v)))
    ELSE WithTop(v, LoopEnded(TopAt(v)))

Goes(r, v, x) ==
    IF AtAtom(v) THEN AtomGoes(r, v, x)
    ELSE IF AtLoopAtom(v) THEN RoundGoes(r, v, x)
    ELSE IF v.stack = <<>> THEN BetweenGoes(r, v)
    ELSE IF ~AtStepOf(TopAt(v)) THEN EndGoes(r, v)
    ELSE StepGoes(r, v)

\* The answer of its atom: that of its inputs, or the one d remembers.
ForcedAt(f) == IF ResolvableAt(f) THEN Answer(StepOf(f).name, GivenAt(f)) ELSE "fault"
Heard(r, d, v, x) ==
    /\ AtAtom(v) =>
          IF StepAt(v).purity = "ct_impure"
          THEN \E i \in DOMAIN d : d[i].key = KeyAt(r, v) /\ d[i].answer = x
          ELSE x = ForcedAt(TopAt(v))
    /\ AtLoopAtom(v) =>
          IF StepAt(v).purity = "ct_impure" /\ ResolvableAt(TopAt(v))
          THEN \E i \in DOMAIN d : d[i].key[3] = None
          ELSE x = ForcedAt(TopAt(v))
Leads(r, d, v, w) == v.done = "no" /\ \E x : Heard(r, d, v, x) /\ w = Goes(r, v, x)

-----------------------------------------------------------------------------
(***************************************************************************)
(* The view of a state.                                                    *)
(***************************************************************************)
LEMMA Viewed ==
  /\ View.at = at /\ View.carried = carried /\ View.stack = stack /\ View.done = done
  /\ View.trace = Reproduced(trace)
BY DEF View, Place

LEMMA Mirrored ==
  /\ TopAt(View) = Top /\ StepOf(Top) = Step /\ StepAt(View) = Step
  /\ ContractAt(run, View) = Contract /\ TransformAt(run, View) = Transform
  /\ \A type, what : EventAt(run, View, type, what) = Event(type, what)
  /\ \A reason : ErrorAt(run, View, reason) = Error(reason)
  /\ AtStepOf(Top) <=> Top.idx <= Len(Body[Top.stream])
<1>1. TopAt(View) = Top
  BY Viewed DEF TopAt, Top
<1>2. StepOf(Top) = Step
  BY DEF StepOf, Step
<1>3. StepAt(View) = Step
  BY <1>1, <1>2 DEF StepAt
<1>4. ContractAt(run, View) = Contract
  BY Viewed DEF ContractAt, Contract
<1>5. TransformAt(run, View) = Transform
  BY <1>4, Viewed DEF TransformAt, Transform
<1>6. \A type, what : EventAt(run, View, type, what) = Event(type, what)
  BY <1>4 DEF EventAt, Event
<1>8. \A reason : ErrorAt(run, View, reason) = Error(reason)
  BY <1>4 DEF ErrorAt, Error
<1>7. AtStepOf(Top) <=> Top.idx <= Len(Body[Top.stream])
  BY DEF AtStepOf
<1> QED
  BY <1>1, <1>2, <1>3, <1>4, <1>5, <1>6, <1>7, <1>8

LEMMA Reaches ==
  /\ ReachedAt(Top) = Reached
  /\ \A ref : ReachAt(Top, ref) = Reach(ref)
  /\ ResolvableAt(Top) <=> Resolvable
  /\ GivenAt(Top) = Given
  /\ PathAt(Top) = Path /\ RoundPathAt(Top) = RoundPath
  /\ KeyAt(run, View) = Key(Path)
  /\ CollectionAt(Top) = Collection
  /\ MissingAt(Top) = Unresolved(FirstMissing) /\ RaisedAt(Top) = Raised
<1>1. ReachedAt(Top) = Reached
  BY DEF ReachedAt, Reached
<1>2. \A ref : ReachAt(Top, ref) = Reach(ref)
  BY DEF ReachAt, Reach
<1>3. StepOf(Top) = Step
  BY Mirrored
<1>4. ResolvableAt(Top) <=> Resolvable
  BY <1>1, <1>3 DEF ResolvableAt, Resolvable
<1>5. GivenAt(Top) = Given
  BY <1>2, <1>3 DEF GivenAt, Given
<1>6. PathAt(Top) = Path
  BY <1>3 DEF PathAt, Path, Symbol
<1>7. RoundPathAt(Top) = RoundPath
  BY <1>3 DEF RoundPathAt, RoundPath, Symbol
<1>8. KeyAt(run, View) = Key(Path)
  BY <1>6, Mirrored DEF KeyAt, Key
<1>9. CollectionAt(Top) = Collection
  BY <1>2, <1>3 DEF CollectionAt, Collection
<1>10. MissingAt(Top) = Unresolved(FirstMissing)
  BY <1>1, <1>3 DEF MissingAt, FirstMissing
<1>11. RaisedAt(Top) = Raised
  BY <1>3, <1>5 DEF RaisedAt, Raised
<1> QED
  BY <1>1, <1>2, <1>4, <1>5, <1>6, <1>7, <1>8, <1>9, <1>10, <1>11

\* What is reproduced of a trace grows by what is reproduced of the event.
LEMMA TraceGrows ==
  ASSUME NEW t, IsList(t)
  PROVE  /\ IsList(Reproduced(t)) /\ Len(Reproduced(t)) = Len(t)
         /\ DOMAIN Reproduced(t) = DOMAIN t
         /\ \A i \in DOMAIN t : Reproduced(t)[i] = Plain(t[i])
         /\ \A e : Reproduced(Append(t, e)) = Append(Reproduced(t), Plain(e))
<1> DEFINE p == Reproduced(t)
<1>1. Len(t) \in Nat /\ DOMAIN t = 1..Len(t)
  BY ListFacts
<1>2. p = [i \in 1..Len(t) |-> Plain(t[i])]
  <2> DEFINE kept == Determinative(t)
  <2>1. kept = [i \in 1..Len(t) |-> Kept(t[i])]
    BY <1>1 DEF Determinative, Kept
  <2>2. p = [i \in DOMAIN kept |->
                IF kept[i].type = "ERROR" THEN [kept[i] EXCEPT !.reason = Reasoned(@)] ELSE kept[i]]
    BY DEF Reproduced
  <2> HIDE DEF kept, p
  <2> QED
    BY <2>1, <2>2 DEF Plain
<1>3. IsList(p) /\ Len(p) = Len(t) /\ DOMAIN p = DOMAIN t /\ \A i \in DOMAIN t : p[i] = Plain(t[i])
  <2>1. DOMAIN p = 1..Len(t) /\ \A i \in 1..Len(t) : p[i] = Plain(t[i])
    BY <1>2
  <2>2. \A i \in 1..Len(t) : p[i] \in {p[j] : j \in DOMAIN p}
    BY <2>1
  <2> DEFINE S == {p[j] : j \in DOMAIN p}
  <2>3. p = [i \in 1..Len(t) |-> p[i]] /\ \A i \in 1..Len(t) : p[i] \in S
    BY <1>2, <2>1, <2>2
  <2> HIDE DEF p, S
  <2>4. p \in Seq(S) /\ Len(p) = Len(t)
    BY <1>1, <2>3, IsASeq, LenProperties
  <2> QED
    BY <1>1, <2>1, <2>4 DEF IsList, S
<1>4. ASSUME NEW e
      PROVE  Reproduced(Append(t, e)) = Append(p, Plain(e))
  <2> DEFINE q == Append(t, e)
             d == Reproduced(q)
             n == Append(p, Plain(e))
  <2>1. /\ IsList(q) /\ Len(q) = Len(t) + 1 /\ DOMAIN q = 1..(Len(t) + 1)
        /\ \A i \in 1..Len(t) : q[i] = t[i]
        /\ q[Len(t) + 1] = e
    BY ListAppend
  <2>2. /\ IsList(n) /\ Len(n) = Len(p) + 1 /\ DOMAIN n = 1..(Len(p) + 1)
        /\ \A i \in 1..Len(p) : n[i] = p[i]
        /\ n[Len(p) + 1] = Plain(e)
    <3> HIDE DEF p
    <3> QED
      BY <1>3, ListAppend
  <2> HIDE DEF q
  <2>3. d = [i \in DOMAIN q |-> Plain(q[i])]
    <3> DEFINE kept == Determinative(q)
    <3>1. kept = [i \in DOMAIN q |-> Kept(q[i])]
      BY DEF Determinative, Kept
    <3>2. d = [i \in DOMAIN kept |->
                  IF kept[i].type = "ERROR" THEN [kept[i] EXCEPT !.reason = Reasoned(@)] ELSE kept[i]]
      BY DEF Reproduced
    <3> HIDE DEF kept, d
    <3> QED
      BY <3>1, <3>2 DEF Plain
  <2> HIDE DEF p, n, d
  <2>4. \A i \in 1..(Len(t) + 1) : d[i] = n[i]
    BY <1>1, <1>3, <2>1, <2>2, <2>3
  <2>5. n = [i \in 1..(Len(t) + 1) |-> n[i]]
    <3>1. n \in Seq({n[i] : i \in DOMAIN n})
      BY <2>2 DEF IsList
    <3> QED
      BY <1>3, <2>2, <3>1, LenProperties
  <2>6. d = n
    BY <2>1, <2>3, <2>4, <2>5
  <2> QED
    BY <2>6 DEF d, n, q, p
<1> QED
  BY <1>3, <1>4

-----------------------------------------------------------------------------
(***************************************************************************)
(* Every step of an execution is the one its view leads to.                *)
(***************************************************************************)
\* What a step does to the state, told by the view of the next one.
LEMMA NextView ==
  ASSUME IsList(trace), NEW where, NEW value, NEW streams, NEW end,
         at' = where, carried' = value, stack' = streams, done' = end
  PROVE  /\ trace' = trace => View' = Place(where, value, streams, end, View.trace)
         /\ \A e : trace' = Append(trace, e) =>
               View' = Place(where, value, streams, end, Append(View.trace, Plain(e)))
<1>1. View' = Place(where, value, streams, end, Reproduced(trace'))
  BY DEF View
<1>2. trace' = trace => Reproduced(trace') = View.trace
  BY Viewed
<1>3. ASSUME NEW e, trace' = Append(trace, e)
      PROVE  Reproduced(trace') = Append(View.trace, Plain(e))
  BY <1>3, TraceGrows, Viewed
<1> HIDE DEF View, Place
<1> QED
  BY <1>1, <1>2, <1>3

LEMMA PlainEvents ==
  /\ \A type, what : type \notin {"CT_STEP", "ERROR"} =>
        Plain(Event(type, what)) = EventAt(run, View, type, what)
  /\ \A reason : Plain(Error(reason)) = ErrorAt(run, View, Reasoned(reason))
<1>1. ASSUME NEW type, NEW what, type \notin {"CT_STEP", "ERROR"}
      PROVE  Plain(Event(type, what)) = EventAt(run, View, type, what)
  <2>1. Event(type, what).type = type
    BY DEF Event
  <2> QED
    BY <1>1, <2>1, Mirrored DEF Plain, Kept
<1>2. ASSUME NEW reason
      PROVE  Plain(Error(reason)) = ErrorAt(run, View, Reasoned(reason))
  <2>1. Kept(Error(reason)) = Error(reason) /\ Error(reason).type = "ERROR"
    BY DEF Kept, Error
  <2>2. [Error(reason) EXCEPT !.reason = Reasoned(@)] = Error(Reasoned(reason))
    BY DEF Error
  <2> QED
    BY <2>1, <2>2, Mirrored DEF Plain
<1> QED
  BY <1>1, <1>2

\* What is reproduced of each reason.
LEMMA Reasons ==
  /\ \A ref : Reasoned(Unresolved(ref)) = Unresolved(ref)
  /\ Reasoned(Raised) = Raised /\ Reasoned(Unproduced) = Unproduced
  /\ \A key : Reasoned(<<"unrecorded", key>>) = None
  /\ Impure => \A reason : Reasoned(Failing(reason)) = None
  /\ ~Impure => \A reason : Failing(reason) = reason
<1>1. \A ref : Unresolved(ref)[1] = "unresolved"
  BY DEF Unresolved
<1>2. Raised[1] = "raised" /\ Unproduced[1] = "unproduced"
  BY DEF Raised, Unproduced
<1>3. \A key : <<"unrecorded", key>>[1] = "unrecorded" /\ <<"drawing", key>>[1] = "drawing"
  OBVIOUS
<1>4. Impure => \A reason : Failing(reason)[1] = "drawing"
  BY <1>3 DEF Failing
<1>5. ~Impure => \A reason : Failing(reason) = reason
  BY DEF Failing
<1> QED
  BY <1>1, <1>2, <1>3, <1>4, <1>5 DEF Reasoned

LEMMA Ending ==
  ASSUME IsList(trace), phase # "case", at' = at, carried' = carried
  PROVE  /\ Refuse => View' = RefusesAt(run, View)
         /\ \A reason : Fault(reason) => View' = FaultsAt(run, View, Reasoned(reason))
         /\ \A path : Unsupplied(path) => View' = FaultsAt(run, View, None)
<1>1. /\ Plain(Event("CC_STEP", "VIOLATION")) = EventAt(run, View, "CC_STEP", "VIOLATION")
      /\ \A reason : Plain(Error(reason)) = ErrorAt(run, View, Reasoned(reason))
  BY PlainEvents
<1>2. ASSUME Refuse
      PROVE  View' = RefusesAt(run, View)
  <2>1. stack' = <<>> /\ done' = "VIOLATION" /\ trace' = Append(trace, Event("CC_STEP", "VIOLATION"))
    BY <1>2 DEF Refuse, Told
  <2>2. View' = Place(at, carried, <<>>, "VIOLATION", Append(View.trace, Plain(Event("CC_STEP", "VIOLATION"))))
    BY <2>1, NextView
  <2> QED
    BY <1>1, <2>2, Viewed DEF RefusesAt
<1>3. ASSUME NEW reason, Fault(reason)
      PROVE  View' = FaultsAt(run, View, Reasoned(reason))
  <2>1. stack' = <<>> /\ done' = "raised" /\ trace' = Append(trace, Error(reason))
    BY <1>3 DEF Fault, Told
  <2>2. View' = Place(at, carried, <<>>, "raised", Append(View.trace, Plain(Error(reason))))
    BY <2>1, NextView
  <2> QED
    BY <1>1, <2>2, Viewed DEF FaultsAt
<1>4. ASSUME NEW path, Unsupplied(path)
      PROVE  View' = FaultsAt(run, View, None)
  <2>1. Fault(<<"unrecorded", Key(path)>>)
    BY <1>4 DEF Unsupplied
  <2>2. Reasoned(<<"unrecorded", Key(path)>>) = None
    BY Reasons
  <2> QED
    BY <1>3, <2>1, <2>2
<1> QED
  BY <1>2, <1>3, <1>4

LEMMA AtomPlace ==
  ASSUME AtStep, Step.form = "atom"
  PROVE  AtAtom(View) /\ ~AtLoopAtom(View)
BY Mirrored, Viewed DEF AtStep, AtAtom, AtLoopAtom

\* An atom has given a value, or its recorded one stands for it.
LEMMA Answered ==
  ASSUME IsList(trace), at' = at, carried' = carried, done' = done,
         NEW value \in Values, NEW replayed,
         SetTop(Onward(Top, value)), Observe(Path, value, replayed)
  PROVE  View' = AtomGoes(run, View, value)
<1> DEFINE e == Record(Path, value, replayed)
<1>1. Plain(e) = RecordAt(run, View, value)
  <2>1. Plain(e) = Record(Path, value, "no")
    <3>1. Kept(e) = Record(Path, value, "no") /\ Record(Path, value, "no").type = "CT_STEP"
      BY DEF Kept, Record
    <3> QED
      BY <3>1 DEF Plain
  <2>2. Record(Path, value, "no") = RecordAt(run, View, value)
    BY Mirrored, Reaches DEF Record, RecordAt, Impure
  <2> QED
    BY <2>1, <2>2
<1>2. trace' = Append(trace, e) /\ stack' = Front(stack) \o <<Onward(Top, value)>>
  BY DEF Observe, SetTop
<1> HIDE DEF e
<1>3. View' = Place(at, carried, Front(stack) \o <<Onward(Top, value)>>, done, Append(View.trace, Plain(e)))
  BY <1>2, NextView
<1>4. OnwardAt(Top, value) = Onward(Top, value)
  BY Mirrored DEF OnwardAt, Onward
<1>5. value # "refusal" /\ value # "fault"
  BY ReplayAssumption
<1> QED
  BY <1>1, <1>3, <1>4, <1>5, Viewed, Mirrored DEF AtomGoes

LEMMA RunAtomGoes ==
  ASSUME IsList(trace), phase # "case", RunAtom
  PROVE  \E x : /\ AtAtom(View) /\ ~AtLoopAtom(View)
                /\ View' = AtomGoes(run, View, x)
                /\ Ran(Path, x)
                /\ ~Impure => x = ForcedAt(Top)
<1>1. AtAtom(View) /\ ~AtLoopAtom(View) /\ at' = at /\ carried' = carried
  BY AtomPlace DEF RunAtom, Around
<1>2. /\ AtomGoes(run, View, "refusal") = RefusesAt(run, View)
      /\ Impure => AtomGoes(run, View, "fault") = FaultsAt(run, View, None)
      /\ ~Impure /\ ~Resolvable =>
            AtomGoes(run, View, "fault") = FaultsAt(run, View, Unresolved(FirstMissing))
      /\ ~Impure /\ Resolvable => AtomGoes(run, View, "fault") = FaultsAt(run, View, Raised)
  BY Mirrored, Reaches DEF AtomGoes, ReasonAt, Impure
<1>3. CASE ~Resolvable /\ Fault(Failing(Unresolved(FirstMissing))) /\ Ran(Path, "fault")
  <2>1. View' = AtomGoes(run, View, "fault")
    <3>1. View' = FaultsAt(run, View, Reasoned(Failing(Unresolved(FirstMissing))))
      BY <1>1, <1>3, Ending
    <3> QED
      BY <1>2, <1>3, <3>1, Reasons
  <2>2. "fault" = ForcedAt(Top)
    BY <1>3, Reaches DEF ForcedAt
  <2> QED
    BY <1>1, <1>3, <2>1, <2>2
<1>4. ASSUME Resolvable, NEW answer \in Possible, Ran(Path, answer),
             \/ answer = "refusal" /\ Refuse
             \/ answer = "fault" /\ Fault(Failing(Raised))
             \/ answer \in Values /\ SetTop(Onward(Top, answer)) /\ Observe(Path, answer, "no") /\ UNCHANGED done
      PROVE  /\ View' = AtomGoes(run, View, answer)
             /\ ~Impure => answer = ForcedAt(Top)
  <2>1. ~Impure => answer = ForcedAt(Top)
    BY <1>4, Reaches, Mirrored DEF Possible, ForcedAt
  <2>2. CASE answer = "refusal" /\ Refuse
    BY <1>1, <1>2, <2>1, <2>2, Ending
  <2>3. CASE answer = "fault" /\ Fault(Failing(Raised))
    <3>1. View' = FaultsAt(run, View, Reasoned(Failing(Raised)))
      BY <1>1, <2>3, Ending
    <3>2. View' = AtomGoes(run, View, "fault")
      BY <1>2, <1>4, <3>1, Reasons
    <3> QED
      BY <2>1, <2>3, <3>2
  <2>4. CASE answer \in Values /\ SetTop(Onward(Top, answer)) /\ Observe(Path, answer, "no") /\ UNCHANGED done
    BY <1>1, <2>1, <2>4, Answered
  <2> QED
    BY <1>4, <2>2, <2>3, <2>4
<1> QED
  BY <1>1, <1>3, <1>4 DEF RunAtom

LEMMA SubstituteGoes ==
  ASSUME IsList(trace), phase # "case", RecordInv, Substitute
  PROVE  /\ AtAtom(View) /\ ~AtLoopAtom(View) /\ Impure
         /\ View' = AtomGoes(run, View, IF Key(Path) \in DOMAIN recorded[1] THEN recorded[1][Key(Path)]
                                        ELSE "fault")
<1>1. AtAtom(View) /\ ~AtLoopAtom(View) /\ Impure /\ recorded # <<>> /\ at' = at /\ carried' = carried
  BY AtomPlace DEF Substitute, Substituted, Around
<1>2. CASE Key(Path) \notin DOMAIN recorded[1] /\ Unsupplied(Path)
  <2>1. AtomGoes(run, View, "fault") = FaultsAt(run, View, None)
    BY <1>1, Mirrored DEF AtomGoes, Impure
  <2> QED
    BY <1>1, <1>2, <2>1, Ending
<1>3. CASE /\ Key(Path) \in DOMAIN recorded[1]
           /\ SetTop(Onward(Top, recorded[1][Key(Path)]))
           /\ Observe(Path, recorded[1][Key(Path)], "yes")
           /\ UNCHANGED done
  <2>1. recorded[1][Key(Path)] \in Values
    BY <1>1, <1>3 DEF RecordInv
  <2> QED
    BY <1>1, <1>3, <2>1, Answered
<1> QED
  BY <1>2, <1>3 DEF Substitute

LEMMA LoopPlace ==
  ASSUME Round, Step.form = "loop"
  PROVE  AtLoopAtom(View) /\ ~AtAtom(View)
BY Mirrored, Viewed DEF Round, Looping, AtStep, AtAtom, AtLoopAtom

LEMMA LoopAtomGoes ==
  ASSUME IsList(trace), phase # "case", LoopAtom
  PROVE  \E x : /\ AtLoopAtom(View) /\ ~AtAtom(View)
                /\ View' = RoundGoes(run, View, x)
                /\ Resolvable => Ran(None, x)
                /\ ~Resolvable => Unrun
                /\ ~(Impure /\ Resolvable) => x = ForcedAt(Top)
<1>1. AtLoopAtom(View) /\ ~AtAtom(View) /\ at' = at /\ carried' = carried
  BY LoopPlace DEF LoopAtom, Around
<1>2. /\ RoundGoes(run, View, "refusal") = RefusesAt(run, View)
      /\ ~Resolvable => RoundGoes(run, View, "fault") = FaultsAt(run, View, Unresolved(FirstMissing))
      /\ Resolvable /\ Impure => RoundGoes(run, View, "fault") = FaultsAt(run, View, None)
      /\ Resolvable /\ ~Impure => RoundGoes(run, View, "fault") = FaultsAt(run, View, Raised)
  BY Mirrored, Reaches DEF RoundGoes, ReasonAt, Impure
<1>3. CASE ~Resolvable /\ Fault(Unresolved(FirstMissing)) /\ Unrun
  <2>1. View' = RoundGoes(run, View, "fault")
    <3>1. View' = FaultsAt(run, View, Reasoned(Unresolved(FirstMissing)))
      BY <1>1, <1>3, Ending
    <3> QED
      BY <1>2, <1>3, <3>1, Reasons
  <2>2. "fault" = ForcedAt(Top)
    BY <1>3, Reaches DEF ForcedAt
  <2> QED
    BY <1>1, <1>3, <2>1, <2>2
<1>4. ASSUME Resolvable, NEW answer \in Possible, Ran(None, answer),
             \/ answer = "refusal" /\ Refuse
             \/ answer = "fault" /\ Fault(Failing(Raised))
             \/ answer \in Values /\ SetTop(NextRound(Top, answer)) /\ UNCHANGED <<trace, done>>
      PROVE  /\ View' = RoundGoes(run, View, answer)
             /\ ~Impure => answer = ForcedAt(Top)
  <2>1. ~Impure => answer = ForcedAt(Top)
    BY <1>4, Reaches, Mirrored DEF Possible, ForcedAt
  <2>2. CASE answer = "refusal" /\ Refuse
    BY <1>1, <1>2, <2>1, <2>2, Ending
  <2>3. CASE answer = "fault" /\ Fault(Failing(Raised))
    <3>1. View' = FaultsAt(run, View, Reasoned(Failing(Raised)))
      BY <1>1, <2>3, Ending
    <3>2. View' = RoundGoes(run, View, "fault")
      BY <1>2, <1>4, <3>1, Reasons
    <3> QED
      BY <2>1, <2>3, <3>2
  <2>4. CASE answer \in Values /\ SetTop(NextRound(Top, answer)) /\ UNCHANGED <<trace, done>>
    <3>1. stack' = Front(stack) \o <<NextRound(Top, answer)>> /\ trace' = trace /\ done' = done
      BY <2>4 DEF SetTop
    <3>2. View' = Place(at, carried, Front(stack) \o <<NextRound(Top, answer)>>, done, View.trace)
      BY <1>1, <3>1, NextView
    <3>3. answer # "refusal" /\ answer # "fault"
      BY <2>4, ReplayAssumption
    <3>4. View' = RoundGoes(run, View, answer)
      BY <3>2, <3>3, Viewed, Mirrored DEF RoundGoes, WithTop, WithStack
    <3> QED
      BY <2>1, <3>4
  <2> QED
    BY <1>4, <2>2, <2>3, <2>4
<1> QED
  BY <1>1, <1>3, <1>4 DEF LoopAtom

-----------------------------------------------------------------------------
(***************************************************************************)
(* The steps that run no atom.                                             *)
(***************************************************************************)
Mute == ~AtAtom(View) /\ ~AtLoopAtom(View)

LEMMA IdleGoes ==
  ASSUME IsList(trace), phase # "case", PlaceInv,
         StartContract \/ EndContract \/ EndRun \/ StartTransform
  PROVE  Mute /\ \A x : View' = Goes(run, View, x)
<1>1. stack = <<>> /\ Mute
  <2>1. stack = <<>>
    BY DEF StartContract, EndContract, EndRun, StartTransform
  <2> QED
    BY <2>1, Viewed DEF Mute, AtAtom, AtLoopAtom
<1>2. \A x : Goes(run, View, x) = BetweenGoes(run, View)
  BY <1>1, Viewed DEF Goes, Mute
<1>3. Len(run) \in Nat /\ at \in [contract : Nat \ {0}, step : Nat]
  BY DEF PlaceInv, IsSequence
<1>4. CASE StartContract
  <2>1. /\ at.contract <= Len(run) /\ at.step = 0
        /\ at' = [contract |-> at.contract, step |-> 1] /\ carried' = carried /\ stack' = stack /\ done' = done
        /\ trace' = Append(trace, Event("CC_START", Written(carried)))
    BY <1>3, <1>4 DEF StartContract
  <2>2. View' = Place([contract |-> at.contract, step |-> 1], carried, stack, done,
                      Append(View.trace, Plain(Event("CC_START", Written(carried)))))
    BY <2>1, NextView
  <2>3. Plain(Event("CC_START", Written(carried))) = EventAt(run, View, "CC_START", Written(carried))
    BY PlainEvents
  <2>4. View' = BetweenGoes(run, View)
    BY <2>1, <2>2, <2>3, Viewed DEF BetweenGoes
  <2> QED
    BY <1>1, <1>2, <2>4
<1>5. CASE EndContract
  <2>1. /\ at.contract <= Len(run) /\ at.step = Len(Contract.pipeline) + 1
        /\ at' = [contract |-> at.contract + 1, step |-> 0] /\ carried' = carried /\ stack' = stack /\ done' = done
        /\ trace' = trace
    BY <1>5 DEF EndContract
  <2>2. View' = Place([contract |-> at.contract + 1, step |-> 0], carried, stack, done, View.trace)
    BY <2>1, NextView
  <2>3. at.step # 0 /\ at.step \notin DOMAIN Contract.pipeline
    <3>1. Contract.pipeline \in Seq(Transforms)
      BY <1>3, <2>1 DEF PlaceInv, IsSequence, Contract
    <3> QED
      BY <2>1, <3>1, LenProperties
  <2>4. View' = BetweenGoes(run, View)
    BY <2>1, <2>2, <2>3, Viewed, Mirrored DEF BetweenGoes
  <2> QED
    BY <1>1, <1>2, <2>4
<1>6. CASE EndRun
  <2>1. /\ at.contract = Len(run) + 1 /\ at' = at /\ carried' = carried /\ stack' = stack
        /\ done' = "SUCCESS" /\ trace' = trace
    BY <1>6 DEF EndRun
  <2>2. View' = Place(at, carried, stack, "SUCCESS", View.trace)
    BY <2>1, NextView
  <2>3. View' = BetweenGoes(run, View)
    BY <1>3, <2>1, <2>2, Viewed DEF BetweenGoes
  <2> QED
    BY <1>1, <1>2, <2>3
<1>7. CASE StartTransform
  <2>1. /\ at.contract <= Len(run) /\ at.step \in DOMAIN Contract.pipeline
        /\ at' = at /\ carried' = carried /\ done' = done /\ trace' = trace
        /\ stack' = <<Frame(Transform, <<>>, <<carried>>)>>
    BY <1>7 DEF StartTransform
  <2>2. View' = Place(at, carried, <<Frame(Transform, <<>>, <<carried>>)>>, done, View.trace)
    BY <2>1, NextView
  <2>3. at.step # 0
    <3>1. Contract.pipeline \in Seq(Transforms)
      BY <1>3, <2>1 DEF PlaceInv, IsSequence, Contract
    <3> QED
      BY <2>1, <3>1, LenProperties
  <2>4. View' = BetweenGoes(run, View)
    BY <2>1, <2>2, <2>3, Viewed, Mirrored DEF BetweenGoes, WithStack
  <2> QED
    BY <1>1, <1>2, <2>4
<1> QED
  BY <1>4, <1>5, <1>6, <1>7

LEMMA EmitGoes ==
  ASSUME IsList(trace), phase # "case", StackInv, PlaceInv, EmitMolecule \/ EndTransform
  PROVE  Mute /\ \A x : View' = Goes(run, View, x)
<1>1. AtEnd /\ stack # <<>> /\ Top.idx = Len(Body[Top.stream]) + 1
  BY DEF EmitMolecule, EndTransform, AtEnd
<1>2. ~AtStepOf(Top)
  <2>1. Len(Body[Top.stream]) \in Nat
    BY <1>1, TopFacts, ReplayAssumption DEF Frames, Streams, IsSequence
  <2> QED
    BY <1>1, <2>1 DEF AtStepOf
<1>3. Mute
  BY <1>2, Mirrored DEF Mute, AtAtom, AtLoopAtom
<1>4. \A x : Goes(run, View, x) = EndGoes(run, View)
  BY <1>1, <1>2, <1>3, Viewed, Mirrored DEF Goes, Mute
<1>5. CASE ~Produced /\ Fault(Unproduced) /\ UNCHANGED <<at, carried>>
  <2>1. View' = FaultsAt(run, View, Unproduced)
    BY <1>5, Ending, Reasons
  <2>2. EndGoes(run, View) = FaultsAt(run, View, Unproduced)
    BY <1>5, Mirrored DEF EndGoes, Produced, Unproduced
  <2> QED
    BY <1>3, <1>4, <2>1, <2>2
<1>6. CASE EmitMolecule /\ Produced
  <2> DEFINE caller == stack[Len(stack) - 1]
             step == Body[caller.stream][caller.idx]
             resumed == IF step.form = "each" THEN NextRound(caller, Output)
                        ELSE [caller EXCEPT !.vars = Set(caller, step.out, Output), !.idx = @ + 1]
  <2>1. /\ stack' = Front(Front(stack)) \o <<resumed>> /\ trace' = trace /\ done' = done
        /\ at' = at /\ carried' = carried /\ Len(stack) > 1
    BY <1>6 DEF EmitMolecule, Around
  <2>2. resumed = ResumedBy(caller, Output)
    BY DEF ResumedBy, StepOf
  <2> HIDE DEF caller, resumed
  <2>3. View' = Place(at, carried, Front(Front(stack)) \o <<resumed>>, done, View.trace)
    BY <2>1, NextView
  <2>4. Output = OutputAt(Top)
    BY DEF Output, OutputAt
  <2>5. View' = EndGoes(run, View)
    BY <1>6, <2>1, <2>2, <2>3, <2>4, Viewed, Mirrored DEF EndGoes, WithStack, Produced, caller
  <2> QED
    BY <1>3, <1>4, <2>5
<1>7. CASE EndTransform /\ Produced
  <2>0. [at EXCEPT !.step = @ + 1] = [contract |-> at.contract, step |-> at.step + 1]
    BY DEF PlaceInv
  <2>1. /\ trace' = Append(trace, Event("CC_STEP", "SUCCESS"))
        /\ stack' = <<>> /\ carried' = Output /\ done' = done
        /\ at' = [contract |-> at.contract, step |-> at.step + 1]
        /\ Len(stack) = 1
    BY <1>7, <2>0 DEF EndTransform
  <2>2. View' = Place([contract |-> at.contract, step |-> at.step + 1], Output, <<>>, done,
                      Append(View.trace, Plain(Event("CC_STEP", "SUCCESS"))))
    BY <2>1, NextView
  <2>3. Plain(Event("CC_STEP", "SUCCESS")) = EventAt(run, View, "CC_STEP", "SUCCESS")
    BY PlainEvents
  <2>4. Output = OutputAt(Top) /\ TopAt(View) = Top /\ Emits[Top.stream] \in DOMAIN Top.vars
        /\ ~(Len(stack) > 1)
    BY <1>7, <2>1, Mirrored DEF Output, OutputAt, Produced
  <2>5. EndGoes(run, View) =
           Place([contract |-> View.at.contract, step |-> View.at.step + 1], OutputAt(Top), <<>>, View.done,
                 Append(View.trace, EventAt(run, View, "CC_STEP", "SUCCESS")))
    BY <2>4, Viewed DEF EndGoes
  <2>6. View' = EndGoes(run, View)
    <3> HIDE DEF Place
    <3> QED
      BY <2>2, <2>3, <2>4, <2>5, Viewed
  <2> QED
    BY <1>3, <1>4, <2>6
<1> QED
  <2>1. EmitMolecule /\ ~Produced => Fault(Unproduced) /\ UNCHANGED <<at, carried>>
    BY DEF EmitMolecule, Around
  <2>2. EndTransform /\ ~Produced => Fault(Unproduced) /\ UNCHANGED <<at, carried>>
    BY DEF EndTransform
  <2> QED
    BY <1>5, <1>6, <1>7, <2>1, <2>2

LEMMA StepPlace ==
  ASSUME StackInv, AtStep, Step.form # "atom", ~(Round /\ Step.form = "loop")
  PROVE  Mute /\ \A x : Goes(run, View, x) = StepGoes(run, View)
<1>1. stack # <<>> /\ AtStepOf(Top) /\ Step.form \in {"molecule", "loop", "each"}
  <2>1. IsStep(Step)
    BY AtStepFacts
  <2> QED
    BY <2>1, Mirrored DEF AtStep, IsStep
<1>2. Mute
  BY <1>1, Viewed, Mirrored DEF Mute, AtAtom, AtLoopAtom, Round, Looping
<1> QED
  BY <1>1, <1>2, Viewed, Mirrored DEF Goes, Mute

\* A molecule is entered, or a round of one.
LEMMA Entering ==
  ASSUME IsList(trace), phase # "case", at' = at, carried' = carried, NEW path,
         \/ ~Resolvable /\ Fault(Unresolved(FirstMissing))
         \/ /\ Resolvable
            /\ stack' = Append(stack, Frame(Step.name, path, Given))
            /\ UNCHANGED <<trace, done>>
  PROVE  View' = EnterGoes(run, View, path)
<1>1. CASE ~Resolvable /\ Fault(Unresolved(FirstMissing))
  <2>1. View' = FaultsAt(run, View, Unresolved(FirstMissing))
    BY <1>1, Ending, Reasons
  <2> QED
    BY <1>1, <2>1, Mirrored, Reaches DEF EnterGoes
<1>2. CASE Resolvable /\ stack' = Append(stack, Frame(Step.name, path, Given)) /\ UNCHANGED <<trace, done>>
  <2>1. View' = Place(at, carried, Append(stack, Frame(Step.name, path, Given)), done, View.trace)
    BY <1>2, NextView
  <2> HIDE DEF Place, Frame
  <2> QED
    BY <1>2, <2>1, Viewed, Mirrored, Reaches DEF EnterGoes, Inside, WithStack
<1> QED
  BY <1>1, <1>2

LEMMA EnterMoleculeGoes ==
  ASSUME IsList(trace), phase # "case", StackInv, EnterMolecule \/ LoopMolecule
  PROVE  Mute /\ \A x : View' = Goes(run, View, x)
<1>1. AtStep /\ at' = at /\ carried' = carried
  BY DEF EnterMolecule, LoopMolecule, Round, Looping, Around
<1>2. CASE EnterMolecule
  <2>1. Step.form = "molecule"
    BY <1>2 DEF EnterMolecule
  <2>2. View' = EnterGoes(run, View, Path)
    BY <1>1, <1>2, Entering DEF EnterMolecule
  <2>3. StepGoes(run, View) = EnterGoes(run, View, Path)
    BY <2>1, Mirrored, Reaches DEF StepGoes
  <2> QED
    BY <1>1, <2>1, <2>2, <2>3, StepPlace
<1>3. CASE LoopMolecule
  <2>1. Step.form = "each" /\ Top.loop # None /\ Top.loop.n < Len(Top.loop.items)
    BY <1>3 DEF LoopMolecule, Round
  <2>2. View' = EnterGoes(run, View, RoundPath)
    BY <1>1, <1>3, Entering DEF LoopMolecule
  <2>3. StepGoes(run, View) = EnterGoes(run, View, RoundPath)
    BY <2>1, Mirrored, Reaches DEF StepGoes
  <2> QED
    BY <1>1, <2>1, <2>2, <2>3, StepPlace
<1> QED
  BY <1>2, <1>3

LEMMA BeginLoopGoes ==
  ASSUME IsList(trace), phase # "case", StackInv, BeginLoop
  PROVE  Mute /\ \A x : View' = Goes(run, View, x)
<1>1. /\ AtStep /\ at' = at /\ carried' = carried
      /\ Step.form \in {"loop", "each"} /\ Top.loop = None
  BY DEF BeginLoop, Looping, Around
<1>2. Mute /\ \A x : Goes(run, View, x) = BeginGoes(run, View)
  <2>1. ~Round
    BY <1>1 DEF Round
  <2>2. StepGoes(run, View) = BeginGoes(run, View)
    BY <1>1, Mirrored DEF StepGoes
  <2> QED
    BY <1>1, <2>1, <2>2, StepPlace
<1>3. TopAt(View) = Top /\ StepOf(Top) = Step /\ ReachedAt(Top) = Reached /\ CollectionAt(Top) = Collection
  BY Mirrored, Reaches
<1>4. Refuse => View' = RefusesAt(run, View)
  BY <1>1, Ending
<1>5. \A ref : Fault(Unresolved(ref)) => View' = FaultsAt(run, View, Unresolved(ref))
  BY <1>1, Ending, Reasons
<1>6. CASE Step.over \notin Optional /\ Fault(Unresolved(Step.over))
  BY <1>2, <1>3, <1>5, <1>6 DEF BeginGoes, Optional
<1>7. CASE Step.over \in Optional /\ Collection = None /\ Refuse
  BY <1>2, <1>3, <1>4, <1>7 DEF BeginGoes, Optional
<1>8. CASE /\ Step.over \in Optional /\ Collection # None /\ Step.start \notin Optional
           /\ Fault(Unresolved(Step.start))
  BY <1>2, <1>3, <1>5, <1>8 DEF BeginGoes, Optional
<1>9. CASE /\ Step.over \in Optional /\ Collection # None /\ Step.start \in Optional
           /\ SetTop([Top EXCEPT !.loop =
                 [items |-> Collection, n |-> 0, last |-> None,
                  accumulator |-> IF Step.start = None THEN None ELSE Reach(Step.start)]])
           /\ UNCHANGED <<trace, done>>
  <2> DEFINE f == [Top EXCEPT !.loop =
                     [items |-> Collection, n |-> 0, last |-> None,
                      accumulator |-> IF Step.start = None THEN None ELSE Reach(Step.start)]]
  <2>1. LoopBegun(Top) = f
    BY <1>3, Reaches DEF LoopBegun
  <2>2. stack' = Front(stack) \o <<f>> /\ trace' = trace /\ done' = done
    BY <1>9 DEF SetTop
  <2> HIDE DEF f
  <2>3. View' = Place(at, carried, Front(stack) \o <<f>>, done, View.trace)
    BY <1>1, <2>2, NextView
  <2>4. BeginGoes(run, View) = WithTop(View, LoopBegun(Top))
    BY <1>3, <1>9 DEF BeginGoes, Optional
  <2> QED
    BY <1>2, <2>1, <2>3, <2>4, Viewed DEF WithTop, WithStack
<1> QED
  BY <1>6, <1>7, <1>8, <1>9 DEF BeginLoop

LEMMA EndLoopGoes ==
  ASSUME IsList(trace), phase # "case", StackInv, EndLoop
  PROVE  Mute /\ \A x : View' = Goes(run, View, x)
<1>1. /\ AtStep /\ at' = at /\ carried' = carried /\ trace' = trace /\ done' = done
      /\ Step.form \in {"loop", "each"} /\ Top.loop # None /\ Top.loop.n = Len(Top.loop.items)
  BY DEF EndLoop, Looping, Around
<1>2. ~(Top.loop.n < Len(Top.loop.items))
  <2>1. Top.loop \in Loops
    BY <1>1, AtStepFacts DEF Frames
  <2> QED
    BY <1>1, <2>1 DEF Loops
<1>3. Mute /\ \A x : Goes(run, View, x) = WithTop(View, LoopEnded(Top))
  <2>1. ~Round
    BY <1>2 DEF Round
  <2>2. StepGoes(run, View) = WithTop(View, LoopEnded(Top))
    BY <1>1, <1>2, Mirrored DEF StepGoes
  <2> QED
    BY <1>1, <2>1, <2>2, StepPlace
<1> DEFINE f == LoopEnded(Top)
<1>4. stack' = Front(stack) \o <<f>>
  BY Mirrored DEF EndLoop, SetTop, LoopEnded
<1> HIDE DEF f
<1>5. View' = Place(at, carried, Front(stack) \o <<f>>, done, View.trace)
  BY <1>1, <1>4, NextView
<1> QED
  BY <1>3, <1>5, Viewed DEF WithTop, WithStack, f

-----------------------------------------------------------------------------
(***************************************************************************)
(* What the original has gone through, and where its replay stands.        *)
(***************************************************************************)
Starts(s, t) == Len(s) <= Len(t) /\ \A i \in 1..Len(s) : s[i] = t[i]

\* The views an original has gone through, each of which leads to the next.
History(n, h) ==
    /\ n \in Nat /\ h[0] = Begin
    /\ \A k \in 0..n : IsList(h[k].trace) /\ Starts(h[k].trace, h[n].trace)
    /\ \A k \in 0..(n - 1) : Leads(run, drawn, h[k], h[k + 1])

\* Its trace has a record of every answer that was a value, with the key, and
\* no others.
Drew(e) == e.type = "CT_STEP" /\ e.purity = "ct_impure"
Remembered ==
    /\ \A i \in DOMAIN trace : Drew(trace[i]) =>
          \E j \in DOMAIN drawn :
             /\ drawn[j].key = KeyOf(trace[i]) /\ drawn[j].answer \in Values
             /\ trace[i].what = Written(drawn[j].answer)
    /\ \A j \in DOMAIN drawn : drawn[j].key[3] # None /\ drawn[j].answer \in Values =>
          \E i \in DOMAIN trace : Drew(trace[i]) /\ KeyOf(trace[i]) = drawn[j].key

\* What is recorded for the replay is what was answered.
Supplied ==
    /\ \A j \in DOMAIN drawn : drawn[j].answer \in Values =>
          drawn[j].key \in DOMAIN recorded[1] /\ recorded[1][drawn[j].key] = drawn[j].answer
    /\ \A key \in DOMAIN recorded[1] :
          \E j \in DOMAIN drawn : drawn[j].key = key /\ drawn[j].answer \in Values

Arrived(n, h) ==
    IF done = "killed" THEN h[n].done = "no" /\ h[n].trace = View.trace ELSE h[n] = View

OriginalInv ==
    phase = "original" =>
        /\ recorded = <<>> /\ Remembered
        /\ \E n, h : History(n, h) /\ Arrived(n, h)

\* The original ended at the last view, and the replay stands at one of them
\* or goes on where the original was killed.
EndedAt(n, h) ==
    /\ h[n].trace = Reproduced(first.trace)
    /\ h[n].done = IF first.done = "killed" THEN "no" ELSE first.done
Stands(n, h) ==
    \/ \E k \in 0..n : h[k] = View
    \/ first.done = "killed" /\ Starts(h[n].trace, View.trace)

ReplayInv ==
    phase = "replay" =>
        /\ first.done # "no"
        /\ Reproducible => Supplied /\ \E n, h : History(n, h) /\ EndedAt(n, h) /\ Stands(n, h)

AgreeInv == OriginalInv /\ ReplayInv

LEMMA StartsOver ==
  ASSUME NEW s, IsList(s)
  PROVE  /\ Starts(s, s)
         /\ \A e : Starts(s, Append(s, e))
         /\ \A t, u : IsList(t) /\ IsList(u) /\ Starts(t, s) /\ Starts(s, u) => Starts(t, u)
<1>1. Len(s) \in Nat
  BY ListFacts
<1>2. \A e : Len(Append(s, e)) = Len(s) + 1 /\ \A i \in 1..Len(s) : Append(s, e)[i] = s[i]
  BY ListAppend
<1>3. ASSUME NEW t, NEW u, IsList(t), IsList(u), Starts(t, s), Starts(s, u)
      PROVE  Starts(t, u)
  <2>1. Len(t) \in Nat /\ Len(u) \in Nat
    BY <1>3, ListFacts
  <2> QED
    BY <1>1, <1>3, <2>1 DEF Starts
<1> QED
  BY <1>1, <1>2, <1>3 DEF Starts

LEMMA Prefixed ==
  ASSUME NEW s, NEW t, IsList(s), IsList(t), Starts(s, t)
  PROVE  IsPrefix(s, t) /\ (Len(s) = Len(t) => s = t)
<1>1. /\ Len(s) \in Nat /\ Len(t) \in Nat /\ Len(s) <= Len(t)
      /\ DOMAIN s = 1..Len(s) /\ DOMAIN t = 1..Len(t)
      /\ \A i \in 1..Len(s) : s[i] = t[i]
  BY ListFacts DEF Starts
<1> DEFINE n == Len(s)
           a == SubSeq(s, 1, n)
           b == SubSeq(t, 1, n)
<1>2. s \in Seq({s[i] : i \in DOMAIN s}) /\ t \in Seq({t[i] : i \in DOMAIN t})
  BY DEF IsList
<1>3. a = [i \in 1..n |-> s[i]] /\ b = [i \in 1..n |-> t[i]]
  BY <1>1
<1>4. a = b
  BY <1>1, <1>3
<1>5. n = Len(t) => s = t
  BY <1>1, <1>2, LenProperties
<1> HIDE DEF a, b
<1> QED
  BY <1>1, <1>4, <1>5 DEF IsPrefix, a, b

\* More answers are remembered; what has been heard stays so.
LEMMA HeardMore ==
  ASSUME NEW d, IsList(d), NEW e, NEW r, NEW v, NEW w, Leads(r, d, v, w)
  PROVE  Leads(r, Append(d, e), v, w)
<1>1. DOMAIN d \in SUBSET DOMAIN Append(d, e) /\ \A i \in DOMAIN d : Append(d, e)[i] = d[i]
  <2>1. /\ DOMAIN d = 1..Len(d) /\ Len(d) \in Nat
        /\ DOMAIN Append(d, e) = 1..(Len(d) + 1)
        /\ \A i \in 1..Len(d) : Append(d, e)[i] = d[i]
    BY ListFacts, ListAppend
  <2> QED
    BY <2>1
<1>2. PICK x : Heard(r, d, v, x) /\ w = Goes(r, v, x)
  BY DEF Leads
<1>3. Heard(r, Append(d, e), v, x)
  <2> DEFINE m == Append(d, e)
  <2> HIDE DEF m
  <2>1. DOMAIN d \in SUBSET DOMAIN m /\ \A i \in DOMAIN d : m[i] = d[i]
    BY <1>1 DEF m
  <2>2. Heard(r, m, v, x)
    <3>1. \A i \in DOMAIN d : i \in DOMAIN m
      BY <2>1
    <3> QED
      BY <1>2, <2>1, <3>1 DEF Heard
  <2> QED
    BY <2>2 DEF m
<1> QED
  BY <1>2, <1>3 DEF Leads

-----------------------------------------------------------------------------
(***************************************************************************)
(* The memory of the original.                                             *)
(***************************************************************************)
\* Nothing was read from an atom that answered a value.
Quiet ==
    /\ trace' = trace \/ \E e : trace' = Append(trace, e) /\ ~Drew(e)
    /\ drawn' = drawn \/ \E d : drawn' = Append(drawn, d) /\ (d.key[3] = None \/ d.answer \notin Values)

LEMMA QuietRemembers ==
  ASSUME IsList(trace), IsList(drawn), Remembered, Quiet
  PROVE  Remembered'
<1>1. /\ DOMAIN trace = 1..Len(trace) /\ Len(trace) \in Nat
      /\ DOMAIN drawn = 1..Len(drawn) /\ Len(drawn) \in Nat
  BY ListFacts
<1>2. /\ \A i \in DOMAIN trace : i \in DOMAIN trace' /\ trace'[i] = trace[i]
      /\ \A i \in DOMAIN trace' : i \in DOMAIN trace \/ ~Drew(trace'[i])
  <2>1. CASE trace' = trace
    BY <2>1
  <2>2. ASSUME NEW e, trace' = Append(trace, e), ~Drew(e)
        PROVE  <1>2!1 /\ <1>2!2
    <3>1. /\ DOMAIN trace' = 1..(Len(trace) + 1)
          /\ \A i \in 1..Len(trace) : trace'[i] = trace[i]
          /\ trace'[Len(trace) + 1] = e
      BY <2>2, ListAppend
    <3> QED
      BY <1>1, <2>2, <3>1
  <2> QED
    BY <2>1, <2>2 DEF Quiet
<1>3. /\ \A j \in DOMAIN drawn : j \in DOMAIN drawn' /\ drawn'[j] = drawn[j]
      /\ \A j \in DOMAIN drawn' :
            j \in DOMAIN drawn \/ drawn'[j].key[3] = None \/ drawn'[j].answer \notin Values
  <2>1. CASE drawn' = drawn
    BY <2>1
  <2>2. ASSUME NEW d, drawn' = Append(drawn, d), d.key[3] = None \/ d.answer \notin Values
        PROVE  <1>3!1 /\ <1>3!2
    <3>1. /\ DOMAIN drawn' = 1..(Len(drawn) + 1)
          /\ \A i \in 1..Len(drawn) : drawn'[i] = drawn[i]
          /\ drawn'[Len(drawn) + 1] = d
      BY <2>2, ListAppend
    <3> QED
      BY <1>1, <2>2, <3>1
  <2> QED
    BY <2>1, <2>2 DEF Quiet
<1>4. ASSUME NEW i \in DOMAIN trace', Drew(trace'[i])
      PROVE  \E j \in DOMAIN drawn' :
                /\ drawn'[j].key = KeyOf(trace'[i]) /\ drawn'[j].answer \in Values
                /\ trace'[i].what = Written(drawn'[j].answer)
  BY <1>2, <1>3, <1>4 DEF Remembered
<1>5. ASSUME NEW j \in DOMAIN drawn', drawn'[j].key[3] # None, drawn'[j].answer \in Values
      PROVE  \E i \in DOMAIN trace' : Drew(trace'[i]) /\ KeyOf(trace'[i]) = drawn'[j].key
  BY <1>2, <1>3, <1>5 DEF Remembered
<1> QED
  BY <1>4, <1>5 DEF Remembered

LEMMA AnswerRemembered ==
  ASSUME IsList(trace), IsList(drawn), Remembered, NEW e, NEW d,
         trace' = Append(trace, e), drawn' = Append(drawn, d),
         Drew(e), KeyOf(e) = d.key, d.answer \in Values, e.what = Written(d.answer)
  PROVE  Remembered'
<1>1. /\ DOMAIN trace = 1..Len(trace) /\ Len(trace) \in Nat
      /\ DOMAIN drawn = 1..Len(drawn) /\ Len(drawn) \in Nat
  BY ListFacts
<1>2. /\ DOMAIN trace' = 1..(Len(trace) + 1)
      /\ \A i \in 1..Len(trace) : trace'[i] = trace[i]
      /\ trace'[Len(trace) + 1] = e
  BY ListAppend
<1>3. /\ DOMAIN drawn' = 1..(Len(drawn) + 1)
      /\ \A i \in 1..Len(drawn) : drawn'[i] = drawn[i]
      /\ drawn'[Len(drawn) + 1] = d
  BY ListAppend
<1>4. ASSUME NEW i \in DOMAIN trace', Drew(trace'[i])
      PROVE  \E j \in DOMAIN drawn' :
                /\ drawn'[j].key = KeyOf(trace'[i]) /\ drawn'[j].answer \in Values
                /\ trace'[i].what = Written(drawn'[j].answer)
  <2>1. CASE i = Len(trace) + 1
    BY <1>1, <1>2, <1>3, <2>1
  <2>2. CASE i \in DOMAIN trace
    BY <1>1, <1>2, <1>3, <1>4, <2>2 DEF Remembered
  <2> QED
    BY <1>1, <1>2, <2>1, <2>2
<1>5. ASSUME NEW j \in DOMAIN drawn', drawn'[j].key[3] # None, drawn'[j].answer \in Values
      PROVE  \E i \in DOMAIN trace' : Drew(trace'[i]) /\ KeyOf(trace'[i]) = drawn'[j].key
  <2>1. CASE j = Len(drawn) + 1
    BY <1>1, <1>2, <1>3, <2>1
  <2>2. CASE j \in DOMAIN drawn
    <3>1. drawn'[j] = drawn[j]
      BY <1>1, <1>3, <2>2
    <3>2. PICK i \in DOMAIN trace : Drew(trace[i]) /\ KeyOf(trace[i]) = drawn[j].key
      BY <1>5, <2>2, <3>1 DEF Remembered
    <3>3. i \in DOMAIN trace' /\ trace'[i] = trace[i]
      BY <1>1, <1>2
    <3> QED
      BY <3>1, <3>2, <3>3
  <2> QED
    BY <1>1, <1>3, <2>1, <2>2
<1> QED
  BY <1>4, <1>5 DEF Remembered

LEMMA QuietEvents ==
  /\ \A type, what : type # "CT_STEP" => ~Drew(Event(type, what))
  /\ \A reason : ~Drew(Error(reason))
<1>1. /\ \A type, what : Event(type, what).type = type
      /\ \A reason : Error(reason).type = "ERROR"
  BY DEF Event, Error
<1> QED
  BY <1>1 DEF Drew

LEMMA QuietEnds ==
  ASSUME phase # "case", Refuse \/ Faults
  PROVE  \E e : trace' = Append(trace, e) /\ ~Drew(e)
<1>1. ~Drew(Event("CC_STEP", "VIOLATION")) /\ \A reason : ~Drew(Error(reason))
  BY QuietEvents
<1> QED
  BY <1>1 DEF Refuse, Faults, Fault, Told

\* The steps that run no atom.
MuteStep ==
    \/ StartContract \/ EndContract \/ EndRun \/ StartTransform
    \/ EmitMolecule \/ EndTransform \/ EnterMolecule \/ LoopMolecule \/ BeginLoop \/ EndLoop

LEMMA MuteSteps ==
  ASSUME IInv, phase # "case", MuteStep
  PROVE  /\ Mute /\ \A x : View' = Goes(run, View, x)
         /\ drawn' = drawn /\ Quiet
<1>1. IsList(trace) /\ StackInv /\ PlaceInv
  BY DEF IInv, RecordInv
<1>2. Mute /\ \A x : View' = Goes(run, View, x)
  BY <1>1, IdleGoes, EmitGoes, EnterMoleculeGoes, BeginLoopGoes, EndLoopGoes DEF MuteStep
<1>3. drawn' = drawn
  BY DEF MuteStep, StartContract, EndContract, EndRun, StartTransform, EmitMolecule, EndTransform,
         EnterMolecule, LoopMolecule, BeginLoop, EndLoop, Unrun
<1>4. trace' = trace \/ \E e : trace' = Append(trace, e) /\ ~Drew(e)
  <2>1. ~Drew(Event("CC_START", Written(carried))) /\ ~Drew(Event("CC_STEP", "SUCCESS"))
    BY QuietEvents
  <2>2. \/ trace' = trace \/ Refuse \/ Faults
        \/ trace' = Append(trace, Event("CC_START", Written(carried)))
        \/ trace' = Append(trace, Event("CC_STEP", "SUCCESS"))
    BY DEF MuteStep, StartContract, EndContract, EndRun, StartTransform, EmitMolecule, EndTransform,
           EnterMolecule, LoopMolecule, BeginLoop, EndLoop, Faults
  <2> QED
    BY <2>1, <2>2, QuietEnds
<1> QED
  BY <1>2, <1>3, <1>4 DEF Quiet

LEMMA AtomRemembered ==
  ASSUME IInv, Remembered, phase = "original", RunAtom
  PROVE  Remembered'
<1>1. IsList(trace) /\ IsList(drawn)
  BY DEF IInv, RecordInv
<1>2. ASSUME NEW answer, Ran(Path, answer)
      PROVE  \/ ~Impure /\ drawn' = drawn
             \/ Impure /\ drawn' = Append(drawn, [key |-> Key(Path), answer |-> answer])
  BY <1>2 DEF Ran
<1>3. ASSUME NEW answer, Ran(Path, answer), answer \notin Values, Refuse \/ Faults
      PROVE  Remembered'
  <2>1. drawn' = drawn \/ \E d : drawn' = Append(drawn, d) /\ (d.key[3] = None \/ d.answer \notin Values)
    <3> DEFINE d == [key |-> Key(Path), answer |-> answer]
    <3>1. drawn' = drawn \/ drawn' = Append(drawn, d)
      BY <1>2, <1>3
    <3>2. d.answer \notin Values
      BY <1>3
    <3> HIDE DEF d
    <3> QED
      BY <3>1, <3>2
  <2>2. Quiet
    BY <1>3, <2>1, QuietEnds DEF Quiet
  <2> QED
    BY <1>1, <2>2, QuietRemembers
<1>4. ASSUME NEW answer \in Values, Ran(Path, answer), Observe(Path, answer, "no")
      PROVE  Remembered'
  <2> DEFINE e == Record(Path, answer, "no")
             d == [key |-> Key(Path), answer |-> answer]
  <2>1. trace' = Append(trace, e)
    BY <1>4 DEF Observe
  <2>2. /\ e.type = "CT_STEP" /\ e.purity = Step.purity /\ KeyOf(e) = Key(Path)
        /\ Impure => e.what = Written(answer)
    BY DEF Record, KeyOf, Key
  <2>3. d.key = Key(Path) /\ d.answer = answer
    OBVIOUS
  <2>4. CASE ~Impure /\ drawn' = drawn
    <3>1. ~Drew(e)
      BY <2>2, <2>4 DEF Drew, Impure
    <3> HIDE DEF e
    <3>2. Quiet
      BY <2>1, <2>4, <3>1 DEF Quiet
    <3> QED
      BY <1>1, <3>2, QuietRemembers
  <2>5. CASE Impure /\ drawn' = Append(drawn, d)
    <3>1. Drew(e)
      BY <2>2, <2>5 DEF Drew, Impure
    <3> HIDE DEF e, d
    <3> QED
      BY <1>1, <1>4, <2>1, <2>2, <2>3, <2>5, <3>1, AnswerRemembered
  <2> QED
    BY <1>2, <1>4, <2>4, <2>5
<1>5. "refusal" \notin Values /\ "fault" \notin Values
  BY ReplayAssumption
<1> QED
  BY <1>3, <1>4, <1>5 DEF RunAtom, Faults

LEMMA LoopAtomRemembered ==
  ASSUME IInv, Remembered, phase = "original", LoopAtom
  PROVE  Remembered'
<1>1. IsList(trace) /\ IsList(drawn)
  BY DEF IInv, RecordInv
<1>2. trace' = trace \/ \E e : trace' = Append(trace, e) /\ ~Drew(e)
  BY QuietEnds DEF LoopAtom, Faults
<1>3. drawn' = drawn \/ \E answer : drawn' = Append(drawn, [key |-> Key(None), answer |-> answer])
  BY DEF LoopAtom, Unrun, Ran
<1>4. drawn' = drawn \/ \E d : drawn' = Append(drawn, d) /\ (d.key[3] = None \/ d.answer \notin Values)
  <2>1. ASSUME NEW answer, drawn' = Append(drawn, [key |-> Key(None), answer |-> answer])
        PROVE  \E d : drawn' = Append(drawn, d) /\ d.key[3] = None
    <3> DEFINE d == [key |-> Key(None), answer |-> answer]
    <3>1. d.key[3] = None
      BY DEF Key
    <3>2. drawn' = Append(drawn, d)
      BY <2>1
    <3> HIDE DEF d
    <3> QED
      BY <3>1, <3>2
  <2> QED
    BY <1>3, <2>1
<1>5. Quiet
  BY <1>2, <1>4 DEF Quiet
<1> QED
  BY <1>1, <1>5, QuietRemembers

-----------------------------------------------------------------------------
(***************************************************************************)
(* A step of the original adds a view to its history.                      *)
(***************************************************************************)
LEMMA StepKinds ==
  ASSUME ContractStep \/ StreamStep
  PROVE  /\ done = "no" /\ run' = run /\ phase' = phase /\ first' = first /\ recorded' = recorded
         /\ MuteStep \/ RunAtom \/ Substitute \/ LoopAtom
<1>1. CASE ContractStep
  BY <1>1 DEF ContractStep, StartContract, EndContract, EndRun, StartTransform, EndTransform, AtEnd, MuteStep
<1>2. CASE StreamStep
  BY <1>2 DEF StreamStep, RunAtom, Substitute, EnterMolecule, EmitMolecule, BeginLoop, LoopAtom,
              LoopMolecule, EndLoop, Round, Looping, AtStep, AtEnd, Around, MuteStep
<1> QED
  BY <1>1, <1>2

LEMMA MuteLeads ==
  ASSUME NEW d, Mute, done = "no", \A x : View' = Goes(run, View, x)
  PROVE  Leads(run, d, View, View')
<1>1. Heard(run, d, View, None)
  BY DEF Mute, Heard
<1> QED
  BY <1>1, Viewed DEF Leads

LEMMA OriginalStep ==
  ASSUME IInv, phase = "original", recorded = <<>>, Remembered, ContractStep \/ StreamStep
  PROVE  /\ Leads(run, drawn', View, View')
         /\ drawn' = drawn \/ \E e : drawn' = Append(drawn, e)
         /\ Remembered'
<1>1. IsList(trace) /\ IsList(drawn) /\ done = "no" /\ phase # "case"
  BY StepKinds DEF IInv, RecordInv
<1>2. MuteStep \/ RunAtom \/ LoopAtom
  BY StepKinds DEF Substitute, Substituted
<1>3. CASE MuteStep
  BY <1>1, <1>3, MuteSteps, MuteLeads, QuietRemembers
<1>4. CASE RunAtom
  <2>1. PICK x : /\ AtAtom(View) /\ ~AtLoopAtom(View) /\ View' = AtomGoes(run, View, x)
                 /\ Ran(Path, x)
                 /\ ~Impure => x = ForcedAt(Top)
    BY <1>1, <1>4, RunAtomGoes
  <2>2. Impure <=> StepAt(View).purity = "ct_impure"
    BY Mirrored DEF Impure
  <2>3. CASE ~Impure
    <3>1. drawn' = drawn
      BY <2>1, <2>3 DEF Ran
    <3>2. Heard(run, drawn', View, x)
      BY <2>1, <2>2, <2>3, Mirrored DEF Heard
    <3>3. View' = Goes(run, View, x)
      BY <2>1 DEF Goes
    <3> QED
      BY <1>1, <1>4, <3>1, <3>2, <3>3, AtomRemembered, Viewed DEF Leads
  <2>4. CASE Impure
    <3> DEFINE d == [key |-> Key(Path), answer |-> x]
    <3>1. drawn' = Append(drawn, d) /\ d.key = Key(Path) /\ d.answer = x
      BY <1>1, <2>1, <2>4 DEF Ran
    <3> HIDE DEF d
    <3>2. Len(drawn) + 1 \in DOMAIN drawn' /\ drawn'[Len(drawn) + 1] = d
      <4>1. Len(drawn) \in Nat
        BY <1>1, ListFacts
      <4> QED
        BY <1>1, <3>1, <4>1, ListAppend
    <3>3. Heard(run, drawn', View, x)
      BY <2>1, <2>2, <2>4, <3>1, <3>2, Reaches DEF Heard
    <3>4. View' = Goes(run, View, x)
      BY <2>1 DEF Goes
    <3> QED
      BY <1>1, <1>4, <3>1, <3>3, <3>4, AtomRemembered, Viewed DEF Leads
  <2> QED
    BY <2>3, <2>4
<1>5. CASE LoopAtom
  <2>1. PICK x : /\ AtLoopAtom(View) /\ ~AtAtom(View) /\ View' = RoundGoes(run, View, x)
                 /\ Resolvable => Ran(None, x)
                 /\ ~Resolvable => Unrun
                 /\ ~(Impure /\ Resolvable) => x = ForcedAt(Top)
    BY <1>1, <1>5, LoopAtomGoes
  <2>2. /\ Impure <=> StepAt(View).purity = "ct_impure"
        /\ Resolvable <=> ResolvableAt(TopAt(View))
    BY Mirrored, Reaches DEF Impure
  <2>3. View' = Goes(run, View, x)
    BY <2>1 DEF Goes
  <2>4. CASE ~(Impure /\ Resolvable)
    <3>1. drawn' = drawn
      BY <2>1, <2>4 DEF Ran, Unrun
    <3>2. Heard(run, drawn', View, x)
      BY <2>1, <2>2, <2>4, Mirrored DEF Heard
    <3> QED
      BY <1>1, <1>5, <2>3, <3>1, <3>2, LoopAtomRemembered, Viewed DEF Leads
  <2>5. CASE Impure /\ Resolvable
    <3> DEFINE d == [key |-> Key(None), answer |-> x]
    <3>1. drawn' = Append(drawn, d)
      BY <1>1, <2>1, <2>5 DEF Ran
    <3>2. d.key[3] = None
      BY DEF Key
    <3> HIDE DEF d
    <3>3. Len(drawn) + 1 \in DOMAIN drawn' /\ drawn'[Len(drawn) + 1] = d
      <4>1. Len(drawn) \in Nat
        BY <1>1, ListFacts
      <4> QED
        BY <1>1, <3>1, <4>1, ListAppend
    <3>4. Heard(run, drawn', View, x)
      BY <2>1, <2>2, <2>5, <3>2, <3>3 DEF Heard
    <3> QED
      BY <1>1, <1>5, <2>3, <3>1, <3>4, LoopAtomRemembered, Viewed DEF Leads
  <2> QED
    BY <2>4, <2>5
<1> QED
  BY <1>2, <1>3, <1>4, <1>5

-----------------------------------------------------------------------------
(***************************************************************************)
(* A step of the replay goes to the view that follows in the history.      *)
(***************************************************************************)
LEMMA ReplayDraws ==
  ASSUME phase = "replay", ContractStep \/ StreamStep
  PROVE  drawn' = drawn
<1>1. CASE ContractStep
  BY <1>1 DEF ContractStep, StartContract, EndContract, EndRun, StartTransform, EndTransform, Unrun
<1>2. CASE StreamStep
  BY <1>2 DEF StreamStep, RunAtom, Substitute, EnterMolecule, EmitMolecule, BeginLoop, LoopAtom,
              LoopMolecule, EndLoop, Unrun, Ran
<1> QED
  BY <1>1, <1>2

\* What is supplied for an atom, or the failure if there is nothing, is what it
\* answered.
LEMMA SuppliedAnswer ==
  ASSUME IInv, Reproducible, Supplied, NEW j \in DOMAIN drawn
  PROVE  drawn[j].answer =
            IF drawn[j].key \in DOMAIN recorded[1] THEN recorded[1][drawn[j].key] ELSE "fault"
<1>1. /\ drawn[j].answer \in Answers /\ drawn[j].answer # "refusal"
      /\ \A i \in DOMAIN drawn : drawn[i].key = drawn[j].key => i = j
  BY DEF IInv, RecordInv, Reproducible
<1>2. CASE drawn[j].key \in DOMAIN recorded[1]
  <2>1. PICK i \in DOMAIN drawn : drawn[i].key = drawn[j].key /\ drawn[i].answer \in Values
    BY <1>2 DEF Supplied
  <2>2. i = j
    BY <1>1, <2>1
  <2> QED
    BY <1>2, <2>1, <2>2 DEF Supplied
<1>3. CASE drawn[j].key \notin DOMAIN recorded[1]
  BY <1>1, <1>3 DEF Supplied, Answers
<1> QED
  BY <1>2, <1>3

LEMMA ReplayStep ==
  ASSUME IInv, phase = "replay", Reproducible, Supplied, ContractStep \/ StreamStep,
         NEW w, Leads(run, drawn, View, w)
  PROVE  View' = w
<1>1. IsList(trace) /\ RecordInv /\ phase # "case" /\ recorded # <<>>
  BY DEF IInv, RecordInv
<1>2. PICK x : Heard(run, drawn, View, x) /\ w = Goes(run, View, x)
  BY DEF Leads
<1>3. /\ Impure <=> StepAt(View).purity = "ct_impure"
      /\ Resolvable <=> ResolvableAt(TopAt(View))
      /\ TopAt(View) = Top
  BY Mirrored, Reaches DEF Impure
<1>4. CASE MuteStep
  BY <1>1, <1>2, <1>4, MuteSteps
<1>5. CASE RunAtom
  <2>1. ~Impure
    BY <1>1, <1>5 DEF RunAtom, Substituted
  <2>2. PICK y : /\ AtAtom(View) /\ View' = AtomGoes(run, View, y) /\ y = ForcedAt(Top)
    BY <1>1, <1>5, <2>1, RunAtomGoes
  <2>3. x = ForcedAt(Top)
    BY <1>2, <1>3, <2>1, <2>2 DEF Heard
  <2> QED
    BY <1>2, <2>2, <2>3 DEF Goes
<1>6. CASE Substitute
  <2> DEFINE y == IF Key(Path) \in DOMAIN recorded[1] THEN recorded[1][Key(Path)] ELSE "fault"
  <2>1. AtAtom(View) /\ Impure /\ View' = AtomGoes(run, View, y)
    BY <1>1, <1>6, SubstituteGoes
  <2>2. PICK j \in DOMAIN drawn : drawn[j].key = Key(Path) /\ drawn[j].answer = x
    BY <1>2, <1>3, <2>1, Reaches DEF Heard
  <2>3. x = y
    BY <2>2, SuppliedAnswer
  <2> HIDE DEF y
  <2> QED
    BY <1>2, <2>1, <2>3 DEF Goes
<1>7. CASE LoopAtom
  <2>1. PICK y : /\ AtLoopAtom(View) /\ ~AtAtom(View) /\ View' = RoundGoes(run, View, y)
                 /\ ~(Impure /\ Resolvable) => y = ForcedAt(Top)
    BY <1>1, <1>7, LoopAtomGoes
  <2>2. ~(Impure /\ Resolvable)
    <3>1. Impure /\ Resolvable => \E i \in DOMAIN drawn : drawn[i].key[3] = None
      BY <1>2, <1>3, <2>1 DEF Heard
    <3> QED
      BY <3>1 DEF Reproducible
  <2>3. x = ForcedAt(Top)
    BY <1>2, <1>3, <2>1, <2>2 DEF Heard
  <2> QED
    BY <1>2, <2>1, <2>2, <2>3 DEF Goes
<1> QED
  BY <1>4, <1>5, <1>6, <1>7, StepKinds

-----------------------------------------------------------------------------
(***************************************************************************)
(* The invariant.                                                          *)
(***************************************************************************)
LEMMA ViewStarts ==
  ASSUME IInv, ContractStep \/ StreamStep
  PROVE  IsList(View.trace) /\ IsList(View'.trace) /\ Starts(View.trace, View'.trace)
<1>1. IsList(trace)
  BY DEF IInv, RecordInv
<1>2. trace' = trace \/ \E e : trace' = Append(trace, e)
  <2>1. CASE ContractStep
    BY <2>1 DEF ContractStep, StartContract, EndContract, EndRun, StartTransform, EndTransform, Fault, Told
  <2>2. CASE StreamStep
    BY <2>2, StreamStepMoves DEF IInv, InStream, Moves, TraceKept
  <2> QED
    BY <2>1, <2>2
<1>3. View.trace = Reproduced(trace) /\ View'.trace = Reproduced(trace')
  BY DEF View, Place
<1>4. IsList(View.trace) /\ Starts(View.trace, View.trace)
  BY <1>1, <1>3, TraceGrows, StartsOver
<1>5. CASE trace' = trace
  BY <1>3, <1>4, <1>5
<1>6. ASSUME NEW e, trace' = Append(trace, e)
      PROVE  IsList(View'.trace) /\ Starts(View.trace, View'.trace)
  <2>1. View'.trace = Append(View.trace, Plain(e))
    BY <1>1, <1>3, <1>6, TraceGrows
  <2> QED
    BY <1>4, <2>1, ListAppend, StartsOver
<1> QED
  BY <1>2, <1>4, <1>5, <1>6

LEMMA BeginView ==
  ASSUME IsList(trace), at = [contract |-> 1, step |-> 0], carried = Payload, stack = <<>>, trace = <<>>,
         done = "no"
  PROVE  View = Begin
<1>1. IsList(Reproduced(trace)) /\ Len(Reproduced(trace)) = 0
  BY TraceGrows, EmptyList
<1>2. Reproduced(trace) = <<>>
  BY <1>1, EmptySeq DEF IsList
<1> QED
  BY <1>2 DEF View, Begin

LEMMA AgreeBegins ==
  ASSUME BuildInit
  PROVE  AgreeInv
<1>1. CASE Init
  <2> DEFINE h == [k \in {0} |-> Begin]
  <2>1. View = Begin
    BY <1>1, BeginView, EmptyList DEF Init, AtBegin
  <2>2. h[0] = Begin
    OBVIOUS
  <2> HIDE DEF h
  <2>3. IsList(View.trace)
    BY <1>1, EmptyList, TraceGrows, Viewed DEF Init, AtBegin
  <2>4. History(0, h)
    <3>1. 0..(0 - 1) = {} /\ 0..0 = {0} /\ 0 \in Nat
      OBVIOUS
    <3>2. IsList(h[0].trace) /\ Starts(h[0].trace, h[0].trace)
      BY <2>1, <2>2, <2>3, StartsOver
    <3> QED
      BY <2>2, <3>1, <3>2 DEF History
  <2>5. Arrived(0, h)
    BY <1>1, <2>1, <2>2 DEF Init, AtBegin, Arrived
  <2>6. Remembered
    <3>1. DOMAIN trace = {} /\ DOMAIN drawn = {}
      BY <1>1, EmptySeq DEF Init, AtBegin
    <3> QED
      BY <3>1 DEF Remembered
  <2>7. \E n, g : History(n, g) /\ Arrived(n, g)
    BY <2>4, <2>5
  <2> QED
    BY <1>1, <2>6, <2>7 DEF Init, AgreeInv, OriginalInv, ReplayInv
<1>2. CASE phase = "case"
  BY <1>2 DEF AgreeInv, OriginalInv, ReplayInv
<1> QED
  BY <1>1, <1>2 DEF BuildInit

\* A view is added to a history.
LEMMA HistoryGrows ==
  ASSUME run' = run, drawn' = drawn \/ \E e : drawn' = Append(drawn, e), IsList(drawn),
         NEW n, NEW h, History(n, h), h[n] = View,
         NEW w, w = View', Leads(run, drawn', View, w),
         IsList(w.trace), IsList(View.trace), Starts(View.trace, w.trace)
  PROVE  \E g : History(n + 1, g)' /\ g[n + 1] = w
<1> DEFINE g == [k \in 0..(n + 1) |-> IF k = n + 1 THEN w ELSE h[k]]
<1>1. /\ n \in Nat /\ h[0] = Begin
      /\ \A k \in 0..n : IsList(h[k].trace) /\ Starts(h[k].trace, h[n].trace)
      /\ \A k \in 0..(n - 1) : Leads(run, drawn, h[k], h[k + 1])
  BY DEF History
<1>2. g[n + 1] = w /\ \A k \in 0..n : g[k] = h[k]
  BY <1>1
<1> HIDE DEF g
<1>3. \A k \in 0..(n + 1) : IsList(g[k].trace) /\ Starts(g[k].trace, g[n + 1].trace)
  <2>1. Starts(w.trace, w.trace)
    BY StartsOver
  <2>2. ASSUME NEW k \in 0..n
        PROVE  IsList(g[k].trace) /\ Starts(g[k].trace, w.trace)
    <3>1. g[k] = h[k] /\ IsList(h[k].trace) /\ Starts(h[k].trace, View.trace)
      BY <1>1, <1>2
    <3> QED
      BY <3>1, StartsOver
  <2>3. \A k \in 0..(n + 1) : k = n + 1 \/ k \in 0..n
    BY <1>1
  <2> QED
    BY <1>2, <2>1, <2>2, <2>3
<1>4. ASSUME NEW k \in 0..n
      PROVE  Leads(run, drawn', g[k], g[k + 1])
  <2>1. CASE k = n
    BY <1>1, <1>2, <2>1
  <2>2. CASE k \in 0..(n - 1)
    <3>1. g[k] = h[k] /\ g[k + 1] = h[k + 1] /\ Leads(run, drawn, h[k], h[k + 1])
      BY <1>1, <1>2, <2>2
    <3>2. Leads(run, drawn', h[k], h[k + 1])
      BY <3>1, HeardMore
    <3> QED
      BY <3>1, <3>2
  <2> QED
    BY <1>1, <2>1, <2>2
<1>5. g[0] = Begin /\ n + 1 \in Nat /\ (n + 1) - 1 = n
  BY <1>1, <1>2
<1>6. History(n + 1, g)'
  <2>1. Begin' = Begin
    BY DEF Begin, Place
  <2> QED
    BY <1>3, <1>4, <1>5, <2>1 DEF History
<1> QED
  BY <1>2, <1>6

LEMMA OriginalMoves ==
  ASSUME IInv, OriginalInv, phase = "original", ContractStep \/ StreamStep
  PROVE  OriginalInv'
<1>1. recorded = <<>> /\ Remembered /\ IsList(drawn)
  BY DEF OriginalInv, IInv, RecordInv
<1>2. done = "no" /\ run' = run /\ phase' = phase /\ recorded' = recorded
  BY StepKinds
<1>3. PICK n, h : History(n, h) /\ Arrived(n, h)
  BY DEF OriginalInv
<1>4. h[n] = View
  BY <1>2, <1>3 DEF Arrived
<1>5. /\ Leads(run, drawn', View, View')
      /\ drawn' = drawn \/ \E e : drawn' = Append(drawn, e)
      /\ Remembered'
  BY <1>1, OriginalStep
<1>6. IsList(View.trace) /\ IsList(View'.trace) /\ Starts(View.trace, View'.trace)
  BY ViewStarts
<1>7. PICK w : w = View'
  OBVIOUS
<1>8. PICK g : History(n + 1, g)' /\ g[n + 1] = w
  <2> HIDE DEF View, History
  <2> QED
    BY <1>1, <1>2, <1>3, <1>4, <1>5, <1>6, <1>7, HistoryGrows
<1>9. done' # "killed"
  <2>1. CASE ContractStep
    BY <1>2, <2>1 DEF ContractStep, StartContract, EndContract, EndRun, StartTransform, EndTransform, Fault
  <2>2. CASE StreamStep
    BY <1>2, <2>2, StreamStepMoves DEF IInv, InStream, Ended
  <2> QED
    BY <2>1, <2>2
<1>10. Arrived(n + 1, g)'
  BY <1>7, <1>8, <1>9 DEF Arrived
<1>11. \E m, f : History(m, f)' /\ Arrived(m, f)'
  BY <1>8, <1>10
<1> QED
  BY <1>1, <1>2, <1>5, <1>11 DEF OriginalInv

LEMMA KillAgrees ==
  ASSUME OriginalInv, Kill
  PROVE  AgreeInv'
<1>1. /\ phase = "original" /\ done = "no" /\ done' = "killed" /\ phase' = phase
      /\ run' = run /\ recorded' = recorded /\ drawn' = drawn /\ trace' = trace
  BY DEF Kill
<1>2. recorded = <<>> /\ Remembered
  BY <1>1 DEF OriginalInv
<1>3. PICK n, h : History(n, h) /\ Arrived(n, h)
  BY <1>1 DEF OriginalInv
<1>4. h[n] = View /\ View'.trace = View.trace /\ View.done = "no"
  BY <1>1, <1>3, Viewed DEF Arrived, View, Place
<1>5. Arrived(n, h)'
  BY <1>1, <1>4 DEF Arrived
<1>6. History(n, h)'
  BY <1>1, <1>3 DEF History, Begin, Place
<1>7. Remembered'
  BY <1>1, <1>2 DEF Remembered
<1>8. \E m, f : History(m, f)' /\ Arrived(m, f)'
  BY <1>5, <1>6
<1> QED
  BY <1>1, <1>2, <1>7, <1>8 DEF AgreeInv, OriginalInv, ReplayInv

\* Of several results with one key the last is read, which is one of them.
LEMMA LastOutcome ==
  ASSUME NEW t, IsList(t), NEW table, table = RecordedOutcomes(t), NEW key \in DOMAIN table
  PROVE  \E m \in DOMAIN t : Drew(t[m]) /\ KeyOf(t[m]) = key /\ table[key] = t[m].what
<1>1. Len(t) \in Nat /\ DOMAIN t = 1..Len(t)
  BY ListFacts
<1>2. Outcomes(t) = {i \in 1..Len(t) : Drew(t[i])}
  BY <1>1 DEF Outcomes, Drew
<1>3. DOMAIN table = {KeyOf(t[i]) : i \in Outcomes(t)}
  BY DEF RecordedOutcomes
<1> DEFINE S == {i \in Outcomes(t) : KeyOf(t[i]) = key}
<1>4. S \in SUBSET (1..Len(t)) /\ S # {}
  BY <1>2, <1>3
<1>5. table[key] = t[Max(S)].what
  BY <1>3 DEF RecordedOutcomes
<1>6. Max(S) \in S
  <2> HIDE DEF S
  <2> QED
    BY <1>1, <1>4, MaxMember
<1> QED
  BY <1>1, <1>2, <1>5, <1>6

\* What is read from the trace of a reproducible original is what was answered.
LEMMA ReadBack ==
  ASSUME IsList(trace), Remembered, Reproducible,
         NEW table, table = RecordedOutcomes(trace)
  PROVE  /\ \A j \in DOMAIN drawn : drawn[j].answer \in Values =>
               drawn[j].key \in DOMAIN table /\ table[drawn[j].key] = drawn[j].answer
         /\ \A key \in DOMAIN table : \E j \in DOMAIN drawn : drawn[j].key = key /\ drawn[j].answer \in Values
<1>1. Len(trace) \in Nat /\ DOMAIN trace = 1..Len(trace)
  BY ListFacts
<1>2. Outcomes(trace) = {i \in 1..Len(trace) : Drew(trace[i])}
  BY <1>1 DEF Outcomes, Drew
<1>3. DOMAIN table = {KeyOf(trace[i]) : i \in Outcomes(trace)}
  BY DEF RecordedOutcomes
<1>4. ASSUME NEW key \in DOMAIN table
      PROVE  \E j \in DOMAIN drawn :
                drawn[j].key = key /\ drawn[j].answer \in Values /\ table[key] = drawn[j].answer
  <2>1. PICK m \in DOMAIN trace : /\ Drew(trace[m]) /\ KeyOf(trace[m]) = key
                                  /\ table[key] = trace[m].what
    BY <1>4, LastOutcome
  <2>2. PICK j \in DOMAIN drawn : /\ drawn[j].key = KeyOf(trace[m]) /\ drawn[j].answer \in Values
                                  /\ trace[m].what = Written(drawn[j].answer)
    BY <2>1 DEF Remembered
  <2>3. Written(drawn[j].answer) = drawn[j].answer
    BY <2>2 DEF Reproducible
  <2> QED
    BY <2>1, <2>2, <2>3
<1>5. ASSUME NEW j \in DOMAIN drawn, drawn[j].answer \in Values
      PROVE  drawn[j].key \in DOMAIN table /\ table[drawn[j].key] = drawn[j].answer
  <2>1. PICK i \in DOMAIN trace : Drew(trace[i]) /\ KeyOf(trace[i]) = drawn[j].key
    BY <1>5 DEF Remembered, Reproducible
  <2>2. drawn[j].key \in DOMAIN table
    BY <1>1, <1>2, <1>3, <2>1
  <2>3. PICK k \in DOMAIN drawn : drawn[k].key = drawn[j].key /\ table[drawn[j].key] = drawn[k].answer
    BY <1>4, <2>2
  <2>4. k = j
    BY <2>3 DEF Reproducible
  <2> QED
    BY <2>2, <2>3, <2>4
<1> QED
  BY <1>4, <1>5

LEMMA ReplayBegins ==
  ASSUME IInv, OriginalInv, Replay
  PROVE  AgreeInv'
<1>1. /\ phase = "original" /\ done # "no" /\ phase' = "replay" /\ run' = run /\ drawn' = drawn
      /\ first'.trace = trace /\ first'.done = done /\ recorded' = <<RecordedOutcomes(trace)>>
      /\ at' = [contract |-> 1, step |-> 0] /\ carried' = Payload /\ stack' = <<>> /\ trace' = <<>>
      /\ done' = "no"
  BY DEF Replay
<1>2. IsList(trace) /\ Remembered
  BY <1>1 DEF OriginalInv, IInv, RecordInv
<1>3. PICK n, h : History(n, h) /\ Arrived(n, h)
  BY <1>1 DEF OriginalInv
<1>4. ASSUME Reproducible'
      PROVE  Supplied'
  <2>1. Reproducible
    BY <1>1, <1>4 DEF Reproducible
  <2>2. PICK table : table = RecordedOutcomes(trace)
    OBVIOUS
  <2>3. recorded'[1] = table
    BY <1>1, <2>2
  <2>4. /\ \A j \in DOMAIN drawn : drawn[j].answer \in Values =>
              drawn[j].key \in DOMAIN table /\ table[drawn[j].key] = drawn[j].answer
        /\ \A key \in DOMAIN table : \E j \in DOMAIN drawn : drawn[j].key = key /\ drawn[j].answer \in Values
    BY <1>2, <2>1, <2>2, ReadBack
  <2> QED
    BY <1>1, <2>3, <2>4 DEF Supplied
<1>5. History(n, h)'
  BY <1>1, <1>3 DEF History, Begin, Place
<1>6. EndedAt(n, h)'
  BY <1>1, <1>3, Viewed DEF Arrived, EndedAt
<1>7. Stands(n, h)'
  <2>1. View' = Begin
    <3>1. IsList(<<>>)
      BY EmptyList
    <3>2. Reproduced(<<>>) = <<>>
      <4>1. IsList(Reproduced(<<>>)) /\ Len(Reproduced(<<>>)) = 0
        BY <3>1, TraceGrows, EmptyList
      <4> QED
        BY <4>1, EmptySeq DEF IsList
    <3> QED
      BY <1>1, <3>2 DEF View, Begin
  <2>2. 0 \in 0..n /\ h[0] = Begin
    BY <1>3 DEF History
  <2> QED
    BY <2>1, <2>2 DEF Stands
<1>8. \E m, f : History(m, f)' /\ EndedAt(m, f)' /\ Stands(m, f)'
  BY <1>5, <1>6, <1>7
<1> QED
  BY <1>1, <1>4, <1>8 DEF AgreeInv, OriginalInv, ReplayInv

LEMMA ReplayMoves ==
  ASSUME IInv, ReplayInv, phase = "replay", ContractStep \/ StreamStep
  PROVE  ReplayInv'
<1>1. /\ done = "no" /\ run' = run /\ phase' = phase /\ first' = first /\ recorded' = recorded
      /\ drawn' = drawn
  BY StepKinds, ReplayDraws
<1>2. first.done # "no"
  BY DEF ReplayInv
<1>3. ASSUME Reproducible'
      PROVE  Supplied' /\ \E n, h : History(n, h)' /\ EndedAt(n, h)' /\ Stands(n, h)'
  <2>1. Reproducible
    BY <1>1, <1>3 DEF Reproducible
  <2>2. Supplied
    BY <2>1 DEF ReplayInv
  <2>3. PICK n, h : History(n, h) /\ EndedAt(n, h) /\ Stands(n, h)
    BY <2>1 DEF ReplayInv
  <2>4. History(n, h)' /\ EndedAt(n, h)' /\ Supplied'
    BY <1>1, <2>2, <2>3 DEF History, Begin, Place, EndedAt, Supplied
  <2>5. IsList(View.trace) /\ IsList(View'.trace) /\ Starts(View.trace, View'.trace)
    BY ViewStarts
  <2>6. n \in Nat /\ IsList(h[n].trace)
    BY <2>3 DEF History
  <2>7. ASSUME NEW k \in 0..n, h[k] = View
        PROVE  Stands(n, h)'
    <3>1. CASE k = n
      <4>1. h[n].done = "no"
        BY <1>1, <2>7, <3>1, Viewed
      <4>2. first.done = "killed"
        BY <1>2, <2>3, <4>1 DEF EndedAt
      <4>3. Starts(h[n].trace, View'.trace)
        BY <2>5, <2>7, <3>1
      <4> QED
        BY <1>1, <4>2, <4>3 DEF Stands
    <3>2. CASE k \in 0..(n - 1)
      <4>1. Leads(run, drawn, View, h[k + 1])
        BY <2>3, <2>7, <3>2 DEF History
      <4>2. View' = h[k + 1]
        BY <2>1, <2>2, <4>1, ReplayStep
      <4>3. k + 1 \in 0..n
        BY <2>6, <3>2
      <4> QED
        BY <4>2, <4>3 DEF Stands
    <3> QED
      BY <2>6, <3>1, <3>2
  <2>8. ASSUME first.done = "killed", Starts(h[n].trace, View.trace)
        PROVE  Stands(n, h)'
    <3>1. Starts(h[n].trace, View'.trace)
      BY <2>5, <2>6, <2>8, StartsOver
    <3> QED
      BY <1>1, <2>8, <3>1 DEF Stands
  <2>9. Stands(n, h)'
    BY <2>3, <2>7, <2>8 DEF Stands
  <2>10. \E m, f : History(m, f)' /\ EndedAt(m, f)' /\ Stands(m, f)'
    BY <2>3, <2>4, <2>9
  <2> QED
    BY <2>4, <2>10
<1> QED
  BY <1>1, <1>2, <1>3 DEF ReplayInv

LEMMA CasesAgree ==
  ASSUME phase' = "case"
  PROVE  AgreeInv'
BY DEF AgreeInv, OriginalInv, ReplayInv

LEMMA AgreeNext ==
  ASSUME IInv, AgreeInv, BuildNext
  PROVE  AgreeInv'
<1>1. phase \in {"original", "replay", "case"}
  BY DEF IInv, Kinds
<1>2. CASE ContractStep \/ StreamStep
  <2>1. phase' = phase
    BY <1>2, StepKinds
  <2>2. CASE phase = "original"
    <3>1. OriginalInv'
      BY <1>2, <2>2, OriginalMoves DEF AgreeInv
    <3> QED
      BY <2>1, <2>2, <3>1 DEF AgreeInv, ReplayInv
  <2>3. CASE phase = "replay"
    <3>1. ReplayInv'
      BY <1>2, <2>3, ReplayMoves DEF AgreeInv
    <3> QED
      BY <2>1, <2>3, <3>1 DEF AgreeInv, OriginalInv
  <2>4. CASE phase = "case"
    BY <2>1, <2>4, CasesAgree
  <2> QED
    BY <1>1, <2>2, <2>3, <2>4
<1>3. CASE Kill
  BY <1>3, KillAgrees DEF AgreeInv
<1>4. CASE Replay
  BY <1>4, ReplayBegins DEF AgreeInv
<1>5. CASE RunCase \/ JudgeRefusal \/ JudgeFault \/ JudgeResult \/ Misplaced \/ Report
  <2>1. phase = "case" /\ phase' = phase
    BY <1>5 DEF RunCase, JudgeRefusal, JudgeFault, JudgeResult, Misplaced, Report, Between, InCase,
                Conclude, Tell, vars
  <2> QED
    BY <2>1, CasesAgree
<1> QED
  BY <1>2, <1>3, <1>4, <1>5 DEF BuildNext, Next

LEMMA AgreeStutters ==
  ASSUME AgreeInv, UNCHANGED <<vars, buildVars>>
  PROVE  AgreeInv'
<1>1. /\ run' = run /\ phase' = phase /\ at' = at /\ carried' = carried /\ stack' = stack /\ trace' = trace
      /\ done' = done /\ first' = first /\ recorded' = recorded /\ drawn' = drawn
  BY DEF vars
<1>2. View' = View
  BY <1>1 DEF View
<1>3. \A n, h : /\ History(n, h) => History(n, h)'
                /\ Arrived(n, h) => Arrived(n, h)'
                /\ EndedAt(n, h) => EndedAt(n, h)'
                /\ Stands(n, h) => Stands(n, h)'
  BY <1>1, <1>2 DEF History, Arrived, EndedAt, Stands, Begin, Place
<1>4. /\ Remembered => Remembered'
      /\ Supplied => Supplied'
      /\ Reproducible' => Reproducible
  BY <1>1 DEF Remembered, Supplied, Reproducible
<1>5. OriginalInv'
  <2>1. CASE phase = "original"
    <3>1. \E n, h : History(n, h) /\ Arrived(n, h)
      BY <2>1 DEF AgreeInv, OriginalInv
    <3>2. \E n, h : History(n, h)' /\ Arrived(n, h)'
      BY <1>3, <3>1
    <3> QED
      BY <1>1, <1>4, <2>1, <3>2 DEF AgreeInv, OriginalInv
  <2> QED
    BY <1>1, <2>1 DEF OriginalInv
<1>6. ReplayInv'
  <2>1. CASE phase = "replay" /\ Reproducible
    <3>1. \E n, h : History(n, h) /\ EndedAt(n, h) /\ Stands(n, h)
      BY <2>1 DEF AgreeInv, ReplayInv
    <3>2. \E n, h : History(n, h)' /\ EndedAt(n, h)' /\ Stands(n, h)'
      BY <1>3, <3>1
    <3> QED
      BY <1>1, <1>4, <2>1, <3>2 DEF AgreeInv, ReplayInv
  <2>2. CASE ~(phase = "replay" /\ Reproducible)
    BY <1>1, <1>4, <2>2 DEF AgreeInv, ReplayInv
  <2> QED
    BY <2>1, <2>2
<1> QED
  BY <1>5, <1>6 DEF AgreeInv

\* The invariant of the two executions.
THEOREM Following == BuildSpec => []AgreeInv
<1>1. IInv /\ AgreeInv /\ [BuildNext]_<<vars, buildVars>> => AgreeInv'
  BY AgreeNext, AgreeStutters
<1>2. BuildInit => AgreeInv
  BY AgreeBegins
<1> QED
  BY <1>1, <1>2, Invariance, PTL DEF BuildSpec

LEMMA StandsAgrees ==
  ASSUME IInv, AgreeInv
  PROVE  ReplayAgrees
<1>1. SUFFICES ASSUME phase = "replay", Reproducible
               PROVE  Agreement(Reproduced(first.trace), Reproduced(trace))
  BY DEF ReplayAgrees
<1>2. first.done # "no"
  BY <1>1 DEF AgreeInv, ReplayInv
<1>3. PICK n, h : History(n, h) /\ EndedAt(n, h) /\ Stands(n, h)
  BY <1>1 DEF AgreeInv, ReplayInv
<1> DEFINE original == Reproduced(first.trace)
           replayed == Reproduced(trace)
<1>4. n \in Nat /\ h[n].trace = original /\ IsList(original)
  BY <1>3 DEF History, EndedAt
<1>5. View.trace = replayed /\ View.done = done
  BY Viewed
<1> HIDE DEF original, replayed
<1>6. ASSUME NEW k \in 0..n, h[k] = View
      PROVE  /\ IsPrefix(replayed, original)
             /\ first.done # "killed" /\ done # "no" => replayed = original /\ done = first.done
  <2>1. IsList(replayed) /\ Starts(replayed, original)
    BY <1>3, <1>4, <1>5, <1>6 DEF History
  <2>2. IsPrefix(replayed, original)
    BY <1>4, <2>1, Prefixed
  <2>3. ASSUME first.done # "killed", done # "no"
        PROVE  replayed = original /\ done = first.done
    <3>1. k = n
      <4>1. k \in 0..(n - 1) => h[k].done = "no"
        BY <1>3 DEF History, Leads
      <4> QED
        BY <1>4, <1>5, <1>6, <2>3, <4>1
    <3> QED
      BY <1>3, <1>4, <1>5, <1>6, <2>3, <3>1 DEF EndedAt
  <2> QED
    BY <2>2, <2>3
<1>7. ASSUME first.done = "killed", Starts(original, replayed)
      PROVE  IsPrefix(original, replayed)
  <2>1. IsList(trace)
    BY DEF IInv, RecordInv
  <2>2. IsList(replayed)
    BY <2>1, TraceGrows DEF replayed
  <2> QED
    BY <1>4, <1>7, <2>2, Prefixed
<1>8. \/ \E k \in 0..n : h[k] = View
      \/ first.done = "killed" /\ Starts(original, replayed)
  BY <1>3, <1>4, <1>5 DEF Stands
<1>9. IF first.done = "killed"
      THEN IsPrefix(original, replayed) \/ IsPrefix(replayed, original)
      ELSE /\ IsPrefix(replayed, original)
           /\ done # "no" => replayed = original /\ done = first.done
  BY <1>6, <1>7, <1>8
<1> QED
  BY <1>9 DEF Agreement, original, replayed

\* The replay of a reproducible original has the trace of the original, event by
\* event, and ends where and as it ended: replay.py:8 for any workflow, any
\* streams of molecules and loops, and any answers.
THEOREM ReplayAlwaysAgrees == BuildSpec => []ReplayAgrees
<1>1. IInv /\ AgreeInv => ReplayAgrees
  BY StandsAgrees
<1> QED
  BY <1>1, Invariance, Following, PTL

-----------------------------------------------------------------------------
(***************************************************************************)
(* What stands for an atom in a replay was recorded.                       *)
(***************************************************************************)
\* A result in a trace t is one of the original.
Recorded(t, e) ==
    \E j \in DOMAIN t : Drew(t[j]) /\ KeyOf(e) = KeyOf(t[j]) /\ e.what = t[j].what

SourceInv ==
    phase = "replay" =>
        /\ IsList(first.trace)
        /\ recorded[1] = RecordedOutcomes(first.trace)
        /\ \A j \in DOMAIN first.trace : Drew(first.trace[j]) =>
              Written(first.trace[j].what) = first.trace[j].what
        /\ \A i \in DOMAIN trace : Drew(trace[i]) => Recorded(first.trace, trace[i])

LEMMA SourceBegins ==
  ASSUME IInv, OriginalInv, Replay
  PROVE  SourceInv'
<1>1. /\ phase = "original" /\ first'.trace = trace /\ trace' = <<>>
      /\ recorded'[1] = RecordedOutcomes(trace)
  BY DEF Replay
<1>2. IsList(trace) /\ Remembered
  BY <1>1 DEF OriginalInv, IInv, RecordInv
<1>3. ASSUME NEW j \in DOMAIN trace, Drew(trace[j])
      PROVE  Written(trace[j].what) = trace[j].what
  <2>1. PICK i \in DOMAIN drawn : drawn[i].answer \in Values /\ trace[j].what = Written(drawn[i].answer)
    BY <1>2, <1>3 DEF Remembered
  <2> QED
    BY <2>1, ReplayAssumption
<1>4. DOMAIN trace' = {}
  BY <1>1, EmptySeq
<1> QED
  BY <1>1, <1>2, <1>3, <1>4 DEF SourceInv

\* The only results a step of a replay writes are those it was supplied with.
LEMMA ReplayWrites ==
  ASSUME IInv, SourceInv, phase = "replay", ContractStep \/ StreamStep
  PROVE  \/ trace' = trace
         \/ \E e : trace' = Append(trace, e) /\ (Drew(e) => Recorded(first.trace, e))
<1>1. phase # "case" /\ recorded # <<>>
  BY DEF IInv, RecordInv
<1>2. CASE MuteStep
  BY <1>1, <1>2, MuteSteps DEF Quiet
<1>3. CASE RunAtom
  <2>1. ~Impure
    BY <1>1, <1>3 DEF RunAtom, Substituted
  <2>2. \A answer : Record(Path, answer, "no").purity = Step.purity
    BY DEF Record
  <2>3. \A answer : ~Drew(Record(Path, answer, "no"))
    BY <2>1, <2>2 DEF Drew, Impure
  <2>4. \/ Refuse \/ Faults
        \/ \E answer : trace' = Append(trace, Record(Path, answer, "no"))
    BY <1>3 DEF RunAtom, Faults, Observe
  <2> QED
    BY <1>1, <2>3, <2>4, QuietEnds
<1>4. CASE Substitute
  <2>1. CASE Unsupplied(Path)
    <3>1. Faults
      BY <1>1, <2>1 DEF Unsupplied, Faults
    <3> QED
      BY <1>1, <3>1, QuietEnds
  <2>2. CASE Key(Path) \in DOMAIN recorded[1] /\ Observe(Path, recorded[1][Key(Path)], "yes")
    <3> DEFINE value == recorded[1][Key(Path)]
               e == Record(Path, value, "yes")
    <3>1. Impure
      BY <1>4 DEF Substitute, Substituted
    <3>2. KeyOf(e) = Key(Path) /\ e.what = Written(value)
      BY <3>1 DEF Record, KeyOf, Key
    <3>3. trace' = Append(trace, e)
      BY <2>2 DEF Observe
    <3> HIDE DEF e
    <3>4. PICK m \in DOMAIN first.trace : /\ Drew(first.trace[m])
                                          /\ KeyOf(first.trace[m]) = Key(Path)
                                          /\ value = first.trace[m].what
      BY <2>2, LastOutcome DEF SourceInv
    <3>5. e.what = first.trace[m].what
      BY <3>2, <3>4 DEF SourceInv
    <3> QED
      BY <3>2, <3>3, <3>4, <3>5 DEF Recorded
  <2> QED
    BY <1>4, <2>1, <2>2 DEF Substitute
<1>5. CASE LoopAtom
  <2>1. Refuse \/ Faults \/ trace' = trace
    BY <1>5 DEF LoopAtom, Faults
  <2> QED
    BY <1>1, <2>1, QuietEnds
<1> QED
  BY <1>2, <1>3, <1>4, <1>5, StepKinds

LEMMA SourceMoves ==
  ASSUME IInv, SourceInv, phase = "replay", ContractStep \/ StreamStep
  PROVE  SourceInv'
<1>1. first' = first /\ recorded' = recorded
  BY StepKinds
<1>2. IsList(trace)
  BY DEF IInv, RecordInv
<1>3. ASSUME NEW i \in DOMAIN trace', Drew(trace'[i])
      PROVE  Recorded(first.trace, trace'[i])
  <2>1. CASE trace' = trace
    BY <1>3, <2>1 DEF SourceInv
  <2>2. ASSUME NEW e, trace' = Append(trace, e), Drew(e) => Recorded(first.trace, e)
        PROVE  Recorded(first.trace, trace'[i])
    <3>1. /\ DOMAIN trace = 1..Len(trace) /\ Len(trace) \in Nat
          /\ DOMAIN trace' = 1..(Len(trace) + 1)
          /\ \A k \in 1..Len(trace) : trace'[k] = trace[k]
          /\ trace'[Len(trace) + 1] = e
      BY <1>2, <2>2, ListFacts, ListAppend
    <3>2. i \in DOMAIN trace \/ i = Len(trace) + 1
      BY <3>1
    <3> QED
      BY <1>3, <2>2, <3>1, <3>2 DEF SourceInv
  <2> QED
    BY <2>1, <2>2, ReplayWrites
<1>4. \A e : Recorded(first.trace, e) => Recorded(first'.trace, e)
  BY <1>1
<1> QED
  BY <1>1, <1>3, <1>4 DEF SourceInv

LEMMA SourceNext ==
  ASSUME IInv, AgreeInv, SourceInv, [BuildNext]_<<vars, buildVars>>
  PROVE  SourceInv'
<1>1. CASE ContractStep \/ StreamStep
  <2>1. phase' = phase
    BY <1>1, StepKinds
  <2> QED
    BY <1>1, <2>1, SourceMoves DEF SourceInv
<1>2. CASE Kill
  BY <1>2 DEF Kill, SourceInv
<1>3. CASE Replay
  BY <1>3, SourceBegins DEF AgreeInv
<1>4. CASE RunCase \/ JudgeRefusal \/ JudgeFault \/ JudgeResult \/ Misplaced \/ Report
  <2>1. phase = "case" /\ phase' = phase
    BY <1>4 DEF RunCase, JudgeRefusal, JudgeFault, JudgeResult, Misplaced, Report, Between, InCase,
                Conclude, Tell, vars
  <2> QED
    BY <2>1 DEF SourceInv
<1>5. CASE UNCHANGED <<vars, buildVars>>
  <2>1. phase' = phase /\ first' = first /\ recorded' = recorded /\ trace' = trace
    BY <1>5 DEF vars
  <2> QED
    BY <2>1 DEF SourceInv
<1> QED
  BY <1>1, <1>2, <1>3, <1>4, <1>5 DEF BuildNext, Next

\* Every result in the trace of a replay is one the original recorded for the
\* same contract, transform and path: ct_executor.py:92 for any streams, also of
\* an original that refused, failed or was killed, and of one that is not
\* reproducible.
THEOREM ReplayDrawsNothing == BuildSpec => []ResultsAreRecorded
<1>1. BuildInit => SourceInv
  BY DEF BuildInit, Init, SourceInv
<1>2. IInv /\ AgreeInv /\ SourceInv /\ [BuildNext]_<<vars, buildVars>> => SourceInv'
  BY SourceNext
<1>3. IInv /\ SourceInv => ResultsAreRecorded
  <2> SUFFICES ASSUME SourceInv, phase = "replay", NEW i \in Outcomes(trace)
               PROVE  \E j \in Outcomes(first.trace) :
                         KeyOf(trace[i]) = KeyOf(first.trace[j]) /\ trace[i].what = first.trace[j].what
    BY DEF ResultsAreRecorded
  <2>1. i \in DOMAIN trace /\ Drew(trace[i])
    BY DEF Outcomes, Drew
  <2>2. PICK j \in DOMAIN first.trace : /\ Drew(first.trace[j])
                                        /\ KeyOf(trace[i]) = KeyOf(first.trace[j])
                                        /\ trace[i].what = first.trace[j].what
    BY <2>1 DEF SourceInv, Recorded
  <2>3. j \in Outcomes(first.trace)
    BY <2>2 DEF Outcomes, Drew
  <2> QED
    BY <2>2, <2>3
<1> QED
  BY <1>1, <1>2, <1>3, Invariance, Following, PTL DEF BuildSpec
=============================================================================
