------------------------- MODULE ConformanceProofs -------------------------
(***************************************************************************)
(* Proofs about the executor of TransformReplay, in runs, their replays    *)
(* and the cases of Conformance: for any streams, with molecules in        *)
(* molecules to any depth and loops of any length, any runs and builds.    *)
(*                                                                         *)
(* The executor keeps no list of the paths it has used.  That a path names *)
(* one atom run rests on where the streams in progress stand: PathInv says *)
(* which names each of them has given out and which one the stream inside  *)
(* it goes by.                                                             *)
(***************************************************************************)
EXTENDS Conformance, ListLemmas, FiniteSetTheorems, WellFoundedInduction

Streams == Transforms \cup Molecules
Components == Seq(Symbols \cup Nat)
Tables == UNION {[names -> Values] : names \in SUBSET Symbols}

Frames ==
    [stream : Streams, idx : Nat \ {0}, prefix : Seq(Components), inputs : Seq(Values),
     vars : Tables, loop : Loops \cup {None}]

StepOf(f) == Body[f.stream][f.idx]
AtStepOf(f) == f.idx <= Len(Body[f.stream])

\* A loop is in progress only at a step that is one.
FrameOK(f) ==
    /\ f.idx <= Len(Body[f.stream]) + 1
    /\ f.loop # None =>
          AtStepOf(f) /\ StepOf(f).form \in {"loop", "each"} /\ f.loop.n <= Len(f.loop.items)

\* A stream that waits for one it has entered, as a molecule or as a round.
Waits(f) ==
    /\ AtStepOf(f)
    /\ \/ StepOf(f).form = "molecule" /\ f.loop = None
       \/ StepOf(f).form = "each" /\ f.loop # None /\ f.loop.n < Len(f.loop.items)

StackInv ==
    /\ stack \in Seq(Frames)
    /\ \A l \in DOMAIN stack : FrameOK(stack[l])
    /\ \A l \in DOMAIN stack : l < Len(stack) => Waits(stack[l])
    /\ done # "no" => stack = <<>>

\* Where a run is, and that a case runs its transform and nothing else.
PlaceInv ==
    /\ IsSequence(run)
    /\ phase # "case" => \A i \in DOMAIN run : run[i].pipeline \in Seq(Transforms)
    /\ at \in [contract : Nat \ {0}, step : Nat]
    /\ phase = "case" /\ done = "no" =>
          /\ Len(results) < Len(Cases)
          /\ at = [contract |-> 1, step |-> 1]
          /\ run = <<[cc |-> "case", pipeline |-> <<Case.target>>]>>

\* What is written, and what is read back from it.
RecordInv ==
    /\ IsList(trace) /\ IsList(drawn) /\ IsList(results)
    /\ \A i \in DOMAIN trace :
          /\ trace[i].type \in {"CC_START", "CT_STEP", "CC_STEP", "ERROR"}
          /\ trace[i].type = "CT_STEP" /\ trace[i].purity = "ct_impure" => trace[i].what \in Values
    /\ \A i \in DOMAIN drawn : drawn[i].answer \in Answers
    /\ recorded = <<>> \/ recorded = <<recorded[1]>>
    /\ recorded # <<>> => \A key \in DOMAIN recorded[1] : recorded[1][key] \in Values
    /\ phase = "replay" => recorded # <<>>

Kinds ==
    /\ phase \in {"original", "replay", "case"}
    /\ phase # "case" => run \in Runs
    /\ at.contract <= Len(run) + 1
    /\ carried \in Values
    /\ done \in {"no", "SUCCESS", "VIOLATION", "raised", "killed", "unsupplied", "judged"}
    /\ build \in Builds \cup {None}
    /\ phase = "case" <=> build # None

\* What the results of the cases say, and a case that supplies results.
Proves(i) ==
    /\ results[i].passed \in BOOLEAN
    /\ results[i].ended \in {"SUCCESS", "VIOLATION", "raised", "unsupplied"}
    /\ results[i].target = Cases[i].target
    /\ results[i].passed =>
          IF Cases[i].expects = "VIOLATION" THEN results[i].ended = "VIOLATION"
          ELSE /\ results[i].ended = "SUCCESS"
               /\ results[i].value # None
               /\ Cases[i].want \in {results[i].value, Whatever}
               /\ DOMAIN Cases[i].supplied # {} =>
                     results[i].used = DOMAIN Cases[i].supplied /\ ~results[i].drew

CaseInv ==
    /\ phase = "case" => Len(results) <= Len(Cases) /\ \A i \in DOMAIN results : Proves(i)
    /\ phase # "case" => results = <<>> /\ report = None
    /\ phase = "case" /\ done = "no" /\ Supplies =>
          recorded # <<>> /\ \A i \in DOMAIN drawn : drawn[i].key[3] = None

\* The name of a step in a path, and the component by which a stream that a
\* step has entered goes.
NameAt(s, i) == IF Body[s][i].out # None THEN Body[s][i].out ELSE i
Component(f) ==
    IF f.loop = None THEN <<NameAt(f.stream, f.idx)>> ELSE <<NameAt(f.stream, f.idx), f.loop.n>>

\* The components a stream has given out: those of its steps so far, and of the
\* rounds of the loop it is at.
GivenOut(f, component) ==
    \/ \E i \in 1..(f.idx - 1) : component[1] = NameAt(f.stream, i)
    \/ f.loop # None /\ \E n \in 0..(f.loop.n - 1) : component = <<NameAt(f.stream, f.idx), n>>

Extends(p, q) == Len(p) > Len(q) /\ \A k \in 1..Len(q) : p[k] = q[k]
Recent(i) == \A k \in i..Len(trace) : trace[k].type = "CT_STEP"

PathInv ==
    /\ \A i \in DOMAIN trace : trace[i].type = "CT_STEP" => trace[i].path \in Seq(Components)
    /\ \A l, m \in DOMAIN stack : l < m =>
          /\ Extends(stack[m].prefix, stack[l].prefix)
          /\ stack[m].prefix[Len(stack[l].prefix) + 1] = Component(stack[l])
    /\ \A i \in DOMAIN trace, l \in DOMAIN stack :
          Recent(i) /\ Extends(trace[i].path, stack[l].prefix) =>
              LET component == trace[i].path[Len(stack[l].prefix) + 1]
              IN  \/ GivenOut(stack[l], component)
                  \/ l < Len(stack) /\ component = Component(stack[l])
    /\ done = "no" /\ stack = <<>> => \A i \in DOMAIN trace : ~Recent(i)
    /\ PathsAreDistinct

TellInv ==
    report # None =>
        /\ build # None /\ Len(results) = Len(Cases)
        /\ VerdictIsTrue
        /\ report.proven \cup report.unproven \cup report.refused \subseteq Transforms
        /\ report.admitted \in BOOLEAN

IInv == Kinds /\ StackInv /\ PlaceInv /\ RecordInv /\ CaseInv /\ PathInv /\ TellInv

-----------------------------------------------------------------------------
\* A set of natural numbers has a greatest one if it has a bound.
LEMMA Greatest ==
  ASSUME NEW n \in Nat, NEW S \in SUBSET (1..n), S # {}
  PROVE  Max(S) \in S
<1> DEFINE T == {n - i : i \in S}
<1>1. T \subseteq Nat /\ T # {}
  <2>1. \A i \in S : n - i \in Nat
    OBVIOUS
  <2>2. PICK i \in S : TRUE
    OBVIOUS
  <2>3. n - i \in T
    BY <2>2
  <2> QED
    BY <2>1, <2>3
<1>2. PICK x \in T : \A y \in T : ~ (<<y, x>> \in OpToRel(<, Nat))
  <2> HIDE DEF T
  <2> QED
    BY <1>1, NatLessThanWellFounded, WFMin
<1>3. \A y \in T : ~ (y < x)
  BY <1>1, <1>2 DEF OpToRel
<1>4. \E i \in S : \A j \in S : i >= j
  <2>1. PICK i \in S : x = n - i
    OBVIOUS
  <2>2. \A j \in S : i >= j
    BY <1>3, <2>1
  <2> QED
    BY <2>2
<1> QED
  BY <1>4 DEF Max

-----------------------------------------------------------------------------
(***************************************************************************)
(* Steps and the values they reach.                                        *)
(***************************************************************************)
LEMMA TopFacts ==
  ASSUME StackInv, stack # <<>>
  PROVE  /\ Len(stack) \in Nat \ {0} /\ DOMAIN stack = 1..Len(stack)
         /\ \A l \in DOMAIN stack : stack[l] \in Frames
         /\ Top = stack[Len(stack)] /\ Top \in Frames /\ FrameOK(Top)
<1>1. Len(stack) \in Nat \ {0} /\ DOMAIN stack = 1..Len(stack)
  BY LenProperties, EmptySeq DEF StackInv
<1>2. \A l \in DOMAIN stack : stack[l] \in Frames
  BY <1>1, ElementOfSeq DEF StackInv
<1> QED
  BY <1>1, <1>2 DEF StackInv, Top, Last

LEMMA StepFacts ==
  ASSUME NEW f \in Frames, AtStepOf(f)
  PROVE  f.idx \in DOMAIN Body[f.stream] /\ IsStep(StepOf(f))
<1>1. f.stream \in Streams /\ f.idx \in Nat \ {0}
  BY DEF Frames
<1>2. /\ Len(Body[f.stream]) \in Nat
      /\ DOMAIN Body[f.stream] = 1..Len(Body[f.stream])
      /\ \A i \in DOMAIN Body[f.stream] : IsStep(Body[f.stream][i])
  BY <1>1, ReplayAssumption DEF Streams, IsSequence
<1> QED
  BY <1>1, <1>2 DEF AtStepOf, StepOf

\* Steps of one stream have different names.
LEMMA NamesApart ==
  ASSUME NEW s \in Streams, NEW i \in DOMAIN Body[s], NEW j \in DOMAIN Body[s],
         NameAt(s, i) = NameAt(s, j)
  PROVE  i = j
<1>1. /\ DOMAIN Body[s] = 1..Len(Body[s]) /\ Len(Body[s]) \in Nat /\ NamedApart(Body[s])
      /\ Body[s][i].out \in Symbols \cup {None} /\ Body[s][j].out \in Symbols \cup {None}
  BY ReplayAssumption DEF Streams, IsSequence, IsStep
<1>2. i \in Nat /\ j \in Nat /\ Symbols \cap Nat = {}
  BY <1>1, ReplayAssumption
<1>3. CASE Body[s][i].out # None /\ Body[s][j].out # None
  BY <1>1, <1>3 DEF NameAt, NamedApart
<1> QED
  BY <1>1, <1>2, <1>3 DEF NameAt

LEMMA TableSet ==
  ASSUME NEW f \in Frames, NEW symbol \in Symbols \cup {None}, NEW value \in Values
  PROVE  Set(f, symbol, value) \in Tables
<1>1. PICK names \in SUBSET Symbols : f.vars \in [names -> Values]
  BY DEF Frames, Tables
<1> DEFINE more == names \cup ({symbol} \ {None})
<1>2. Set(f, symbol, value) \in [more -> Values]
  BY <1>1, ReplayAssumption DEF Set
<1>3. more \in SUBSET Symbols
  OBVIOUS
<1> HIDE DEF more
<1> QED
  BY <1>2, <1>3 DEF Tables

\* What is reached is a value; the iterator is a member only in a round.
LEMMA ReachedValue ==
  ASSUME Top \in Frames, NEW ref \in References, ref \in Reached,
         Top.loop # None => Top.loop.n < Len(Top.loop.items)
  PROVE  Reach(ref) \in Values
<1>1. /\ Top.inputs \in Seq(Values) /\ Top.loop \in Loops \cup {None}
      /\ \A s \in DOMAIN Top.vars : Top.vars[s] \in Values
  BY DEF Frames, Tables
<1>2. CASE \E i \in DOMAIN Top.inputs : ref = <<"inputs", i>>
  BY <1>1, <1>2, ElementOfSeq, LenProperties DEF Reach
<1>3. CASE \E s \in DOMAIN Top.vars : ref = <<"results", s>>
  BY <1>1, <1>3 DEF Reach
<1>4. CASE Top.loop # None /\ ref = <<"iterator">>
  <2>1. Top.loop.items \in Seq(Values) /\ Top.loop.n + 1 \in 1..Len(Top.loop.items)
    BY <1>1, <1>4, LenProperties DEF Loops
  <2>2. Top.loop.items[Top.loop.n + 1] \in Values
    BY <2>1, ElementOfSeq
  <2> QED
    BY <1>4, <2>2 DEF Reach
<1>5. CASE Top.loop # None /\ Top.loop.accumulator # None /\ ref = <<"accumulator">>
  BY <1>1, <1>5 DEF Reach, Loops
<1> QED
  BY <1>2, <1>3, <1>4, <1>5 DEF Reached

LEMMA GivenValues ==
  ASSUME Top \in Frames, IsStep(Step), Resolvable,
         Top.loop # None => Top.loop.n < Len(Top.loop.items)
  PROVE  Given \in Seq(Values)
<1>1. /\ Step.args \in Seq(References) /\ Len(Step.args) \in Nat
      /\ DOMAIN Step.args = 1..Len(Step.args)
  BY LenProperties DEF IsStep
<1>2. \A i \in 1..Len(Step.args) : Reach(Step.args[i]) \in Values
  BY <1>1, ReachedValue, ElementOfSeq DEF Resolvable
<1>3. Given = [i \in 1..Len(Step.args) |-> Reach(Step.args[i])]
  BY <1>1 DEF Given
<1> HIDE DEF Reach, Step
<1> QED
  BY <1>1, <1>2, <1>3, IsASeq

LEMMA CollectionValues ==
  ASSUME Top \in Frames, IsStep(Step), Top.loop = None, Step.over \in Optional
  PROVE  Collection \in Seq(Values) \cup {None}
<1>1. CASE Step.over = None
  BY <1>1, EmptySeq DEF Collection
<1>2. CASE Step.over # None
  <2>1. Step.over \in References /\ Step.over \in Reached
    BY <1>2 DEF IsStep, Optional
  <2>2. Reach(Step.over) \in Values
    BY <2>1, ReachedValue
  <2> QED
    BY <1>2, <2>2, ReplayAssumption DEF Collection
<1> QED
  BY <1>1, <1>2

-----------------------------------------------------------------------------
(***************************************************************************)
(* Paths.                                                                  *)
(***************************************************************************)
LEMMA Extended ==
  ASSUME NEW p \in Seq(Components), NEW c \in Components
  PROVE  /\ Append(p, c) \in Seq(Components) /\ Extends(Append(p, c), p)
         /\ Len(Append(p, c)) = Len(p) + 1
         /\ Append(p, c)[Len(p) + 1] = c
         /\ \A k \in 1..Len(p) : Append(p, c)[k] = p[k]
BY AppendProperties, LenProperties DEF Extends

\* What extends a path extends what that one extends, and goes the same way.
LEMMA ExtendsOver ==
  ASSUME NEW p \in Seq(Components), NEW q \in Seq(Components), NEW r \in Seq(Components),
         Extends(q, r), \A k \in 1..Len(q) : p[k] = q[k], Len(p) >= Len(q)
  PROVE  Extends(p, r) /\ p[Len(r) + 1] = q[Len(r) + 1]
<1>1. Len(p) \in Nat /\ Len(q) \in Nat /\ Len(r) \in Nat
  BY LenProperties
<1> QED
  BY <1>1 DEF Extends

\* Streams stay where they are but for what they have given out; and one may be
\* entered by a component that is not given out yet.
KeepPlace ==
    \A l \in DOMAIN stack \cap DOMAIN stack' :
       /\ stack'[l].prefix = stack[l].prefix
       /\ \A c : GivenOut(stack[l], c) => GivenOut(stack'[l], c)
       /\ l < Len(stack) =>
             IF l < Len(stack') THEN Component(stack'[l]) = Component(stack[l])
             ELSE GivenOut(stack'[l], Component(stack[l]))

Enter(c) ==
    /\ Len(stack') = Len(stack) + 1
    /\ stack'[Len(stack)] = Top
    /\ c = Component(Top) /\ c \in Components /\ ~GivenOut(Top, c)
    /\ stack'[Len(stack')].prefix = Append(Top.prefix, c)

LEMMA PathMoved ==
  ASSUME StackInv, StackInv', PathInv, stack # <<>>, stack' # <<>>, trace' = trace,
         KeepPlace, Len(stack') <= Len(stack) \/ Enter(Component(Top))
  PROVE  PathInv'
<1> DEFINE n == Len(stack)
           C == Component(Top)
           P == Append(Top.prefix, C)
<1>1. /\ n \in Nat \ {0} /\ DOMAIN stack = 1..n
      /\ \A l \in 1..n : stack[l] \in Frames /\ stack[l].prefix \in Seq(Components)
      /\ Top = stack[n] /\ Top \in Frames /\ Top.prefix \in Seq(Components)
  BY TopFacts DEF Frames
<1>2. Len(stack') \in Nat \ {0} /\ DOMAIN stack' = 1..Len(stack')
  BY LenProperties, EmptySeq DEF StackInv
<1>3. \A i \in DOMAIN trace : trace'[i].type = "CT_STEP" => trace'[i].path \in Seq(Components)
  BY DEF PathInv
<1>4. \A i \in DOMAIN trace : Recent(i)' <=> Recent(i)
  BY DEF Recent
<1>5. ASSUME Len(stack') > n
      PROVE  /\ Len(stack') = n + 1 /\ stack'[n] = Top /\ stack'[n + 1].prefix = P
             /\ C \in Components /\ ~GivenOut(Top, C)
             /\ P \in Seq(Components) /\ Len(P) = Len(Top.prefix) + 1 /\ Extends(P, Top.prefix)
             /\ P[Len(Top.prefix) + 1] = C
             /\ \A k \in 1..Len(Top.prefix) : P[k] = Top.prefix[k]
  <2>1. /\ Len(stack') = n + 1 /\ stack'[n] = Top /\ stack'[n + 1].prefix = P
        /\ C \in Components /\ ~GivenOut(Top, C)
    <3> HIDE DEF P, C
    <3>1. Enter(C)
      BY <1>1, <1>2, <1>5 DEF C
    <3>2. P = Append(Top.prefix, C)
      BY DEF P
    <3> QED
      BY <3>1, <3>2 DEF Enter
  <2> HIDE DEF C
  <2> QED
    BY <1>1, <2>1, Extended
<1>6. ASSUME NEW l \in DOMAIN stack', NEW m \in DOMAIN stack', l < m
      PROVE  /\ Extends(stack'[m].prefix, stack'[l].prefix)
             /\ stack'[m].prefix[Len(stack'[l].prefix) + 1] = Component(stack'[l])
  <2>1. l \in Nat \ {0} /\ m \in Nat \ {0} /\ l <= Len(stack') /\ m <= Len(stack')
    BY <1>2
  <2>2. CASE m <= n
    <3>1. /\ l \in DOMAIN stack \cap DOMAIN stack' /\ m \in DOMAIN stack \cap DOMAIN stack'
          /\ l < Len(stack) /\ l < Len(stack')
      BY <1>1, <1>2, <1>6, <2>1, <2>2
    <3>2. /\ Extends(stack[m].prefix, stack[l].prefix)
          /\ stack[m].prefix[Len(stack[l].prefix) + 1] = Component(stack[l])
      BY <1>6, <3>1 DEF PathInv
    <3> QED
      BY <3>1, <3>2 DEF KeepPlace
  <2>3. CASE m > n
    <3> HIDE DEF P, C
    <3>1. m = n + 1 /\ Len(stack') > n
      <4> DEFINE next == Len(stack')
      <4>1. next > n => next = n + 1
        BY <1>5
      <4>2. n \in Nat /\ next \in Nat /\ m \in Nat /\ m <= next
        BY <1>1, <1>2, <2>1
      <4> HIDE DEF n, next
      <4>3. m > n
        BY <2>3
      <4>4. m = n + 1 /\ next > n
        BY <4>1, <4>2, <4>3
      <4> QED
        BY <4>4 DEF next
    <3>2. CASE l = n
      BY <1>1, <1>5, <3>1, <3>2 DEF C
    <3>3. CASE l < n
      <4>1. l \in DOMAIN stack \cap DOMAIN stack' /\ l < Len(stack') /\ stack[l].prefix \in Seq(Components)
        BY <1>1, <1>2, <2>1, <3>1, <3>3
      <4>2. /\ Extends(Top.prefix, stack[l].prefix)
            /\ Top.prefix[Len(stack[l].prefix) + 1] = Component(stack[l])
        BY <1>1, <3>3, <4>1 DEF PathInv
      <4>3. Len(P) >= Len(Top.prefix)
        BY <1>1, <1>5, <3>1, LenProperties
      <4>4. /\ Extends(P, stack[l].prefix)
            /\ P[Len(stack[l].prefix) + 1] = Component(stack[l])
        BY <1>1, <1>5, <3>1, <4>1, <4>2, <4>3, ExtendsOver
      <4> QED
        BY <1>5, <3>1, <3>3, <4>1, <4>4 DEF KeepPlace
    <3> QED
      BY <1>1, <1>6, <2>1, <3>1, <3>2, <3>3
  <2> QED
    BY <1>1, <2>1, <2>2, <2>3
<1>7. ASSUME NEW i \in DOMAIN trace, NEW l \in DOMAIN stack', Recent(i),
             Extends(trace[i].path, stack'[l].prefix)
      PROVE  LET c == trace[i].path[Len(stack'[l].prefix) + 1]
             IN  GivenOut(stack'[l], c) \/ (l < Len(stack') /\ c = Component(stack'[l]))
  <2>1. l \in Nat \ {0} /\ l <= Len(stack')
    BY <1>2
  <2>2. CASE l <= n
    <3>1. l \in DOMAIN stack \cap DOMAIN stack'
      BY <1>1, <1>2, <2>1, <2>2
    <3>2. stack'[l].prefix = stack[l].prefix
      BY <3>1 DEF KeepPlace
    <3> DEFINE c == trace[i].path[Len(stack[l].prefix) + 1]
    <3>3. GivenOut(stack[l], c) \/ (l < Len(stack) /\ c = Component(stack[l]))
      BY <1>7, <3>1, <3>2 DEF PathInv
    <3> HIDE DEF c
    <3>4. GivenOut(stack'[l], c) \/ (l < Len(stack') /\ c = Component(stack'[l]))
      BY <3>1, <3>3 DEF KeepPlace
    <3> QED
      BY <3>2, <3>4 DEF c
  <2>3. CASE l > n
    <3> HIDE DEF P, C
    <3>1. l = n + 1 /\ Len(stack') > n
      <4> DEFINE next == Len(stack')
      <4>1. next > n => next = n + 1
        BY <1>5
      <4>2. n \in Nat /\ next \in Nat /\ l \in Nat /\ l <= next
        BY <1>1, <1>2, <2>1
      <4> HIDE DEF n, next
      <4>3. l > n
        BY <2>3
      <4>4. l = n + 1 /\ next > n
        BY <4>1, <4>2, <4>3
      <4> QED
        BY <4>4 DEF next
    <3>2. stack'[l].prefix = P /\ Len(Top.prefix) \in Nat
      BY <1>1, <1>5, <3>1, LenProperties
    <3>3. /\ Extends(trace[i].path, Top.prefix)
          /\ trace[i].path[Len(Top.prefix) + 1] = C
      BY <1>5, <1>7, <3>1, <3>2 DEF Extends
    <3>4. GivenOut(Top, C)
      BY <1>1, <1>7, <3>3 DEF PathInv
    <3> QED
      BY <1>5, <3>1, <3>4
  <2> QED
    BY <1>1, <2>1, <2>2, <2>3
<1>8. PathsAreDistinct'
  BY DEF PathInv, PathsAreDistinct
<1> QED
  BY <1>3, <1>4, <1>6, <1>7, <1>8 DEF PathInv

\* An atom is observed under a path that no stream in progress has given out.
LEMMA PathObserved ==
  ASSUME StackInv, StackInv', PathInv, IsList(trace), stack # <<>>, KeepPlace,
         Len(stack') = Len(stack),
         NEW c \in Components, ~GivenOut(Top, c), GivenOut(stack'[Len(stack)], c),
         NEW e, trace' = Append(trace, e),
         e.type = "CT_STEP", e.path = Append(Top.prefix, c)
  PROVE  PathInv'
<1> DEFINE n == Len(stack)
           N == Len(trace)
           P == Append(Top.prefix, c)
<1>1. /\ n \in Nat \ {0} /\ DOMAIN stack = 1..n
      /\ \A l \in 1..n : stack[l] \in Frames /\ stack[l].prefix \in Seq(Components)
      /\ Top = stack[n] /\ Top \in Frames /\ Top.prefix \in Seq(Components)
  BY TopFacts DEF Frames
<1>2. DOMAIN stack' = 1..n
  BY LenProperties DEF StackInv
<1>3. /\ N \in Nat /\ DOMAIN trace = 1..N
      /\ Len(trace') = N + 1 /\ DOMAIN trace' = 1..(N + 1)
      /\ \A i \in 1..N : trace'[i] = trace[i]
      /\ trace'[N + 1] = e
  BY ListAppend, ListFacts
<1>4. /\ P \in Seq(Components) /\ Len(P) = Len(Top.prefix) + 1 /\ Len(Top.prefix) \in Nat
      /\ Extends(P, Top.prefix) /\ P[Len(Top.prefix) + 1] = c
      /\ \A k \in 1..Len(Top.prefix) : P[k] = Top.prefix[k]
  BY <1>1, Extended, LenProperties
<1>5. e.path = P
  OBVIOUS
<1> HIDE DEF P, N
<1>6. \A i \in 1..N : Recent(i)' => Recent(i)
  <2>1. ASSUME NEW i \in 1..N, \A k \in i..(N + 1) : trace'[k].type = "CT_STEP", NEW k \in i..N
        PROVE  trace[k].type = "CT_STEP"
    BY <1>3, <2>1
  <2> QED
    BY <1>3, <2>1 DEF Recent, N
<1>7. \A l \in DOMAIN stack : stack'[l].prefix = stack[l].prefix
  BY <1>1, <1>2 DEF KeepPlace
<1>8. \A i \in DOMAIN trace' : trace'[i].type = "CT_STEP" => trace'[i].path \in Seq(Components)
  BY <1>3, <1>4, <1>5 DEF PathInv
<1>9. ASSUME NEW l \in DOMAIN stack', NEW m \in DOMAIN stack', l < m
      PROVE  /\ Extends(stack'[m].prefix, stack'[l].prefix)
             /\ stack'[m].prefix[Len(stack'[l].prefix) + 1] = Component(stack'[l])
  <2>1. l \in DOMAIN stack \cap DOMAIN stack' /\ m \in DOMAIN stack /\ l < Len(stack) /\ l < Len(stack')
    BY <1>1, <1>2, <1>9
  <2>2. /\ Extends(stack[m].prefix, stack[l].prefix)
        /\ stack[m].prefix[Len(stack[l].prefix) + 1] = Component(stack[l])
    BY <1>9, <2>1 DEF PathInv
  <2>3. Component(stack'[l]) = Component(stack[l])
    BY <2>1 DEF KeepPlace
  <2> QED
    BY <1>7, <2>1, <2>2, <2>3
<1>10. ASSUME NEW i \in DOMAIN trace', NEW l \in DOMAIN stack', Recent(i)',
              Extends(trace'[i].path, stack'[l].prefix)
       PROVE  LET d == trace'[i].path[Len(stack'[l].prefix) + 1]
              IN  GivenOut(stack'[l], d) \/ (l < Len(stack') /\ d = Component(stack'[l]))
  <2>1. l \in DOMAIN stack \cap DOMAIN stack' /\ stack'[l].prefix = stack[l].prefix /\ l \in 1..n
    BY <1>1, <1>2, <1>7
  <2> DEFINE d == trace'[i].path[Len(stack[l].prefix) + 1]
  <2>2. GivenOut(stack'[l], d) \/ (l < Len(stack) /\ d = Component(stack[l]))
    <3>1. CASE i \in 1..N
      <4>1. Recent(i) /\ i \in DOMAIN trace /\ trace'[i] = trace[i]
        BY <1>3, <1>6, <1>10, <3>1
      <4>2. GivenOut(stack[l], d) \/ (l < Len(stack) /\ d = Component(stack[l]))
        BY <1>10, <2>1, <4>1 DEF PathInv
      <4> HIDE DEF d
      <4> QED
        BY <2>1, <4>2 DEF KeepPlace
    <3>2. CASE i = N + 1
      <4>1. trace'[i].path = P
        BY <1>3, <1>5, <3>2
      <4>2. CASE l = n
        BY <1>1, <1>4, <4>1, <4>2
      <4>3. CASE l < n
        <5>1. /\ Extends(Top.prefix, stack[l].prefix) /\ stack[l].prefix \in Seq(Components)
              /\ Top.prefix[Len(stack[l].prefix) + 1] = Component(stack[l])
          BY <1>1, <2>1, <4>3 DEF PathInv
        <5>2. P[Len(stack[l].prefix) + 1] = Component(stack[l])
          <6>1. Len(P) >= Len(Top.prefix)
            BY <1>4
          <6> QED
            BY <1>1, <1>4, <5>1, <6>1, ExtendsOver
        <5> QED
          BY <4>1, <4>3, <5>2
      <4> QED
        BY <1>1, <2>1, <4>2, <4>3
    <3> QED
      BY <1>3, <3>1, <3>2
  <2>3. l < Len(stack) => l < Len(stack') /\ Component(stack'[l]) = Component(stack[l])
    BY <2>1 DEF KeepPlace
  <2> QED
    BY <2>1, <2>2, <2>3
<1>11. ASSUME NEW i \in DOMAIN trace', NEW j \in DOMAIN trace', i < j,
              trace'[i].type = "CT_STEP", trace'[j].type = "CT_STEP"
       PROVE  trace'[i].path # trace'[j].path \/ \E k \in i..j : trace'[k].type # "CT_STEP"
  <2>1. i \in 1..N /\ i \in DOMAIN trace /\ trace'[i] = trace[i]
    BY <1>3, <1>11
  <2>2. CASE j \in 1..N
    <3>1. trace[i].path # trace[j].path \/ \E k \in i..j : trace[k].type # "CT_STEP"
      BY <1>3, <1>11, <2>1, <2>2 DEF PathInv, PathsAreDistinct
    <3>2. \A k \in i..j : trace'[k] = trace[k]
      BY <1>3, <2>1, <2>2
    <3> QED
      BY <1>3, <2>1, <2>2, <3>1, <3>2
  <2>3. CASE j = N + 1
    <3>1. trace'[j].path = P
      BY <1>3, <1>5, <2>3
    <3>2. CASE Recent(i)
      <4>1. trace[i].path # P
        <5>1. SUFFICES ASSUME trace[i].path = P PROVE FALSE
          OBVIOUS
        <5>2. n \in DOMAIN stack /\ ~(n < Len(stack)) /\ stack[n] = Top
          BY <1>1
        <5>3. /\ Extends(trace[i].path, stack[n].prefix)
              /\ trace[i].path[Len(stack[n].prefix) + 1] = c
          BY <1>4, <5>1, <5>2
        <5>4. GivenOut(stack[n], c)
          BY <2>1, <3>2, <5>2, <5>3 DEF PathInv
        <5> QED
          BY <5>2, <5>4
      <4> QED
        BY <2>1, <3>1, <4>1
    <3>3. CASE ~Recent(i)
      <4>1. PICK k \in i..N : trace[k].type # "CT_STEP"
        BY <3>3 DEF Recent, N
      <4>2. k \in i..j /\ trace'[k] = trace[k]
        BY <1>3, <2>1, <2>3, <4>1
      <4> QED
        BY <4>1, <4>2
    <3> QED
      BY <3>2, <3>3
  <2> QED
    BY <1>3, <2>2, <2>3
<1>12. stack' # <<>>
  BY <1>1, EmptySeq
<1> QED
  BY <1>8, <1>9, <1>10, <1>11, <1>12 DEF PathInv, PathsAreDistinct

\* No stream is in progress, and if the run goes on the last event is no record.
LEMMA PathCleared ==
  ASSUME PathInv, IsList(trace), stack' = <<>>,
         \/ trace' = trace /\ (done' # "no" \/ (done = "no" /\ stack = <<>>))
         \/ trace' = <<>>
         \/ \E e : trace' = Append(trace, e) /\ e.type # "CT_STEP"
  PROVE  PathInv'
<1>1. DOMAIN stack' = {}
  BY EmptySeq
<1>2. CASE trace' = trace /\ (done' # "no" \/ (done = "no" /\ stack = <<>>))
  BY <1>1, <1>2 DEF PathInv, PathsAreDistinct, Recent
<1>3. CASE trace' = <<>>
  <2>1. DOMAIN trace' = {}
    BY <1>3, EmptySeq
  <2> QED
    BY <1>1, <2>1 DEF PathInv, PathsAreDistinct, Recent
<1>4. CASE \E e : trace' = Append(trace, e) /\ e.type # "CT_STEP"
  <2> DEFINE N == Len(trace)
  <2>1. PICK e : trace' = Append(trace, e) /\ e.type # "CT_STEP"
    BY <1>4
  <2>2. /\ N \in Nat /\ DOMAIN trace = 1..N
        /\ Len(trace') = N + 1 /\ DOMAIN trace' = 1..(N + 1)
        /\ \A i \in 1..N : trace'[i] = trace[i]
        /\ trace'[N + 1].type # "CT_STEP"
    BY <2>1, ListAppend, ListFacts
  <2> HIDE DEF N
  <2>3. \A i \in DOMAIN trace' : trace'[i].type = "CT_STEP" => i \in DOMAIN trace /\ trace'[i] = trace[i]
    BY <2>2
  <2>4. \A i \in DOMAIN trace' : ~Recent(i)'
    BY <2>2 DEF Recent
  <2>5. ASSUME NEW i \in DOMAIN trace', NEW j \in DOMAIN trace', i < j,
               trace'[i].type = "CT_STEP", trace'[j].type = "CT_STEP"
        PROVE  trace'[i].path # trace'[j].path \/ \E k \in i..j : trace'[k].type # "CT_STEP"
    <3>1. /\ i \in 1..N /\ j \in 1..N /\ trace'[i] = trace[i] /\ trace'[j] = trace[j]
          /\ \A k \in i..j : trace'[k] = trace[k]
      BY <2>2, <2>3, <2>5
    <3> QED
      BY <2>2, <2>5, <3>1 DEF PathInv, PathsAreDistinct
  <2>6. \A i \in DOMAIN trace' : trace'[i].type = "CT_STEP" => trace'[i].path \in Seq(Components)
    BY <2>3 DEF PathInv
  <2> QED
    BY <1>1, <2>4, <2>5, <2>6 DEF PathInv, PathsAreDistinct
<1> QED
  BY <1>2, <1>3, <1>4

\* A transform begins when no record is recent.
LEMMA PathBegun ==
  ASSUME PathInv, stack = <<>>, done = "no", trace' = trace,
         NEW f, stack' = <<f>>
  PROVE  PathInv'
<1>1. DOMAIN stack' = {1} /\ Len(stack') = 1 /\ stack' # <<>>
  OBVIOUS
<1>2. \A i \in DOMAIN trace' : ~Recent(i)'
  BY DEF PathInv, Recent
<1> QED
  BY <1>1, <1>2 DEF PathInv, PathsAreDistinct

-----------------------------------------------------------------------------
(***************************************************************************)
(* Moves of the stack.                                                     *)
(***************************************************************************)
LEMMA FrameNames ==
  ASSUME NEW f \in Frames, AtStepOf(f)
  PROVE  /\ f.stream \in Streams /\ f.idx \in Nat \ {0} /\ f.loop \in Loops \cup {None}
         /\ f.idx \in DOMAIN Body[f.stream]
         /\ \A i \in 1..f.idx : i \in DOMAIN Body[f.stream]
         /\ NameAt(f.stream, f.idx) \in Symbols \cup Nat
<1>1. f.stream \in Streams /\ f.idx \in Nat \ {0} /\ f.loop \in Loops \cup {None}
  BY DEF Frames
<1>2. f.idx \in DOMAIN Body[f.stream] /\ IsStep(StepOf(f))
  BY StepFacts
<1>3. DOMAIN Body[f.stream] = 1..Len(Body[f.stream]) /\ Len(Body[f.stream]) \in Nat
  BY <1>1, ReplayAssumption DEF Streams, IsSequence
<1>4. NameAt(f.stream, f.idx) \in Symbols \cup Nat
  BY <1>1, <1>2 DEF NameAt, IsStep, StepOf
<1> QED
  BY <1>1, <1>2, <1>3, <1>4

\* The component of the step a stream is at has not been given out.
LEMMA Fresh ==
  ASSUME NEW f \in Frames, AtStepOf(f)
  PROVE  Component(f) \in Components /\ ~GivenOut(f, Component(f))
<1> DEFINE name == NameAt(f.stream, f.idx)
<1>1. /\ f.stream \in Streams /\ f.idx \in Nat \ {0} /\ f.loop \in Loops \cup {None}
      /\ f.idx \in DOMAIN Body[f.stream]
      /\ \A i \in 1..f.idx : i \in DOMAIN Body[f.stream]
      /\ name \in Symbols \cup Nat
  BY FrameNames
<1>2. f.loop # None => f.loop.n \in Nat
  BY <1>1 DEF Loops
<1>3. \A i \in 1..(f.idx - 1) : NameAt(f.stream, i) # name
  <2>1. ASSUME NEW i \in 1..(f.idx - 1), NameAt(f.stream, i) = name
        PROVE  FALSE
    <3>1. i \in DOMAIN Body[f.stream] /\ i # f.idx
      BY <1>1
    <3> QED
      BY <1>1, <2>1, <3>1, NamesApart
  <2> QED
    BY <2>1
<1> HIDE DEF name
<1>4. CASE f.loop = None
  <2>1. Component(f) = <<name>>
    BY <1>4 DEF Component, name
  <2>2. <<name>> \in Seq(Symbols \cup Nat) /\ <<name>>[1] = name
    BY <1>1
  <2> QED
    BY <1>3, <1>4, <2>1, <2>2 DEF GivenOut, Components
<1>5. CASE f.loop # None
  <2>1. Component(f) = <<name, f.loop.n>>
    BY <1>5 DEF Component, name
  <2>2. <<name, f.loop.n>> \in Seq(Symbols \cup Nat) /\ <<name, f.loop.n>>[1] = name
    BY <1>1, <1>2, <1>5
  <2>3. \A n \in 0..(f.loop.n - 1) : <<name, f.loop.n>> # <<name, n>>
    BY <1>2, <1>5
  <2> QED
    BY <1>3, <1>5, <2>1, <2>2, <2>3 DEF GivenOut, Components, name
<1> QED
  BY <1>4, <1>5

\* A stream that goes on to its next step has given out what the step went by.
LEMMA Advanced ==
  ASSUME NEW f \in Frames, AtStepOf(f), NEW g,
         g.stream = f.stream, g.idx = f.idx + 1, g.loop = None
  PROVE  /\ \A c : GivenOut(f, c) => GivenOut(g, c)
         /\ GivenOut(g, Component(f))
<1> DEFINE name == NameAt(f.stream, f.idx)
<1>1. f.idx \in Nat \ {0}
  BY FrameNames
<1>2. \A c : c[1] = name => GivenOut(g, c)
  <2>1. f.idx \in 1..(g.idx - 1)
    BY <1>1
  <2> QED
    BY <2>1 DEF GivenOut
<1>3. \A i \in 1..(f.idx - 1) : i \in 1..(g.idx - 1)
  BY <1>1
<1>4. \A n : <<name, n>>[1] = name
  OBVIOUS
<1>5. <<name>>[1] = name
  OBVIOUS
<1>6. Component(f)[1] = name
  BY <1>4, <1>5 DEF Component
<1>7. ASSUME NEW c, GivenOut(f, c)
      PROVE  GivenOut(g, c)
  <2>1. CASE \E i \in 1..(f.idx - 1) : c[1] = NameAt(f.stream, i)
    BY <1>3, <2>1 DEF GivenOut
  <2>2. CASE \E n \in 0..(f.loop.n - 1) : c = <<name, n>>
    BY <1>2, <1>4, <2>2
  <2> QED
    BY <1>7, <2>1, <2>2 DEF GivenOut
<1> QED
  BY <1>2, <1>6, <1>7

\* And so has one that has ended a round of its loop.
LEMMA RoundEnded ==
  ASSUME NEW f \in Frames, AtStepOf(f), f.loop # None, NEW g,
         g.stream = f.stream, g.idx = f.idx, g.loop # None, g.loop.n = f.loop.n + 1
  PROVE  /\ \A c : GivenOut(f, c) => GivenOut(g, c)
         /\ GivenOut(g, Component(f))
<1>1. f.loop.n \in Nat
  BY FrameNames DEF Loops
<1>2. f.loop.n \in 0..(g.loop.n - 1) /\ \A n \in 0..(f.loop.n - 1) : n \in 0..(g.loop.n - 1)
  BY <1>1
<1> QED
  BY <1>2 DEF GivenOut, Component

LEMMA TopReplaced ==
  ASSUME StackInv, stack # <<>>, NEW f \in Frames, FrameOK(f), SetTop(f), done' = "no"
  PROVE  /\ StackInv' /\ stack' # <<>> /\ Len(stack') = Len(stack)
         /\ \A l \in 1..(Len(stack) - 1) : stack'[l] = stack[l]
         /\ stack'[Len(stack)] = f
<1> DEFINE n == Len(stack)
<1>1. n \in Nat \ {0} /\ DOMAIN stack = 1..n /\ \A l \in DOMAIN stack : stack[l] \in Frames
  BY TopFacts
<1>2. /\ stack' \in Seq(Frames) /\ Len(stack') = n
      /\ \A l \in 1..(n - 1) : stack'[l] = stack[l]
      /\ stack'[n] = f
  BY LastReplaced DEF SetTop, StackInv
<1>3. DOMAIN stack' = 1..n /\ stack' # <<>>
  BY <1>1, <1>2, LenProperties, EmptySeq
<1>4. ASSUME NEW l \in DOMAIN stack'
      PROVE  FrameOK(stack'[l]) /\ (l < Len(stack') => Waits(stack'[l]))
  <2>1. CASE l < n
    BY <1>1, <1>2, <1>3, <2>1 DEF StackInv
  <2>2. CASE l = n
    BY <1>2, <2>2
  <2> QED
    BY <1>1, <1>3, <2>1, <2>2
<1> QED
  BY <1>2, <1>3, <1>4 DEF StackInv, FrameOK, Waits, AtStepOf, StepOf

\* The top stays where it is, but for what it has given out.
LEMMA TopKeepsPlace ==
  ASSUME StackInv, stack # <<>>, NEW f \in Frames, FrameOK(f), SetTop(f), done' = "no",
         f.prefix = Top.prefix, \A c : GivenOut(Top, c) => GivenOut(f, c)
  PROVE  KeepPlace
<1>1. /\ Len(stack) \in Nat \ {0} /\ DOMAIN stack = 1..Len(stack) /\ Top = stack[Len(stack)]
      /\ Len(stack') = Len(stack)
      /\ \A l \in 1..(Len(stack) - 1) : stack'[l] = stack[l]
      /\ stack'[Len(stack)] = f
  BY TopFacts, TopReplaced
<1>2. ASSUME NEW l \in DOMAIN stack \cap DOMAIN stack'
      PROVE  /\ stack'[l].prefix = stack[l].prefix
             /\ \A c : GivenOut(stack[l], c) => GivenOut(stack'[l], c)
             /\ l < Len(stack) =>
                   IF l < Len(stack') THEN Component(stack'[l]) = Component(stack[l])
                   ELSE GivenOut(stack'[l], Component(stack[l]))
  <2>1. CASE l < Len(stack)
    <3>1. stack'[l] = stack[l]
      BY <1>1, <2>1
    <3> QED
      BY <1>1, <2>1, <3>1
  <2>2. CASE l = Len(stack)
    BY <1>1, <2>2
  <2> QED
    BY <1>1, <2>1, <2>2
<1> QED
  BY <1>2 DEF KeepPlace

\* A stream is entered, by a step that waits for it.
Enters(f) == stack' = Append(stack, f)

LEMMA Entered ==
  ASSUME StackInv, PathInv, stack # <<>>, trace' = trace, done' = "no", Waits(Top),
         NEW f \in Frames, FrameOK(f), Enters(f),
         f.prefix = Append(Top.prefix, Component(Top))
  PROVE  StackInv' /\ PathInv'
<1> DEFINE n == Len(stack)
<1>1. /\ n \in Nat \ {0} /\ DOMAIN stack = 1..n /\ \A l \in DOMAIN stack : stack[l] \in Frames
      /\ Top = stack[n] /\ Top \in Frames
  BY TopFacts
<1>2. /\ stack' \in Seq(Frames) /\ stack' # <<>> /\ Len(stack') = n + 1
      /\ \A l \in 1..n : stack'[l] = stack[l]
      /\ stack'[n + 1] = f
  BY OnTop DEF StackInv, Enters
<1>3. DOMAIN stack' = 1..(n + 1)
  BY <1>1, <1>2, LenProperties
<1>4. ASSUME NEW l \in DOMAIN stack'
      PROVE  FrameOK(stack'[l]) /\ (l < Len(stack') => Waits(stack'[l]))
  <2>1. CASE l < n
    BY <1>1, <1>2, <1>3, <2>1 DEF StackInv
  <2>2. CASE l = n
    BY <1>1, <1>2, <2>2 DEF StackInv
  <2>3. CASE l = n + 1
    BY <1>2, <2>3
  <2> QED
    BY <1>1, <1>3, <2>1, <2>2, <2>3
<1>5. StackInv'
  BY <1>2, <1>3, <1>4 DEF StackInv, FrameOK, Waits, AtStepOf, StepOf
<1>6. Component(Top) \in Components /\ ~GivenOut(Top, Component(Top))
  BY <1>1, Fresh DEF Waits
<1>7. Enter(Component(Top))
  <2>1. /\ Len(stack') = Len(stack) + 1 /\ stack'[Len(stack)] = Top
        /\ stack'[Len(stack')].prefix = Append(Top.prefix, Component(Top))
    <3> HIDE DEF n
    <3>1. Len(stack') = n + 1 /\ stack'[n] = Top /\ stack'[n + 1].prefix = f.prefix
      BY <1>1, <1>2
    <3> QED
      BY <3>1 DEF n
  <2> QED
    BY <1>6, <2>1 DEF Enter
<1>8. KeepPlace
  <2>1. \A l \in DOMAIN stack \cap DOMAIN stack' : stack'[l] = stack[l] /\ l < Len(stack')
    BY <1>1, <1>2
  <2> QED
    BY <2>1 DEF KeepPlace
<1> QED
  BY <1>2, <1>5, <1>7, <1>8, PathMoved

\* A stream has ended, and the one it was entered from goes on.
Resumes(f) == stack' = Front(Front(stack)) \o <<f>>

LEMMA Resumed ==
  ASSUME StackInv, PathInv, Len(stack) > 1, trace' = trace, done' = "no",
         NEW f \in Frames, FrameOK(f), Resumes(f),
         f.prefix = stack[Len(stack) - 1].prefix,
         \A c : GivenOut(stack[Len(stack) - 1], c) => GivenOut(f, c),
         GivenOut(f, Component(stack[Len(stack) - 1]))
  PROVE  StackInv' /\ PathInv'
<1> DEFINE n == Len(stack)
<1>0. stack # <<>>
  BY EmptySeq
<1>1. /\ n \in Nat \ {0} /\ DOMAIN stack = 1..n /\ \A l \in DOMAIN stack : stack[l] \in Frames
  BY <1>0, TopFacts
<1>2. /\ stack' \in Seq(Frames) /\ Len(stack') = n - 1
      /\ \A l \in 1..(n - 2) : stack'[l] = stack[l]
      /\ stack'[n - 1] = f
  BY LastTwoReplaced DEF StackInv, Resumes
<1>3. DOMAIN stack' = 1..(n - 1) /\ stack' # <<>>
  BY <1>1, <1>2, LenProperties, EmptySeq
<1>4. ASSUME NEW l \in DOMAIN stack'
      PROVE  FrameOK(stack'[l]) /\ (l < Len(stack') => Waits(stack'[l]))
  <2>1. CASE l < n - 1
    BY <1>1, <1>2, <1>3, <2>1 DEF StackInv
  <2>2. CASE l = n - 1
    BY <1>2, <2>2
  <2> QED
    BY <1>1, <1>3, <2>1, <2>2
<1>5. StackInv'
  BY <1>2, <1>3, <1>4 DEF StackInv, FrameOK, Waits, AtStepOf, StepOf
<1>6. KeepPlace
  <2>1. ASSUME NEW l \in DOMAIN stack \cap DOMAIN stack'
        PROVE  /\ stack'[l].prefix = stack[l].prefix
               /\ \A c : GivenOut(stack[l], c) => GivenOut(stack'[l], c)
               /\ l < Len(stack) =>
                     IF l < Len(stack') THEN Component(stack'[l]) = Component(stack[l])
                     ELSE GivenOut(stack'[l], Component(stack[l]))
    <3>1. CASE l < n - 1
      <4>1. stack'[l] = stack[l] /\ l < Len(stack')
        BY <1>1, <1>2, <1>3, <3>1
      <4> QED
        BY <4>1
    <3>2. CASE l = n - 1
      BY <1>1, <1>2, <3>2
    <3> QED
      BY <1>1, <1>3, <3>1, <3>2
  <2> QED
    BY <2>1 DEF KeepPlace
<1>7. Len(stack') <= Len(stack)
  BY <1>1, <1>2
<1> QED
  BY <1>0, <1>3, <1>5, <1>6, <1>7, PathMoved

-----------------------------------------------------------------------------
(***************************************************************************)
(* The steps of a stream.                                                  *)
(***************************************************************************)
Traced(e) ==
    /\ e.type \in {"CC_START", "CT_STEP", "CC_STEP", "ERROR"}
    /\ e.type = "CT_STEP" /\ e.purity = "ct_impure" => e.what \in Values

TraceKept == trace' = trace \/ \E e : trace' = Append(trace, e) /\ Traced(e)

DrawnKept ==
    \/ drawn' = drawn
    \/ \E d : /\ drawn' = Append(drawn, d)
              /\ d.answer \in Answers
              /\ d.key[3] = None \/ recorded = <<>>

Ended == done' \in {"VIOLATION", "raised", "unsupplied"}

Moves == StackInv' /\ PathInv' /\ TraceKept

InStream ==
    /\ done = "no" /\ stack # <<>>
    /\ Around /\ DrawnKept
    /\ Moves
    /\ done' = done \/ Ended

\* A fault, for any reason, and a result that is not supplied.
Faults == \E reason : Fault(reason)
Lacks == \E path : Unsupplied(path)

LEMMA EndsWell ==
  ASSUME StackInv, PathInv, RecordInv, Refuse \/ Faults \/ Lacks
  PROVE  Moves /\ Ended
<1>1. /\ stack' = <<>> /\ Ended
      /\ \/ trace' = trace
         \/ trace' = Append(trace, Event("CC_STEP", "VIOLATION"))
         \/ \E reason : trace' = Append(trace, Error(reason))
  <2>1. Lacks => Faults \/ (stack' = <<>> /\ done' = "unsupplied" /\ trace' = trace)
    BY DEF Lacks, Faults, Unsupplied
  <2>2. ASSUME NEW reason, Fault(reason)
        PROVE  /\ stack' = <<>> /\ done' = "raised"
               /\ trace' = trace \/ trace' = Append(trace, Error(reason))
    BY <2>2 DEF Fault, Told
  <2>3. Faults => /\ stack' = <<>> /\ done' = "raised"
                  /\ trace' = trace \/ \E reason : trace' = Append(trace, Error(reason))
    BY <2>2 DEF Faults
  <2>4. Refuse => /\ stack' = <<>> /\ done' = "VIOLATION"
                  /\ trace' = trace \/ trace' = Append(trace, Event("CC_STEP", "VIOLATION"))
    BY DEF Refuse, Told
  <2> QED
    BY <2>1, <2>3, <2>4 DEF Ended
<1>2. Event("CC_STEP", "VIOLATION").type = "CC_STEP" /\ \A reason : Error(reason).type = "ERROR"
  BY DEF Event, Error
<1>3. Traced(Event("CC_STEP", "VIOLATION")) /\ \A reason : Traced(Error(reason))
  BY <1>2 DEF Traced
<1>4. TraceKept
  BY <1>1, <1>3 DEF TraceKept
<1>5. StackInv'
  <2>1. stack' \in Seq(Frames) /\ DOMAIN stack' = {}
    BY <1>1, EmptySeq
  <2> QED
    BY <1>1, <2>1 DEF StackInv
<1>6. done' # "no"
  BY <1>1 DEF Ended
<1>7. PathInv'
  <2>1. \/ trace' = trace /\ (done' # "no" \/ (done = "no" /\ stack = <<>>))
        \/ \E e : trace' = Append(trace, e) /\ e.type # "CT_STEP"
    BY <1>1, <1>2, <1>6
  <2> QED
    BY <1>1, <2>1, PathCleared DEF RecordInv
<1> QED
  BY <1>1, <1>4, <1>5, <1>7 DEF Moves

LEMMA AtStepFacts ==
  ASSUME StackInv, AtStep
  PROVE  /\ Top \in Frames /\ FrameOK(Top) /\ AtStepOf(Top) /\ Step = StepOf(Top) /\ IsStep(Step)
         /\ Step.form \notin {"loop", "each"} => Top.loop = None
         /\ Symbol = <<NameAt(Top.stream, Top.idx)>>
         /\ Top.prefix \in Seq(Components)
<1>1. Top \in Frames /\ FrameOK(Top)
  BY TopFacts DEF AtStep
<1>2. AtStepOf(Top) /\ Step = StepOf(Top) /\ Symbol = <<NameAt(Top.stream, Top.idx)>>
  BY DEF AtStep, AtStepOf, Step, StepOf, Symbol, NameAt
<1> QED
  BY <1>1, <1>2, StepFacts DEF FrameOK, Frames

\* What is remembered of an atom that was run.
LEMMA RanWell ==
  ASSUME RecordInv, IsStep(Step), Step.form \in {"atom", "loop"},
         NEW path, NEW answer \in Possible \cup {"fault"}, Ran(path, answer),
         path = None \/ ~Substituted
  PROVE  DrawnKept
<1>1. CASE Impure /\ phase # "replay"
  <2> DEFINE d == [key |-> Key(path), answer |-> answer]
  <2>1. drawn' = Append(drawn, d)
    BY <1>1 DEF Ran
  <2>2. d.answer = answer /\ d.key[3] = path
    BY DEF Key
  <2>3. answer \in Answers
    BY <1>1 DEF Possible, IsStep, Impure, Answers
  <2>4. path = None \/ recorded = <<>>
    BY <1>1 DEF Substituted
  <2> HIDE DEF d
  <2> QED
    BY <2>1, <2>2, <2>3, <2>4 DEF DrawnKept
<1>2. CASE ~(Impure /\ phase # "replay")
  BY <1>2 DEF Ran, DrawnKept
<1> QED
  BY <1>1, <1>2

\* A frame with other fields is a frame if the fields are in their sets.
LEMMA FrameChanged ==
  ASSUME NEW f \in Frames, NEW g,
         DOMAIN g = DOMAIN f, g = [field \in DOMAIN g |-> g[field]],
         g.stream \in Streams, g.idx \in Nat \ {0}, g.prefix \in Seq(Components),
         g.inputs \in Seq(Values), g.vars \in Tables, g.loop \in Loops \cup {None}
  PROVE  g \in Frames
<1>1. g = [stream |-> g.stream, idx |-> g.idx, prefix |-> g.prefix, inputs |-> g.inputs,
           vars |-> g.vars, loop |-> g.loop]
  BY DEF Frames
<1> QED
  BY <1>1 DEF Frames

\* A frame goes on to its next step.
GoesTo(f, table, g) ==
    \/ g = [f EXCEPT !.vars = table, !.idx = @ + 1, !.loop = None]
    \/ f.loop = None /\ g = [f EXCEPT !.vars = table, !.idx = @ + 1]

LEMMA GoesOn ==
  ASSUME NEW f \in Frames, AtStepOf(f), NEW table \in Tables, NEW g, GoesTo(f, table, g)
  PROVE  /\ g \in Frames /\ FrameOK(g)
         /\ g.prefix = f.prefix /\ g.stream = f.stream /\ g.idx = f.idx + 1 /\ g.loop = None
<1>1. f.idx \in Nat \ {0} /\ Len(Body[f.stream]) \in Nat
  BY ReplayAssumption DEF Frames, Streams, IsSequence
<1>2. /\ g.stream = f.stream /\ g.idx = f.idx + 1 /\ g.prefix = f.prefix /\ g.inputs = f.inputs
      /\ g.vars = table /\ g.loop = None
      /\ DOMAIN g = DOMAIN f /\ g = [field \in DOMAIN g |-> g[field]]
  <2>1. CASE g = [f EXCEPT !.vars = table, !.idx = @ + 1, !.loop = None]
    BY <2>1 DEF Frames
  <2>2. CASE f.loop = None /\ g = [f EXCEPT !.vars = table, !.idx = @ + 1]
    BY <2>2 DEF Frames
  <2> QED
    BY <2>1, <2>2 DEF GoesTo
<1>3. g \in Frames
  <2>1. /\ f.stream \in Streams /\ f.prefix \in Seq(Components) /\ f.inputs \in Seq(Values)
        /\ g.idx \in Nat \ {0} /\ g.vars \in Tables
    BY <1>1, <1>2 DEF Frames
  <2> QED
    BY <1>2, <2>1, FrameChanged
<1>4. FrameOK(g)
  BY <1>1, <1>2 DEF FrameOK, AtStepOf
<1> QED
  BY <1>2, <1>3, <1>4

\* An atom has given a value, or its recorded one stands for it.
LEMMA AtomTold ==
  ASSUME StackInv, PathInv, RecordInv, AtStep, Step.form = "atom",
         NEW value \in Values, NEW replayed,
         SetTop(Onward(Top, value)), Observe(Path, value, replayed), done' = done
  PROVE  Moves
<1> DEFINE f == Onward(Top, value)
           e == Record(Path, value, replayed)
           c == Component(Top)
<1>1. /\ Top \in Frames /\ AtStepOf(Top) /\ Top.loop = None /\ Top.prefix \in Seq(Components)
      /\ Symbol = <<NameAt(Top.stream, Top.idx)>>
      /\ Step.out \in Symbols \cup {None}
      /\ stack # <<>> /\ done' = "no"
  BY AtStepFacts DEF AtStep, IsStep
<1>2. /\ f \in Frames /\ FrameOK(f)
      /\ f.prefix = Top.prefix /\ f.stream = Top.stream /\ f.idx = Top.idx + 1 /\ f.loop = None
  <2>1. Set(Top, Step.out, value) \in Tables
    BY <1>1, TableSet
  <2>2. f = [Top EXCEPT !.vars = Set(Top, Step.out, value), !.idx = @ + 1]
    BY DEF Onward
  <2> HIDE DEF f
  <2> QED
    BY <1>1, <2>1, <2>2, GoesOn DEF GoesTo
<1>3. SetTop(f) /\ trace' = Append(trace, e)
  BY DEF Observe
<1>4. c = Symbol /\ Path = Append(Top.prefix, c)
  BY <1>1 DEF Component, Path
<1>5. /\ e.type = "CT_STEP" /\ e.path = Path /\ e.purity = Step.purity
      /\ Step.purity = "ct_impure" => e.what = Written(value)
  BY DEF Record, Impure
<1> HIDE DEF f, e, c
<1>6. c \in Components /\ ~GivenOut(Top, c) /\ GivenOut(f, c) /\ \A x : GivenOut(Top, x) => GivenOut(f, x)
  BY <1>1, <1>2, Fresh, Advanced DEF c
<1>7. StackInv' /\ Len(stack') = Len(stack) /\ stack'[Len(stack)] = f /\ KeepPlace
  BY <1>1, <1>2, <1>3, <1>6, TopReplaced, TopKeepsPlace
<1>8. PathInv'
  BY <1>1, <1>3, <1>4, <1>5, <1>6, <1>7, PathObserved DEF RecordInv
<1>9. Traced(e)
  BY <1>5, ReplayAssumption DEF Traced
<1> QED
  BY <1>3, <1>7, <1>8, <1>9 DEF Moves, TraceKept

\* A round of a loop has ended.
LEMMA RoundFrame ==
  ASSUME NEW f \in Frames, FrameOK(f), f.loop # None, f.loop.n < Len(f.loop.items),
         NEW value \in Values, NEW g, g = NextRound(f, value)
  PROVE  /\ g \in Frames /\ FrameOK(g)
         /\ g.prefix = f.prefix /\ g.stream = f.stream /\ g.idx = f.idx
         /\ g.loop # None /\ g.loop.n = f.loop.n + 1
<1> DEFINE loop == f.loop
<1>1. /\ loop \in Loops /\ loop.n \in Nat /\ loop.items \in Seq(Values)
      /\ loop.accumulator \in Values \cup {None}
  BY DEF Frames, Loops
<1>2. /\ g.stream = f.stream /\ g.idx = f.idx /\ g.prefix = f.prefix /\ g.inputs = f.inputs
      /\ g.vars = f.vars
      /\ DOMAIN g = DOMAIN f /\ g = [field \in DOMAIN g |-> g[field]]
  BY DEF Frames, NextRound
<1>3. /\ g.loop.items = loop.items /\ g.loop.n = loop.n + 1 /\ g.loop.last = value
      /\ g.loop.accumulator = IF loop.accumulator = None THEN None ELSE value
      /\ DOMAIN g.loop = DOMAIN loop /\ g.loop = [field \in DOMAIN g.loop |-> g.loop[field]]
  BY <1>1 DEF Frames, Loops, NextRound
<1>4. g.loop \in Loops
  <2> DEFINE h == g.loop
  <2>1. h = [items |-> h.items, n |-> h.n, accumulator |-> h.accumulator, last |-> h.last]
    BY <1>1, <1>3 DEF Loops
  <2>2. h.items \in Seq(Values) /\ h.n \in Nat /\ h.accumulator \in Values \cup {None} /\ h.last \in Values
    BY <1>1, <1>3
  <2> HIDE DEF h
  <2>3. h \in Loops
    BY <2>1, <2>2 DEF Loops
  <2> QED
    BY <2>3 DEF h
<1>5. g \in Frames
  <2>1. /\ f.stream \in Streams /\ f.idx \in Nat \ {0} /\ f.prefix \in Seq(Components)
        /\ f.inputs \in Seq(Values) /\ f.vars \in Tables
    BY DEF Frames
  <2> QED
    BY <1>2, <1>4, <2>1, FrameChanged
<1>6. FrameOK(g)
  <2>1. Len(f.loop.items) \in Nat
    BY <1>1, LenProperties
  <2> QED
    BY <1>1, <1>2, <1>3, <2>1 DEF FrameOK, AtStepOf, StepOf
<1> QED
  BY <1>2, <1>3, <1>4, <1>5, <1>6, ReplayAssumption

LEMMA RunAtomMoves ==
  ASSUME StackInv, PathInv, RecordInv, RunAtom
  PROVE  InStream
<1>1. AtStep /\ Step.form = "atom" /\ ~Substituted /\ Around /\ done = "no" /\ stack # <<>>
  BY DEF RunAtom, AtStep
<1>2. IsStep(Step)
  BY <1>1, AtStepFacts
<1>3. CASE Faults /\ Ran(Path, "fault")
  BY <1>1, <1>2, <1>3, EndsWell, RanWell DEF InStream
<1>4. ASSUME NEW answer \in Possible, Ran(Path, answer),
             \/ Refuse \/ Faults
             \/ answer \in Values /\ SetTop(Onward(Top, answer)) /\ Observe(Path, answer, "no") /\ UNCHANGED done
      PROVE  InStream
  <2>1. DrawnKept
    BY <1>1, <1>2, <1>4, RanWell
  <2>2. CASE Refuse \/ Faults
    BY <1>1, <2>1, <2>2, EndsWell DEF InStream
  <2>3. CASE answer \in Values /\ SetTop(Onward(Top, answer)) /\ Observe(Path, answer, "no") /\ UNCHANGED done
    <3>1. Moves
      BY <1>1, <2>3, AtomTold
    <3> QED
      BY <1>1, <2>1, <2>3, <3>1 DEF InStream
  <2> QED
    BY <1>4, <2>2, <2>3
<1> QED
  BY <1>3, <1>4 DEF RunAtom, Faults

LEMMA SubstituteMoves ==
  ASSUME StackInv, PathInv, RecordInv, Substitute
  PROVE  InStream
<1>1. AtStep /\ Step.form = "atom" /\ Substituted /\ Around /\ Unrun /\ done = "no" /\ stack # <<>>
  BY DEF Substitute, AtStep
<1>2. DrawnKept
  BY <1>1 DEF Unrun, DrawnKept
<1>3. CASE Lacks
  BY <1>1, <1>2, <1>3, EndsWell DEF InStream
<1>4. CASE /\ Key(Path) \in DOMAIN recorded[1]
           /\ SetTop(Onward(Top, recorded[1][Key(Path)]))
           /\ Observe(Path, recorded[1][Key(Path)], "yes")
           /\ UNCHANGED done
  <2>1. recorded[1][Key(Path)] \in Values
    BY <1>1, <1>4 DEF RecordInv, Substituted
  <2>2. Moves
    BY <1>1, <1>4, <2>1, AtomTold
  <2> QED
    BY <1>1, <1>2, <1>4, <2>2 DEF InStream
<1> QED
  BY <1>3, <1>4 DEF Substitute, Lacks

\* A stream that is entered begins at its first step.
LEMMA FrameBegins ==
  ASSUME NEW s \in Streams, NEW prefix \in Seq(Components), NEW inputs \in Seq(Values)
  PROVE  /\ Frame(s, prefix, inputs) \in Frames /\ FrameOK(Frame(s, prefix, inputs))
         /\ Frame(s, prefix, inputs).prefix = prefix
<1>1. <<>> \in Tables
  <2>1. <<>> \in [{} -> Values]
    OBVIOUS
  <2>2. {} \in SUBSET Symbols
    OBVIOUS
  <2> QED
    BY <2>1, <2>2 DEF Tables
<1> DEFINE f == Frame(s, prefix, inputs)
           table == <<>>
<1>2. f = [stream |-> s, idx |-> 1, prefix |-> prefix, inputs |-> inputs, vars |-> table, loop |-> None]
  BY DEF Frame
<1>3. table \in Tables
  BY <1>1
<1> HIDE DEF f, table
<1>4. /\ f \in Frames
      /\ f.stream = s /\ f.idx = 1 /\ f.prefix = prefix /\ f.loop = None
  BY <1>2, <1>3 DEF Frames
<1>5. Len(Body[s]) \in Nat
  BY ReplayAssumption DEF Streams, IsSequence
<1> QED
  BY <1>4, <1>5 DEF FrameOK, f

LEMMA EnterMoves ==
  ASSUME StackInv, PathInv, RecordInv, EnterMolecule \/ LoopMolecule
  PROVE  InStream
<1>1. AtStep /\ Around /\ Unrun /\ done = "no" /\ stack # <<>>
  BY DEF EnterMolecule, LoopMolecule, Round, Looping, AtStep
<1>2. DrawnKept
  BY <1>1 DEF Unrun, DrawnKept
<1>3. CASE Faults
  BY <1>1, <1>2, <1>3, EndsWell DEF InStream
<1>4. ASSUME NEW path, Resolvable, UNCHANGED <<trace, done>>,
             \/ Step.form = "molecule" /\ path = Path
             \/ Step.form = "each" /\ Round /\ path = RoundPath,
             stack' = Append(stack, Frame(Step.name, path, Given))
      PROVE  InStream
  <2>1. /\ Top \in Frames /\ FrameOK(Top) /\ AtStepOf(Top) /\ Step = StepOf(Top) /\ IsStep(Step)
        /\ Step.form \notin {"loop", "each"} => Top.loop = None
        /\ Symbol = <<NameAt(Top.stream, Top.idx)>>
        /\ Top.prefix \in Seq(Components)
    BY <1>1, AtStepFacts
  <2>2. Waits(Top) /\ (Top.loop # None => Top.loop.n < Len(Top.loop.items))
    BY <1>4, <2>1 DEF Waits, Round
  <2>3. path = Append(Top.prefix, Component(Top))
    <3>1. CASE Step.form = "molecule" /\ path = Path
      BY <2>1, <3>1 DEF Component, Path
    <3>2. CASE Step.form = "each" /\ Round /\ path = RoundPath
      <4> DEFINE name == NameAt(Top.stream, Top.idx)
                 n == Top.loop.n
      <4>1. Component(Top) = <<name, n>>
        BY <3>2 DEF Component, Round
      <4>2. RoundPath = Append(Top.prefix, Symbol \o <<n>>)
        BY DEF RoundPath
      <4>3. Symbol = <<name>>
        BY <2>1
      <4> HIDE DEF name, n
      <4>4. <<name>> \o <<n>> = <<name, n>>
        BY Pair
      <4> QED
        BY <3>2, <4>1, <4>2, <4>3, <4>4
    <3> QED
      BY <1>4, <3>1, <3>2
  <2>4. path \in Seq(Components)
    BY <2>1, <2>3, Fresh, Extended
  <2>5. Given \in Seq(Values) /\ Step.name \in Streams
    BY <1>4, <2>1, <2>2, GivenValues DEF IsStep, Streams
  <2> DEFINE f == Frame(Step.name, path, Given)
  <2>6. f \in Frames /\ FrameOK(f) /\ f.prefix = Append(Top.prefix, Component(Top))
    BY <2>3, <2>4, <2>5, FrameBegins
  <2>7. Enters(f)
    BY <1>4 DEF Enters
  <2> HIDE DEF f
  <2>8. StackInv' /\ PathInv'
    BY <1>1, <1>4, <2>2, <2>6, <2>7, Entered
  <2> QED
    BY <1>1, <1>2, <1>4, <2>8 DEF InStream, Moves, TraceKept
<1>5. CASE EnterMolecule
  BY <1>3, <1>4, <1>5 DEF EnterMolecule, Faults
<1>6. CASE LoopMolecule
  BY <1>3, <1>4, <1>6 DEF LoopMolecule, Faults
<1> QED
  BY <1>5, <1>6

\* The top has given out more, and nothing is observed.
LEMMA TopMoves ==
  ASSUME StackInv, PathInv, stack # <<>>, done = "no", UNCHANGED <<trace, done>>,
         NEW f \in Frames, FrameOK(f), SetTop(f),
         f.prefix = Top.prefix, \A c : GivenOut(Top, c) => GivenOut(f, c)
  PROVE  Moves
<1>1. StackInv' /\ stack' # <<>> /\ Len(stack') = Len(stack)
  BY TopReplaced
<1>2. KeepPlace
  BY TopKeepsPlace
<1>3. Len(stack) \in Nat /\ trace' = trace
  BY TopFacts
<1> HIDE DEF KeepPlace
<1>4. PathInv'
  BY <1>1, <1>2, <1>3, PathMoved
<1> QED
  BY <1>1, <1>3, <1>4 DEF Moves, TraceKept

\* A loop begins, in a frame that has none.
Begins(f, items, start, g) ==
    g = [f EXCEPT !.loop = [items |-> items, n |-> 0, last |-> None, accumulator |-> start]]

LEMMA LoopFrame ==
  ASSUME NEW f \in Frames, FrameOK(f), AtStepOf(f), f.loop = None,
         StepOf(f).form \in {"loop", "each"},
         NEW items \in Seq(Values), NEW start \in Values \cup {None},
         NEW g, Begins(f, items, start, g)
  PROVE  /\ g \in Frames /\ FrameOK(g) /\ g.prefix = f.prefix
         /\ \A c : GivenOut(f, c) => GivenOut(g, c)
<1> DEFINE h == [items |-> items, n |-> 0, last |-> None, accumulator |-> start]
<1>1. /\ h \in Loops /\ h.n = 0 /\ h.items = items
  BY DEF Loops
<1>2. g = [f EXCEPT !.loop = h]
  BY DEF Begins
<1> HIDE DEF h
<1>3. /\ g.stream = f.stream /\ g.idx = f.idx /\ g.prefix = f.prefix /\ g.inputs = f.inputs
      /\ g.vars = f.vars /\ g.loop = h
      /\ DOMAIN g = DOMAIN f /\ g = [field \in DOMAIN g |-> g[field]]
  BY <1>2 DEF Frames
<1>4. g \in Frames
  <2>1. /\ f.stream \in Streams /\ f.idx \in Nat \ {0} /\ f.prefix \in Seq(Components)
        /\ f.inputs \in Seq(Values) /\ f.vars \in Tables
    BY DEF Frames
  <2> QED
    BY <1>1, <1>3, <2>1, FrameChanged
<1>5. FrameOK(g)
  <2>1. Len(items) \in Nat
    BY LenProperties
  <2> QED
    BY <1>1, <1>3, <2>1 DEF FrameOK, AtStepOf, StepOf
<1>6. \A c : GivenOut(f, c) => GivenOut(g, c)
  BY <1>3 DEF GivenOut
<1> QED
  BY <1>3, <1>4, <1>5, <1>6

LEMMA BeginLoopMoves ==
  ASSUME StackInv, PathInv, RecordInv, BeginLoop
  PROVE  InStream
<1>1. /\ AtStep /\ Around /\ Unrun /\ done = "no" /\ stack # <<>>
      /\ Step.form \in {"loop", "each"} /\ Top.loop = None
  BY DEF BeginLoop, Looping, AtStep
<1>2. DrawnKept
  BY <1>1 DEF Unrun, DrawnKept
<1>3. CASE Faults \/ Refuse
  BY <1>1, <1>2, <1>3, EndsWell DEF InStream
<1>4. ASSUME Step.over \in Optional, Collection # None, Step.start \in Optional,
             SetTop([Top EXCEPT !.loop =
                [items |-> Collection, n |-> 0, last |-> None,
                 accumulator |-> IF Step.start = None THEN None ELSE Reach(Step.start)]]),
             UNCHANGED <<trace, done>>
      PROVE  InStream
  <2>1. Top \in Frames /\ FrameOK(Top) /\ AtStepOf(Top) /\ Step = StepOf(Top) /\ IsStep(Step)
    BY <1>1, AtStepFacts
  <2> DEFINE items == Collection
             start == IF Step.start = None THEN None ELSE Reach(Step.start)
             f == [Top EXCEPT !.loop =
                     [items |-> items, n |-> 0, last |-> None, accumulator |-> start]]
  <2>2. items \in Seq(Values)
    BY <1>1, <1>4, <2>1, CollectionValues
  <2>3. start \in Values \cup {None}
    <3>1. CASE Step.start # None
      <4>1. Step.start \in References /\ Step.start \in Reached
        BY <1>4, <2>1, <3>1 DEF IsStep, Optional
      <4>2. Reach(Step.start) \in Values
        BY <1>1, <2>1, <4>1, ReachedValue
      <4> QED
        BY <3>1, <4>2
    <3> QED
      BY <3>1
  <2>4. SetTop(f)
    BY <1>4
  <2>5. Begins(Top, items, start, f)
    BY DEF Begins
  <2> HIDE DEF f, items, start
  <2>6. /\ f \in Frames /\ FrameOK(f) /\ f.prefix = Top.prefix
        /\ \A c : GivenOut(Top, c) => GivenOut(f, c)
    BY <1>1, <2>1, <2>2, <2>3, <2>5, LoopFrame
  <2>7. Moves
    BY <1>1, <1>4, <2>4, <2>6, TopMoves
  <2> QED
    BY <1>1, <1>2, <1>4, <2>7 DEF InStream
<1> QED
  BY <1>3, <1>4 DEF BeginLoop, Faults

LEMMA LoopAtomMoves ==
  ASSUME StackInv, PathInv, RecordInv, LoopAtom
  PROVE  InStream
<1>1. /\ AtStep /\ Step.form = "loop" /\ Around /\ done = "no" /\ stack # <<>>
      /\ Top.loop # None /\ Top.loop.n < Len(Top.loop.items)
  BY DEF LoopAtom, Round, Looping, AtStep
<1>2. Top \in Frames /\ FrameOK(Top) /\ AtStepOf(Top) /\ IsStep(Step)
  BY <1>1, AtStepFacts
<1>3. CASE Faults /\ Unrun
  BY <1>1, <1>3, EndsWell DEF InStream, Unrun, DrawnKept
<1>4. ASSUME NEW answer \in Possible, Ran(None, answer),
             \/ Refuse \/ Faults
             \/ answer \in Values /\ SetTop(NextRound(Top, answer)) /\ UNCHANGED <<trace, done>>
      PROVE  InStream
  <2>1. DrawnKept
    BY <1>1, <1>2, <1>4, RanWell
  <2>2. CASE Refuse \/ Faults
    BY <1>1, <2>1, <2>2, EndsWell DEF InStream
  <2>3. CASE answer \in Values /\ SetTop(NextRound(Top, answer)) /\ UNCHANGED <<trace, done>>
    <3> DEFINE f == NextRound(Top, answer)
    <3>1. SetTop(f) /\ f = NextRound(Top, answer)
      BY <2>3
    <3> HIDE DEF f
    <3>2. /\ f \in Frames /\ FrameOK(f)
          /\ f.prefix = Top.prefix /\ f.stream = Top.stream /\ f.idx = Top.idx
          /\ f.loop # None /\ f.loop.n = Top.loop.n + 1
      BY <1>1, <1>2, <2>3, <3>1, RoundFrame
    <3>3. \A c : GivenOut(Top, c) => GivenOut(f, c)
      BY <1>1, <1>2, <3>2, RoundEnded
    <3>4. Moves
      BY <1>1, <2>3, <3>1, <3>2, <3>3, TopMoves
    <3> QED
      BY <1>1, <2>1, <2>3, <3>4 DEF InStream
  <2> QED
    BY <1>4, <2>2, <2>3
<1> QED
  BY <1>3, <1>4 DEF LoopAtom, Faults

LEMMA EndLoopMoves ==
  ASSUME StackInv, PathInv, RecordInv, EndLoop
  PROVE  InStream
<1> DEFINE table == IF Top.loop.last = None THEN Top.vars ELSE Set(Top, Step.out, Top.loop.last)
           f == [Top EXCEPT !.vars = table, !.idx = @ + 1, !.loop = None]
<1>1. /\ AtStep /\ Around /\ Unrun /\ done = "no" /\ stack # <<>>
      /\ Top.loop # None /\ UNCHANGED <<trace, done>> /\ SetTop(f)
  BY DEF EndLoop, Looping, AtStep
<1>2. Top \in Frames /\ FrameOK(Top) /\ AtStepOf(Top) /\ Step.out \in Symbols \cup {None}
  BY <1>1, AtStepFacts DEF IsStep
<1>3. DrawnKept
  BY <1>1 DEF Unrun, DrawnKept
<1>4. table \in Tables
  <2>1. Top.vars \in Tables /\ Top.loop.last \in Values \cup {None}
    BY <1>1, <1>2 DEF Frames, Loops
  <2> QED
    BY <1>2, <2>1, TableSet
<1> HIDE DEF table
<1>5. GoesTo(Top, table, f)
  BY DEF GoesTo
<1> HIDE DEF f
<1>6. /\ f \in Frames /\ FrameOK(f)
      /\ f.prefix = Top.prefix /\ f.stream = Top.stream /\ f.idx = Top.idx + 1 /\ f.loop = None
  BY <1>2, <1>4, <1>5, GoesOn
<1>7. \A c : GivenOut(Top, c) => GivenOut(f, c)
  BY <1>2, <1>6, Advanced
<1>8. Moves
  BY <1>1, <1>6, <1>7, TopMoves
<1> QED
  BY <1>1, <1>3, <1>8 DEF InStream

\* What a stream emits is a value.
LEMMA OutputValue ==
  ASSUME StackInv, stack # <<>>, Produced
  PROVE  Output \in Values
<1>1. Top \in Frames
  BY TopFacts
<1> QED
  BY <1>1 DEF Produced, Output, Frames, Tables

\* What the caller of a molecule is when that one has ended.
Taken(caller, value) ==
    IF StepOf(caller).form = "each" THEN NextRound(caller, value)
    ELSE [caller EXCEPT !.vars = Set(caller, StepOf(caller).out, value), !.idx = @ + 1]

LEMMA TakenFrame ==
  ASSUME NEW f \in Frames, FrameOK(f), Waits(f), NEW value \in Values, NEW g, g = Taken(f, value)
  PROVE  /\ g \in Frames /\ FrameOK(g) /\ g.prefix = f.prefix
         /\ \A c : GivenOut(f, c) => GivenOut(g, c)
         /\ GivenOut(g, Component(f))
<1>1. AtStepOf(f) /\ IsStep(StepOf(f))
  BY StepFacts DEF Waits
<1>2. CASE StepOf(f).form = "each"
  <2>1. f.loop # None /\ f.loop.n < Len(f.loop.items)
    BY <1>2 DEF Waits
  <2>2. g = NextRound(f, value)
    BY <1>2 DEF Taken
  <2>3. /\ g \in Frames /\ FrameOK(g)
        /\ g.prefix = f.prefix /\ g.stream = f.stream /\ g.idx = f.idx
        /\ g.loop # None /\ g.loop.n = f.loop.n + 1
    BY <2>1, <2>2, RoundFrame
  <2> QED
    BY <1>1, <2>1, <2>3, RoundEnded
<1>3. CASE StepOf(f).form # "each"
  <2> DEFINE table == Set(f, StepOf(f).out, value)
  <2>1. f.loop = None
    BY <1>3 DEF Waits
  <2>2. table \in Tables
    BY <1>1, TableSet DEF IsStep
  <2>3. g = [f EXCEPT !.vars = table, !.idx = @ + 1]
    BY <1>3 DEF Taken
  <2> HIDE DEF table
  <2>4. GoesTo(f, table, g)
    BY <2>1, <2>3 DEF GoesTo
  <2>5. /\ g \in Frames /\ FrameOK(g)
        /\ g.prefix = f.prefix /\ g.stream = f.stream /\ g.idx = f.idx + 1 /\ g.loop = None
    BY <1>1, <2>2, <2>4, GoesOn
  <2> QED
    BY <1>1, <2>5, Advanced
<1> QED
  BY <1>2, <1>3

LEMMA EmitMoleculeMoves ==
  ASSUME StackInv, PathInv, RecordInv, EmitMolecule
  PROVE  InStream
<1>1. /\ Around /\ Unrun /\ done = "no" /\ stack # <<>> /\ Len(stack) > 1
  BY DEF EmitMolecule, AtEnd
<1>2. DrawnKept
  BY <1>1 DEF Unrun, DrawnKept
<1>3. CASE Faults
  BY <1>1, <1>2, <1>3, EndsWell DEF InStream
<1>4. CASE Produced
  <2> DEFINE caller == stack[Len(stack) - 1]
             f == Taken(caller, Output)
  <2>1. UNCHANGED <<trace, done>> /\ Resumes(f)
    BY <1>4 DEF EmitMolecule, Resumes, Taken, StepOf
  <2>2. caller \in Frames /\ FrameOK(caller) /\ Waits(caller)
    <3>1. /\ Len(stack) \in Nat \ {0} /\ DOMAIN stack = 1..Len(stack)
          /\ \A l \in DOMAIN stack : stack[l] \in Frames
      BY <1>1, TopFacts
    <3>2. Len(stack) - 1 \in DOMAIN stack /\ Len(stack) - 1 < Len(stack)
      BY <1>1, <3>1
    <3> QED
      BY <3>1, <3>2 DEF StackInv
  <2>3. Output \in Values
    BY <1>1, <1>4, OutputValue
  <2> HIDE DEF f
  <2>4. f = Taken(caller, Output)
    BY DEF f
  <2>5. /\ f \in Frames /\ FrameOK(f) /\ f.prefix = caller.prefix
        /\ \A c : GivenOut(caller, c) => GivenOut(f, c)
        /\ GivenOut(f, Component(caller))
    BY <2>2, <2>3, <2>4, TakenFrame
  <2>6. StackInv' /\ PathInv'
    BY <1>1, <2>1, <2>5, Resumed
  <2> QED
    BY <1>1, <1>2, <2>1, <2>6 DEF InStream, Moves, TraceKept
<1> QED
  BY <1>3, <1>4 DEF EmitMolecule, Faults

LEMMA StreamStepMoves ==
  ASSUME StackInv, PathInv, RecordInv, StreamStep
  PROVE  InStream
BY RunAtomMoves, SubstituteMoves, EnterMoves, EmitMoleculeMoves, BeginLoopMoves, LoopAtomMoves,
   EndLoopMoves DEF StreamStep

-----------------------------------------------------------------------------
(***************************************************************************)
(* The parts of the invariant that a step leaves alone.                    *)
(***************************************************************************)
LEMMA SameBuild ==
  ASSUME UNCHANGED buildVars
  PROVE  /\ Cases' = Cases /\ Case' = Case
         /\ Supplies' <=> Supplies
         /\ \A i : Proves(i)' <=> Proves(i)
         /\ TellInv => TellInv'
<1>1. Cases' = Cases /\ Case' = Case /\ Own' = Own /\ results' = results /\ report' = report /\ build' = build
  BY DEF Cases, Case, Own, buildVars
<1>2. Supplies' <=> Supplies
  BY <1>1 DEF Supplies
<1>3. \A i : Proves(i)' <=> Proves(i)
  BY <1>1 DEF Proves
<1>4. TellInv => TellInv'
  BY <1>1 DEF TellInv, VerdictIsTrue
<1> QED
  BY <1>1, <1>2, <1>3, <1>4

LEMMA RecordKept ==
  ASSUME RecordInv, TraceKept, DrawnKept, UNCHANGED <<phase, recorded, results>>
  PROVE  RecordInv'
<1>1. /\ IsList(trace')
      /\ \A i \in DOMAIN trace' :
            /\ trace'[i].type \in {"CC_START", "CT_STEP", "CC_STEP", "ERROR"}
            /\ trace'[i].type = "CT_STEP" /\ trace'[i].purity = "ct_impure" => trace'[i].what \in Values
  <2>1. CASE trace' = trace
    BY <2>1 DEF RecordInv
  <2>2. CASE \E e : trace' = Append(trace, e) /\ Traced(e)
    <3> PICK e : trace' = Append(trace, e) /\ Traced(e)
      BY <2>2
    <3>1. /\ IsList(trace') /\ DOMAIN trace' = 1..(Len(trace) + 1) /\ Len(trace) \in Nat
          /\ DOMAIN trace = 1..Len(trace)
          /\ \A i \in 1..Len(trace) : trace'[i] = trace[i]
          /\ trace'[Len(trace) + 1] = e
      BY ListAppend, ListFacts DEF RecordInv
    <3>2. ASSUME NEW i \in DOMAIN trace'
          PROVE  /\ trace'[i].type \in {"CC_START", "CT_STEP", "CC_STEP", "ERROR"}
                 /\ trace'[i].type = "CT_STEP" /\ trace'[i].purity = "ct_impure" => trace'[i].what \in Values
      <4>1. CASE i = Len(trace) + 1
        BY <3>1, <4>1 DEF Traced
      <4>2. CASE i \in DOMAIN trace
        BY <3>1, <4>2 DEF RecordInv
      <4> QED
        BY <3>1, <4>1, <4>2
    <3> QED
      BY <3>1, <3>2
  <2> QED
    BY <2>1, <2>2 DEF TraceKept
<1>2. IsList(drawn') /\ \A i \in DOMAIN drawn' : drawn'[i].answer \in Answers
  <2>1. CASE drawn' = drawn
    BY <2>1 DEF RecordInv
  <2>2. CASE \E d : drawn' = Append(drawn, d) /\ d.answer \in Answers
    <3> PICK d : drawn' = Append(drawn, d) /\ d.answer \in Answers
      BY <2>2
    <3>1. /\ IsList(drawn') /\ DOMAIN drawn' = 1..(Len(drawn) + 1) /\ Len(drawn) \in Nat
          /\ DOMAIN drawn = 1..Len(drawn)
          /\ \A i \in 1..Len(drawn) : drawn'[i] = drawn[i]
          /\ drawn'[Len(drawn) + 1] = d
      BY ListAppend, ListFacts DEF RecordInv
    <3>2. ASSUME NEW i \in DOMAIN drawn'
          PROVE  drawn'[i].answer \in Answers
      <4>1. CASE i = Len(drawn) + 1
        BY <3>1, <4>1
      <4>2. CASE i \in DOMAIN drawn
        BY <3>1, <4>2 DEF RecordInv
      <4> QED
        BY <3>1, <4>1, <4>2
    <3> QED
      BY <3>1, <3>2
  <2> QED
    BY <2>1, <2>2 DEF DrawnKept
<1> QED
  BY <1>1, <1>2 DEF RecordInv

\* The events of a run, as opposed to the records of its atoms.
LEMMA EventTold ==
  ASSUME NEW type \in {"CC_START", "CC_STEP", "ERROR"}, NEW what
  PROVE  Event(type, what).type # "CT_STEP" /\ Traced(Event(type, what))
BY DEF Event, Traced

LEMMA NoStack ==
  ASSUME stack' = <<>>
  PROVE  StackInv'
<1>1. stack' \in Seq(Frames) /\ DOMAIN stack' = {}
  BY EmptySeq
<1> QED
  BY <1>1 DEF StackInv

\* The cases of a build.
LEMMA CaseFacts ==
  ASSUME build \in Builds
  PROVE  /\ Len(Cases) \in Nat /\ DOMAIN Cases = 1..Len(Cases)
         /\ \A i \in DOMAIN Cases : IsCase(Cases[i])
<1>1. /\ IsSequence(build.cases) /\ \A i \in DOMAIN build.cases : IsCase(build.cases[i])
  BY ConformanceAssumption DEF IsBuild
<1>2. CASE build.declared
  BY <1>1, <1>2 DEF Cases, IsSequence
<1>3. CASE ~build.declared
  <2>1. Cases = <<>>
    BY <1>3 DEF Cases
  <2> QED
    BY <2>1, EmptySeq
<1> QED
  BY <1>2, <1>3

LEMMA NextCase ==
  ASSUME build \in Builds, IsList(results), Len(results) < Len(Cases)
  PROVE  IsCase(Case)
<1>1. Len(results) + 1 \in DOMAIN Cases
  BY CaseFacts, ListFacts
<1> QED
  BY <1>1, CaseFacts DEF Case

\* While a case runs the place does not move.
LEMMA InACase ==
  ASSUME Kinds, PlaceInv, RecordInv, phase = "case", done = "no"
  PROVE  /\ Len(run) = 1 /\ at.contract = 1 /\ at.step = 1
         /\ Contract.pipeline = <<Case.target>> /\ Transform = Case.target
         /\ Case.target \in Transforms /\ IsCase(Case)
<1> DEFINE c == [cc |-> "case", pipeline |-> <<Case.target>>]
<1>1. build \in Builds /\ IsCase(Case)
  <2>1. build \in Builds /\ Len(results) < Len(Cases)
    BY DEF Kinds, PlaceInv
  <2> QED
    BY <2>1, NextCase DEF RecordInv
<1>2. at = [contract |-> 1, step |-> 1] /\ run = <<c>>
  BY DEF PlaceInv
<1>3. c.pipeline = <<Case.target>> /\ c.pipeline[1] = Case.target
  OBVIOUS
<1> HIDE DEF c
<1>4. at.contract = 1 /\ at.step = 1 /\ Len(run) = 1 /\ run[1] = c
  BY <1>2
<1> QED
  BY <1>1, <1>3, <1>4 DEF Contract, Transform, IsCase

-----------------------------------------------------------------------------
(***************************************************************************)
(* The steps of a run and of its replay.                                   *)
(***************************************************************************)
\* A step within a transform, of a run or of a case.
LEMMA WithinKeeps ==
  ASSUME IInv, done = "no", Around, DrawnKept, Moves, done' = done \/ Ended,
         UNCHANGED buildVars
  PROVE  IInv'
<1>1. /\ StackInv' /\ PathInv' /\ TraceKept
      /\ UNCHANGED <<run, phase, at, carried, first, recorded, build, results, report>>
  BY DEF Moves, Around, buildVars
<1>2. Cases' = Cases /\ Case' = Case /\ (Supplies' <=> Supplies) /\ \A i : Proves(i)' <=> Proves(i)
  BY SameBuild
<1>3. TellInv'
  BY SameBuild DEF IInv
<1>4. Kinds'
  BY <1>1 DEF Kinds, IInv, Ended
<1>5. PlaceInv'
  BY <1>1, <1>2 DEF PlaceInv, IInv
<1>6. RecordInv'
  BY <1>1, RecordKept DEF IInv
<1>7. CaseInv'
  <2>1. phase = "case" => Len(results) <= Len(Cases) /\ \A i \in DOMAIN results : Proves(i)
    BY DEF IInv, CaseInv
  <2>2. phase # "case" => results = <<>> /\ report = None
    BY DEF IInv, CaseInv
  <2>3. ASSUME phase = "case", Supplies
        PROVE  recorded # <<>> /\ \A i \in DOMAIN drawn' : drawn'[i].key[3] = None
    <3>1. recorded # <<>> /\ \A i \in DOMAIN drawn : drawn[i].key[3] = None
      BY <2>3 DEF IInv, CaseInv
    <3>2. CASE drawn' = drawn
      BY <3>1, <3>2
    <3>3. CASE \E d : drawn' = Append(drawn, d) /\ d.key[3] = None
      <4> PICK d : drawn' = Append(drawn, d) /\ d.key[3] = None
        BY <3>3
      <4>1. /\ DOMAIN drawn' = 1..(Len(drawn) + 1) /\ Len(drawn) \in Nat /\ DOMAIN drawn = 1..Len(drawn)
            /\ \A i \in 1..Len(drawn) : drawn'[i] = drawn[i]
            /\ drawn'[Len(drawn) + 1] = d
        BY ListAppend, ListFacts DEF IInv, RecordInv
      <4>2. ASSUME NEW i \in DOMAIN drawn'
            PROVE  drawn'[i].key[3] = None
        <5>1. CASE i = Len(drawn) + 1
          BY <4>1, <5>1
        <5>2. CASE i \in DOMAIN drawn
          BY <3>1, <4>1, <5>2
        <5> QED
          BY <4>1, <5>1, <5>2
      <4> QED
        BY <3>1, <4>2
    <3> QED
      BY <3>1, <3>2, <3>3 DEF DrawnKept
  <2> QED
    BY <1>1, <1>2, <2>1, <2>2, <2>3 DEF CaseInv
<1> QED
  BY <1>1, <1>3, <1>4, <1>5, <1>6, <1>7 DEF IInv

\* A step between transforms, of a run.
LEMMA BetweenKeeps ==
  ASSUME IInv, phase # "case", UNCHANGED <<run, phase, recorded, drawn>>, UNCHANGED buildVars,
         Moves, at' \in [contract : Nat \ {0}, step : Nat], at'.contract <= Len(run) + 1,
         carried' \in Values,
         done' \in {"no", "SUCCESS", "VIOLATION", "raised", "killed", "unsupplied", "judged"}
  PROVE  IInv'
<1>1. /\ StackInv' /\ PathInv' /\ TraceKept
      /\ UNCHANGED <<run, phase, recorded, drawn, build, results, report>>
  BY DEF Moves, buildVars
<1>2. TellInv'
  BY SameBuild DEF IInv
<1>3. Kinds'
  BY <1>1 DEF Kinds, IInv
<1>4. PlaceInv'
  BY <1>1 DEF PlaceInv, IInv
<1>5. RecordInv'
  BY <1>1, RecordKept DEF IInv, DrawnKept
<1>6. CaseInv'
  BY <1>1 DEF CaseInv, IInv
<1> QED
  BY <1>1, <1>2, <1>3, <1>4, <1>5, <1>6 DEF IInv

\* No stream is in progress after the step, and no record is the last event.
LEMMA ClearedMoves ==
  ASSUME PathInv, RecordInv, stack' = <<>>,
         \/ trace' = trace /\ (done' # "no" \/ (done = "no" /\ stack = <<>>))
         \/ \E what : \E type \in {"CC_START", "CC_STEP", "ERROR"} : trace' = Append(trace, Event(type, what))
  PROVE  Moves
<1>1. StackInv'
  BY NoStack
<1>2. CASE trace' = trace /\ (done' # "no" \/ (done = "no" /\ stack = <<>>))
  BY <1>1, <1>2, PathCleared DEF Moves, TraceKept, RecordInv
<1>3. CASE \E what : \E type \in {"CC_START", "CC_STEP", "ERROR"} : trace' = Append(trace, Event(type, what))
  <2> PICK what : \E type \in {"CC_START", "CC_STEP", "ERROR"} : trace' = Append(trace, Event(type, what))
    BY <1>3
  <2>1. PICK type \in {"CC_START", "CC_STEP", "ERROR"} : trace' = Append(trace, Event(type, what))
    OBVIOUS
  <2> DEFINE e == Event(type, what)
  <2>2. trace' = Append(trace, e) /\ e.type # "CT_STEP" /\ Traced(e)
    BY <2>1, EventTold
  <2> HIDE DEF e
  <2>3. PathInv'
    BY <2>2, PathCleared DEF RecordInv
  <2> QED
    BY <1>1, <2>2, <2>3 DEF Moves, TraceKept
<1> QED
  BY <1>2, <1>3

\* The place of a run.
LEMMA PlaceFacts ==
  ASSUME Kinds, PlaceInv
  PROVE  /\ at.contract \in Nat \ {0} /\ at.step \in Nat /\ at = [contract |-> at.contract, step |-> at.step]
         /\ Len(run) \in Nat /\ DOMAIN run = 1..Len(run)
         /\ phase # "case" /\ at.contract <= Len(run) => Contract.pipeline \in Seq(Transforms)
<1>1. at \in [contract : Nat \ {0}, step : Nat] /\ IsSequence(run)
  BY DEF PlaceInv
<1>2. phase # "case" /\ at.contract <= Len(run) => Contract.pipeline \in Seq(Transforms)
  BY <1>1 DEF PlaceInv, Contract, IsSequence
<1> QED
  BY <1>1, <1>2 DEF IsSequence

LEMMA StartContractKeeps ==
  ASSUME IInv, StartContract, UNCHANGED buildVars
  PROVE  IInv'
<1>1. /\ UNCHANGED <<run, phase, carried, stack, done, recorded, drawn>>
      /\ trace' = Append(trace, Event("CC_START", Written(carried)))
      /\ at' = [at EXCEPT !.step = 1]
      /\ done = "no" /\ stack = <<>> /\ at.step = 0
  BY DEF StartContract
<1>2. phase # "case"
  BY <1>1, InACase DEF IInv
<1>3. at' \in [contract : Nat \ {0}, step : Nat] /\ at'.contract <= Len(run) + 1
  BY <1>1 DEF IInv, Kinds, PlaceInv
<1>4. Moves
  BY <1>1, ClearedMoves DEF IInv
<1> QED
  BY <1>1, <1>2, <1>3, <1>4, BetweenKeeps DEF IInv, Kinds

LEMMA EndContractKeeps ==
  ASSUME IInv, EndContract, UNCHANGED buildVars
  PROVE  IInv'
<1>1. /\ UNCHANGED <<run, phase, carried, stack, trace, done, recorded, drawn>>
      /\ at' = [contract |-> at.contract + 1, step |-> 0]
      /\ done = "no" /\ stack = <<>> /\ at.contract <= Len(run) /\ at.step = Len(Contract.pipeline) + 1
  BY DEF EndContract
<1>2. phase # "case"
  <2>1. SUFFICES ASSUME phase = "case" PROVE FALSE
    OBVIOUS
  <2>2. at.step = 1 /\ Contract.pipeline = <<Case.target>>
    BY <1>1, <2>1, InACase DEF IInv
  <2>3. Len(<<Case.target>>) = 1
    OBVIOUS
  <2> QED
    BY <1>1, <2>2, <2>3
<1>3. at' \in [contract : Nat \ {0}, step : Nat] /\ at'.contract <= Len(run) + 1
  BY <1>1, PlaceFacts DEF IInv
<1>4. Moves
  BY <1>1, ClearedMoves DEF IInv
<1> QED
  BY <1>1, <1>2, <1>3, <1>4, BetweenKeeps DEF IInv, Kinds

LEMMA EndRunKeeps ==
  ASSUME IInv, EndRun, UNCHANGED buildVars
  PROVE  IInv'
<1>1. /\ UNCHANGED <<run, phase, at, carried, stack, trace, recorded, drawn>>
      /\ done = "no" /\ stack = <<>> /\ done' = "SUCCESS" /\ at.contract = Len(run) + 1
  BY DEF EndRun
<1>2. phase # "case"
  <2>1. SUFFICES ASSUME phase = "case" PROVE FALSE
    OBVIOUS
  <2>2. at.contract = 1 /\ Len(run) = 1
    BY <1>1, <2>1, InACase DEF IInv
  <2> QED
    BY <1>1, <2>2
<1>3. Moves
  BY <1>1, ClearedMoves DEF IInv
<1> QED
  BY <1>1, <1>2, <1>3, BetweenKeeps DEF IInv, Kinds, PlaceInv

LEMMA KillKeeps ==
  ASSUME IInv, Kill, UNCHANGED buildVars
  PROVE  IInv'
<1>1. /\ UNCHANGED <<run, phase, at, carried, trace, recorded, drawn>>
      /\ done' = "killed" /\ stack' = <<>> /\ phase # "case"
  BY DEF Kill
<1>2. Moves
  BY <1>1, ClearedMoves DEF IInv
<1> QED
  BY <1>1, <1>2, BetweenKeeps DEF IInv, Kinds, PlaceInv

LEMMA StartTransformKeeps ==
  ASSUME IInv, StartTransform, UNCHANGED buildVars
  PROVE  IInv'
<1> DEFINE f == Frame(Transform, <<>>, <<carried>>)
<1>1. /\ UNCHANGED <<run, phase, at, carried, trace, done, first, recorded, drawn>>
      /\ done = "no" /\ stack = <<>> /\ stack' = <<f>>
      /\ at.contract <= Len(run) /\ at.step \in DOMAIN Contract.pipeline
  BY DEF StartTransform
<1>2. Transform \in Streams
  <2>1. CASE phase = "case"
    BY <1>1, <2>1, InACase DEF IInv, Streams
  <2>2. CASE phase # "case"
    <3>1. Contract.pipeline \in Seq(Transforms)
      BY <1>1, <2>2, PlaceFacts DEF IInv
    <3>2. Contract.pipeline[at.step] \in Transforms
      BY <1>1, <3>1, ElementOfSeq, LenProperties
    <3> QED
      BY <3>2 DEF Transform, Streams
  <2> QED
    BY <2>1, <2>2
<1>3. f \in Frames /\ FrameOK(f)
  <2>1. <<>> \in Seq(Components) /\ <<carried>> \in Seq(Values)
    BY EmptySeq DEF IInv, Kinds
  <2> QED
    BY <1>2, <2>1, FrameBegins
<1> HIDE DEF f
<1>4. StackInv'
  <2>1. stack' \in Seq(Frames) /\ DOMAIN stack' = {1} /\ stack'[1] = f /\ Len(stack') = 1
    BY <1>1, <1>3
  <2>2. \A l \in DOMAIN stack' : FrameOK(stack'[l]) /\ ~(l < Len(stack'))
    BY <1>3, <2>1
  <2> QED
    BY <1>1, <2>1, <2>2 DEF StackInv, FrameOK, AtStepOf, StepOf
<1>5. PathInv'
  BY <1>1, PathBegun DEF IInv
<1>6. Moves
  BY <1>1, <1>4, <1>5 DEF Moves, TraceKept
<1>7. Around /\ DrawnKept
  BY <1>1 DEF Around, DrawnKept
<1> QED
  BY <1>1, <1>6, <1>7, WithinKeeps

LEMMA EndTransformKeeps ==
  ASSUME IInv, EndTransform, UNCHANGED buildVars
  PROVE  IInv'
<1>1. /\ UNCHANGED <<run, phase, recorded, drawn>> /\ phase # "case"
      /\ done = "no" /\ stack # <<>>
  BY DEF EndTransform, AtEnd, Unrun
<1>2. CASE Faults /\ UNCHANGED <<at, carried>>
  <2>1. Moves /\ Ended
    BY <1>2, EndsWell DEF IInv
  <2> QED
    BY <1>1, <1>2, <2>1, BetweenKeeps DEF IInv, Kinds, PlaceInv, Ended
<1>3. CASE /\ Produced
           /\ trace' = Append(trace, Event("CC_STEP", "SUCCESS"))
           /\ stack' = <<>>
           /\ carried' = Output
           /\ at' = [at EXCEPT !.step = @ + 1]
           /\ UNCHANGED done
  <2>1. Output \in Values
    BY <1>1, <1>3, OutputValue DEF IInv
  <2>2. at' \in [contract : Nat \ {0}, step : Nat] /\ at'.contract <= Len(run) + 1
    BY <1>3 DEF IInv, Kinds, PlaceInv
  <2>3. Moves
    BY <1>3, ClearedMoves DEF IInv
  <2> QED
    BY <1>1, <1>3, <2>1, <2>2, <2>3, BetweenKeeps DEF IInv, Kinds
<1> QED
  BY <1>2, <1>3 DEF EndTransform, Faults

\* Every result a replay is given is a value.
LEMMA OutcomeValues ==
  ASSUME RecordInv, NEW key \in DOMAIN RecordedOutcomes(trace)
  PROVE  RecordedOutcomes(trace)[key] \in Values
<1> DEFINE alike == {i \in Outcomes(trace) : KeyOf(trace[i]) = key}
<1>1. /\ key \in {KeyOf(trace[i]) : i \in Outcomes(trace)}
      /\ RecordedOutcomes(trace)[key] = trace[Max(alike)].what
  BY DEF RecordedOutcomes
<1>2. alike # {}
  BY <1>1
<1>3. Len(trace) \in Nat /\ alike \subseteq 1..Len(trace)
  BY ListFacts DEF RecordInv, Outcomes
<1> HIDE DEF alike
<1>4. Max(alike) \in alike
  BY <1>2, <1>3, Greatest
<1>5. Max(alike) \in Outcomes(trace)
  BY <1>4 DEF alike
<1>6. trace[Max(alike)].what \in Values
  BY <1>5 DEF Outcomes, RecordInv
<1> QED
  BY <1>1, <1>6

LEMMA ReplayKeeps ==
  ASSUME IInv, Replay, UNCHANGED buildVars
  PROVE  IInv'
<1>1. /\ UNCHANGED <<run, drawn, build, results, report>> /\ phase = "original"
      /\ phase' = "replay" /\ recorded' = <<RecordedOutcomes(trace)>>
      /\ at' = [contract |-> 1, step |-> 0] /\ carried' = Payload
      /\ stack' = <<>> /\ trace' = <<>> /\ done' = "no"
  BY DEF Replay, buildVars
<1>2. TellInv'
  BY SameBuild DEF IInv
<1>3. Kinds'
  BY <1>1, PlaceFacts, ReplayAssumption DEF Kinds, IInv
<1>4. StackInv'
  BY <1>1, NoStack
<1>5. PlaceInv'
  BY <1>1 DEF PlaceInv, IInv
<1>6. RecordInv'
  <2> DEFINE table == RecordedOutcomes(trace)
  <2>1. \A key \in DOMAIN table : table[key] \in Values
    BY OutcomeValues DEF IInv
  <2>2. recorded' = <<table>>
    BY <1>1
  <2> HIDE DEF table
  <2>3. recorded' # <<>> /\ recorded'[1] = table /\ recorded' = <<recorded'[1]>>
    BY <2>2
  <2>4. IsList(trace') /\ DOMAIN trace' = {}
    BY <1>1, EmptyList, EmptySeq
  <2> QED
    BY <1>1, <2>1, <2>3, <2>4 DEF IInv, RecordInv
<1>7. CaseInv'
  BY <1>1 DEF CaseInv, IInv
<1>8. PathInv'
  BY <1>1, PathCleared DEF IInv, RecordInv
<1> QED
  BY <1>2, <1>3, <1>4, <1>5, <1>6, <1>7, <1>8 DEF IInv

-----------------------------------------------------------------------------
(***************************************************************************)
(* The steps of a build.                                                   *)
(***************************************************************************)
LEMMA RunCaseKeeps ==
  ASSUME IInv, RunCase
  PROVE  IInv'
<1> DEFINE table == [key \in {<<"case", Case.target, path>> : path \in DOMAIN Case.supplied} |->
                        Case.supplied[key[3]]]
           c == [cc |-> "case", pipeline |-> <<Case.target>>]
<1>1. /\ phase = "case" /\ done = "judged" /\ report = None
      /\ Len(results) < Len(Cases)
      /\ UNCHANGED buildVars
      /\ UNCHANGED <<phase, stack, build, results, report>>
      /\ run' = <<c>> /\ at' = [contract |-> 1, step |-> 1] /\ carried' = Case.input
      /\ recorded' = IF Supplies THEN <<table>> ELSE <<>>
      /\ done' = "no" /\ trace' = <<>> /\ drawn' = <<>>
  BY DEF RunCase, Between, buildVars
<1>2. build \in Builds /\ IsCase(Case) /\ stack = <<>>
  <2>1. build \in Builds
    BY <1>1 DEF IInv, Kinds
  <2> QED
    BY <1>1, <2>1, NextCase DEF IInv, StackInv, RecordInv
<1>3. /\ Cases' = Cases /\ Case' = Case /\ (Supplies' <=> Supplies)
      /\ \A i : Proves(i)' <=> Proves(i)
  BY <1>1, SameBuild
<1>4. TellInv'
  BY <1>1, SameBuild DEF IInv
<1>5. /\ IsSequence(run') /\ Len(run') = 1
  <2> HIDE DEF c
  <2> QED
    BY <1>1 DEF IsSequence
<1>6. Kinds'
  BY <1>1, <1>2, <1>5 DEF Kinds, IInv, IsCase
<1>7. StackInv'
  BY <1>1, <1>2, NoStack
<1>8. PlaceInv'
  BY <1>1, <1>3, <1>5 DEF PlaceInv
<1>9. RecordInv'
  <2>1. \A key \in DOMAIN table : table[key] \in Values
    BY <1>2 DEF IsCase
  <2> HIDE DEF table
  <2>2. recorded' = <<>> \/ (recorded' = <<table>> /\ recorded'[1] = table)
    BY <1>1
  <2>3. (recorded' = <<>> \/ recorded' = <<recorded'[1]>>)
    BY <2>2
  <2>4. recorded' # <<>> => \A key \in DOMAIN recorded'[1] : recorded'[1][key] \in Values
    BY <2>1, <2>2
  <2>5. IsList(trace') /\ DOMAIN trace' = {} /\ IsList(drawn') /\ DOMAIN drawn' = {}
    BY <1>1, EmptyList, EmptySeq
  <2> QED
    BY <1>1, <1>2, <2>3, <2>4, <2>5 DEF IInv, RecordInv
<1>10. CaseInv'
  <2> HIDE DEF table, c
  <2>1. Supplies' => recorded' # <<>> /\ \A i \in DOMAIN drawn' : drawn'[i].key[3] = None
    <3>1. DOMAIN drawn' = {}
      BY <1>1, EmptySeq
    <3>2. Supplies' => recorded' # <<>>
      BY <1>1, <1>3
    <3> QED
      BY <3>1, <3>2
  <2>2. Len(results) <= Len(Cases) /\ \A i \in DOMAIN results : Proves(i)
    BY <1>1 DEF IInv, CaseInv
  <2> QED
    BY <1>1, <1>3, <2>1, <2>2 DEF CaseInv
<1>11. PathInv'
  BY <1>1, <1>2, PathCleared DEF IInv, RecordInv
<1> QED
  BY <1>4, <1>6, <1>7, <1>8, <1>9, <1>10, <1>11 DEF IInv

\* A case is concluded by what its result says of it.
Earned(passed, ended) ==
    passed =>
        IF Case.expects = "VIOLATION" THEN ended = "VIOLATION"
        ELSE /\ ended = "SUCCESS"
             /\ Produced /\ Output # None
             /\ Case.want \in {Output, Whatever}
             /\ Supplies => /\ Used = DOMAIN Case.supplied
                            /\ \A i \in DOMAIN drawn : drawn[i].key[3] = None

LEMMA Concluded ==
  ASSUME IInv, InCase, NEW passed \in BOOLEAN,
         NEW ended \in {"SUCCESS", "VIOLATION", "raised", "unsupplied"},
         Conclude(passed, ended), Earned(passed, ended)
  PROVE  IInv'
<1> DEFINE e == [target |-> Case.target, passed |-> passed, ended |-> ended,
                 value |-> IF ended = "SUCCESS" /\ Produced THEN Output ELSE None,
                 used |-> Used, drew |-> \E i \in DOMAIN drawn : drawn[i].key[3] # None]
           n == Len(results)
<1>1. /\ phase = "case" /\ n < Len(Cases)
      /\ results' = Append(results, e) /\ done' = "judged" /\ stack' = <<>>
      /\ UNCHANGED <<run, phase, at, carried, trace, recorded, drawn, build, report>>
  BY DEF InCase, Conclude
<1>2. build \in Builds /\ Len(Cases) \in Nat /\ DOMAIN Cases = 1..Len(Cases)
  BY <1>1, CaseFacts DEF IInv, Kinds
<1>3. /\ IsList(results') /\ Len(results') = n + 1 /\ n \in Nat /\ DOMAIN results = 1..n
      /\ DOMAIN results' = 1..(n + 1)
      /\ \A i \in 1..n : results'[i] = results[i]
      /\ results'[n + 1] = e
  BY <1>1, ListAppend, ListFacts DEF IInv, RecordInv
<1>4. Cases' = Cases
  BY <1>1 DEF Cases
<1>5. report = None
  <2>1. report # None => Len(results) = Len(Cases)
    BY DEF IInv, TellInv
  <2>2. Len(results) # Len(Cases)
    <3>1. Len(results) < Len(Cases) /\ Len(results) \in Nat /\ Len(Cases) \in Nat
      BY <1>2, ListFacts DEF InCase, IInv, RecordInv
    <3> QED
      BY <3>1
  <2> QED
    BY <2>1, <2>2
<1>6. /\ e.target = Case.target /\ e.passed = passed /\ e.ended = ended
      /\ e.value = IF ended = "SUCCESS" /\ Produced THEN Output ELSE None
      /\ e.used = Used /\ (e.drew <=> \E i \in DOMAIN drawn : drawn[i].key[3] # None)
  OBVIOUS
<1>7. Case = Cases[n + 1]
  BY DEF Case
<1> HIDE DEF e, n
<1>8. ASSUME NEW i \in DOMAIN results'
      PROVE  Proves(i)'
  <2>1. CASE i \in 1..n
    <3>1. Proves(i)
      BY <1>1, <1>3, <2>1 DEF IInv, CaseInv
    <3> QED
      BY <1>3, <1>4, <2>1, <3>1 DEF Proves
  <2>2. CASE i = n + 1
    <3>1. results'[i] = e /\ Cases'[i] = Case
      BY <1>3, <1>4, <1>7, <2>2
    <3>2. e.passed =>
             IF Case.expects = "VIOLATION" THEN e.ended = "VIOLATION"
             ELSE /\ e.ended = "SUCCESS"
                  /\ e.value # None
                  /\ Case.want \in {e.value, Whatever}
                  /\ DOMAIN Case.supplied # {} => e.used = DOMAIN Case.supplied /\ ~e.drew
      BY <1>6 DEF Earned, Supplies
    <3> QED
      BY <1>6, <3>1, <3>2 DEF Proves
  <2> QED
    BY <1>3, <2>1, <2>2
<1>9. CaseInv'
  <2>1. Len(results') <= Len(Cases')
    BY <1>1, <1>2, <1>3, <1>4 DEF n
  <2> QED
    BY <1>1, <1>8, <2>1 DEF CaseInv
<1>10. TellInv'
  BY <1>1, <1>5 DEF TellInv
<1>11. Kinds' /\ PlaceInv'
  BY <1>1 DEF IInv, Kinds, PlaceInv
<1>12. RecordInv'
  BY <1>1, <1>3 DEF IInv, RecordInv
<1>13. StackInv' /\ PathInv'
  BY <1>1, NoStack, PathCleared DEF IInv, RecordInv
<1> QED
  BY <1>9, <1>10, <1>11, <1>12, <1>13 DEF IInv

LEMMA JudgeRefusalKeeps ==
  ASSUME IInv, JudgeRefusal
  PROVE  IInv'
<1> DEFINE passed == Case.expects = "VIOLATION"
<1>1. InCase /\ done = "VIOLATION" /\ Conclude(passed, done)
  BY DEF JudgeRefusal
<1>2. passed \in BOOLEAN /\ (passed <=> Case.expects = "VIOLATION")
  OBVIOUS
<1> HIDE DEF passed
<1>3. Earned(passed, done)
  BY <1>1, <1>2 DEF Earned
<1> QED
  BY <1>1, <1>2, <1>3, Concluded

LEMMA JudgeFaultKeeps ==
  ASSUME IInv, JudgeFault
  PROVE  IInv'
<1>1. InCase /\ done \in {"raised", "unsupplied"} /\ Conclude(FALSE, done)
  BY DEF JudgeFault
<1>2. Earned(FALSE, done)
  BY DEF Earned
<1> QED
  BY <1>1, <1>2, Concluded

LEMMA JudgeResultKeeps ==
  ASSUME IInv, JudgeResult
  PROVE  IInv'
<1>1. InCase /\ AtEnd /\ Conclude(Agreeing, "SUCCESS")
  BY DEF JudgeResult
<1>2. phase = "case" /\ done = "no" /\ stack # <<>>
  BY <1>1 DEF InCase, AtEnd
<1>3. Earned(Agreeing, "SUCCESS")
  <2>1. SUFFICES ASSUME Agreeing
                 PROVE  /\ Case.expects = "SUCCESS"
                        /\ Produced /\ Output # None
                        /\ Case.want \in {Output, Whatever}
                        /\ Supplies => /\ Used = DOMAIN Case.supplied
                                       /\ \A i \in DOMAIN drawn : drawn[i].key[3] = None
    BY DEF Earned
  <2>2. Output # None
    <3>1. Output \in Values
      BY <1>2, <2>1, OutputValue DEF Agreeing, IInv
    <3> QED
      BY <3>1, ReplayAssumption
  <2>3. Supplies => \A i \in DOMAIN drawn : drawn[i].key[3] = None
    BY <1>2 DEF IInv, CaseInv
  <2> QED
    BY <2>1, <2>2, <2>3 DEF Agreeing
<1>4. Agreeing \in BOOLEAN
  BY DEF Agreeing
<1> QED
  BY <1>1, <1>3, <1>4, Concluded

LEMMA MisplacedKeeps ==
  ASSUME IInv, Misplaced
  PROVE  IInv'
<1>1. /\ phase = "case" /\ done = "judged" /\ done' = "raised"
      /\ UNCHANGED <<run, phase, at, carried, stack, trace, recorded, drawn>>
      /\ UNCHANGED buildVars /\ UNCHANGED <<build, results, report>>
  BY DEF Misplaced, Between, buildVars
<1>2. stack' = <<>>
  BY <1>1 DEF IInv, StackInv
<1>3. Cases' = Cases /\ \A i : Proves(i)' <=> Proves(i)
  BY <1>1, SameBuild
<1>4. TellInv'
  BY <1>1, SameBuild DEF IInv
<1>5. StackInv' /\ PathInv'
  BY <1>1, <1>2, NoStack, PathCleared DEF IInv, RecordInv
<1>6. Kinds' /\ PlaceInv' /\ RecordInv'
  BY <1>1 DEF IInv, Kinds, PlaceInv, RecordInv
<1>7. CaseInv'
  BY <1>1, <1>3 DEF IInv, CaseInv
<1> QED
  BY <1>4, <1>5, <1>6, <1>7 DEF IInv

\* What the build is told accounts for each of its transforms.
LEMMA ReportKeeps ==
  ASSUME IInv, Report
  PROVE  IInv'
<1> DEFINE proven == Tested \ Failed
           refused == Failed \cup Untested
           unproven == Own \ (proven \cup refused)
<1>1. /\ phase = "case" /\ report = None /\ Len(results) = Len(Cases)
      /\ report' = [proven |-> proven, refused |-> refused, unproven |-> unproven,
                    admitted |-> refused = {} /\ \A i \in DOMAIN results : results[i].passed]
      /\ UNCHANGED <<run, phase, at, carried, stack, trace, done, recorded, drawn, build, results>>
  BY DEF Report, Tell, Between, vars
<1>2. build \in Builds /\ build # None
  BY <1>1, ConformanceAssumption DEF IInv, Kinds
<1>3. DOMAIN Cases = DOMAIN results
  BY <1>1, <1>2, CaseFacts, ListFacts DEF IInv, RecordInv
<1>4. \A i \in DOMAIN results : results[i].target = Cases[i].target /\ results[i].passed \in BOOLEAN
  BY <1>1 DEF IInv, CaseInv, Proves
<1>5. /\ proven \subseteq Own /\ refused \subseteq Own /\ unproven \subseteq Own
      /\ proven \cup refused \cup unproven = Own
      /\ proven \cap refused = {} /\ proven \cap unproven = {} /\ refused \cap unproven = {}
  BY DEF Tested, Failed, Untested
<1>6. \A ct \in proven : \E i \in DOMAIN Cases : Cases[i].target = ct
  BY <1>3, <1>4 DEF Tested, ResultsOf
<1>7. \A i \in DOMAIN Cases : Cases[i].target \in proven => results[i].passed
  BY <1>3, <1>4 DEF Tested, Failed, ResultsOf
<1>8. unproven \cap build.targets = {}
  BY DEF Untested
<1>9. refused = {} => Own \cap build.targets \subseteq proven
  BY DEF Untested
<1>10. Own \subseteq Transforms
  BY <1>2, ConformanceAssumption DEF IsBuild, Own
<1> HIDE DEF proven, refused, unproven
<1>11. /\ report'.proven = proven /\ report'.refused = refused /\ report'.unproven = unproven
       /\ report'["proven"] = proven /\ report'["refused"] = refused /\ report'["unproven"] = unproven
       /\ report'.admitted \in BOOLEAN
       /\ report'.admitted => refused = {} /\ \A i \in DOMAIN results : results[i].passed
  BY <1>1
<1>12. Cases' = Cases /\ Own' = Own
  BY <1>1 DEF Cases, Own
<1>13. \A ct \in Own : Cardinality({s \in {"proven", "refused", "unproven"} : ct \in report'[s]}) = 1
  <2> TAKE ct \in Own
  <2> DEFINE S == {s \in {"proven", "refused", "unproven"} : ct \in report'[s]}
  <2>1. \E s : S = {s}
    <3>1. CASE ct \in proven
      <4>1. S = {"proven"}
        BY <1>5, <1>11, <3>1
      <4> QED
        BY <4>1
    <3>2. CASE ct \in refused
      <4>1. S = {"refused"}
        BY <1>5, <1>11, <3>2
      <4> QED
        BY <4>1
    <3>3. CASE ct \in unproven
      <4>1. S = {"unproven"}
        BY <1>5, <1>11, <3>3
      <4> QED
        BY <4>1
    <3> QED
      BY <1>5, <3>1, <3>2, <3>3
  <2> HIDE DEF S
  <2>2. Cardinality(S) = 1
    BY <2>1, FS_Singleton
  <2> QED
    BY <2>2 DEF S
<1>14. TellInv'
  <2>1. VerdictIsTrue'
    BY <1>1, <1>3, <1>5, <1>6, <1>7, <1>8, <1>9, <1>11, <1>12, <1>13 DEF VerdictIsTrue
  <2>2. report'.proven \cup report'.unproven \cup report'.refused \subseteq Transforms
    BY <1>5, <1>10, <1>11
  <2> QED
    BY <1>1, <1>2, <1>11, <1>12, <2>1, <2>2 DEF TellInv
<1>15. Case' = Case /\ \A i : Proves(i)' <=> Proves(i)
  BY <1>1, <1>12 DEF Case, Proves
<1>16. Kinds' /\ StackInv' /\ RecordInv' /\ PathInv'
  <2>1. Kinds' /\ StackInv'
    BY <1>1 DEF IInv, Kinds, StackInv
  <2>2. RecordInv'
    BY <1>1 DEF IInv, RecordInv
  <2>3. PathInv'
    BY <1>1 DEF IInv, PathInv, PathsAreDistinct, Recent, Component, GivenOut
  <2> QED
    BY <2>1, <2>2, <2>3
<1>17. PlaceInv' /\ CaseInv'
  BY <1>1, <1>12, <1>15 DEF IInv, PlaceInv, CaseInv, Supplies
<1> QED
  BY <1>14, <1>16, <1>17 DEF IInv

-----------------------------------------------------------------------------
(***************************************************************************)
(* The invariant, and what it says.                                        *)
(***************************************************************************)
LEMMA Begun ==
  ASSUME BuildInit
  PROVE  IInv
<1>1. /\ carried = Payload /\ stack = <<>> /\ trace = <<>> /\ results = <<>> /\ report = None
      /\ recorded = <<>> /\ drawn = <<>>
      /\ at = [contract |-> 1, step |-> 0]
      /\ \/ build = None /\ run \in Runs /\ phase = "original" /\ done = "no"
         \/ build \in Builds /\ run = <<>> /\ phase = "case" /\ done = "judged"
  BY DEF BuildInit, Init, AtBegin
<1>2. DOMAIN <<>> = {} /\ IsList(<<>>) /\ Len(<<>>) = 0 /\ <<>> \in Seq(Frames)
  BY EmptyList, EmptySeq
<1>3. IsSequence(run) /\ (phase # "case" => \A i \in DOMAIN run : run[i].pipeline \in Seq(Transforms))
  BY <1>1, <1>2, ReplayAssumption DEF IsSequence
<1>4. Kinds
  <2>1. phase = "case" <=> build # None
    BY <1>1, ConformanceAssumption
  <2>2. at.contract <= Len(run) + 1
    BY <1>1, <1>3 DEF IsSequence
  <2> QED
    BY <1>1, <2>1, <2>2, ReplayAssumption DEF Kinds
<1>5. StackInv /\ PathInv
  BY <1>1, <1>2 DEF StackInv, PathInv, PathsAreDistinct
<1>6. PlaceInv
  BY <1>1, <1>3 DEF PlaceInv
<1>7. RecordInv
  BY <1>1, <1>2 DEF RecordInv
<1>8. CaseInv
  <2>1. phase = "case" => Len(results) <= Len(Cases)
    <3>1. phase = "case" => build \in Builds
      BY <1>1
    <3>2. phase = "case" => Len(Cases) \in Nat
      BY <3>1, CaseFacts
    <3> QED
      BY <1>1, <1>2, <3>2
  <2> QED
    BY <1>1, <1>2, <2>1 DEF CaseInv
<1>9. TellInv
  BY <1>1 DEF TellInv
<1> QED
  BY <1>4, <1>5, <1>6, <1>7, <1>8, <1>9 DEF IInv

LEMMA NextKeeps ==
  ASSUME IInv, Next, UNCHANGED buildVars
  PROVE  IInv'
<1>1. CASE ContractStep
  BY <1>1, StartContractKeeps, StartTransformKeeps, EndTransformKeeps, EndContractKeeps, EndRunKeeps
     DEF ContractStep
<1>2. CASE StreamStep
  <2>1. InStream
    BY <1>2, StreamStepMoves DEF IInv
  <2> QED
    BY <2>1, WithinKeeps DEF InStream
<1>3. CASE Kill
  BY <1>3, KillKeeps
<1>4. CASE Replay
  BY <1>4, ReplayKeeps
<1> QED
  BY <1>1, <1>2, <1>3, <1>4 DEF Next

LEMMA StutterKeeps ==
  ASSUME IInv, UNCHANGED <<vars, buildVars>>
  PROVE  IInv'
<1>1. /\ UNCHANGED <<run, phase, at, carried, stack, trace, done, recorded, drawn>>
      /\ UNCHANGED buildVars /\ UNCHANGED <<build, results, report>>
  BY DEF vars, buildVars
<1>2. /\ Cases' = Cases /\ Case' = Case /\ (Supplies' <=> Supplies)
      /\ \A i : Proves(i)' <=> Proves(i)
  BY <1>1, SameBuild
<1>3. TellInv'
  BY <1>1, SameBuild DEF IInv
<1>4. Kinds' /\ StackInv' /\ RecordInv'
  BY <1>1 DEF IInv, Kinds, StackInv, RecordInv
<1>5. PlaceInv' /\ CaseInv'
  BY <1>1, <1>2 DEF IInv, PlaceInv, CaseInv
<1>6. PathInv'
  <2>1. PathInv
    BY DEF IInv
  <2> QED
    BY <1>1, <2>1 DEF PathInv, PathsAreDistinct, Recent
<1> QED
  BY <1>3, <1>4, <1>5, <1>6 DEF IInv

\* The inductive invariant, in runs, replays and builds.
THEOREM Invariance == BuildSpec => []IInv
<1>1. BuildInit => IInv
  BY Begun
<1>2. IInv /\ [BuildNext]_<<vars, buildVars>> => IInv'
  <2> SUFFICES ASSUME IInv, [BuildNext]_<<vars, buildVars>> PROVE IInv'
    OBVIOUS
  <2>1. CASE Next /\ UNCHANGED buildVars
    BY <2>1, NextKeeps
  <2>2. CASE RunCase
    BY <2>2, RunCaseKeeps
  <2>3. CASE JudgeRefusal \/ JudgeFault \/ JudgeResult
    BY <2>3, JudgeRefusalKeeps, JudgeFaultKeeps, JudgeResultKeeps
  <2>4. CASE Misplaced
    BY <2>4, MisplacedKeeps
  <2>5. CASE Report
    BY <2>5, ReportKeeps
  <2>6. CASE UNCHANGED <<vars, buildVars>>
    BY <2>6, StutterKeeps
  <2> QED
    BY <2>1, <2>2, <2>3, <2>4, <2>5, <2>6 DEF BuildNext
<1> QED
  BY <1>1, <1>2, PTL DEF BuildSpec

\* Type correctness: of the executor's frames and of a build's results.
THEOREM TypeCorrect == BuildSpec => []BuildTypeOK
<1>1. IInv => BuildTypeOK
  <2> SUFFICES ASSUME IInv PROVE BuildTypeOK
    OBVIOUS
  <2>1. \A i \in DOMAIN stack : IsFrame(stack[i])
    <3> TAKE i \in DOMAIN stack
    <3>1. stack[i] \in Frames /\ FrameOK(stack[i])
      BY ElementOfSeq, LenProperties DEF IInv, StackInv
    <3>2. stack[i].idx \in 1..(Len(Body[stack[i].stream]) + 1)
      <4>1. stack[i].idx \in Nat \ {0} /\ Len(Body[stack[i].stream]) \in Nat
        BY <3>1, ReplayAssumption DEF Frames, Streams, IsSequence
      <4> QED
        BY <3>1, <4>1 DEF FrameOK
    <3>3. Table(stack[i].vars, Symbols, Values)
      BY <3>1 DEF Frames, Tables, Table
    <3> QED
      BY <3>1, <3>2, <3>3 DEF Frames, Streams, IsFrame
  <2>2. at.contract \in 1..(Len(run) + 1) /\ at.step \in Nat
    BY PlaceFacts DEF IInv, Kinds
  <2>3. \A i \in DOMAIN recorded : \A key \in DOMAIN recorded[i] : recorded[i][key] \in Values
    <3>1. CASE recorded = <<>>
      BY <3>1, EmptySeq
    <3>2. CASE recorded # <<>>
      <4>1. recorded = <<recorded[1]>> /\ \A key \in DOMAIN recorded[1] : recorded[1][key] \in Values
        BY <3>2 DEF IInv, RecordInv
      <4>2. DOMAIN recorded = {1}
        BY <4>1
      <4> QED
        BY <4>1, <4>2
    <3> QED
      BY <3>1, <3>2
  <2>4. TypeOK
    BY <2>1, <2>2, <2>3 DEF IInv, Kinds, RecordInv, TypeOK
  <2>5. \A i \in DOMAIN results :
           results[i].passed \in BOOLEAN /\ results[i].ended \in {"SUCCESS", "VIOLATION", "raised", "unsupplied"}
    <3>1. CASE phase = "case"
      BY <3>1 DEF IInv, CaseInv, Proves
    <3>2. CASE phase # "case"
      BY <3>2, EmptySeq DEF IInv, CaseInv
    <3> QED
      BY <3>1, <3>2
  <2> QED
    BY <2>4, <2>5 DEF IInv, Kinds, TellInv, BuildTypeOK
<1> QED
  BY <1>1, Invariance, PTL

\* The records of one execution of a transform have paths of their own: a run's,
\* a replay's or a case's, with molecules in molecules to any depth and any
\* number of rounds.  The recorded result a replay looks up is of one atom run.
THEOREM PathsApart == BuildSpec => []PathsAreDistinct
<1>1. IInv => PathsAreDistinct
  BY DEF IInv, PathInv
<1> QED
  BY <1>1, Invariance, PTL

\* What a passed case proves: it ended as it expects, with the value it wants;
\* and one that supplies results had all of them used and no atom run instead.
THEOREM PassedProves == BuildSpec => []PassedIsProof
<1>1. IInv => PassedIsProof
  <2> SUFFICES ASSUME IInv PROVE PassedIsProof
    OBVIOUS
  <2>1. CASE phase = "case"
    BY <2>1 DEF IInv, CaseInv, Proves, PassedIsProof
  <2>2. CASE phase # "case"
    BY <2>2, EmptySeq DEF IInv, CaseInv, PassedIsProof
  <2> QED
    BY <2>1, <2>2
<1> QED
  BY <1>1, Invariance, PTL

\* What a build is told is true of its cases and complete for its transforms.
THEOREM VerdictTold == BuildSpec => []VerdictIsTrue
<1>1. IInv => VerdictIsTrue
  BY DEF IInv, TellInv, VerdictIsTrue
<1> QED
  BY <1>1, Invariance, PTL
=============================================================================
