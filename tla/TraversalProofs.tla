-------------------------- MODULE TraversalProofs --------------------------
(***************************************************************************)
(* Proofs about the traversals of one run, for any sealed packages and     *)
(* workflows in workflows to any depth.                                    *)
(*                                                                         *)
(* Nothing a traversal keeps says what it wrote before: that what it       *)
(* writes next is what is sealed rests on how a frame of the stack stands  *)
(* to the events of its own in the trace, whatever other traversals wrote  *)
(* between them.  FrameOK says how, and the invariant is that it holds of  *)
(* every frame.                                                            *)
(***************************************************************************)
EXTENDS Traversal, ListLemmas, FiniteSetTheorems

\* The events of a traversal, those that move it over the graph, and what is
\* the case of the last.
Owned(t, r) == {j \in DOMAIN t : t[j].run = r}
IsTurn(e) == Determines(e) \/ e.type = "WF_ROUTE"
Turns(t, r) == {j \in Owned(t, r) : IsTurn(t[j])}

\* Where a traversal is, by what it wrote.
AtNode(t, r, node) ==
    IF Turns(t, r) = {}
    THEN \E j \in Owned(t, r) : t[j].type = "WF_START" /\ node = pkg.entry[t[j].wf]
    ELSE \E j \in Turns(t, r) : /\ Latest(j, Turns(t, r))
                                /\ t[j].type = "WF_ROUTE" /\ t[j].then = node

Decided(t, r, node, outcome) ==
    \E j \in Turns(t, r) : /\ Latest(j, Turns(t, r))
                           /\ Determines(t[j]) /\ t[j].node = node /\ t[j].what = outcome

\* A frame at a step of its contract, at the end of it, and at neither.
OutcomeOf(e) == IF e.type = "CC_START" THEN "SUCCESS" ELSE e.what

Within(t, f) ==
    \E j \in Owned(t, f.run) :
        /\ Latest(j, Owned(t, f.run)) /\ InContract(t[j]) /\ GoesOn(t[j]) /\ t[j].then # "exit"
        /\ t[j].node = f.node /\ NextStep(t[j]) = f.step /\ OutcomeOf(t[j]) = f.outcome

Leaving(t, f) ==
    \E j \in Owned(t, f.run) :
        /\ Latest(j, Owned(t, f.run)) /\ InPipeline(t[j]) /\ t[j].then = "exit"
        /\ t[j].node = f.node /\ t[j].what = f.outcome

Outside(t, r) == \A j \in Owned(t, r) : Latest(j, Owned(t, r)) => ~InContract(t[j])

\* Nothing is left to announce, and everything is.
Settled(t, r) ==
    \A j \in Owned(t, r) : Announcing(t, j, Len(t)) => Len(t) - j = Len(SealedMoments(t[j]))

JustCompleted(t, f) ==
    /\ Len(t) \in Owned(t, f.run)
    /\ t[Len(t)].type = "CC_COMPLETE" /\ t[Len(t)].node = f.node /\ t[Len(t)].what = f.outcome

Quiet(t, r) == \A j \in Owned(t, r) : t[j].type # "ERROR"

FrameOK(t, f) ==
    /\ Quiet(t, f.run)
    /\ IF f.place \in {"announce", "route"}
       THEN Decided(t, f.run, f.node, f.outcome)
       ELSE AtNode(t, f.run, f.node)
    /\ f.place \in {"steps", "inside", "calling"} => Within(t, f)
    /\ f.place = "complete" => Leaving(t, f)
    /\ f.place \in {"node", "announce", "route"} => Outside(t, f.run)
    /\ IF f.place = "announce" THEN JustCompleted(t, f) ELSE Settled(t, f.run)

\* What holds of every event, with what was written before it.
RefusalSealed(t, i) ==
    \A j \in Earlier(t, i) : t[j].type = "ERROR" =>
        \/ t[i].type = "WF_ROUTE" /\ t[i].then = None
        \/ t[i].type = "WF_COMPLETE" /\ t[i].what = "VIOLATION"

EventOK(t, i) ==
    /\ t[i].type \in EventTypes
    /\ PathSealed(t, i) /\ StepsSealed(t, i) /\ AnnouncementsSealed(t, i) /\ RefusalSealed(t, i)

\* A frame inside a contract is at a step of it.
Placed(f) ==
    /\ f.place \in {"steps", "inside", "calling", "complete"} =>
          pkg.contract[f.node] \in DOMAIN pkg.pipeline /\ f.step > 0
    /\ f.place \in {"inside", "calling"} => f.step <= Len(pkg.pipeline[pkg.contract[f.node]])

Kinds ==
    /\ pkg \in Packages
    /\ raised \in {"none", "refusal", "raw"}
    /\ started \in Nat
    /\ result \in Outcomes \cup {"none", "raised", "killed"}
    /\ trace = <<>> => started = 0 /\ ran = <<>>
    /\ raised # "none" => result = "none"

StackInv ==
    /\ stack \in Seq(Frames)
    /\ \A d \in DOMAIN stack :
          /\ Placed(stack[d])
          /\ stack[d].run \in 1..started
          /\ d < Len(stack) => stack[d].place = "calling"
          /\ d = Len(stack) => (stack[d].place = "calling" <=> raised # "none")
    /\ \A c, d \in DOMAIN stack : c < d => stack[c].run < stack[d].run
    /\ stack # <<>> => stack[1].run = 1 /\ result = "none" /\ trace # <<>>

TraceInv ==
    /\ IsList(trace)
    /\ \A i \in DOMAIN trace :
          /\ trace[i].run \in 0..started
          /\ trace[i].run = 0 => trace[i].type = "ERROR"
          /\ EventOK(trace, i)

FrameInv == \A d \in DOMAIN stack : FrameOK(trace, stack[d])

\* A capability call is on record, or the call is in progress.
Recorded(t, c) ==
    \E j \in (c.after + 1)..Len(t) :
        /\ t[j].run = c.run /\ t[j].node = c.node /\ t[j].type \in {"CC_STEP", "ERROR"}
        /\ \A i \in (c.after + 1)..(j - 1) : t[i].run # c.run

InProgress(t, c, f) ==
    /\ f.place \in {"inside", "calling"} /\ f.run = c.run /\ f.node = c.node
    /\ \A i \in (c.after + 1)..Len(t) : t[i].run # c.run

RanInv ==
    /\ IsList(ran)
    /\ \A k \in DOMAIN ran :
          /\ ran[k].after \in 0..Len(trace)
          /\ \A i \in DOMAIN trace : trace[i].type = "ERROR" /\ trace[i].run = ran[k].run => ran[k].after < i
          /\ \/ result = "killed"
             \/ Recorded(trace, ran[k])
             \/ \E d \in DOMAIN stack : InProgress(trace, ran[k], stack[d])

\* The failures of the run, and not of a workflow run inside it.
Errors(t) == {i \in DOMAIN t : t[i].type = "ERROR" /\ t[i].run <= 1}

ErrorInv ==
    /\ stack # <<>> \/ raised = "raw" \/ result \in Outcomes => Errors(trace) = {}
    /\ (stack = <<>> /\ raised = "refusal") \/ result = "raised" => \E i \in DOMAIN trace : Errors(trace) = {i}
    /\ stack = <<>> /\ raised = "none" /\ result = "none" => trace = <<>>
    /\ result \in Outcomes =>
          /\ trace # <<>>
          /\ trace[Len(trace)].type = "WF_COMPLETE" /\ trace[Len(trace)].run = 1
          /\ trace[Len(trace)].what = result

IInv == Kinds /\ StackInv /\ TraceInv /\ FrameInv /\ RanInv /\ ErrorInv

-----------------------------------------------------------------------------
(***************************************************************************)
(* What one more event leaves of the events before it, and asks of itself. *)
(***************************************************************************)
\* A trace that goes on from another.
Prefix(t, n) ==
    /\ IsList(t) /\ IsList(n)
    /\ Len(t) <= Len(n) /\ \A i \in 1..Len(t) : n[i] = t[i]

LEMMA PrefixFacts ==
  ASSUME NEW t, NEW n, Prefix(t, n)
  PROVE  /\ Len(t) \in Nat /\ DOMAIN t = 1..Len(t)
         /\ Len(n) \in Nat /\ DOMAIN n = 1..Len(n)
         /\ DOMAIN t \subseteq DOMAIN n
         /\ \A i \in DOMAIN t : n[i] = t[i]
<1>1. /\ Len(t) \in Nat /\ DOMAIN t = 1..Len(t)
      /\ Len(n) \in Nat /\ DOMAIN n = 1..Len(n)
  BY ListFacts DEF Prefix
<1> QED
  BY <1>1 DEF Prefix

LEMMA AppendGoesOn ==
  ASSUME NEW t, IsList(t), NEW e
  PROVE  /\ Prefix(t, Append(t, e))
         /\ Len(Append(t, e)) = Len(t) + 1
         /\ Append(t, e)[Len(t) + 1] = e
<1>1. Len(t) <= Len(t) + 1
  BY ListFacts
<1> QED
  BY <1>1, ListAppend DEF Prefix

\* What was sealed stays so.
LEMMA EventKept ==
  ASSUME NEW t, NEW n, Prefix(t, n), NEW i \in DOMAIN t, EventOK(t, i)
  PROVE  EventOK(n, i)
<1>1. /\ Len(t) \in Nat /\ DOMAIN t = 1..Len(t) /\ i \in 1..Len(t)
      /\ \A j \in 1..Len(t) : n[j] = t[j]
  BY PrefixFacts
<1>2. \A j \in 1..i : n[j] = t[j]
  BY <1>1
<1>3. Earlier(n, i) = Earlier(t, i) /\ Earlier(t, i) \subseteq 1..(i - 1)
  BY <1>1, <1>2 DEF Earlier
<1>4. \A j \in Earlier(t, i) : n[j] = t[j] /\ j \in 1..(i - 1)
  BY <1>1, <1>2, <1>3
<1>5. n[i] = t[i]
  BY <1>1
<1>6. PathSealed(n, i)
  <2> DEFINE turns(s) == {j \in Earlier(s, i) : Determines(s[j]) \/ s[j].type = "WF_ROUTE"}
  <2>1. turns(n) = turns(t)
    BY <1>3, <1>4
  <2>2. turns(t) \subseteq Earlier(t, i)
    OBVIOUS
  <2>3. i - 1 \in Earlier(t, i) => n[i - 1] = t[i - 1]
    BY <1>4
  <2>4. PathSealed(t, i)
    BY DEF EventOK
  <2> QED
    BY <1>3, <1>4, <1>5, <2>1, <2>2, <2>3, <2>4 DEF PathSealed
<1>7. StepsSealed(n, i)
  <2>1. StepsSealed(t, i)
    BY DEF EventOK
  <2> QED
    BY <1>3, <1>4, <1>5, <2>1 DEF StepsSealed
<1>8. AnnouncementsSealed(n, i)
  <2>1. AnnouncementsSealed(t, i)
    BY DEF EventOK
  <2>2. \A j \in Earlier(t, i) : Announcing(n, j, i - 1) <=> Announcing(t, j, i - 1)
    <3> TAKE j \in Earlier(t, i)
    <3>1. \A k \in (j + 1)..(i - 1) : n[k] = t[k]
      BY <1>1, <1>4
    <3> QED
      BY <1>4, <3>1 DEF Announcing
  <2> QED
    BY <1>3, <1>4, <1>5, <2>1, <2>2 DEF AnnouncementsSealed
<1>9. RefusalSealed(n, i)
  BY <1>3, <1>4, <1>5 DEF EventOK, RefusalSealed
<1> QED
  BY <1>5, <1>6, <1>7, <1>8, <1>9 DEF EventOK

\* What a next event has to be, with what has been written.
PathNext(t, e) ==
    /\ e.type \in {"CC_START", "CC_STEP", "CC_COMPLETE"} => AtNode(t, e.run, e.node)
    /\ e.type = "WF_ROUTE" => /\ Decided(t, e.run, e.node, e.what)
                              /\ e.then = SealedNext(e.node, e.what)
    /\ e.type = "WF_COMPLETE" =>
          \/ ~Quiet(t, e.run)
          \/ /\ Len(t) \in Owned(t, e.run)
             /\ t[Len(t)].type = "WF_ROUTE" /\ t[Len(t)].what = e.what /\ t[Len(t)].then \in Exits

StepsNext(t, e) ==
    /\ e.type = "CC_START" => e.what = pkg.contract[e.node]
    /\ InPipeline(e) =>
          /\ e.step \in DOMAIN PipelineOf(e)
          /\ LET on == PipelineOf(e)[e.step].on
             IN  e.then = IF e.what \in DOMAIN on THEN on[e.what] ELSE None
    /\ InPipeline(e) \/ e.type = "CC_COMPLETE" =>
          \E j \in Owned(t, e.run) :
              Latest(j, Owned(t, e.run)) /\ InContract(t[j]) /\ t[j].node = e.node
    /\ \A j \in Owned(t, e.run) : Latest(j, Owned(t, e.run)) /\ InContract(t[j]) =>
          IF Finished(t[j])
          THEN e.type = "CC_COMPLETE" /\ e.what = OutcomeOf(t[j])
          ELSE \/ e.type = "ERROR"
               \/ InPipeline(e) /\ GoesOn(t[j]) /\ e.step = NextStep(t[j])

RefusalNext(t, e) ==
    \/ Quiet(t, e.run)
    \/ e.type = "WF_ROUTE" /\ e.then = None
    \/ e.type = "WF_COMPLETE" /\ e.what = "VIOLATION"

EventNext(t, e) ==
    /\ e.type \in EventTypes /\ e.type # "EVENT"
    /\ PathNext(t, e) /\ StepsNext(t, e) /\ Settled(t, e.run) /\ RefusalNext(t, e)

LEMMA NextEventOK ==
  ASSUME NEW t, IsList(t), NEW e, EventNext(t, e)
  PROVE  EventOK(Append(t, e), Len(t) + 1)
<1> DEFINE n == Append(t, e)
           i == Len(t) + 1
<1>1. /\ Prefix(t, n) /\ n[i] = e /\ Len(t) \in Nat /\ DOMAIN t = 1..Len(t) /\ i - 1 = Len(t)
      /\ \A j \in 1..Len(t) : n[j] = t[j]
  BY AppendGoesOn, ListFacts DEF Prefix
<1> HIDE DEF n
<1>2. Earlier(n, i) = Owned(t, e.run)
  BY <1>1 DEF Earlier, Owned
<1>3. \A j \in Owned(t, e.run) : n[j] = t[j] /\ j \in 1..Len(t)
  BY <1>1 DEF Owned
<1>4. /\ e.type \in EventTypes /\ e.type # "EVENT"
      /\ PathNext(t, e) /\ StepsNext(t, e) /\ Settled(t, e.run) /\ RefusalNext(t, e)
  BY DEF EventNext
<1> HIDE DEF i
<1>5. PathSealed(n, i)
  <2> DEFINE turns == {j \in Earlier(n, i) : Determines(n[j]) \/ n[j].type = "WF_ROUTE"}
  <2>1. turns = Turns(t, e.run) /\ Turns(t, e.run) \subseteq Owned(t, e.run)
    BY <1>2, <1>3 DEF Turns, IsTurn
  <2>2. Len(t) \in Owned(t, e.run) => n[Len(t)] = t[Len(t)]
    BY <1>3
  <2>3. e.type \in {"CC_START", "CC_STEP", "CC_COMPLETE"} =>
           IF turns = {}
           THEN \E j \in Earlier(n, i) : n[j].type = "WF_START" /\ e.node = pkg.entry[n[j].wf]
           ELSE \E j \in turns : Latest(j, turns) /\ n[j].type = "WF_ROUTE" /\ n[j].then = e.node
    BY <1>2, <1>3, <1>4, <2>1 DEF PathNext, AtNode
  <2>4. e.type = "WF_ROUTE" =>
           /\ \E j \in turns : /\ Latest(j, turns)
                               /\ Determines(n[j])
                               /\ n[j].node = e.node /\ n[j].what = e.what
           /\ e.then = SealedNext(e.node, e.what)
    BY <1>3, <1>4, <2>1 DEF PathNext, Decided
  <2>5. e.type = "WF_COMPLETE" =>
           \/ \E j \in Earlier(n, i) : n[j].type = "ERROR"
           \/ /\ i - 1 \in Earlier(n, i)
              /\ n[i - 1].type = "WF_ROUTE" /\ n[i - 1].what = e.what
              /\ n[i - 1].then \in Exits
    BY <1>1, <1>2, <1>3, <1>4, <2>2 DEF PathNext, Quiet
  <2> HIDE DEF turns
  <2> QED
    BY <1>1, <2>3, <2>4, <2>5 DEF PathSealed, turns
<1>6. StepsSealed(n, i)
  BY <1>1, <1>2, <1>3, <1>4 DEF StepsNext, StepsSealed, OutcomeOf
<1>7. AnnouncementsSealed(n, i)
  <2>1. \A j \in Owned(t, e.run) : Announcing(n, j, i - 1) <=> Announcing(t, j, Len(t))
    <3> TAKE j \in Owned(t, e.run)
    <3>1. \A k \in (j + 1)..Len(t) : n[k] = t[k]
      BY <1>1, <1>3
    <3> QED
      BY <1>1, <1>3, <3>1 DEF Announcing
  <2> QED
    BY <1>1, <1>2, <1>3, <1>4, <2>1 DEF AnnouncementsSealed, Settled
<1>8. RefusalSealed(n, i)
  BY <1>1, <1>2, <1>3, <1>4 DEF RefusalNext, RefusalSealed, Quiet
<1> QED
  BY <1>1, <1>4, <1>5, <1>6, <1>7, <1>8 DEF EventOK, n, i

-----------------------------------------------------------------------------
(***************************************************************************)
(* How a traversal stands to the trace after one event more.               *)
(***************************************************************************)
LEMMA OwnedAfter ==
  ASSUME NEW t, IsList(t), NEW e
  PROVE  LET n == Append(t, e)
             r == e.run
         IN  /\ Owned(n, r) = Owned(t, r) \cup {Len(n)}
             /\ \A j \in Owned(n, r) : Latest(j, Owned(n, r)) <=> j = Len(n)
             /\ n[Len(n)] = e
             /\ \A j \in Owned(t, r) : n[j] = t[j]
             /\ Turns(n, r) = IF IsTurn(e) THEN Turns(t, r) \cup {Len(n)} ELSE Turns(t, r)
             /\ \A j \in Turns(n, r) : IsTurn(e) => (Latest(j, Turns(n, r)) <=> j = Len(n))
<1> DEFINE n == Append(t, e)
           r == e.run
<1>1. /\ Len(t) \in Nat /\ DOMAIN t = 1..Len(t) /\ DOMAIN n = 1..(Len(t) + 1)
      /\ Len(n) = Len(t) + 1 /\ n[Len(n)] = e
      /\ \A j \in 1..Len(t) : n[j] = t[j]
  BY ListFacts, ListAppend
<1> HIDE DEF n, r
<1>2. Owned(n, r) = Owned(t, r) \cup {Len(n)}
  BY <1>1 DEF Owned, r
<1>3. \A j \in Owned(t, r) : n[j] = t[j] /\ j \in 1..Len(t)
  BY <1>1 DEF Owned
<1>4. \A j \in Owned(n, r) : j \in 1..Len(n)
  BY <1>1, <1>2, <1>3
<1>5. \A S : S \subseteq Owned(n, r) /\ Len(n) \in S => \A j \in S : Latest(j, S) <=> j = Len(n)
  BY <1>1, <1>4 DEF Latest
<1>6. Turns(n, r) = IF IsTurn(e) THEN Turns(t, r) \cup {Len(n)} ELSE Turns(t, r)
  BY <1>1, <1>2, <1>3 DEF Turns
<1>7. Turns(n, r) \subseteq Owned(n, r) /\ Len(n) \in Owned(n, r)
  BY <1>2 DEF Turns
<1>8. \A j \in Owned(n, r) : Latest(j, Owned(n, r)) <=> j = Len(n)
  BY <1>5, <1>7
<1>9. \A j \in Turns(n, r) : IsTurn(e) => (Latest(j, Turns(n, r)) <=> j = Len(n))
  BY <1>5, <1>6, <1>7
<1> QED
  BY <1>1, <1>2, <1>3, <1>6, <1>8, <1>9 DEF n, r

\* What an event says of the traversal that wrote it.
LEMMA StandsAfter ==
  ASSUME NEW t, IsList(t), NEW e
  PROVE  LET n == Append(t, e)
             r == e.run
         IN  /\ Quiet(n, r) <=> (Quiet(t, r) /\ e.type # "ERROR")
             /\ Determines(e) => Decided(n, r, e.node, e.what)
             /\ e.type = "WF_ROUTE" => AtNode(n, r, e.then)
             /\ ~IsTurn(e) => /\ \A node : AtNode(t, r, node) => AtNode(n, r, node)
                              /\ \A node, outcome :
                                    Decided(t, r, node, outcome) => Decided(n, r, node, outcome)
             /\ ~InContract(e) => Outside(n, r)
             /\ e.type # "EVENT" /\ e.type # "CC_COMPLETE" => Settled(n, r)
<1> DEFINE n == Append(t, e)
           r == e.run
<1>1. /\ Owned(n, r) = Owned(t, r) \cup {Len(n)}
      /\ \A j \in Owned(n, r) : Latest(j, Owned(n, r)) <=> j = Len(n)
      /\ n[Len(n)] = e
      /\ \A j \in Owned(t, r) : n[j] = t[j]
      /\ Turns(n, r) = IF IsTurn(e) THEN Turns(t, r) \cup {Len(n)} ELSE Turns(t, r)
      /\ \A j \in Turns(n, r) : IsTurn(e) => (Latest(j, Turns(n, r)) <=> j = Len(n))
  BY OwnedAfter
<1>2. Turns(t, r) \subseteq Owned(t, r)
  BY DEF Turns
<1>3. Len(n) = Len(t) + 1 /\ Len(t) \in Nat /\ \A j \in Owned(t, r) : j \in 1..Len(t)
  BY ListAppend, ListFacts DEF Owned
<1> HIDE DEF n, r
<1>4. Quiet(n, r) <=> (Quiet(t, r) /\ e.type # "ERROR")
  BY <1>1 DEF Quiet
<1>5. Determines(e) => Decided(n, r, e.node, e.what)
  <2> SUFFICES ASSUME Determines(e) PROVE Decided(n, r, e.node, e.what)
    OBVIOUS
  <2>1. IsTurn(e)
    BY DEF IsTurn
  <2> QED
    BY <1>1, <2>1 DEF Decided
<1>6. e.type = "WF_ROUTE" => AtNode(n, r, e.then)
  BY <1>1 DEF AtNode, IsTurn
<1>7. ~IsTurn(e) => /\ \A node : AtNode(t, r, node) => AtNode(n, r, node)
                    /\ \A node, outcome :
                          Decided(t, r, node, outcome) => Decided(n, r, node, outcome)
  <2> SUFFICES ASSUME ~IsTurn(e)
               PROVE  /\ \A node : AtNode(t, r, node) => AtNode(n, r, node)
                      /\ \A node, outcome :
                            Decided(t, r, node, outcome) => Decided(n, r, node, outcome)
    OBVIOUS
  <2>1. Turns(n, r) = Turns(t, r)
    BY <1>1
  <2>2. \A node : AtNode(t, r, node) => AtNode(n, r, node)
    BY <1>1, <1>2, <2>1 DEF AtNode
  <2>3. \A node, outcome : Decided(t, r, node, outcome) => Decided(n, r, node, outcome)
    BY <1>1, <1>2, <2>1 DEF Decided
  <2> QED
    BY <2>2, <2>3
<1>8. ~InContract(e) => Outside(n, r)
  BY <1>1 DEF Outside
<1>9. e.type # "EVENT" /\ e.type # "CC_COMPLETE" => Settled(n, r)
  <2> SUFFICES ASSUME e.type # "EVENT", e.type # "CC_COMPLETE", NEW j \in Owned(n, r),
                      Announcing(n, j, Len(n))
               PROVE  FALSE
    BY DEF Settled
  <2>1. CASE j = Len(n)
    BY <1>1, <2>1 DEF Announcing
  <2>2. CASE j \in Owned(t, r)
    <3>1. Len(n) \in (j + 1)..Len(n)
      BY <1>3, <2>2
    <3> QED
      BY <1>1, <3>1 DEF Announcing
  <2> QED
    BY <1>1, <2>1, <2>2
<1> QED
  BY <1>4, <1>5, <1>6, <1>7, <1>8, <1>9 DEF n, r

LEMMA AddedAfter ==
  ASSUME NEW t, IsList(t), NEW e
  PROVE  /\ Len(Append(t, e)) \in Owned(Append(t, e), e.run)
         /\ Append(t, e)[Len(Append(t, e))] = e
         /\ ~IsTurn(e) => Turns(Append(t, e), e.run) = Turns(t, e.run)
<1>1. Owned(Append(t, e), e.run) = Owned(t, e.run) \cup {Len(Append(t, e))}
  BY OwnedAfter
<1>2. Append(t, e)[Len(Append(t, e))] = e
  BY OwnedAfter
<1>3. ~IsTurn(e) => Turns(Append(t, e), e.run) = Turns(t, e.run)
  BY OwnedAfter
<1> QED
  BY <1>1, <1>2, <1>3

LEMMA SettledAfter ==
  ASSUME NEW t, IsList(t), NEW e, e.type \notin {"EVENT", "CC_COMPLETE"}
  PROVE  Settled(Append(t, e), e.run)
BY StandsAfter

\* What a traversal has written, and that it is sealed.
Wrote(t, n, r) ==
    /\ Prefix(t, n)
    /\ \A i \in (Len(t) + 1)..Len(n) : n[i].run = r
    /\ \A i \in DOMAIN n : EventOK(n, i)
    /\ \A q : q # r /\ Settled(t, q) => Settled(n, q)

LEMMA WroteNothing ==
  ASSUME NEW t, NEW r, IsList(t), \A i \in DOMAIN t : EventOK(t, i)
  PROVE  Wrote(t, t, r)
<1>1. Len(t) \in Nat
  BY ListFacts
<1> QED
  BY <1>1 DEF Wrote, Prefix

LEMMA WroteOne ==
  ASSUME NEW t, NEW n, NEW e, Wrote(t, n, e.run), EventNext(n, e)
  PROVE  Wrote(t, Append(n, e), e.run)
<1> DEFINE m == Append(n, e)
<1>1. /\ Prefix(t, n) /\ IsList(t) /\ IsList(n)
      /\ Len(t) \in Nat /\ Len(n) \in Nat /\ DOMAIN n = 1..Len(n) /\ DOMAIN t = 1..Len(t)
      /\ Len(t) <= Len(n) /\ \A i \in 1..Len(t) : n[i] = t[i]
  BY PrefixFacts DEF Wrote, Prefix
<1>2. /\ Prefix(n, m) /\ Len(m) = Len(n) + 1 /\ m[Len(n) + 1] = e
      /\ IsList(m) /\ DOMAIN m = 1..(Len(n) + 1)
      /\ \A i \in 1..Len(n) : m[i] = n[i]
  BY <1>1, AppendGoesOn, ListAppend
<1>3. EventOK(m, Len(n) + 1)
  BY <1>1, NextEventOK
<1> HIDE DEF m
<1>4. Prefix(t, m)
  BY <1>1, <1>2 DEF Prefix
<1>5. \A i \in (Len(t) + 1)..Len(m) : m[i].run = e.run
  <2> TAKE i \in (Len(t) + 1)..Len(m)
  <2>1. i \in (Len(t) + 1)..Len(n) \/ i = Len(n) + 1
    BY <1>1, <1>2
  <2> QED
    BY <1>1, <1>2, <2>1 DEF Wrote
<1>6. \A i \in DOMAIN m : EventOK(m, i)
  <2>1. \A i \in DOMAIN n : EventOK(m, i)
    BY <1>2, EventKept DEF Wrote
  <2> QED
    BY <1>1, <1>2, <1>3, <2>1
<1>7. ASSUME NEW q, q # e.run PROVE Settled(m, q)
  <2> SUFFICES ASSUME NEW j \in Owned(m, q), Announcing(m, j, Len(m)) PROVE FALSE
    BY DEF Settled
  <2>1. j \in 1..Len(n)
    BY <1>1, <1>2, <1>7 DEF Owned
  <2>2. Len(m) \in (j + 1)..Len(m)
    BY <1>1, <1>2, <2>1
  <2> QED
    BY <1>2, <2>2 DEF Announcing, EventNext
<1> QED
  BY <1>4, <1>5, <1>6, <1>7 DEF Wrote, m

\* A traversal that waits stands to the trace as before, whatever one inside it
\* has written.
LEMMA FrameKept ==
  ASSUME NEW t, NEW n, NEW r, Wrote(t, n, r),
         NEW f, FrameOK(t, f), f.run # r, f.place # "announce"
  PROVE  FrameOK(n, f)
<1> DEFINE q == f.run
<1>1. /\ Len(t) \in Nat /\ DOMAIN t = 1..Len(t) /\ Len(n) \in Nat /\ DOMAIN n = 1..Len(n)
      /\ Len(t) <= Len(n)
      /\ \A i \in DOMAIN t : n[i] = t[i]
      /\ \A i \in (Len(t) + 1)..Len(n) : n[i].run = r
  BY PrefixFacts DEF Wrote, Prefix
<1>2. Owned(n, q) = Owned(t, q)
  <2>1. \A i \in DOMAIN n : i \in DOMAIN t \/ i \in (Len(t) + 1)..Len(n)
    BY <1>1
  <2> QED
    BY <1>1, <2>1 DEF Owned
<1>3. \A j \in Owned(t, q) : n[j] = t[j]
  BY <1>1 DEF Owned
<1>4. Turns(n, q) = Turns(t, q) /\ Turns(t, q) \subseteq Owned(t, q)
  BY <1>2, <1>3 DEF Turns
<1>5. Settled(n, q)
  BY DEF Wrote, FrameOK
<1> HIDE DEF q
<1>6. \A node : AtNode(t, q, node) => AtNode(n, q, node)
  BY <1>2, <1>3, <1>4 DEF AtNode
<1>7. \A node, outcome : Decided(t, q, node, outcome) => Decided(n, q, node, outcome)
  BY <1>3, <1>4 DEF Decided
<1>8. Quiet(t, q) => Quiet(n, q)
  BY <1>2, <1>3 DEF Quiet
<1>9. Outside(t, q) => Outside(n, q)
  BY <1>2, <1>3 DEF Outside
<1>10. Within(t, f) => Within(n, f)
  BY <1>2, <1>3 DEF Within, q
<1>11. Leaving(t, f) => Leaving(n, f)
  BY <1>2, <1>3 DEF Leaving, q
<1> QED
  BY <1>5, <1>6, <1>7, <1>8, <1>9, <1>10, <1>11 DEF FrameOK, q

-----------------------------------------------------------------------------
(***************************************************************************)
(* The parts of the invariant, step by step.  The package does not change. *)
(***************************************************************************)
LEMMA SamePackage ==
  ASSUME pkg' = pkg
  PROVE  /\ (\A d \in DOMAIN stack' : FrameOK(trace', stack'[d])) => FrameInv'
         /\ (\A i \in DOMAIN trace' : EventOK(trace', i)) => \A i \in DOMAIN trace' : EventOK(trace, i)'
         /\ (\A d \in DOMAIN stack' : Placed(stack'[d])) => \A d \in DOMAIN stack' : Placed(stack[d])'
<1>1. (\A d \in DOMAIN stack' : Placed(stack'[d])) => \A d \in DOMAIN stack' : Placed(stack[d])'
  BY DEF Placed
<1>2. (\A d \in DOMAIN stack' : FrameOK(trace', stack'[d])) => FrameInv'
  BY DEF FrameInv, FrameOK, AtNode, Decided, Within, Leaving, Outside, Settled, JustCompleted, Quiet,
         Turns, Owned, IsTurn, SealedMoments, Announcing, Latest
<1>3. \A i : PathSealed(trace', i) => PathSealed(trace, i)'
  BY DEF PathSealed, SealedNext, Routed, Ending, Condition, Earlier, Latest, Determines, Admission
<1>4. \A i : StepsSealed(trace', i) => StepsSealed(trace, i)'
  BY DEF StepsSealed, PipelineOf, Finished, Earlier, Latest
<1>5. \A i : AnnouncementsSealed(trace', i) => AnnouncementsSealed(trace, i)'
  BY DEF AnnouncementsSealed, SealedMoments, Announcing, Earlier
<1>6. \A i : RefusalSealed(trace', i) => RefusalSealed(trace, i)'
  BY DEF RefusalSealed, Earlier
<1>7. (\A i \in DOMAIN trace' : EventOK(trace', i)) => \A i \in DOMAIN trace' : EventOK(trace, i)'
  BY <1>3, <1>4, <1>5, <1>6 DEF EventOK
<1> QED
  BY <1>1, <1>2, <1>7

LEMMA TopFacts ==
  ASSUME StackInv, stack # <<>>
  PROVE  /\ Len(stack) \in Nat \ {0} /\ DOMAIN stack = 1..Len(stack)
         /\ \A d \in 1..Len(stack) : stack[d] \in Frames
         /\ Top = stack[Len(stack)] /\ Top \in Frames /\ Placed(Top) /\ Top.run \in 1..started
         /\ Top.place = "calling" <=> raised # "none"
         /\ \A d \in 1..(Len(stack) - 1) : stack[d].run < Top.run /\ stack[d].place = "calling"
         /\ Top.run = 1 <=> Len(stack) = 1
<1>1. Len(stack) \in Nat \ {0} /\ DOMAIN stack = 1..Len(stack) /\ \A d \in 1..Len(stack) : stack[d] \in Frames
  BY LenProperties, EmptySeq, ElementOfSeq DEF StackInv
<1>2. Top = stack[Len(stack)]
  BY DEF Top, Last
<1>3. Top \in Frames /\ Placed(Top) /\ Top.run \in 1..started /\ (Top.place = "calling" <=> raised # "none")
  BY <1>1, <1>2 DEF StackInv
<1>4. \A d \in 1..(Len(stack) - 1) : stack[d].run < Top.run /\ stack[d].place = "calling"
  BY <1>1, <1>2 DEF StackInv
<1>5. Top.run = 1 <=> Len(stack) = 1
  <2>1. stack[1].run = 1
    BY DEF StackInv
  <2>2. CASE Len(stack) > 1
    <3>1. 1 \in 1..(Len(stack) - 1)
      BY <1>1, <2>2
    <3>2. Top.run # 1
      BY <1>4, <2>1, <3>1
    <3> QED
      BY <1>1, <2>2, <3>2
  <2>3. CASE Len(stack) = 1
    <3>1. Top = stack[1]
      BY <1>2, <2>3
    <3> QED
      BY <2>1, <2>3, <3>1
  <2> QED
    BY <1>1, <2>2, <2>3
<1> QED
  BY <1>1, <1>2, <1>3, <1>4, <1>5

LEMMA TraceMoves ==
  ASSUME TraceInv, Kinds, UNCHANGED <<pkg, started>>, NEW r \in 1..started, Wrote(trace, trace', r)
  PROVE  TraceInv'
<1>1. /\ IsList(trace') /\ DOMAIN trace = 1..Len(trace) /\ DOMAIN trace' = 1..Len(trace')
      /\ Len(trace) \in Nat /\ Len(trace') \in Nat /\ \A i \in 1..Len(trace) : trace'[i] = trace[i]
  BY PrefixFacts DEF Wrote, Prefix
<1>2. ASSUME NEW i \in DOMAIN trace'
      PROVE  trace'[i].run \in 0..started /\ (trace'[i].run = 0 => trace'[i].type = "ERROR")
  <2>1. CASE i \in DOMAIN trace
    BY <1>1, <2>1 DEF TraceInv
  <2>2. CASE i \in (Len(trace) + 1)..Len(trace')
    BY <2>2 DEF Wrote, Kinds
  <2> QED
    BY <1>1, <2>1, <2>2
<1>3. \A i \in DOMAIN trace' : EventOK(trace, i)'
  BY SamePackage DEF Wrote
<1> QED
  BY <1>1, <1>2, <1>3 DEF TraceInv

LEMMA TraceStays ==
  ASSUME TraceInv
  PROVE  Wrote(trace, trace, Top.run)
BY WroteNothing DEF TraceInv

\* A stack with another top, and without its top.
Replaced(s, n, f) ==
    /\ n \in Seq(Frames) /\ Len(n) = Len(s) /\ DOMAIN n = 1..Len(s)
    /\ \A d \in 1..(Len(s) - 1) : n[d] = s[d]
    /\ n[Len(s)] = f

Removed(s, n) ==
    /\ n \in Seq(Frames) /\ Len(n) = Len(s) - 1 /\ DOMAIN n = 1..(Len(s) - 1)
    /\ \A d \in DOMAIN n : n[d] = s[d] /\ d \in 1..Len(s)

LEMMA StackMoves ==
  ASSUME StackInv, stack # <<>>
  PROVE  /\ \A f \in Frames : Replaced(stack, Front(stack) \o <<f>>, f)
         /\ Removed(stack, Front(stack))
<1>1. stack \in Seq(Frames)
  BY DEF StackInv
<1>2. ASSUME NEW f \in Frames PROVE Replaced(stack, Front(stack) \o <<f>>, f)
  <2> DEFINE n == Front(stack) \o <<f>>
  <2>1. /\ n \in Seq(Frames) /\ Len(n) = Len(stack)
        /\ \A d \in 1..(Len(stack) - 1) : n[d] = stack[d]
        /\ n[Len(stack)] = f
    BY <1>1, LastReplaced
  <2> HIDE DEF n
  <2>2. DOMAIN n = 1..Len(stack)
    BY <2>1, LenProperties
  <2> QED
    BY <2>1, <2>2 DEF n, Replaced
<1>3. Removed(stack, Front(stack))
  <2> DEFINE n == Front(stack)
  <2>1. /\ n \in Seq(Frames) /\ Len(n) = Len(stack) - 1
        /\ \A d \in 1..(Len(stack) - 1) : n[d] = stack[d]
    BY <1>1, LastRemoved
  <2> HIDE DEF n
  <2>2. DOMAIN n = 1..(Len(stack) - 1) /\ Len(stack) \in Nat
    BY <1>1, <2>1, LenProperties
  <2> QED
    BY <2>1, <2>2 DEF n, Removed
<1> QED
  BY <1>2, <1>3

\* The innermost traversal goes on.
LEMMA TopReplaced ==
  ASSUME Kinds, StackInv, FrameInv, stack # <<>>, UNCHANGED <<pkg, started, result>>,
         NEW f \in Frames, Replaced(stack, stack', f),
         f.run = Top.run, f.place = "calling" <=> raised' # "none", Placed(f),
         trace' # <<>>, Wrote(trace, trace', Top.run), FrameOK(trace', f)
  PROVE  StackInv' /\ FrameInv'
<1>1. /\ Len(stack) \in Nat \ {0} /\ DOMAIN stack = 1..Len(stack)
      /\ Top = stack[Len(stack)]
      /\ \A d \in 1..(Len(stack) - 1) : stack[d].run < Top.run /\ stack[d].place = "calling"
  BY TopFacts
<1>2. /\ stack' \in Seq(Frames) /\ Len(stack') = Len(stack) /\ DOMAIN stack' = 1..Len(stack)
      /\ \A d \in 1..(Len(stack) - 1) : stack'[d] = stack[d]
      /\ stack'[Len(stack)] = f
  BY DEF Replaced
<1>3. \A d \in DOMAIN stack' : d \in 1..(Len(stack) - 1) \/ d = Len(stack)
  BY <1>1, <1>2
<1>4. \A d \in DOMAIN stack' : stack'[d].run = stack[d].run
  <2> TAKE d \in DOMAIN stack'
  <2>1. CASE d \in 1..(Len(stack) - 1)
    BY <1>2, <2>1
  <2>2. CASE d = Len(stack)
    BY <1>1, <1>2, <2>2
  <2> QED
    BY <1>3, <2>1, <2>2
<1>5. \A d \in DOMAIN stack' : Placed(stack'[d])
  BY <1>1, <1>2, <1>3 DEF StackInv
<1>6. \A d \in DOMAIN stack' : FrameOK(trace', stack'[d])
  <2> TAKE d \in DOMAIN stack'
  <2>1. CASE d \in 1..(Len(stack) - 1)
    <3>0. Top.run \in Nat /\ stack[d].run \in Nat
      BY <1>1, <2>1, TopFacts DEF Frames
    <3>1. FrameOK(trace, stack[d]) /\ stack[d].run # Top.run /\ stack[d].place # "announce"
      BY <1>1, <2>1, <3>0 DEF FrameInv
    <3>2. FrameOK(trace', stack[d])
      BY <3>1, FrameKept
    <3> QED
      BY <1>2, <2>1, <3>2
  <2> QED
    BY <1>2, <1>3, <2>1
<1>7. StackInv'
  <2>1. \A d \in DOMAIN stack' : Placed(stack[d])'
    BY <1>5, SamePackage
  <2>2. \A d \in DOMAIN stack' :
           /\ stack'[d].run \in 1..started'
           /\ d < Len(stack') => stack'[d].place = "calling"
           /\ d = Len(stack') => (stack'[d].place = "calling" <=> raised' # "none")
    <3> TAKE d \in DOMAIN stack'
    <3>1. stack'[d].run \in 1..started'
      BY <1>1, <1>2, <1>4 DEF StackInv
    <3>2. CASE d \in 1..(Len(stack) - 1)
      BY <1>1, <1>2, <3>1, <3>2
    <3>3. CASE d = Len(stack)
      BY <1>2, <3>1, <3>3
    <3> QED
      BY <1>3, <3>2, <3>3
  <2>3. \A c, d \in DOMAIN stack' : c < d => stack'[c].run < stack'[d].run
    BY <1>1, <1>2, <1>4 DEF StackInv
  <2>4. stack'[1].run = 1 /\ result' = "none"
    <3>1. 1 \in DOMAIN stack'
      BY <1>1, <1>2
    <3> QED
      BY <1>4, <3>1 DEF StackInv
  <2> QED
    BY <1>2, <2>1, <2>2, <2>3, <2>4 DEF StackInv
<1> QED
  BY <1>6, <1>7, SamePackage

\* The innermost traversal is left, by an exception.
LEMMA TopRemoved ==
  ASSUME Kinds, StackInv, FrameInv, stack # <<>>, UNCHANGED <<pkg, started, result>>,
         Removed(stack, stack'), raised' # "none", trace' # <<>>, Wrote(trace, trace', Top.run)
  PROVE  StackInv' /\ FrameInv'
<1>1. /\ Len(stack) \in Nat \ {0} /\ DOMAIN stack = 1..Len(stack)
      /\ Top = stack[Len(stack)]
      /\ \A d \in 1..(Len(stack) - 1) : stack[d].run < Top.run /\ stack[d].place = "calling"
  BY TopFacts
<1>2. /\ stack' \in Seq(Frames) /\ Len(stack') = Len(stack) - 1 /\ DOMAIN stack' = 1..(Len(stack) - 1)
      /\ \A d \in DOMAIN stack' : stack'[d] = stack[d] /\ d \in DOMAIN stack
  BY <1>1 DEF Removed
<1>3. \A d \in DOMAIN stack' : FrameOK(trace', stack'[d])
  <2> TAKE d \in DOMAIN stack'
  <2>1. d \in 1..(Len(stack) - 1) /\ Top.run \in Nat /\ stack[d].run \in Nat
    BY <1>1, <1>2, TopFacts DEF Frames
  <2>2. FrameOK(trace, stack[d]) /\ stack[d].run # Top.run /\ stack[d].place # "announce"
    BY <1>1, <2>1 DEF FrameInv
  <2>3. FrameOK(trace', stack[d])
    BY <2>2, FrameKept
  <2> QED
    BY <1>2, <2>3
<1>4. StackInv'
  <2>1. \A d \in DOMAIN stack' : Placed(stack[d])'
    <3>1. \A d \in DOMAIN stack' : Placed(stack'[d])
      BY <1>2 DEF StackInv
    <3> QED
      BY <3>1, SamePackage
  <2>2. \A d \in DOMAIN stack' :
           /\ stack'[d].run \in 1..started'
           /\ d < Len(stack') => stack'[d].place = "calling"
           /\ d = Len(stack') => (stack'[d].place = "calling" <=> raised' # "none")
    BY <1>1, <1>2 DEF StackInv
  <2>3. \A c, d \in DOMAIN stack' : c < d => stack'[c].run < stack'[d].run
    BY <1>1, <1>2 DEF StackInv
  <2>4. stack' # <<>> => stack'[1].run = 1 /\ result' = "none"
    <3>1. stack' # <<>> => 1 \in DOMAIN stack'
      BY <1>1, <1>2, EmptySeq
    <3> QED
      BY <1>2, <3>1 DEF StackInv
  <2> QED
    BY <1>2, <2>1, <2>2, <2>3, <2>4 DEF StackInv
<1> QED
  BY <1>3, <1>4, SamePackage

\* A frame whose capability has called a workflow stands as one whose capability
\* has not.
Alike(f, g) == f.run = g.run /\ f.node = g.node /\ f.step = g.step /\ f.outcome = g.outcome

LEMMA SameStand ==
  ASSUME NEW t, NEW f, NEW g, FrameOK(t, g), Placed(g), Alike(f, g),
         g.place \in {"inside", "calling"}, f.place \in {"inside", "calling"}
  PROVE  FrameOK(t, f) /\ Placed(f)
<1>1. Placed(f)
  BY DEF Placed, Alike
<1>2. Within(t, g) => Within(t, f)
  BY DEF Within, Alike
<1>3. FrameOK(t, f)
  BY <1>2 DEF FrameOK, Alike
<1> QED
  BY <1>1, <1>3

\* The innermost traversal returns to the capability that asked for it.
Resumed(s, n, f) ==
    /\ n \in Seq(Frames) /\ Len(n) = Len(s) - 1 /\ DOMAIN n = 1..(Len(s) - 1)
    /\ \A d \in 1..(Len(s) - 2) : n[d] = s[d]
    /\ n[Len(s) - 1] = f

LEMMA TopReturned ==
  ASSUME Kinds, StackInv, FrameInv, Len(stack) > 1, UNCHANGED <<pkg, started, result>>,
         raised' = "none", NEW f \in Frames, Resumed(stack, stack', f),
         f.place = "inside", Alike(f, stack[Len(stack) - 1]),
         trace' # <<>>, Wrote(trace, trace', Top.run)
  PROVE  StackInv' /\ FrameInv'
<1> DEFINE l == Len(stack) - 1
           g == stack[l]
<1>1. /\ Len(stack) \in Nat \ {0} /\ DOMAIN stack = 1..Len(stack)
      /\ \A d \in 1..Len(stack) : stack[d] \in Frames
      /\ Top.run \in Nat
      /\ \A d \in 1..(Len(stack) - 1) : stack[d].run < Top.run /\ stack[d].place = "calling"
  BY TopFacts, EmptySeq DEF Frames
<1>2. l \in Nat \ {0} /\ Len(stack) = l + 1 /\ l \in DOMAIN stack
  BY <1>1
<1>3. /\ stack' \in Seq(Frames) /\ Len(stack') = l /\ DOMAIN stack' = 1..l
      /\ \A d \in 1..(l - 1) : stack'[d] = stack[d]
      /\ stack'[l] = f
  <2>1. Len(stack) - 2 = l - 1
    BY <1>1
  <2> QED
    BY <2>1 DEF Resumed
<1>4. g.place = "calling" /\ f.place = "inside" /\ Alike(f, g) /\ f.run = g.run
  BY <1>1, <1>2 DEF Alike
<1> HIDE DEF l, g
<1>5. \A d \in DOMAIN stack' : d \in DOMAIN stack /\ d < Len(stack) /\ (d \in 1..(l - 1) \/ d = l)
  BY <1>1, <1>2, <1>3
<1>6. \A d \in DOMAIN stack' :
         stack'[d].run = stack[d].run /\ (d # l => stack'[d].place = "calling")
  <2> TAKE d \in DOMAIN stack'
  <2>1. CASE d = l
    BY <1>3, <1>4, <2>1 DEF g
  <2>2. CASE d \in 1..(l - 1)
    BY <1>1, <1>2, <1>3, <2>2
  <2> QED
    BY <1>5, <2>1, <2>2
<1>7. \A d \in DOMAIN stack' : FrameOK(trace', stack'[d]) /\ Placed(stack'[d])
  <2> TAKE d \in DOMAIN stack'
  <2>1. /\ stack[d] \in Frames /\ FrameOK(trace, stack[d]) /\ Placed(stack[d])
        /\ stack[d].run # Top.run /\ stack[d].place = "calling"
    <3>1. d \in 1..(Len(stack) - 1) /\ stack[d] \in Frames
      BY <1>1, <1>5
    <3>2. stack[d].run \in Nat
      BY <3>1 DEF Frames
    <3> QED
      BY <1>1, <1>5, <3>1, <3>2 DEF FrameInv, StackInv
  <2>2. FrameOK(trace', stack[d])
    BY <2>1, FrameKept
  <2>3. CASE d = l
    <3>1. FrameOK(trace', f) /\ Placed(f)
      <4>1. FrameOK(trace', g) /\ Placed(g)
        BY <2>1, <2>2, <2>3 DEF g
      <4> QED
        BY <1>4, <4>1, SameStand
    <3> QED
      BY <1>3, <2>3, <3>1
  <2>4. CASE d \in 1..(l - 1)
    BY <1>3, <2>1, <2>2, <2>4
  <2> QED
    BY <1>5, <2>3, <2>4
<1>8. StackInv'
  <2>1. \A d \in DOMAIN stack' : Placed(stack[d])'
    BY <1>7, SamePackage
  <2>2. \A d \in DOMAIN stack' :
           /\ stack'[d].run \in 1..started'
           /\ d < Len(stack') => stack'[d].place = "calling"
           /\ d = Len(stack') => (stack'[d].place = "calling" <=> raised' # "none")
    <3> TAKE d \in DOMAIN stack'
    <3>1. stack'[d].run \in 1..started'
      <4>1. stack[d].run \in 1..started
        BY <1>5 DEF StackInv
      <4> QED
        BY <1>6, <4>1
    <3>2. CASE d = l
      <4>1. stack'[d].place = "inside" /\ ~(d < Len(stack'))
        BY <1>2, <1>3, <1>4, <3>2
      <4> QED
        BY <3>1, <4>1
    <3>3. CASE d \in 1..(l - 1)
      BY <1>2, <1>3, <1>6, <3>1, <3>3
    <3> QED
      BY <1>5, <3>2, <3>3
  <2>3. \A c, d \in DOMAIN stack' : c < d => stack'[c].run < stack'[d].run
    BY <1>5, <1>6 DEF StackInv
  <2>4. stack'[1].run = 1 /\ result' = "none"
    <3>1. 1 \in DOMAIN stack'
      BY <1>2, <1>3
    <3>2. stack # <<>>
      BY <1>1, EmptySeq
    <3> QED
      BY <1>6, <3>1, <3>2 DEF StackInv
  <2> QED
    BY <1>3, <2>1, <2>2, <2>3, <2>4 DEF StackInv
<1> QED
  BY <1>7, <1>8, SamePackage

\* A traversal starts, called by run_workflow or by a capability.
Waiting(s) ==
    /\ s \in Seq(Frames)
    /\ \A d \in DOMAIN s :
          /\ Placed(s[d]) /\ FrameOK(trace, s[d])
          /\ s[d].run \in 1..started /\ s[d].place = "calling"
    /\ \A c, d \in DOMAIN s : c < d => s[c].run < s[d].run
    /\ IF s = <<>> THEN started = 0 ELSE s[1].run = 1

LEMMA TopAdded ==
  ASSUME Kinds, TraceInv, pkg' = pkg, started' = started + 1, raised' = "none", result' = "none",
         NEW s, Waiting(s), NEW f \in Frames, stack' = Append(s, f),
         f.run = started + 1, f.place = "node", FrameOK(trace', f),
         trace' # <<>>, Wrote(trace, trace', started + 1)
  PROVE  StackInv' /\ FrameInv'
<1>1. /\ s \in Seq(Frames) /\ Len(s) \in Nat /\ DOMAIN s = 1..Len(s) /\ started \in Nat
      /\ \A d \in DOMAIN s : s[d] \in Frames
  BY LenProperties, ElementOfSeq DEF Waiting, Kinds
<1>2. /\ stack' \in Seq(Frames) /\ Len(stack') = Len(s) + 1 /\ DOMAIN stack' = 1..(Len(s) + 1)
      /\ \A d \in 1..Len(s) : stack'[d] = s[d]
      /\ stack'[Len(s) + 1] = f
  <2>1. /\ stack' \in Seq(Frames) /\ Len(stack') = Len(s) + 1
        /\ \A d \in 1..Len(s) : stack'[d] = s[d]
        /\ stack'[Len(s) + 1] = f
    BY <1>1, OnTop
  <2> QED
    BY <2>1, LenProperties
<1> DEFINE l == Len(s) + 1
<1>3. \A d \in DOMAIN stack' : d \in DOMAIN s \/ d = l
  BY <1>1, <1>2
<1>4. /\ l \in Nat \ {0} /\ Len(stack') = l /\ stack'[l] = f /\ DOMAIN stack' = 1..l
      /\ \A d \in DOMAIN s : d < l /\ stack'[d] = s[d]
  BY <1>1, <1>2
<1> HIDE DEF l
<1>5. \A d \in DOMAIN stack' : FrameOK(trace', stack'[d]) /\ Placed(stack'[d])
  <2> TAKE d \in DOMAIN stack'
  <2>1. CASE d = l
    BY <1>4, <2>1 DEF Placed
  <2>2. CASE d \in DOMAIN s
    <3>1. FrameOK(trace, s[d]) /\ Placed(s[d]) /\ s[d].run \in 1..started /\ s[d].place = "calling"
      BY <2>2 DEF Waiting
    <3>2. s[d].run # started + 1 /\ s[d].place # "announce"
      BY <1>1, <3>1
    <3>3. FrameOK(trace', s[d])
      BY <3>1, <3>2, FrameKept
    <3> QED
      BY <1>4, <2>2, <3>1, <3>3
  <2> QED
    BY <1>3, <2>1, <2>2
<1>6. StackInv'
  <2>1. \A d \in DOMAIN stack' : Placed(stack[d])'
    BY <1>5, SamePackage
  <2>2. \A d \in DOMAIN stack' :
           /\ stack'[d].run \in 1..started'
           /\ d < Len(stack') => stack'[d].place = "calling"
           /\ d = Len(stack') => (stack'[d].place = "calling" <=> raised' # "none")
    <3> TAKE d \in DOMAIN stack'
    <3>1. CASE d = l
      BY <1>1, <1>4, <3>1
    <3>2. CASE d \in DOMAIN s
      <4>1. s[d].run \in 1..started /\ s[d].place = "calling"
        BY <3>2 DEF Waiting
      <4> QED
        BY <1>1, <1>4, <3>2, <4>1
    <3> QED
      BY <1>3, <3>1, <3>2
  <2>3. \A c, d \in DOMAIN stack' : c < d => stack'[c].run < stack'[d].run
    <3> SUFFICES ASSUME NEW c \in DOMAIN stack', NEW d \in DOMAIN stack', c < d
                 PROVE  stack'[c].run < stack'[d].run
      OBVIOUS
    <3>1. c \in DOMAIN s
      BY <1>3, <1>4
    <3>2. CASE d = l
      <4>1. s[c].run \in 1..started
        BY <3>1 DEF Waiting
      <4> QED
        BY <1>1, <1>4, <3>1, <3>2, <4>1
    <3>3. CASE d \in DOMAIN s
      BY <1>4, <3>1, <3>3 DEF Waiting
    <3> QED
      BY <1>3, <3>2, <3>3
  <2>4. stack'[1].run = 1
    <3>1. CASE s = <<>>
      <4>1. l = 1 /\ started = 0
        BY <3>1, EmptySeq DEF Waiting, l
      <4> QED
        BY <1>4, <4>1
    <3>2. CASE s # <<>>
      <4>1. 1 \in DOMAIN s
        BY <1>1, <3>2, EmptySeq
      <4> QED
        BY <1>4, <3>2, <4>1 DEF Waiting
    <3> QED
      BY <3>1, <3>2
  <2> QED
    BY <1>2, <2>1, <2>2, <2>3, <2>4 DEF StackInv
<1> QED
  BY <1>5, <1>6, SamePackage

-----------------------------------------------------------------------------
(***************************************************************************)
(* Capability calls, and failures.                                         *)
(***************************************************************************)
LEMMA StillWritten ==
  ASSUME NEW t, NEW n, Prefix(t, n), t # <<>>
  PROVE  n # <<>>
<1>1. Len(t) # 0 /\ Len(t) \in Nat /\ Len(n) \in Nat /\ Len(t) <= Len(n)
  BY ListFacts, EmptySeq DEF Prefix, IsList
<1> QED
  BY <1>1, EmptySeq

\* The next thing a traversal wrote is its step or a failure; and a traversal
\* that stays with its capability.
Replies(t, n, f) ==
    /\ Len(n) > Len(t)
    /\ n[Len(t) + 1].run = f.run /\ n[Len(t) + 1].node = f.node
    /\ n[Len(t) + 1].type \in {"CC_STEP", "ERROR"}

Stays(s, f) ==
    \E c \in DOMAIN s : /\ s[c].place \in {"inside", "calling"}
                        /\ s[c].run = f.run /\ s[c].node = f.node

LEMMA CallsMove ==
  ASSUME RanInv, ran' = ran, result # "killed", NEW r, Wrote(trace, trace', r),
         \A d \in DOMAIN stack : stack[d].place \in {"inside", "calling"} =>
            \/ Replies(trace, trace', stack[d])
            \/ Stays(stack', stack[d]) /\ (stack[d].run # r \/ trace' = trace)
  PROVE  RanInv'
<1>1. /\ Len(trace) \in Nat /\ DOMAIN trace = 1..Len(trace)
      /\ Len(trace') \in Nat /\ DOMAIN trace' = 1..Len(trace') /\ Len(trace) <= Len(trace')
      /\ \A i \in 1..Len(trace) : trace'[i] = trace[i]
      /\ \A i \in (Len(trace) + 1)..Len(trace') : trace'[i].run = r
  BY PrefixFacts DEF Wrote, Prefix
<1>2. ASSUME NEW k \in DOMAIN ran
      PROVE  /\ ran[k].after \in 0..Len(trace')
             /\ \A i \in DOMAIN trace' :
                   trace'[i].type = "ERROR" /\ trace'[i].run = ran[k].run => ran[k].after < i
             /\ \/ Recorded(trace', ran[k])
                \/ \E d \in DOMAIN stack' : InProgress(trace', ran[k], stack'[d])
  <2> DEFINE c == ran[k]
  <2>1. /\ c.after \in 0..Len(trace)
        /\ \A i \in DOMAIN trace : trace[i].type = "ERROR" /\ trace[i].run = c.run => c.after < i
        /\ Recorded(trace, c) \/ \E d \in DOMAIN stack : InProgress(trace, c, stack[d])
    BY DEF RanInv
  <2> HIDE DEF c
  <2>2. c.after \in 0..Len(trace')
    BY <1>1, <2>1
  <2>3. \A i \in DOMAIN trace' : trace'[i].type = "ERROR" /\ trace'[i].run = c.run => c.after < i
    BY <1>1, <2>1
  <2>4. CASE Recorded(trace, c)
    <3> PICK j \in (c.after + 1)..Len(trace) :
           /\ trace[j].run = c.run /\ trace[j].node = c.node /\ trace[j].type \in {"CC_STEP", "ERROR"}
           /\ \A i \in (c.after + 1)..(j - 1) : trace[i].run # c.run
      BY <2>4 DEF Recorded
    <3>1. j \in (c.after + 1)..Len(trace') /\ j \in 1..Len(trace)
      BY <1>1, <2>1
    <3>2. \A i \in (c.after + 1)..(j - 1) : i \in 1..Len(trace)
      BY <1>1, <2>1
    <3>3. Recorded(trace', c)
      BY <1>1, <3>1, <3>2 DEF Recorded
    <3> QED
      BY <2>2, <2>3, <3>3 DEF c
  <2>5. CASE \E d \in DOMAIN stack : InProgress(trace, c, stack[d])
    <3> PICK d \in DOMAIN stack : InProgress(trace, c, stack[d])
      BY <2>5
    <3>1. /\ stack[d].place \in {"inside", "calling"} /\ stack[d].run = c.run /\ stack[d].node = c.node
          /\ \A i \in (c.after + 1)..Len(trace) : trace[i].run # c.run
      BY DEF InProgress
    <3>2. CASE Replies(trace, trace', stack[d])
      <4> DEFINE j == Len(trace) + 1
      <4>1. j \in (c.after + 1)..Len(trace') /\ j - 1 = Len(trace)
        BY <1>1, <2>1, <3>2 DEF Replies
      <4>2. trace'[j].run = c.run /\ trace'[j].node = c.node /\ trace'[j].type \in {"CC_STEP", "ERROR"}
        BY <3>1, <3>2 DEF Replies
      <4>3. \A i \in (c.after + 1)..Len(trace) : i \in 1..Len(trace)
        BY <1>1, <2>1
      <4> HIDE DEF j
      <4>4. \A i \in (c.after + 1)..(j - 1) : trace'[i].run # c.run
        BY <1>1, <3>1, <4>1, <4>3
      <4>5. Recorded(trace', c)
        BY <4>1, <4>2, <4>4 DEF Recorded
      <4> QED
        BY <2>2, <2>3, <4>5 DEF c
    <3>3. CASE Stays(stack', stack[d]) /\ (stack[d].run # r \/ trace' = trace)
      <4> PICK b \in DOMAIN stack' : /\ stack'[b].place \in {"inside", "calling"}
                                     /\ stack'[b].run = c.run /\ stack'[b].node = c.node
        BY <3>1, <3>3 DEF Stays
      <4>1. \A i \in (c.after + 1)..Len(trace') : trace'[i].run # c.run
        <5>1. CASE trace' = trace
          BY <3>1, <5>1
        <5>2. CASE stack[d].run # r
          <6> TAKE i \in (c.after + 1)..Len(trace')
          <6>1. (i \in (c.after + 1)..Len(trace) /\ i \in 1..Len(trace)) \/ i \in (Len(trace) + 1)..Len(trace')
            BY <1>1, <2>1
          <6> QED
            BY <1>1, <3>1, <5>2, <6>1
        <5> QED
          BY <3>3, <5>1, <5>2
      <4>2. InProgress(trace', c, stack'[b])
        BY <4>1 DEF InProgress
      <4> QED
        BY <2>2, <2>3, <4>2 DEF c
    <3> QED
      BY <3>1, <3>2, <3>3
  <2> QED
    BY <2>1, <2>4, <2>5
<1>3. IsList(ran')
  BY DEF RanInv
<1> QED
  BY <1>2, <1>3 DEF RanInv

\* The failures of the run, as the traversals inside it write, and as its own
\* does.
LEMMA ErrorsKept ==
  ASSUME NEW t, NEW n, NEW r \in Nat, Wrote(t, n, r), r > 1 \/ Quiet(n, r)
  PROVE  Errors(n) = Errors(t)
<1>1. /\ Len(t) \in Nat /\ DOMAIN t = 1..Len(t) /\ Len(n) \in Nat /\ DOMAIN n = 1..Len(n)
      /\ Len(t) <= Len(n) /\ \A i \in 1..Len(t) : n[i] = t[i]
      /\ \A i \in (Len(t) + 1)..Len(n) : n[i].run = r
  BY PrefixFacts DEF Wrote, Prefix
<1>2. \A i \in (Len(t) + 1)..Len(n) : i \notin Errors(n)
  BY <1>1 DEF Errors, Quiet, Owned
<1>3. \A i \in DOMAIN n : i \in DOMAIN t \/ i \in (Len(t) + 1)..Len(n)
  BY <1>1
<1> QED
  BY <1>1, <1>2, <1>3 DEF Errors

OneError(t, n) ==
    \E p \in (Len(t) + 1)..Len(n) :
        /\ n[p].type = "ERROR"
        /\ \A i \in (Len(t) + 1)..Len(n) : i # p => n[i].type # "ERROR"

LEMMA ErrorAdded ==
  ASSUME NEW t, NEW n, Wrote(t, n, 1), OneError(t, n), Errors(t) = {}
  PROVE  \E p \in DOMAIN n : Errors(n) = {p}
<1>1. /\ Len(t) \in Nat /\ DOMAIN t = 1..Len(t) /\ Len(n) \in Nat /\ DOMAIN n = 1..Len(n)
      /\ Len(t) <= Len(n) /\ \A i \in 1..Len(t) : n[i] = t[i]
      /\ \A i \in (Len(t) + 1)..Len(n) : n[i].run = 1
  BY PrefixFacts DEF Wrote, Prefix
<1> PICK p \in (Len(t) + 1)..Len(n) :
      /\ n[p].type = "ERROR"
      /\ \A i \in (Len(t) + 1)..Len(n) : i # p => n[i].type # "ERROR"
  BY DEF OneError
<1>2. p \in DOMAIN n /\ n[p].run = 1
  BY <1>1
<1>3. \A i \in DOMAIN t : i \notin Errors(n)
  BY <1>1 DEF Errors
<1>4. \A i \in DOMAIN n : i \in DOMAIN t \/ i \in (Len(t) + 1)..Len(n)
  BY <1>1
<1>5. Errors(n) = {p}
  BY <1>2, <1>3, <1>4 DEF Errors
<1> QED
  BY <1>2, <1>5

-----------------------------------------------------------------------------
(***************************************************************************)
(* The ways a step may end, each with the whole invariant.                 *)
(***************************************************************************)
LEMMA InRun ==
  ASSUME IInv, stack # <<>>
  PROVE  /\ Kinds /\ StackInv /\ TraceInv /\ FrameInv /\ RanInv /\ ErrorInv
         /\ IsList(trace) /\ trace # <<>> /\ Errors(trace) = {} /\ result = "none"
         /\ Len(stack) \in Nat \ {0} /\ DOMAIN stack = 1..Len(stack)
         /\ Top = stack[Len(stack)] /\ Top \in Frames /\ Placed(Top) /\ FrameOK(trace, Top)
         /\ Top.run \in 1..started /\ Top.run \in Nat
         /\ "none" \notin Outcomes /\ "raised" \notin Outcomes
<1>1. Kinds /\ StackInv /\ TraceInv /\ FrameInv /\ RanInv /\ ErrorInv
  BY DEF IInv
<1>2. /\ Len(stack) \in Nat \ {0} /\ DOMAIN stack = 1..Len(stack)
      /\ Top = stack[Len(stack)] /\ Top \in Frames /\ Placed(Top) /\ Top.run \in 1..started
  BY <1>1, TopFacts
<1>3. FrameOK(trace, Top)
  BY <1>1, <1>2 DEF FrameInv
<1>4. "none" \notin Outcomes /\ "raised" \notin Outcomes
  BY TraversalAssumption
<1>5. IsList(trace) /\ trace # <<>> /\ Errors(trace) = {} /\ result = "none"
  BY <1>1 DEF TraceInv, StackInv, ErrorInv
<1>6. Top.run \in Nat
  BY <1>2 DEF Frames
<1> QED
  BY <1>1, <1>2, <1>3, <1>4, <1>5, <1>6

\* The capability calls in progress further out are not disturbed.
LEMMA OthersStay ==
  ASSUME StackInv, stack # <<>>, Len(stack') >= Len(stack) - 1, DOMAIN stack' = 1..Len(stack'),
         Len(stack') \in Nat, \A d \in 1..(Len(stack) - 1) : stack'[d] = stack[d],
         NEW d \in 1..(Len(stack) - 1)
  PROVE  Stays(stack', stack[d]) /\ stack[d].run # Top.run
<1>1. Len(stack) \in Nat \ {0} /\ stack[d].run < Top.run /\ stack[d].place = "calling" /\ stack[d] \in Frames
      /\ Top \in Frames
  BY TopFacts
<1>2. d \in DOMAIN stack' /\ stack'[d] = stack[d]
  BY <1>1
<1>3. stack[d].run # Top.run
  BY <1>1 DEF Frames
<1>4. Stays(stack', stack[d])
  BY <1>1, <1>2 DEF Stays
<1> QED
  BY <1>3, <1>4

\* The innermost traversal goes on, in the scheduler or in the dispatcher.
LEMMA OnwardKeeps ==
  ASSUME IInv, stack # <<>>, UNCHANGED <<pkg, started, ran, result>>, raised' \in {"none", "raw"},
         NEW f \in Frames, Replaced(stack, stack', f),
         f.run = Top.run, f.place = "calling" <=> raised' # "none", Placed(f),
         Wrote(trace, trace', Top.run), FrameOK(trace', f),
         Top.place \in {"inside", "calling"} =>
            \/ Replies(trace, trace', Top)
            \/ trace' = trace /\ f.node = Top.node /\ f.place \in {"inside", "calling"}
  PROVE  IInv'
<1>1. /\ Kinds /\ StackInv /\ TraceInv /\ FrameInv /\ RanInv /\ ErrorInv
      /\ IsList(trace) /\ trace # <<>> /\ Errors(trace) = {} /\ result = "none"
      /\ Len(stack) \in Nat \ {0} /\ DOMAIN stack = 1..Len(stack)
      /\ Top = stack[Len(stack)] /\ Top.run \in 1..started /\ Top.run \in Nat
      /\ "none" \notin Outcomes
  BY InRun
<1>2. Replaced(stack, stack', f)
  OBVIOUS
<1>3. trace' # <<>>
  BY <1>1, StillWritten DEF Wrote
<1>4. StackInv' /\ FrameInv'
  BY <1>1, <1>2, <1>3, TopReplaced
<1>5. TraceInv'
  BY <1>1, TraceMoves
<1>6. /\ Len(stack') = Len(stack) /\ DOMAIN stack' = 1..Len(stack)
      /\ \A d \in 1..(Len(stack) - 1) : stack'[d] = stack[d]
      /\ stack'[Len(stack)] = f
  BY <1>2 DEF Replaced
<1>7. RanInv'
  <2>1. ASSUME NEW d \in DOMAIN stack, stack[d].place \in {"inside", "calling"}
        PROVE  \/ Replies(trace, trace', stack[d])
               \/ Stays(stack', stack[d]) /\ (stack[d].run # Top.run \/ trace' = trace)
    <3>1. CASE d \in 1..(Len(stack) - 1)
      <4>1. Len(stack') >= Len(stack) - 1 /\ DOMAIN stack' = 1..Len(stack') /\ Len(stack') \in Nat
        BY <1>1, <1>6
      <4> QED
        BY <1>1, <1>6, <3>1, <4>1, OthersStay
    <3>2. CASE d = Len(stack)
      <4>1. stack[d] = Top /\ d \in DOMAIN stack' /\ stack'[d] = f
        BY <1>1, <1>6, <3>2
      <4>2. f.place \in {"inside", "calling"} /\ f.node = Top.node => Stays(stack', Top)
        BY <4>1 DEF Stays
      <4> QED
        BY <2>1, <4>1, <4>2
    <3>3. d \in 1..(Len(stack) - 1) \/ d = Len(stack)
      BY <1>1
    <3> QED
      BY <3>1, <3>2, <3>3
  <2>2. ran' = ran /\ result # "killed"
    BY <1>1
  <2> QED
    BY <1>1, <2>1, <2>2, CallsMove
<1>8. ErrorInv'
  <2>1. Errors(trace') = {}
    <3>1. Quiet(trace', Top.run)
      BY DEF FrameOK
    <3> QED
      BY <1>1, <3>1, ErrorsKept
  <2>2. stack' # <<>> /\ result' = "none"
    BY <1>1, <1>4, <1>6, EmptySeq
  <2> QED
    BY <1>1, <2>1, <2>2 DEF ErrorInv
<1>9. Kinds'
  BY <1>1, <1>3 DEF Kinds
<1> QED
  BY <1>4, <1>5, <1>7, <1>8, <1>9 DEF IInv

\* An exception leaves the innermost traversal: one that has recorded nothing,
\* and the refusal it has recorded.
LEMMA LeftKeeps ==
  ASSUME IInv, stack # <<>>, UNCHANGED <<pkg, started, ran, result>>,
         Removed(stack, stack'), Wrote(trace, trace', Top.run),
         \/ raised' = "raw" /\ Quiet(trace', Top.run)
         \/ raised' = "refusal" /\ OneError(trace, trace'),
         Top.place \in {"inside", "calling"} => Replies(trace, trace', Top)
  PROVE  IInv'
<1>1. /\ Kinds /\ StackInv /\ TraceInv /\ FrameInv /\ RanInv /\ ErrorInv
      /\ IsList(trace) /\ trace # <<>> /\ Errors(trace) = {} /\ result = "none"
      /\ Len(stack) \in Nat \ {0} /\ DOMAIN stack = 1..Len(stack)
      /\ Top = stack[Len(stack)] /\ Top.run \in 1..started /\ Top.run \in Nat
      /\ "none" \notin Outcomes
  BY InRun
<1>2. Removed(stack, stack')
  OBVIOUS
<1>3. trace' # <<>>
  BY <1>1, StillWritten DEF Wrote
<1>4. raised' # "none"
  OBVIOUS
<1>5. StackInv' /\ FrameInv'
  BY <1>1, <1>2, <1>3, <1>4, TopRemoved
<1>6. TraceInv'
  BY <1>1, TraceMoves
<1>7. /\ Len(stack') = Len(stack) - 1 /\ DOMAIN stack' = 1..(Len(stack) - 1)
      /\ \A d \in 1..(Len(stack) - 1) : stack'[d] = stack[d]
      /\ stack' \in Seq(Frames)
  BY <1>2 DEF Removed
<1>8. RanInv'
  <2>1. ASSUME NEW d \in DOMAIN stack, stack[d].place \in {"inside", "calling"}
        PROVE  \/ Replies(trace, trace', stack[d])
               \/ Stays(stack', stack[d]) /\ (stack[d].run # Top.run \/ trace' = trace)
    <3>1. CASE d \in 1..(Len(stack) - 1)
      <4>1. Len(stack') >= Len(stack) - 1 /\ DOMAIN stack' = 1..Len(stack') /\ Len(stack') \in Nat
        BY <1>1, <1>7
      <4> QED
        BY <1>1, <1>7, <3>1, <4>1, OthersStay
    <3>2. CASE d = Len(stack)
      <4>1. stack[d] = Top
        BY <1>1, <3>2
      <4> QED
        BY <2>1, <4>1
    <3>3. d \in 1..(Len(stack) - 1) \/ d = Len(stack)
      BY <1>1
    <3> QED
      BY <3>1, <3>2, <3>3
  <2>2. ran' = ran /\ result # "killed"
    BY <1>1
  <2> QED
    BY <1>1, <2>1, <2>2, CallsMove
<1>9. ErrorInv'
  <2>1. Top.run = 1 <=> Len(stack) = 1
    BY <1>1, TopFacts
  <2>2. result' = "none" /\ result' \notin Outcomes
    BY <1>1
  <2>3. CASE Quiet(trace', Top.run) /\ raised' = "raw"
    <3>1. Errors(trace') = {}
      BY <1>1, <2>3, ErrorsKept
    <3> QED
      BY <2>2, <2>3, <3>1 DEF ErrorInv
  <2>4. CASE OneError(trace, trace') /\ raised' = "refusal" /\ Len(stack) = 1
    <3>1. \E p \in DOMAIN trace' : Errors(trace') = {p}
      <4>1. Wrote(trace, trace', 1)
        BY <2>1, <2>4
      <4> QED
        BY <1>1, <2>4, <4>1, ErrorAdded
    <3>2. stack' = <<>>
      BY <1>7, <2>4, EmptySeq
    <3> QED
      BY <2>2, <2>4, <3>1, <3>2 DEF ErrorInv
  <2>5. CASE OneError(trace, trace') /\ raised' = "refusal" /\ Len(stack) # 1
    <3>1. Top.run > 1
      BY <1>1, <2>1, <2>5
    <3>2. Errors(trace') = {}
      BY <1>1, <3>1, ErrorsKept
    <3>3. stack' # <<>>
      BY <1>1, <1>7, <2>5, EmptySeq
    <3> QED
      BY <2>2, <2>5, <3>2, <3>3 DEF ErrorInv
  <2> QED
    BY <2>3, <2>4, <2>5
<1>10. Kinds'
  BY <1>1, <1>3 DEF Kinds
<1> QED
  BY <1>5, <1>6, <1>8, <1>9, <1>10 DEF IInv

\* No traversal is left.
LEMMA EmptyStack ==
  ASSUME stack' = <<>>
  PROVE  StackInv' /\ FrameInv'
<1>1. stack' \in Seq(Frames) /\ DOMAIN stack' = {} /\ Len(stack') = 0
  BY EmptySeq
<1> QED
  BY <1>1 DEF StackInv, FrameInv

\* The innermost traversal has completed: the run has, or the capability that
\* asked for it goes on.
LEMMA CompletedKeeps ==
  ASSUME IInv, stack # <<>>, raised = "none", UNCHANGED <<pkg, raised, started, ran>>,
         Wrote(trace, trace', Top.run), Quiet(trace', Top.run), Top.place = "route",
         trace'[Len(trace')].type = "WF_COMPLETE", trace'[Len(trace')].run = Top.run,
         trace'[Len(trace')].what = Top.outcome,
         \/ Len(stack) = 1 /\ stack' = <<>> /\ result' = Top.outcome
         \/ /\ Len(stack) > 1 /\ result' = result
            /\ \E f \in Frames : /\ Resumed(stack, stack', f) /\ f.place = "inside"
                                 /\ Alike(f, stack[Len(stack) - 1])
  PROVE  IInv'
<1>1. /\ Kinds /\ StackInv /\ TraceInv /\ FrameInv /\ RanInv /\ ErrorInv
      /\ IsList(trace) /\ trace # <<>> /\ Errors(trace) = {} /\ result = "none"
      /\ Len(stack) \in Nat \ {0} /\ DOMAIN stack = 1..Len(stack)
      /\ Top = stack[Len(stack)] /\ Top \in Frames /\ Top.run \in 1..started /\ Top.run \in Nat
      /\ "none" \notin Outcomes /\ "raised" \notin Outcomes
  BY InRun
<1>2. trace' # <<>>
  BY <1>1, StillWritten DEF Wrote
<1>3. TraceInv'
  BY <1>1, TraceMoves
<1>4. Errors(trace') = {}
  BY <1>1, ErrorsKept
<1>5. ran' = ran /\ result # "killed"
  BY <1>1
<1>6. CASE Len(stack) = 1 /\ stack' = <<>> /\ result' = Top.outcome
  <2>1. StackInv' /\ FrameInv'
    BY <1>6, EmptyStack
  <2>2. RanInv'
    <3>1. \A d \in DOMAIN stack : stack[d].place \notin {"inside", "calling"}
      BY <1>1, <1>6
    <3> QED
      BY <1>1, <1>5, <3>1, CallsMove
  <2>3. result' \in Outcomes /\ Top.run = 1
    BY <1>1, <1>6, TopFacts DEF Frames
  <2>4. ErrorInv'
    BY <1>1, <1>2, <1>4, <1>6, <2>3 DEF ErrorInv
  <2>5. Kinds'
    BY <1>1, <1>2, <2>3 DEF Kinds
  <2> QED
    BY <1>3, <2>1, <2>2, <2>4, <2>5 DEF IInv
<1>7. ASSUME Len(stack) > 1, result' = result, NEW f \in Frames,
             Resumed(stack, stack', f), f.place = "inside", Alike(f, stack[Len(stack) - 1])
      PROVE  IInv'
  <2>1. StackInv' /\ FrameInv'
    BY <1>1, <1>2, <1>7, TopReturned
  <2> DEFINE l == Len(stack) - 1
  <2>2. /\ l \in Nat \ {0} /\ Len(stack) = l + 1
        /\ \A d \in 1..(l - 1) : stack'[d] = stack[d]
        /\ Len(stack') = l /\ DOMAIN stack' = 1..l
        /\ stack'[l] = f /\ Alike(f, stack[l])
    <3>1. l \in Nat \ {0} /\ Len(stack) = l + 1 /\ Len(stack) - 2 = l - 1
      BY <1>1, <1>7
    <3> QED
      BY <1>7, <3>1 DEF Resumed
  <2> HIDE DEF l
  <2>3. ASSUME NEW d \in DOMAIN stack, stack[d].place \in {"inside", "calling"}
        PROVE  Stays(stack', stack[d]) /\ stack[d].run # Top.run
    <3>1. d # Len(stack)
      BY <1>1, <2>3
    <3>2. d \in 1..(l - 1) \/ d = l
      BY <1>1, <2>2, <3>1
    <3>3. stack[d].run # Top.run
      <4>1. d \in 1..(Len(stack) - 1)
        BY <1>1, <2>2, <3>2
      <4>2. stack[d].run < Top.run /\ stack[d].run \in Nat
        BY <1>1, <4>1, TopFacts DEF Frames
      <4> QED
        BY <1>1, <4>2
    <3>4. CASE d = l
      <4>1. d \in DOMAIN stack' /\ stack'[d] = f
        BY <2>2, <3>4
      <4>2. f.run = stack[d].run /\ f.node = stack[d].node
        BY <2>2, <3>4 DEF Alike
      <4> QED
        BY <1>7, <3>3, <4>1, <4>2 DEF Stays
    <3>5. CASE d \in 1..(l - 1)
      <4>1. d \in DOMAIN stack' /\ stack'[d] = stack[d]
        BY <2>2, <3>5
      <4> QED
        BY <2>3, <3>3, <4>1 DEF Stays
    <3> QED
      BY <3>2, <3>4, <3>5
  <2>4. RanInv'
    BY <1>1, <1>5, <2>3, CallsMove
  <2>5. ErrorInv'
    <3>1. stack' # <<>> /\ result' = "none"
      BY <1>1, <1>7, <2>2, EmptySeq
    <3> QED
      BY <1>1, <1>4, <3>1 DEF ErrorInv
  <2>6. Kinds'
    BY <1>1, <1>2, <1>7 DEF Kinds
  <2> QED
    BY <1>3, <2>1, <2>4, <2>5, <2>6 DEF IInv
<1> QED
  BY <1>6, <1>7

\* A traversal starts: its first event, and its frame.
Opening(wf, writer) ==
    [type |-> "WF_START", run |-> started + 1, node |-> None, step |-> 0, what |-> writer,
     then |-> None, wf |-> wf]
Opened(wf) ==
    [run |-> started + 1, wf |-> wf, node |-> pkg.entry[wf], hops |-> 0,
     place |-> "node", step |-> 0, outcome |-> "SUCCESS", calls |-> 0]

Fresh(t, r) == Owned(t, r) = {}
AtEntry(f, e) == f.node = pkg.entry[e.wf]

LEMMA FirstEvent ==
  ASSUME TraceInv, NEW e, NEW f, e.type = "WF_START", Fresh(trace, e.run),
         f.run = e.run, f.place = "node", AtEntry(f, e)
  PROVE  LET t == Append(trace, e)
         IN  Wrote(trace, t, e.run) /\ FrameOK(t, f) /\ t # <<>> /\ Quiet(t, e.run)
<1> DEFINE t == Append(trace, e)
<1>1. IsList(trace)
  BY DEF TraceInv
<1>2. ~InContract(e) /\ ~InPipeline(e) /\ ~IsTurn(e)
  BY DEF InContract, InPipeline, Admission, IsTurn, Determines
<1>3. EventNext(trace, e)
  <2>1. PathNext(trace, e)
    BY DEF PathNext
  <2>2. StepsNext(trace, e)
    BY <1>2 DEF StepsNext, Fresh
  <2>3. Settled(trace, e.run) /\ RefusalNext(trace, e)
    BY DEF Settled, RefusalNext, Quiet, Fresh
  <2> QED
    BY <2>1, <2>2, <2>3 DEF EventNext, EventTypes
<1>4. Wrote(trace, t, e.run)
  <2>1. Wrote(trace, trace, e.run)
    BY WroteNothing DEF TraceInv
  <2> QED
    BY <1>3, <2>1, WroteOne
<1>5. Quiet(t, e.run) /\ Outside(t, e.run) /\ Settled(t, e.run)
  <2>1. Quiet(t, e.run)
    <3>1. Quiet(trace, e.run)
      BY DEF Quiet, Fresh
    <3> QED
      BY <1>1, <3>1, StandsAfter
  <2>2. Outside(t, e.run)
    BY <1>1, <1>2, StandsAfter
  <2>3. Settled(t, e.run)
    BY <1>1, SettledAfter
  <2> QED
    BY <2>1, <2>2, <2>3
<1>6. AtNode(t, e.run, f.node)
  <2>1. Len(t) \in Owned(t, e.run) /\ t[Len(t)] = e /\ Turns(t, e.run) = Turns(trace, e.run)
    BY <1>1, <1>2, AddedAfter
  <2>2. Turns(trace, e.run) = {}
    BY DEF Turns, Fresh
  <2> HIDE DEF t
  <2> QED
    BY <2>1, <2>2 DEF AtNode, AtEntry
<1>7. FrameOK(t, f)
  BY <1>5, <1>6 DEF FrameOK
<1>8. t # <<>>
  BY <1>1, ListFacts, ListAppend, EmptySeq
<1> QED
  BY <1>4, <1>5, <1>7, <1>8

LEMMA OpensWell ==
  ASSUME Kinds, TraceInv, NEW wf \in Workflows, NEW writer, pkg.entry[wf] # None
  PROVE  LET t == Append(trace, Opening(wf, writer))
         IN  /\ Wrote(trace, t, started + 1)
             /\ Opened(wf) \in Frames /\ FrameOK(t, Opened(wf))
             /\ t # <<>> /\ Quiet(t, started + 1)
<1> DEFINE e == Opening(wf, writer)
           f == Opened(wf)
           r == started + 1
<1>1. /\ e.type = "WF_START" /\ e.run = r
      /\ f.run = r /\ f.place = "node" /\ AtEntry(f, e)
  BY DEF Opening, Opened, AtEntry
<1>2. f \in Frames
  <2>1. pkg.entry[wf] \in Nodes /\ "SUCCESS" \in Outcomes /\ started + 1 \in Nat
    BY TraversalAssumption DEF Kinds, WellTyped
  <2> QED
    BY <2>1 DEF Opened, Frames
<1>3. Fresh(trace, r)
  <2>1. IsList(trace) /\ \A i \in DOMAIN trace : trace[i].run \in 0..started
    BY DEF TraceInv
  <2>2. started \in Nat
    BY DEF Kinds
  <2> QED
    BY <2>1, <2>2, ListFacts DEF Owned, Fresh
<1> HIDE DEF e, f, r
<1> DEFINE t == Append(trace, e)
<1>4. Wrote(trace, t, e.run) /\ FrameOK(t, f) /\ t # <<>> /\ Quiet(t, e.run)
  <2>1. Fresh(trace, e.run) /\ f.run = e.run
    BY <1>1, <1>3
  <2> QED
    BY <1>1, <2>1, FirstEvent
<1>5. Wrote(trace, t, r) /\ FrameOK(t, f) /\ t # <<>> /\ Quiet(t, r)
  BY <1>1, <1>4
<1> QED
  BY <1>2, <1>5 DEF e, f, r

-----------------------------------------------------------------------------
(***************************************************************************)
(* The innermost traversal writes one event and goes on.                   *)
(***************************************************************************)
LEMMA EventFacts ==
  ASSUME NEW type, NEW what, NEW then
  PROVE  /\ Event(type, what, then).type = type /\ Event(type, what, then).run = Top.run
         /\ Event(type, what, then).node = Top.node /\ Event(type, what, then).step = 0
         /\ Event(type, what, then).what = what /\ Event(type, what, then).then = then
BY DEF Event

LEMMA StepFacts ==
  ASSUME NEW what, NEW then
  PROVE  /\ StepEvent(what, then).type = "CC_STEP" /\ StepEvent(what, then).run = Top.run
         /\ StepEvent(what, then).node = Top.node /\ StepEvent(what, then).step = Top.step
         /\ StepEvent(what, then).what = what /\ StepEvent(what, then).then = then
BY DEF Event, StepEvent

\* What such an event says of the traversal, one by one.
LEMMA QuietAfter ==
  ASSUME NEW t, IsList(t), NEW e, Quiet(t, e.run), e.type # "ERROR"
  PROVE  Quiet(Append(t, e), e.run)
BY StandsAfter

LEMMA OutsideAfter ==
  ASSUME NEW t, IsList(t), NEW e, ~InContract(e)
  PROVE  Outside(Append(t, e), e.run)
BY StandsAfter

LEMMA DecidedAfter ==
  ASSUME NEW t, IsList(t), NEW e, Determines(e)
  PROVE  Decided(Append(t, e), e.run, e.node, e.what)
BY StandsAfter

LEMMA RoutedAfter ==
  ASSUME NEW t, IsList(t), NEW e, e.type = "WF_ROUTE"
  PROVE  AtNode(Append(t, e), e.run, e.then)
BY StandsAfter

LEMMA AtNodeAfter ==
  ASSUME NEW t, IsList(t), NEW e, ~IsTurn(e), AtNode(t, e.run, e.node)
  PROVE  AtNode(Append(t, e), e.run, e.node)
BY StandsAfter

LEMMA LastAfter ==
  ASSUME NEW t, IsList(t), NEW e
  PROVE  Latest(Len(Append(t, e)), Owned(Append(t, e), e.run))
<1>1. Len(Append(t, e)) \in Owned(Append(t, e), e.run)
  BY AddedAfter
<1>2. \A j \in Owned(Append(t, e), e.run) :
         Latest(j, Owned(Append(t, e), e.run)) <=> j = Len(Append(t, e))
  BY OwnedAfter
<1> QED
  BY <1>1, <1>2

LEMMA WithinAfter ==
  ASSUME NEW t, IsList(t), NEW e, NEW f, f.run = e.run, f.node = e.node,
         InContract(e), GoesOn(e), e.then # "exit", NextStep(e) = f.step, OutcomeOf(e) = f.outcome
  PROVE  Within(Append(t, e), f)
<1> DEFINE n == Append(t, e)
<1>1. Len(n) \in Owned(n, e.run) /\ n[Len(n)] = e
  BY AddedAfter
<1>2. Latest(Len(n), Owned(n, e.run))
  BY LastAfter
<1> HIDE DEF n
<1> QED
  BY <1>1, <1>2 DEF Within, n

LEMMA LeavingAfter ==
  ASSUME NEW t, IsList(t), NEW e, NEW f, f.run = e.run, f.node = e.node,
         InPipeline(e), e.then = "exit", e.what = f.outcome
  PROVE  Leaving(Append(t, e), f)
<1> DEFINE n == Append(t, e)
<1>1. Len(n) \in Owned(n, e.run) /\ n[Len(n)] = e
  BY AddedAfter
<1>2. Latest(Len(n), Owned(n, e.run))
  BY LastAfter
<1> HIDE DEF n
<1> QED
  BY <1>1, <1>2 DEF Leaving, n

LEMMA OneEvent ==
  ASSUME IInv, stack # <<>>, raised = "none", NEW e, e.run = Top.run, EventNext(trace, e),
         NEW f \in Frames, GoOn(<<e>>, f), f.run = Top.run, f.place # "calling", Placed(f),
         Top.place \in {"inside", "calling"} => e.type = "CC_STEP" /\ e.node = Top.node,
         FrameOK(Append(trace, e), f)
  PROVE  IInv'
<1> DEFINE n == Append(trace, e)
<1>1. IsList(trace) /\ StackInv /\ TraceInv
  BY InRun
<1>2. trace' = n /\ stack' = Front(stack) \o <<f>> /\ UNCHANGED <<pkg, raised, started, ran, result>>
  BY <1>1, OneMore DEF GoOn, Write, SetTop
<1>3. Replaced(stack, stack', f)
  BY <1>1, <1>2, StackMoves
<1>4. Wrote(trace, n, Top.run)
  BY <1>1, TraceStays, WroteOne
<1>5. Top.place \in {"inside", "calling"} => Replies(trace, n, Top)
  <2>1. Len(n) = Len(trace) + 1 /\ n[Len(trace) + 1] = e /\ Len(trace) \in Nat
    BY <1>1, AppendGoesOn, ListFacts
  <2> HIDE DEF n
  <2> QED
    BY <2>1 DEF Replies
<1> HIDE DEF n
<1>6. UNCHANGED <<pkg, started, ran, result>> /\ raised' \in {"none", "raw"} /\ (f.place = "calling" <=> raised' # "none")
  BY <1>2
<1>7. Wrote(trace, trace', Top.run) /\ FrameOK(trace', f)
  BY <1>2, <1>4 DEF n
<1>8. Top.place \in {"inside", "calling"} => Replies(trace, trace', Top)
  BY <1>2, <1>5
<1> QED
  BY <1>3, <1>6, <1>7, <1>8, OnwardKeeps

\* Outside a contract, a traversal that has not refused may write what its path
\* asks for.
LEMMA OutsideNext ==
  ASSUME NEW t, NEW e, e.type \in EventTypes \ {"EVENT", "CC_COMPLETE"}, ~InPipeline(e),
         e.type = "CC_START" => e.what = pkg.contract[e.node],
         PathNext(t, e), Outside(t, e.run), Settled(t, e.run), Quiet(t, e.run)
  PROVE  EventNext(t, e)
<1>1. StepsNext(t, e)
  BY DEF StepsNext, Outside
<1>2. RefusalNext(t, e)
  BY DEF RefusalNext
<1> QED
  BY <1>1, <1>2 DEF EventNext

LEMMA AtFacts ==
  ASSUME NEW place, At(place)
  PROVE  stack # <<>> /\ raised = "none" /\ Top.place = place
BY DEF At

LEMMA KnownOutcomes == {"SUCCESS", "VIOLATION", "ACK", "NACK"} \subseteq Outcomes
BY TraversalAssumption

LEMMA StartContractKeeps ==
  ASSUME IInv, StartContract
  PROVE  IInv'
<1> DEFINE e == Event("CC_START", pkg.contract[Top.node], None)
           f == [Top EXCEPT !.hops = @ + 1, !.place = "steps", !.step = 1,
                            !.outcome = "SUCCESS", !.calls = 0]
<1>1. stack # <<>> /\ raised = "none" /\ Top.place = "node" /\ GoOn(<<e>>, f)
  BY AtFacts DEF StartContract, AtContract
<1>2. pkg.contract[Top.node] \in DOMAIN pkg.pipeline
  BY DEF StartContract, AtContract
<1>3. IsList(trace) /\ Top \in Frames /\ FrameOK(trace, Top)
  BY <1>1, InRun
<1>4. /\ f \in Frames /\ f.run = Top.run /\ f.node = Top.node /\ f.place = "steps"
      /\ f.step = 1 /\ f.outcome = "SUCCESS"
  <2> DEFINE hops == Top.hops + 1
  <2>1. hops \in Nat /\ {"SUCCESS", "ACK", "NACK"} \subseteq Outcomes
    BY <1>3, KnownOutcomes DEF Frames
  <2>2. f = [Top EXCEPT !.hops = hops, !.place = "steps", !.step = 1,
                       !.outcome = "SUCCESS", !.calls = 0]
    OBVIOUS
  <2> HIDE DEF hops, f
  <2> QED
    BY <1>3, <2>1, <2>2 DEF Frames
<1>5. /\ e.type = "CC_START" /\ e.run = Top.run /\ e.node = Top.node /\ e.what = pkg.contract[Top.node]
      /\ e.then = None
  BY EventFacts
<1> HIDE DEF e, f
<1>6. AtNode(trace, e.run, e.node) /\ Outside(trace, e.run) /\ Settled(trace, e.run) /\ Quiet(trace, e.run)
  BY <1>1, <1>3, <1>5 DEF FrameOK
<1>7. InContract(e) /\ GoesOn(e) /\ ~InPipeline(e) /\ NextStep(e) = 1 /\ OutcomeOf(e) = "SUCCESS" /\ ~IsTurn(e)
  BY <1>5 DEF InContract, GoesOn, InPipeline, NextStep, OutcomeOf, IsTurn, Determines, Admission
<1>8. EventNext(trace, e)
  <2>1. PathNext(trace, e)
    BY <1>5, <1>6 DEF PathNext
  <2>2. e.type \in EventTypes \ {"EVENT", "CC_COMPLETE"}
    BY <1>5 DEF EventTypes
  <2> QED
    BY <1>5, <1>6, <1>7, <2>1, <2>2, OutsideNext
<1> DEFINE n == Append(trace, e)
<1>9. FrameOK(n, f)
  <2>1. Quiet(n, e.run)
    BY <1>3, <1>5, <1>6, QuietAfter
  <2>2. AtNode(n, e.run, e.node)
    BY <1>3, <1>6, <1>7, AtNodeAfter
  <2>3. Within(n, f)
    <3>1. e.then # "exit"
      BY <1>5, TraversalAssumption
    <3>2. f.run = e.run /\ f.node = e.node /\ NextStep(e) = f.step /\ OutcomeOf(e) = f.outcome
      BY <1>4, <1>5, <1>7
    <3> QED
      BY <1>3, <1>7, <3>1, <3>2, WithinAfter
  <2>4. Settled(n, e.run)
    BY <1>3, <1>5, SettledAfter
  <2> HIDE DEF n
  <2> QED
    BY <1>4, <1>5, <2>1, <2>2, <2>3, <2>4 DEF FrameOK
<1>10. Placed(f)
  BY <1>2, <1>4 DEF Placed
<1> QED
  BY <1>1, <1>4, <1>5, <1>8, <1>9, <1>10, OneEvent

LEMMA AdmitKeeps ==
  ASSUME IInv, Admit
  PROVE  IInv'
<1> PICK outcome \in {"ACK", "NACK"} :
      GoOn(<<Event("CC_STEP", outcome, "route")>>,
           [Top EXCEPT !.hops = @ + 1, !.place = "route", !.outcome = outcome])
  BY DEF Admit
<1> DEFINE e == Event("CC_STEP", outcome, "route")
           f == [Top EXCEPT !.hops = @ + 1, !.place = "route", !.outcome = outcome]
<1>1. stack # <<>> /\ raised = "none" /\ Top.place = "node" /\ GoOn(<<e>>, f)
  BY AtFacts DEF Admit, AtGate
<1>3. IsList(trace) /\ Top \in Frames /\ FrameOK(trace, Top)
  BY <1>1, InRun
<1>4. f \in Frames /\ f.run = Top.run /\ f.node = Top.node /\ f.place = "route" /\ f.outcome = outcome
  <2> DEFINE hops == Top.hops + 1
  <2>1. hops \in Nat /\ {"SUCCESS", "ACK", "NACK"} \subseteq Outcomes
    BY <1>3, KnownOutcomes DEF Frames
  <2>2. f = [Top EXCEPT !.hops = hops, !.place = "route", !.outcome = outcome]
    OBVIOUS
  <2> HIDE DEF hops, f
  <2> QED
    BY <1>3, <2>1, <2>2 DEF Frames
<1>5. e.type = "CC_STEP" /\ e.run = Top.run /\ e.node = Top.node /\ e.what = outcome /\ e.then = "route"
  BY EventFacts
<1> HIDE DEF e, f
<1>6. AtNode(trace, e.run, e.node) /\ Outside(trace, e.run) /\ Settled(trace, e.run) /\ Quiet(trace, e.run)
  BY <1>1, <1>3, <1>5 DEF FrameOK
<1>7. ~InContract(e) /\ ~InPipeline(e) /\ Determines(e)
  BY <1>5 DEF InContract, InPipeline, Determines, Admission
<1>8. EventNext(trace, e)
  <2>1. PathNext(trace, e)
    BY <1>5, <1>6 DEF PathNext
  <2>2. e.type \in EventTypes \ {"EVENT", "CC_COMPLETE"} /\ e.type # "CC_START"
    BY <1>5 DEF EventTypes
  <2> QED
    BY <1>6, <1>7, <2>1, <2>2, OutsideNext
<1> DEFINE n == Append(trace, e)
<1>9. FrameOK(n, f)
  <2>1. Quiet(n, e.run)
    BY <1>3, <1>5, <1>6, QuietAfter
  <2>2. Decided(n, e.run, e.node, e.what)
    BY <1>3, <1>7, DecidedAfter
  <2>3. Outside(n, e.run)
    BY <1>3, <1>7, OutsideAfter
  <2>4. Settled(n, e.run)
    BY <1>3, <1>5, SettledAfter
  <2> HIDE DEF n
  <2> QED
    BY <1>4, <1>5, <2>1, <2>2, <2>3, <2>4 DEF FrameOK
<1>10. Placed(f)
  BY <1>4 DEF Placed
<1> QED
  BY <1>1, <1>4, <1>5, <1>8, <1>9, <1>10, OneEvent

LEMMA RouteOnKeeps ==
  ASSUME IInv, RouteOn
  PROVE  IInv'
<1> DEFINE next == pkg.routing[Top.node][Condition(Top.outcome)]
           e == Event("WF_ROUTE", Top.outcome, next)
           f == [Top EXCEPT !.place = "node", !.node = next]
<1>1. stack # <<>> /\ raised = "none" /\ Top.place = "route" /\ GoOn(<<e>>, f)
  BY AtFacts DEF RouteOn
<1>2. Routed(Top.node, Top.outcome)
  BY DEF RouteOn
<1>3. IsList(trace) /\ Top \in Frames /\ FrameOK(trace, Top) /\ Kinds
  BY <1>1, InRun
<1>4. next \in Nodes
  <2>1. WellTyped(pkg) /\ Top.node \in Nodes
    BY <1>3, TraversalAssumption DEF Kinds, Frames
  <2> QED
    BY <1>2, <2>1 DEF WellTyped, Table, Routed
<1>5. next = SealedNext(Top.node, Top.outcome)
  BY <1>2 DEF SealedNext
<1> HIDE DEF next
<1>6. f \in Frames /\ f.run = Top.run /\ f.node = next /\ f.place = "node"
  BY <1>3, <1>4 DEF Frames
<1>7. e.type = "WF_ROUTE" /\ e.run = Top.run /\ e.node = Top.node /\ e.what = Top.outcome /\ e.then = next
  BY EventFacts
<1> HIDE DEF e, f
<1>8. /\ Decided(trace, e.run, e.node, e.what) /\ Outside(trace, e.run)
      /\ Settled(trace, e.run) /\ Quiet(trace, e.run)
  BY <1>1, <1>3, <1>7 DEF FrameOK
<1>9. ~InContract(e) /\ ~InPipeline(e)
  BY <1>7 DEF InContract, InPipeline
<1>10. EventNext(trace, e)
  <2>1. PathNext(trace, e)
    BY <1>5, <1>7, <1>8 DEF PathNext
  <2>2. e.type \in EventTypes \ {"EVENT", "CC_COMPLETE"} /\ e.type # "CC_START"
    BY <1>7 DEF EventTypes
  <2> QED
    BY <1>8, <1>9, <2>1, <2>2, OutsideNext
<1> DEFINE n == Append(trace, e)
<1>11. FrameOK(n, f)
  <2>1. Quiet(n, e.run)
    BY <1>3, <1>7, <1>8, QuietAfter
  <2>2. AtNode(n, e.run, e.then)
    BY <1>3, <1>7, RoutedAfter
  <2>3. Outside(n, e.run)
    BY <1>3, <1>9, OutsideAfter
  <2>4. Settled(n, e.run)
    BY <1>3, <1>7, SettledAfter
  <2> HIDE DEF n
  <2> QED
    BY <1>6, <1>7, <2>1, <2>2, <2>3, <2>4 DEF FrameOK
<1>12. Placed(f)
  BY <1>6 DEF Placed
<1> QED
  BY <1>1, <1>6, <1>7, <1>10, <1>11, <1>12, OneEvent

\* The last event of a traversal inside a contract, when the contract is at its
\* end and when a step of it is due.
EndReached(t, f) ==
    \E j \in Owned(t, f.run) :
        /\ Latest(j, Owned(t, f.run)) /\ InContract(t[j]) /\ t[j].node = f.node
        /\ Finished(t[j]) /\ OutcomeOf(t[j]) = f.outcome

StepDue(t, f) ==
    \E j \in Owned(t, f.run) :
        /\ Latest(j, Owned(t, f.run)) /\ InContract(t[j]) /\ t[j].node = f.node
        /\ ~Finished(t[j]) /\ GoesOn(t[j]) /\ NextStep(t[j]) = f.step

LEMMA OneLatest ==
  ASSUME NEW t, IsList(t), NEW r, NEW j \in Owned(t, r), NEW k \in Owned(t, r),
         Latest(j, Owned(t, r)), Latest(k, Owned(t, r))
  PROVE  j = k
<1>1. j \in Nat /\ k \in Nat
  BY ListFacts DEF Owned
<1>2. j <= k /\ k <= j
  BY DEF Latest
<1> QED
  BY <1>1, <1>2

LEMMA WhereAContractIs ==
  ASSUME NEW t, NEW f, f.step \in Nat, Len(pkg.pipeline[pkg.contract[f.node]]) \in Nat
  PROVE  /\ Leaving(t, f) => EndReached(t, f)
         /\ Within(t, f) /\ f.step > Len(pkg.pipeline[pkg.contract[f.node]]) => EndReached(t, f)
         /\ Within(t, f) /\ f.step <= Len(pkg.pipeline[pkg.contract[f.node]]) => StepDue(t, f)
<1>1. ASSUME Leaving(t, f) PROVE EndReached(t, f)
  BY <1>1 DEF Leaving, EndReached, Finished, OutcomeOf, InContract, InPipeline
<1>2. ASSUME Within(t, f) PROVE f.step > Len(pkg.pipeline[pkg.contract[f.node]]) => EndReached(t, f)
  BY <1>2 DEF Within, EndReached, Finished, PipelineOf
<1>3. ASSUME Within(t, f) PROVE f.step <= Len(pkg.pipeline[pkg.contract[f.node]]) => StepDue(t, f)
  BY <1>3 DEF Within, StepDue, Finished, PipelineOf
<1> QED
  BY <1>1, <1>2, <1>3

LEMMA PipelineFacts ==
  ASSUME Kinds, Top \in Frames, Placed(Top),
         Top.place \in {"steps", "inside", "calling", "complete"}
  PROVE  /\ pkg.contract[Top.node] \in DOMAIN pkg.pipeline
         /\ Len(Pipeline) \in Nat /\ DOMAIN Pipeline = 1..Len(Pipeline)
         /\ \A i \in DOMAIN Pipeline : IsStep(Pipeline[i])
         /\ Top.step \in Nat /\ Top.step > 0
<1>1. WellTyped(pkg)
  BY TraversalAssumption DEF Kinds
<1>2. pkg.contract[Top.node] \in DOMAIN pkg.pipeline /\ Top.step > 0 /\ Top.step \in Nat
  BY DEF Placed, Frames
<1>3. IsSequence(Pipeline) /\ \A i \in DOMAIN Pipeline : IsStep(Pipeline[i])
  BY <1>1, <1>2 DEF WellTyped, Pipeline
<1> QED
  BY <1>2, <1>3 DEF IsSequence

LEMMA CompleteContractKeeps ==
  ASSUME IInv, CompleteContract
  PROVE  IInv'
<1> DEFINE e == Event("CC_COMPLETE", Top.outcome, None)
           f == [Top EXCEPT !.place = "announce"]
<1>1. /\ stack # <<>> /\ raised = "none" /\ GoOn(<<e>>, f)
      /\ Top.place = "complete" \/ (Top.place = "steps" /\ Top.step > Len(Pipeline))
  BY AtFacts DEF CompleteContract
<1>2. IsList(trace) /\ Top \in Frames /\ FrameOK(trace, Top) /\ Kinds /\ Placed(Top)
  BY <1>1, InRun
<1>3. f \in Frames /\ f.run = Top.run /\ f.node = Top.node /\ f.place = "announce" /\ f.outcome = Top.outcome
  BY <1>2 DEF Frames
<1>4. /\ e.type = "CC_COMPLETE" /\ e.run = Top.run /\ e.node = Top.node /\ e.what = Top.outcome
  BY EventFacts
<1> HIDE DEF e, f
<1>5. AtNode(trace, e.run, e.node) /\ Settled(trace, e.run) /\ Quiet(trace, e.run)
  BY <1>1, <1>2, <1>4 DEF FrameOK
<1>6. EndReached(trace, Top)
  <2>1. Top.step \in Nat /\ Len(pkg.pipeline[pkg.contract[Top.node]]) \in Nat
    BY <1>1, <1>2, PipelineFacts DEF Pipeline
  <2>2. Leaving(trace, Top) \/ (Within(trace, Top) /\ Top.step > Len(pkg.pipeline[pkg.contract[Top.node]]))
    BY <1>1, <1>2 DEF FrameOK, Pipeline
  <2> QED
    BY <2>1, <2>2, WhereAContractIs
<1>7. Determines(e) /\ ~InPipeline(e) /\ ~InContract(e)
  BY <1>4 DEF Determines, InPipeline, InContract
<1>8. StepsNext(trace, e)
  <2> PICK j \in Owned(trace, e.run) :
        /\ Latest(j, Owned(trace, e.run)) /\ InContract(trace[j]) /\ trace[j].node = e.node
        /\ Finished(trace[j]) /\ OutcomeOf(trace[j]) = e.what
    BY <1>4, <1>6 DEF EndReached
  <2>1. \A k \in Owned(trace, e.run) : Latest(k, Owned(trace, e.run)) => k = j
    BY <1>2, OneLatest
  <2> QED
    BY <1>4, <1>7, <2>1 DEF StepsNext
<1>9. EventNext(trace, e)
  <2>1. PathNext(trace, e)
    BY <1>4, <1>5 DEF PathNext
  <2> QED
    BY <1>4, <1>5, <1>8, <2>1 DEF EventNext, EventTypes, RefusalNext
<1> DEFINE n == Append(trace, e)
<1>10. FrameOK(n, f)
  <2>1. Quiet(n, e.run)
    BY <1>2, <1>4, <1>5, QuietAfter
  <2>2. Decided(n, e.run, e.node, e.what)
    BY <1>2, <1>7, DecidedAfter
  <2>3. Outside(n, e.run)
    BY <1>2, <1>7, OutsideAfter
  <2>4. Len(n) \in Owned(n, e.run) /\ n[Len(n)] = e
    BY <1>2, AddedAfter
  <2> HIDE DEF n
  <2>5. JustCompleted(n, f)
    BY <1>3, <1>4, <2>4 DEF JustCompleted
  <2> QED
    BY <1>3, <1>4, <2>1, <2>2, <2>3, <2>5 DEF FrameOK
<1>11. Placed(f)
  BY <1>3 DEF Placed
<1>12. Top.place \notin {"inside", "calling"}
  BY <1>1
<1> QED
  BY <1>1, <1>3, <1>4, <1>9, <1>10, <1>11, <1>12, OneEvent

\* What a step that has answered writes.
LEMMA StepNext ==
  ASSUME IInv, NEW outcome \in Answered
  PROVE  /\ stack # <<>> /\ raised = "none" /\ Top.place \in {"steps", "inside"}
         /\ outcome \in Outcomes
         /\ Continuation(outcome) \in {"continue", "exit", "evaluate", None}
         /\ InPipeline(StepEvent(outcome, Continuation(outcome)))
         /\ EventNext(trace, StepEvent(outcome, Continuation(outcome)))
<1> DEFINE then == Continuation(outcome)
           e == StepEvent(outcome, then)
<1>1. At("inside") \/ AtStep
  BY DEF Answered
<1>2. /\ stack # <<>> /\ raised = "none"
      /\ Top.place = "inside" \/ (Top.place = "steps" /\ Top.step <= Len(Pipeline))
  BY <1>1, AtFacts DEF AtStep
<1>3. IsList(trace) /\ Top \in Frames /\ FrameOK(trace, Top) /\ Kinds /\ Placed(Top)
  BY <1>2, InRun
<1>4. /\ pkg.contract[Top.node] \in DOMAIN pkg.pipeline
      /\ Len(Pipeline) \in Nat /\ DOMAIN Pipeline = 1..Len(Pipeline)
      /\ \A i \in DOMAIN Pipeline : IsStep(Pipeline[i])
      /\ Top.step \in Nat /\ Top.step > 0
  BY <1>2, <1>3, PipelineFacts
<1>5. Top.step <= Len(Pipeline) /\ Top.step \in DOMAIN Pipeline
  <2>1. Top.step <= Len(Pipeline)
    BY <1>2, <1>3 DEF Placed, Pipeline
  <2> QED
    BY <1>4, <2>1
<1>6. outcome \in Outcomes
  <2>1. {"SUCCESS", "VIOLATION"} \subseteq Outcomes
    BY KnownOutcomes
  <2> QED
    BY <2>1 DEF Answered
<1>7. then = (IF outcome \in DOMAIN Step.on THEN Step.on[outcome] ELSE None) /\ then \in {"continue", "exit", "evaluate", None}
  <2>1. IsStep(Step)
    BY <1>4, <1>5 DEF Step
  <2>2. \A key \in DOMAIN Step.on : Step.on[key] \in {"continue", "exit", "evaluate"}
    BY <2>1 DEF IsStep, Table
  <2> QED
    BY <2>2 DEF Continuation
<1> HIDE DEF then
<1>8. /\ e.type = "CC_STEP" /\ e.run = Top.run /\ e.node = Top.node /\ e.step = Top.step
      /\ e.what = outcome /\ e.then = then
  BY StepFacts
<1> HIDE DEF e
<1>9. InPipeline(e) /\ ~IsTurn(e)
  <2>1. then # "route"
    BY <1>7, TraversalAssumption
  <2> QED
    BY <1>8, <2>1 DEF InPipeline, Admission, IsTurn, Determines
<1>10. PipelineOf(e) = Pipeline
  BY <1>8 DEF PipelineOf, Pipeline
<1>11. AtNode(trace, e.run, e.node) /\ Settled(trace, e.run) /\ Quiet(trace, e.run) /\ Within(trace, Top)
  BY <1>2, <1>3, <1>8 DEF FrameOK
<1>12. StepsNext(trace, e)
  <2>1. StepDue(trace, Top)
    BY <1>4, <1>5, <1>11, WhereAContractIs DEF Pipeline
  <2> PICK j \in Owned(trace, e.run) :
        /\ Latest(j, Owned(trace, e.run)) /\ InContract(trace[j]) /\ trace[j].node = e.node
        /\ ~Finished(trace[j]) /\ GoesOn(trace[j]) /\ NextStep(trace[j]) = e.step
    BY <1>8, <2>1 DEF StepDue
  <2>2. \A k \in Owned(trace, e.run) : Latest(k, Owned(trace, e.run)) => k = j
    BY <1>3, OneLatest
  <2>3. e.step \in DOMAIN PipelineOf(e) /\ PipelineOf(e)[e.step] = Step
    BY <1>5, <1>8, <1>10 DEF Step
  <2>4. e.then = IF e.what \in DOMAIN Step.on THEN Step.on[e.what] ELSE None
    BY <1>7, <1>8
  <2> QED
    BY <1>8, <1>9, <2>2, <2>3, <2>4 DEF StepsNext
<1>13. EventNext(trace, e)
  <2>1. PathNext(trace, e)
    BY <1>8, <1>11 DEF PathNext
  <2> QED
    BY <1>8, <1>11, <1>12, <2>1 DEF EventNext, EventTypes, RefusalNext
<1> QED
  BY <1>2, <1>6, <1>7, <1>9, <1>13 DEF e, then

LEMMA EndStepGoesOn ==
  ASSUME IInv, NEW outcome \in Answered, Continuation(outcome) = "continue",
         GoOn(<<StepEvent(outcome, "continue")>>,
              [Top EXCEPT !.outcome = outcome, !.place = "steps", !.step = @ + 1])
  PROVE  IInv'
<1> DEFINE e == StepEvent(outcome, "continue")
           f == [Top EXCEPT !.outcome = outcome, !.place = "steps", !.step = @ + 1]
<1>1. /\ stack # <<>> /\ raised = "none" /\ Top.place \in {"steps", "inside"}
      /\ outcome \in Outcomes /\ InPipeline(e) /\ EventNext(trace, e)
  BY StepNext
<1>2. IsList(trace) /\ Top \in Frames /\ FrameOK(trace, Top) /\ Kinds /\ Placed(Top)
  BY <1>1, InRun
<1>3. pkg.contract[Top.node] \in DOMAIN pkg.pipeline /\ Top.step \in Nat
  BY <1>1, <1>2, PipelineFacts
<1>4. /\ f \in Frames /\ f.run = Top.run /\ f.node = Top.node /\ f.place = "steps"
      /\ f.outcome = outcome /\ f.step = Top.step + 1
  <2> DEFINE step == Top.step + 1
  <2>1. step \in Nat
    BY <1>3
  <2>2. f = [Top EXCEPT !.outcome = outcome, !.place = "steps", !.step = step]
    OBVIOUS
  <2>3. step = Top.step + 1
    OBVIOUS
  <2> HIDE DEF step, f
  <2>4. /\ f \in Frames /\ f.run = Top.run /\ f.node = Top.node /\ f.place = "steps"
        /\ f.outcome = outcome /\ f.step = step
    BY <1>1, <1>2, <2>1, <2>2 DEF Frames
  <2> QED
    BY <2>3, <2>4
<1>5. /\ e.type = "CC_STEP" /\ e.run = Top.run /\ e.node = Top.node /\ e.step = Top.step
      /\ e.what = outcome /\ e.then = "continue"
  BY StepFacts
<1>6. GoOn(<<e>>, f)
  OBVIOUS
<1> HIDE DEF e, f
<1>7. AtNode(trace, e.run, e.node) /\ Quiet(trace, e.run)
  BY <1>1, <1>2, <1>5 DEF FrameOK
<1>8. InContract(e) /\ GoesOn(e) /\ NextStep(e) = f.step /\ OutcomeOf(e) = f.outcome /\ ~IsTurn(e)
  BY <1>1, <1>4, <1>5 DEF InContract, GoesOn, NextStep, OutcomeOf, IsTurn, InPipeline, Determines
<1> DEFINE n == Append(trace, e)
<1>9. FrameOK(n, f)
  <2>1. Quiet(n, e.run)
    BY <1>2, <1>5, <1>7, QuietAfter
  <2>2. AtNode(n, e.run, e.node)
    BY <1>2, <1>7, <1>8, AtNodeAfter
  <2>3. Within(n, f)
    <3>1. e.then # "exit" /\ f.run = e.run /\ f.node = e.node
      BY <1>4, <1>5
    <3> QED
      BY <1>2, <1>8, <3>1, WithinAfter
  <2>4. Settled(n, e.run)
    BY <1>2, <1>5, SettledAfter
  <2> HIDE DEF n
  <2> QED
    BY <1>4, <1>5, <2>1, <2>2, <2>3, <2>4 DEF FrameOK
<1>10. Placed(f)
  BY <1>3, <1>4 DEF Placed
<1> QED
  BY <1>1, <1>4, <1>5, <1>6, <1>9, <1>10, OneEvent

LEMMA EndStepLeaves ==
  ASSUME IInv, NEW outcome \in Answered, Continuation(outcome) = "exit",
         GoOn(<<StepEvent(outcome, "exit")>>, [Top EXCEPT !.outcome = outcome, !.place = "complete"])
  PROVE  IInv'
<1> DEFINE e == StepEvent(outcome, "exit")
           f == [Top EXCEPT !.outcome = outcome, !.place = "complete"]
<1>1. /\ stack # <<>> /\ raised = "none" /\ Top.place \in {"steps", "inside"}
      /\ outcome \in Outcomes /\ InPipeline(e) /\ EventNext(trace, e)
  BY StepNext
<1>2. IsList(trace) /\ Top \in Frames /\ FrameOK(trace, Top) /\ Kinds /\ Placed(Top)
  BY <1>1, InRun
<1>3. pkg.contract[Top.node] \in DOMAIN pkg.pipeline /\ Top.step > 0
  BY <1>1, <1>2, PipelineFacts
<1>4. /\ f \in Frames /\ f.run = Top.run /\ f.node = Top.node /\ f.place = "complete"
      /\ f.outcome = outcome /\ f.step = Top.step
  BY <1>1, <1>2 DEF Frames
<1>5. /\ e.type = "CC_STEP" /\ e.run = Top.run /\ e.node = Top.node
      /\ e.what = outcome /\ e.then = "exit"
  BY StepFacts
<1>6. GoOn(<<e>>, f)
  OBVIOUS
<1> HIDE DEF e, f
<1>7. AtNode(trace, e.run, e.node) /\ Quiet(trace, e.run)
  BY <1>1, <1>2, <1>5 DEF FrameOK
<1>8. ~IsTurn(e)
  BY <1>1, <1>5 DEF IsTurn, InPipeline, Determines
<1> DEFINE n == Append(trace, e)
<1>9. FrameOK(n, f)
  <2>1. Quiet(n, e.run)
    BY <1>2, <1>5, <1>7, QuietAfter
  <2>2. AtNode(n, e.run, e.node)
    BY <1>2, <1>7, <1>8, AtNodeAfter
  <2>3. Leaving(n, f)
    <3>1. f.run = e.run /\ f.node = e.node /\ e.what = f.outcome
      BY <1>4, <1>5
    <3> QED
      BY <1>1, <1>2, <1>5, <3>1, LeavingAfter
  <2>4. Settled(n, e.run)
    BY <1>2, <1>5, SettledAfter
  <2> HIDE DEF n
  <2> QED
    BY <1>4, <1>5, <2>1, <2>2, <2>3, <2>4 DEF FrameOK
<1>10. Placed(f)
  BY <1>3, <1>4 DEF Placed
<1> QED
  BY <1>1, <1>4, <1>5, <1>6, <1>9, <1>10, OneEvent

-----------------------------------------------------------------------------
(***************************************************************************)
(* Refusals.                                                               *)
(***************************************************************************)
\* No contract of the traversal is at its end.
Unfinished(t, r) ==
    \A j \in Owned(t, r) : Latest(j, Owned(t, r)) /\ InContract(t[j]) => ~Finished(t[j])

LEMMA FaultAfter ==
  ASSUME NEW t, NEW n, NEW e, e.type = "ERROR", Wrote(t, n, e.run), IsList(n),
         Quiet(n, e.run), Settled(n, e.run), Unfinished(n, e.run)
  PROVE  /\ Wrote(t, Append(n, e), e.run) /\ OneError(t, Append(n, e))
         /\ Outside(Append(n, e), e.run) /\ Settled(Append(n, e), e.run)
<1> DEFINE m == Append(n, e)
<1>1. ~InPipeline(e) /\ ~InContract(e)
  BY DEF InPipeline, InContract
<1>2. EventNext(n, e)
  <2>1. PathNext(n, e)
    BY DEF PathNext
  <2>2. StepsNext(n, e)
    BY <1>1 DEF StepsNext, Unfinished
  <2> QED
    BY <2>1, <2>2 DEF EventNext, EventTypes, RefusalNext
<1>3. Wrote(t, m, e.run)
  BY <1>2, WroteOne
<1>4. Outside(m, e.run)
  BY <1>1, OutsideAfter
<1>5. Settled(m, e.run)
  BY SettledAfter
<1>6. OneError(t, m)
  <2>1. /\ Len(t) \in Nat /\ Len(n) \in Nat /\ DOMAIN n = 1..Len(n) /\ Len(t) <= Len(n)
        /\ \A i \in (Len(t) + 1)..Len(n) : n[i].run = e.run
    BY PrefixFacts DEF Wrote, Prefix
  <2>2. Len(m) = Len(n) + 1 /\ m[Len(n) + 1] = e /\ \A i \in 1..Len(n) : m[i] = n[i]
    BY ListAppend
  <2> HIDE DEF m
  <2>3. \A i \in (Len(t) + 1)..Len(m) : i # Len(n) + 1 => m[i].type # "ERROR"
    <3> TAKE i \in (Len(t) + 1)..Len(m)
    <3>1. i # Len(n) + 1 => i \in (Len(t) + 1)..Len(n) /\ i \in 1..Len(n)
      BY <2>1, <2>2
    <3> QED
      BY <2>1, <2>2, <3>1 DEF Quiet, Owned
  <2>4. Len(n) + 1 \in (Len(t) + 1)..Len(m)
    BY <2>1, <2>2
  <2> QED
    BY <2>2, <2>3, <2>4 DEF OneError
<1> QED
  BY <1>3, <1>4, <1>5, <1>6

LEMMA StillOneError ==
  ASSUME NEW t, NEW n, NEW e, Prefix(t, n), OneError(t, n), e.type # "ERROR"
  PROVE  OneError(t, Append(n, e))
<1> DEFINE m == Append(n, e)
<1>1. /\ Len(t) \in Nat /\ Len(n) \in Nat /\ Len(t) <= Len(n) /\ IsList(n)
  BY PrefixFacts DEF Prefix
<1>2. Len(m) = Len(n) + 1 /\ m[Len(n) + 1] = e /\ \A i \in 1..Len(n) : m[i] = n[i]
  BY <1>1, ListAppend
<1> HIDE DEF m
<1> PICK p \in (Len(t) + 1)..Len(n) :
      n[p].type = "ERROR" /\ \A i \in (Len(t) + 1)..Len(n) : i # p => n[i].type # "ERROR"
  BY DEF OneError
<1>3. p \in (Len(t) + 1)..Len(m) /\ p \in 1..Len(n)
  BY <1>1, <1>2
<1>4. \A i \in (Len(t) + 1)..Len(m) : i # p => m[i].type # "ERROR"
  <2> TAKE i \in (Len(t) + 1)..Len(m)
  <2>1. (i \in (Len(t) + 1)..Len(n) /\ i \in 1..Len(n)) \/ i = Len(n) + 1
    BY <1>1, <1>2
  <2> QED
    BY <1>2, <2>1
<1>5. OneError(t, m)
  BY <1>2, <1>3, <1>4 DEF OneError
<1> QED
  BY <1>5 DEF m

\* What a traversal has written is not quiet once it holds its failure.
LEMMA NotQuiet ==
  ASSUME NEW t, NEW n, NEW r, Wrote(t, n, r), OneError(t, n)
  PROVE  ~Quiet(n, r)
<1>1. /\ Len(t) \in Nat /\ DOMAIN n = 1..Len(n) /\ \A i \in (Len(t) + 1)..Len(n) : n[i].run = r
  BY PrefixFacts DEF Wrote
<1> PICK p \in (Len(t) + 1)..Len(n) : n[p].type = "ERROR"
  BY DEF OneError
<1>2. p \in Owned(n, r)
  BY <1>1 DEF Owned
<1> QED
  BY <1>2 DEF Quiet

LEMMA StillReplies ==
  ASSUME NEW t, NEW n, IsList(n), NEW e, NEW f, Replies(t, n, f), Len(t) \in Nat
  PROVE  Replies(t, Append(n, e), f)
<1> DEFINE m == Append(n, e)
<1>1. Len(m) = Len(n) + 1 /\ Len(n) \in Nat /\ \A i \in 1..Len(n) : m[i] = n[i]
  BY ListAppend, ListFacts
<1> HIDE DEF m
<1>2. Len(t) + 1 \in 1..Len(n) /\ Len(m) > Len(t)
  BY <1>1 DEF Replies
<1> QED
  BY <1>1, <1>2 DEF Replies, m

LEMMA NowReplies ==
  ASSUME NEW t, IsList(t), NEW e, NEW f, e.type \in {"CC_STEP", "ERROR"},
         e.run = f.run, e.node = f.node
  PROVE  Replies(t, Append(t, e), f)
<1> DEFINE m == Append(t, e)
<1>1. Len(m) = Len(t) + 1 /\ Len(t) \in Nat /\ m[Len(t) + 1] = e
  BY ListAppend, ListFacts
<1> HIDE DEF m
<1>2. Len(m) > Len(t)
  BY <1>1
<1> QED
  BY <1>1, <1>2 DEF Replies, m

\* Having written n, the traversal is completed as refused and left.
Refused(n) ==
    /\ trace' = Append(n, Event("WF_COMPLETE", "VIOLATION", None))
    /\ stack' = Front(stack)
    /\ raised' = "refusal"
    /\ UNCHANGED <<pkg, started, ran, result>>

LEMMA RefuseWrites ==
  ASSUME IsList(trace)
  PROVE  /\ \A a : Refuse(<<a>>) => Refused(Append(trace, a))
         /\ \A a, b : Refuse(<<a, b>>) => Refused(Append(Append(trace, a), b))
<1> DEFINE c == Event("WF_COMPLETE", "VIOLATION", None)
<1>1. \A a : Refuse(<<a>>) => trace' = trace \o (<<a>> \o <<c>>)
  BY DEF Refuse, Write
<1>2. \A a, b : Refuse(<<a, b>>) => trace' = trace \o (<<a, b>> \o <<c>>)
  BY DEF Refuse, Write
<1>3. \A x : Refuse(x) => stack' = Front(stack) /\ raised' = "refusal" /\ UNCHANGED <<pkg, started, ran, result>>
  BY DEF Refuse
<1> HIDE DEF c
<1>4. ASSUME NEW a, Refuse(<<a>>) PROVE trace' = Append(Append(trace, a), c)
  BY <1>1, <1>4, TwoMore
<1>5. ASSUME NEW a, NEW b, Refuse(<<a, b>>) PROVE trace' = Append(Append(Append(trace, a), b), c)
  BY <1>2, <1>5, ThreeMore
<1>6. ASSUME NEW a, Refuse(<<a>>) PROVE Refused(Append(trace, a))
  <2>1. trace' = Append(Append(trace, a), c)
    BY <1>4, <1>6
  <2> QED
    BY <1>3, <1>6, <2>1 DEF Refused, c
<1>7. ASSUME NEW a, NEW b, Refuse(<<a, b>>) PROVE Refused(Append(Append(trace, a), b))
  <2>1. trace' = Append(Append(Append(trace, a), b), c)
    BY <1>5, <1>7
  <2> QED
    BY <1>3, <1>7, <2>1 DEF Refused, c
<1> QED
  BY <1>6, <1>7

LEMMA RefusedKeeps ==
  ASSUME IInv, stack # <<>>, NEW n, Refused(n), Wrote(trace, n, Top.run), OneError(trace, n),
         Outside(n, Top.run), Settled(n, Top.run),
         Top.place \in {"inside", "calling"} => Replies(trace, n, Top)
  PROVE  IInv'
<1> DEFINE e == Event("WF_COMPLETE", "VIOLATION", None)
<1>1. e.type = "WF_COMPLETE" /\ e.run = Top.run /\ e.what = "VIOLATION"
  BY EventFacts
<1>2. /\ trace' = Append(n, e) /\ stack' = Front(stack) /\ raised' = "refusal"
      /\ UNCHANGED <<pkg, started, ran, result>>
  BY DEF Refused
<1> HIDE DEF e
<1>3. IsList(trace) /\ IsList(n) /\ Prefix(trace, n) /\ Len(trace) \in Nat /\ StackInv
  BY InRun, ListFacts DEF Wrote, Prefix
<1>4. EventNext(n, e)
  <2>1. PathNext(n, e)
    <3>1. ~Quiet(n, e.run)
      BY <1>1, NotQuiet
    <3> QED
      BY <1>1, <3>1 DEF PathNext
  <2>2. StepsNext(n, e)
    BY <1>1 DEF StepsNext, Outside, InPipeline
  <2> QED
    BY <1>1, <2>1, <2>2 DEF EventNext, EventTypes, RefusalNext
<1> DEFINE m == Append(n, e)
<1>5. Wrote(trace, m, Top.run)
  BY <1>1, <1>4, WroteOne
<1>6. OneError(trace, m)
  BY <1>1, <1>3, StillOneError
<1>7. Top.place \in {"inside", "calling"} => Replies(trace, m, Top)
  BY <1>3, StillReplies
<1>8. Removed(stack, stack')
  BY <1>2, <1>3, StackMoves
<1>9. trace' = m
  BY <1>2
<1> HIDE DEF m
<1> QED
  BY <1>2, <1>5, <1>6, <1>7, <1>8, <1>9, LeftKeeps

\* A failure is recorded and the traversal refuses.
LEMMA FaultKeeps ==
  ASSUME IInv, stack # <<>>, NEW what, Refuse(<<Event("ERROR", what, None)>>),
         Settled(trace, Top.run), Unfinished(trace, Top.run)
  PROVE  IInv'
<1> DEFINE e == Event("ERROR", what, None)
           n == Append(trace, e)
<1>1. e.type = "ERROR" /\ e.run = Top.run /\ e.node = Top.node
  BY EventFacts
<1>2. IsList(trace) /\ TraceInv /\ Quiet(trace, Top.run)
  BY InRun DEF FrameOK
<1>3. Refused(n)
  BY <1>2, RefuseWrites
<1> HIDE DEF e
<1>4. Wrote(trace, n, e.run) /\ OneError(trace, n) /\ Outside(n, e.run) /\ Settled(n, e.run)
  BY <1>1, <1>2, TraceStays, FaultAfter
<1>5. Replies(trace, n, Top)
  BY <1>1, <1>2, NowReplies
<1>6. Wrote(trace, n, Top.run) /\ Outside(n, Top.run) /\ Settled(n, Top.run)
  BY <1>1, <1>4
<1> HIDE DEF n
<1> QED
  BY <1>3, <1>4, <1>5, <1>6, RefusedKeeps

LEMMA UnfinishedOutside ==
  ASSUME NEW t, NEW r, Outside(t, r)
  PROVE  Unfinished(t, r)
BY DEF Outside, Unfinished

LEMMA UnfinishedWithin ==
  ASSUME IInv, stack # <<>>, Top.place \in {"steps", "inside", "calling"},
         Top.place = "steps" => Top.step <= Len(Pipeline)
  PROVE  Unfinished(trace, Top.run)
<1>1. IsList(trace) /\ Top \in Frames /\ FrameOK(trace, Top) /\ Kinds /\ Placed(Top)
  BY InRun
<1>2. Len(Pipeline) \in Nat /\ Top.step \in Nat
  BY <1>1, PipelineFacts
<1>3. Top.step <= Len(Pipeline)
  BY <1>1 DEF Placed, Pipeline
<1>4. Within(trace, Top)
  BY <1>1 DEF FrameOK
<1>5. StepDue(trace, Top)
  BY <1>2, <1>3, <1>4, WhereAContractIs DEF Pipeline
<1> PICK j \in Owned(trace, Top.run) : Latest(j, Owned(trace, Top.run)) /\ ~Finished(trace[j])
  BY <1>5 DEF StepDue
<1>6. \A k \in Owned(trace, Top.run) : Latest(k, Owned(trace, Top.run)) => k = j
  BY <1>1, OneLatest
<1> QED
  BY <1>6 DEF Unfinished

LEMMA FaultOutsideKeeps ==
  ASSUME IInv, stack # <<>>, Top.place = "node", NEW what, Refuse(<<Event("ERROR", what, None)>>)
  PROVE  IInv'
<1>1. Settled(trace, Top.run) /\ Outside(trace, Top.run)
  BY InRun DEF FrameOK
<1> QED
  BY <1>1, UnfinishedOutside, FaultKeeps

LEMMA FaultWithinKeeps ==
  ASSUME IInv, stack # <<>>, Top.place \in {"steps", "inside", "calling"},
         Top.place = "steps" => Top.step <= Len(Pipeline),
         NEW what, Refuse(<<Event("ERROR", what, None)>>)
  PROVE  IInv'
<1>1. Settled(trace, Top.run)
  BY InRun DEF FrameOK
<1> QED
  BY <1>1, UnfinishedWithin, FaultKeeps

LEMMA BindingFailsKeeps ==
  ASSUME IInv, BindingFails
  PROVE  IInv'
BY AtFacts, FaultOutsideKeeps DEF BindingFails, AtContract

LEMMA NoAdmissionContractKeeps ==
  ASSUME IInv, NoAdmissionContract
  PROVE  IInv'
BY AtFacts, FaultOutsideKeeps DEF NoAdmissionContract, AtGate

LEMMA StepFailsKeeps ==
  ASSUME IInv, StepFails
  PROVE  IInv'
BY AtFacts, FaultWithinKeeps DEF StepFails, AtStep

LEMMA CapabilityFailsKeeps ==
  ASSUME IInv, CapabilityFails
  PROVE  IInv'
<1>1. stack # <<>> /\ Top.place = "inside"
  BY AtFacts DEF CapabilityFails
<1> QED
  BY <1>1, FaultWithinKeeps DEF CapabilityFails

LEMMA LetThroughKeeps ==
  ASSUME IInv, LetThrough
  PROVE  IInv'
<1>1. stack # <<>> /\ raised # "none"
  BY DEF LetThrough
<1>2. Top.place = "calling"
  BY <1>1, InRun, TopFacts
<1> QED
  BY <1>1, <1>2, FaultWithinKeeps DEF LetThrough

\* The dead end: the failure, and the route that is not there.
LEMMA DeadEndKeeps ==
  ASSUME IInv, At("route"), SealedNext(Top.node, Top.outcome) = None, NEW what,
         Refuse(<<Event("ERROR", what, None), Event("WF_ROUTE", Top.outcome, None)>>)
  PROVE  IInv'
<1> DEFINE a == Event("ERROR", what, None)
           b == Event("WF_ROUTE", Top.outcome, None)
           n == Append(trace, a)
           m == Append(n, b)
<1>1. stack # <<>> /\ raised = "none" /\ Top.place = "route"
  BY AtFacts
<1>2. IsList(trace) /\ TraceInv /\ FrameOK(trace, Top)
  BY <1>1, InRun
<1>3. Refused(m)
  <2>1. Refuse(<<a, b>>)
    OBVIOUS
  <2> HIDE DEF a, b
  <2> QED
    BY <1>2, <2>1, RefuseWrites
<1>4. a.type = "ERROR" /\ a.run = Top.run /\ a.node = Top.node
  BY EventFacts
<1>5. b.type = "WF_ROUTE" /\ b.run = Top.run /\ b.node = Top.node /\ b.what = Top.outcome /\ b.then = None
  BY EventFacts
<1> HIDE DEF a, b
<1>6. /\ Quiet(trace, Top.run) /\ Decided(trace, Top.run, Top.node, Top.outcome)
      /\ Settled(trace, Top.run) /\ Unfinished(trace, Top.run)
  BY <1>1, <1>2, UnfinishedOutside DEF FrameOK
<1>7. IsList(n)
  BY <1>2, ListAppend
<1>8. Wrote(trace, n, a.run) /\ OneError(trace, n) /\ Outside(n, a.run) /\ Settled(n, a.run)
  BY <1>2, <1>4, <1>6, TraceStays, FaultAfter
<1>9. Decided(n, a.run, b.node, b.what)
  <2>1. ~IsTurn(a)
    BY <1>4 DEF IsTurn, Determines, Admission
  <2>2. Decided(trace, a.run, b.node, b.what)
    BY <1>4, <1>5, <1>6
  <2> QED
    BY <1>2, <2>1, <2>2, StandsAfter
<1> HIDE DEF n
<1>10. EventNext(n, b)
  <2>1. b.then = SealedNext(b.node, b.what)
    BY <1>5
  <2>2. PathNext(n, b)
    BY <1>4, <1>5, <1>9, <2>1 DEF PathNext
  <2>3. StepsNext(n, b)
    BY <1>4, <1>5, <1>8 DEF StepsNext, Outside, InPipeline
  <2> QED
    BY <1>4, <1>5, <1>8, <2>2, <2>3 DEF EventNext, EventTypes, RefusalNext
<1>11. Wrote(trace, m, Top.run)
  <2>1. Wrote(trace, n, b.run)
    BY <1>4, <1>5, <1>8
  <2>2. Wrote(trace, m, b.run)
    BY <1>10, <2>1, WroteOne
  <2> QED
    BY <1>5, <2>2
<1>12. OneError(trace, m)
  BY <1>5, <1>8, StillOneError DEF Wrote
<1>13. Outside(m, Top.run) /\ Settled(m, Top.run)
  <2>1. ~InContract(b)
    BY <1>5 DEF InContract, InPipeline
  <2>2. Outside(m, b.run)
    BY <1>7, <2>1, OutsideAfter
  <2>3. Settled(m, b.run)
    BY <1>5, <1>7, SettledAfter
  <2> QED
    BY <1>5, <2>2, <2>3
<1>14. Top.place \notin {"inside", "calling"}
  BY <1>1
<1> HIDE DEF m
<1> QED
  BY <1>1, <1>3, <1>11, <1>12, <1>13, <1>14, RefusedKeeps

LEMMA RouteNowhereKeeps ==
  ASSUME IInv, RouteNowhere
  PROVE  IInv'
<1>1. At("route") /\ SealedNext(Top.node, Top.outcome) = None
  BY DEF RouteNowhere, SealedNext
<1>2. \E what : Refuse(<<Event("ERROR", what, None), Event("WF_ROUTE", Top.outcome, None)>>)
  BY Zenon DEF RouteNowhere
<1> QED
  BY <1>1, <1>2, DeadEndKeeps

\* A step whose outcome the contract does not continue from, or continues in a
\* way that is not known.
LEMMA EndStepRefuses ==
  ASSUME IInv, NEW outcome \in Answered, NEW then, then = Continuation(outcome),
         then \in {"evaluate", None}, NEW what,
         Refuse(<<StepEvent(outcome, then), Event("ERROR", what, None)>>)
  PROVE  IInv'
<1> DEFINE a == StepEvent(outcome, then)
           b == Event("ERROR", what, None)
           n == Append(trace, a)
           m == Append(n, b)
<1>1. /\ stack # <<>> /\ raised = "none" /\ InPipeline(a) /\ EventNext(trace, a)
  BY StepNext
<1>2. IsList(trace) /\ TraceInv /\ FrameOK(trace, Top)
  BY <1>1, InRun
<1>3. Refused(m)
  BY <1>2, RefuseWrites
<1>4. a.type = "CC_STEP" /\ a.run = Top.run /\ a.node = Top.node /\ a.then = then
  BY StepFacts
<1>5. b.type = "ERROR" /\ b.run = Top.run /\ b.node = Top.node
  BY EventFacts
<1> HIDE DEF a, b
<1>6. IsList(n) /\ Len(trace) \in Nat
  BY <1>2, ListAppend, ListFacts
<1>7. Wrote(trace, n, a.run)
  BY <1>1, <1>2, <1>4, TraceStays, WroteOne
<1>8. Quiet(n, a.run)
  <2>1. Quiet(trace, a.run)
    BY <1>2, <1>4 DEF FrameOK
  <2> QED
    BY <1>2, <1>4, <2>1, QuietAfter
<1>9. Settled(n, a.run)
  BY <1>2, <1>4, SettledAfter
<1>10. Unfinished(n, a.run)
  <2>1. ~Finished(a)
    <3>1. then # "exit" /\ then # "continue"
      BY TraversalAssumption
    <3> QED
      BY <1>4, <3>1 DEF Finished, GoesOn
  <2>2. Len(n) \in Owned(n, a.run) /\ n[Len(n)] = a
    BY <1>2, AddedAfter
  <2>3. Latest(Len(n), Owned(n, a.run))
    BY <1>2, LastAfter
  <2> HIDE DEF n
  <2>4. \A k \in Owned(n, a.run) : Latest(k, Owned(n, a.run)) => k = Len(n)
    BY <1>6, <2>2, <2>3, OneLatest
  <2> QED
    BY <2>1, <2>2, <2>4 DEF Unfinished
<1>11. Replies(trace, n, Top)
  BY <1>2, <1>4, NowReplies
<1>12. Replies(trace, m, Top)
  BY <1>6, <1>11, StillReplies
<1>13. a.run = b.run
  BY <1>4, <1>5
<1> HIDE DEF n
<1>14. Wrote(trace, m, b.run) /\ OneError(trace, m) /\ Outside(m, b.run) /\ Settled(m, b.run)
  BY <1>5, <1>6, <1>7, <1>8, <1>9, <1>10, <1>13, FaultAfter
<1>15. Wrote(trace, m, Top.run) /\ Outside(m, Top.run) /\ Settled(m, Top.run)
  BY <1>5, <1>14
<1> HIDE DEF m
<1> QED
  BY <1>1, <1>3, <1>12, <1>14, <1>15, RefusedKeeps

LEMMA EndStepKeeps ==
  ASSUME IInv, EndStep
  PROVE  IInv'
<1> PICK outcome \in Answered :
      LET then == Continuation(outcome)
          record == StepEvent(outcome, then)
      IN  CASE then = "continue" ->
                  GoOn(<<record>>, [Top EXCEPT !.outcome = outcome, !.place = "steps", !.step = @ + 1])
            [] then = "exit" -> GoOn(<<record>>, [Top EXCEPT !.outcome = outcome, !.place = "complete"])
            [] then = "evaluate" -> Refuse(<<record, Event("ERROR", "unknown continuation", None)>>)
            [] then = None -> Refuse(<<record, Event("ERROR", "unlisted step outcome", None)>>)
  BY DEF EndStep
<1> DEFINE then == Continuation(outcome)
<1>1. then \in {"continue", "exit", "evaluate", None} /\ None \notin {"continue", "exit", "evaluate"}
  BY StepNext, TraversalAssumption
<1>2. CASE then = "continue"
  BY <1>1, <1>2, EndStepGoesOn
<1>3. CASE then = "exit"
  BY <1>1, <1>3, EndStepLeaves
<1>4. CASE then = "evaluate"
  BY <1>1, <1>4, EndStepRefuses
<1>5. CASE then = None
  BY <1>1, <1>5, EndStepRefuses
<1> QED
  BY <1>1, <1>2, <1>3, <1>4, <1>5

-----------------------------------------------------------------------------
(***************************************************************************)
(* Exceptions that are nobody's refusal, and what becomes of any.          *)
(***************************************************************************)
LEMMA EscapeKeeps ==
  ASSUME IInv, stack # <<>>, Top.place \notin {"inside", "calling"}, Escape(<<>>)
  PROVE  IInv'
<1>1. IsList(trace) /\ TraceInv /\ StackInv /\ Quiet(trace, Top.run)
  BY InRun DEF FrameOK
<1>2. /\ trace' = trace /\ stack' = Front(stack) /\ raised' = "raw"
      /\ UNCHANGED <<pkg, started, ran, result>>
  BY <1>1, NoMore DEF Escape, Write
<1>3. Removed(stack, stack')
  BY <1>1, <1>2, StackMoves
<1>4. Wrote(trace, trace', Top.run) /\ Quiet(trace', Top.run)
  BY <1>1, <1>2, TraceStays
<1> QED
  BY <1>2, <1>3, <1>4, LeftKeeps

LEMMA TooManyHopsKeeps ==
  ASSUME IInv, TooManyHops
  PROVE  IInv'
<1>1. stack # <<>> /\ Top.place = "node"
  BY AtFacts DEF TooManyHops
<1> QED
  BY <1>1, EscapeKeeps DEF TooManyHops

LEMMA InputsUnwritableKeeps ==
  ASSUME IInv, InputsUnwritable
  PROVE  IInv'
<1>1. stack # <<>> /\ Top.place = "node"
  BY AtFacts DEF InputsUnwritable, AtContract
<1> QED
  BY <1>1, EscapeKeeps DEF InputsUnwritable

LEMMA HandlerMissingKeeps ==
  ASSUME IInv, HandlerMissing
  PROVE  IInv'
<1>1. stack # <<>> /\ Top.place = "steps"
  BY AtFacts DEF HandlerMissing, AtStep
<1> QED
  BY <1>1, EscapeKeeps DEF HandlerMissing

LEMMA CatchKeeps ==
  ASSUME IInv, Catch
  PROVE  IInv'
<1> DEFINE f == [Top EXCEPT !.place = "inside"]
<1>1. /\ stack # <<>> /\ raised # "none" /\ raised' = "none" /\ stack' = Front(stack) \o <<f>>
      /\ UNCHANGED <<pkg, trace, started, ran, result>>
  BY DEF Catch, SetTop
<1>2. TraceInv /\ StackInv /\ Top \in Frames /\ Placed(Top) /\ FrameOK(trace, Top)
  BY <1>1, InRun
<1>3. Top.place = "calling"
  BY <1>1, <1>2, TopFacts
<1>4. /\ f \in Frames /\ f.run = Top.run /\ f.node = Top.node /\ f.step = Top.step
      /\ f.outcome = Top.outcome /\ f.place = "inside"
  BY <1>2 DEF Frames
<1> HIDE DEF f
<1>5. Replaced(stack, stack', f)
  BY <1>1, <1>2, <1>4, StackMoves
<1>6. FrameOK(trace', f) /\ Placed(f)
  <2>1. Alike(f, Top)
    BY <1>4 DEF Alike
  <2>2. FrameOK(trace, f) /\ Placed(f)
    BY <1>2, <1>3, <1>4, <2>1, SameStand
  <2> QED
    BY <1>1, <2>2
<1>7. Wrote(trace, trace', Top.run)
  BY <1>1, <1>2, TraceStays
<1> QED
  BY <1>1, <1>4, <1>5, <1>6, <1>7, OnwardKeeps

\* Only the caller is left.
LEMMA EndedKeeps ==
  ASSUME IInv, stack' = <<>>, raised' = "none", UNCHANGED <<pkg, started, ran>>,
         TraceInv', trace' = <<>> => trace = <<>>, RanInv',
         \/ result' = "killed"
         \/ result' = "raised" /\ \E i \in DOMAIN trace' : Errors(trace') = {i}
  PROVE  IInv'
<1>1. StackInv' /\ FrameInv'
  BY EmptyStack
<1>2. Kinds'
  BY DEF IInv, Kinds
<1>3. "raised" \notin Outcomes /\ "killed" \notin Outcomes
  BY TraversalAssumption
<1>4. ErrorInv'
  BY <1>3 DEF ErrorInv
<1> QED
  BY <1>1, <1>2, <1>4 DEF IInv

LEMMA KillKeeps ==
  ASSUME IInv, Kill
  PROVE  IInv'
<1>1. /\ stack # <<>> /\ stack' = <<>> /\ raised' = "none" /\ result' = "killed"
      /\ UNCHANGED <<pkg, trace, started, ran>>
  BY DEF Kill
<1>2. TraceInv /\ RanInv
  BY DEF IInv
<1>3. TraceInv'
  <2>1. \A i \in DOMAIN trace' : EventOK(trace, i)'
    BY <1>1, <1>2, SamePackage DEF TraceInv
  <2> QED
    BY <1>1, <1>2, <2>1 DEF TraceInv
<1>4. RanInv'
  BY <1>1, <1>2 DEF RanInv
<1> QED
  BY <1>1, <1>3, <1>4, EndedKeeps

\* Capability calls stay on record as the trace goes on.
LEMMA CallsOnRecord ==
  ASSUME RanInv, ran' = ran, stack = <<>>, Prefix(trace, trace'), result = "none",
         \A i \in (Len(trace) + 1)..Len(trace') : trace'[i].run = 0
  PROVE  RanInv'
<1>1. /\ Len(trace) \in Nat /\ DOMAIN trace = 1..Len(trace)
      /\ Len(trace') \in Nat /\ DOMAIN trace' = 1..Len(trace') /\ Len(trace) <= Len(trace')
      /\ \A i \in 1..Len(trace) : trace'[i] = trace[i]
  BY PrefixFacts DEF Prefix
<1>2. DOMAIN stack = {}
  BY EmptySeq
<1>3. ASSUME NEW k \in DOMAIN ran
      PROVE  /\ ran[k].after \in 0..Len(trace')
             /\ \A i \in DOMAIN trace' :
                   trace'[i].type = "ERROR" /\ trace'[i].run = ran[k].run => ran[k].after < i
             /\ Recorded(trace', ran[k])
  <2> DEFINE c == ran[k]
  <2>1. /\ c.after \in 0..Len(trace)
        /\ \A i \in DOMAIN trace : trace[i].type = "ERROR" /\ trace[i].run = c.run => c.after < i
        /\ Recorded(trace, c)
    BY <1>2 DEF RanInv
  <2> HIDE DEF c
  <2>2. c.after \in 0..Len(trace')
    BY <1>1, <2>1
  <2>3. \A i \in DOMAIN trace' : trace'[i].type = "ERROR" /\ trace'[i].run = c.run => c.after < i
    BY <1>1, <2>1
  <2> PICK j \in (c.after + 1)..Len(trace) :
         /\ trace[j].run = c.run /\ trace[j].node = c.node /\ trace[j].type \in {"CC_STEP", "ERROR"}
         /\ \A i \in (c.after + 1)..(j - 1) : trace[i].run # c.run
    BY <2>1 DEF Recorded
  <2>4. j \in (c.after + 1)..Len(trace') /\ j \in 1..Len(trace)
    BY <1>1, <2>1
  <2>5. \A i \in (c.after + 1)..(j - 1) : i \in 1..Len(trace)
    BY <1>1, <2>1
  <2>6. Recorded(trace', c)
    BY <1>1, <2>4, <2>5 DEF Recorded
  <2> QED
    BY <2>2, <2>3, <2>6 DEF c
<1> QED
  BY <1>3 DEF RanInv

\* run_workflow records what nobody has recorded.
Unrecorded(e) == e.type = "ERROR" /\ e.run = 0

LEMMA SurfaceWrites ==
  ASSUME IInv, stack = <<>>, raised = "raw", UNCHANGED <<pkg, started, ran>>,
         NEW e, Unrecorded(e), trace' = Append(trace, e)
  PROVE  /\ TraceInv' /\ RanInv' /\ trace' # <<>>
         /\ \E i \in DOMAIN trace' : Errors(trace') = {i}
<1> DEFINE n == Append(trace, e)
           l == Len(trace) + 1
<1>1. /\ Kinds /\ TraceInv /\ RanInv /\ IsList(trace) /\ Errors(trace) = {} /\ result = "none"
      /\ e.type = "ERROR" /\ e.run = 0
  BY DEF IInv, TraceInv, ErrorInv, Kinds, Unrecorded
<1>2. /\ Len(trace) \in Nat /\ DOMAIN trace = 1..Len(trace) /\ IsList(n) /\ Len(n) = l
      /\ DOMAIN n = 1..l /\ n[l] = e /\ \A i \in 1..Len(trace) : n[i] = trace[i]
  BY <1>1, ListFacts, ListAppend
<1>3. Prefix(trace, n)
  BY <1>1, AppendGoesOn
<1>4. Fresh(trace, e.run)
  <2> SUFFICES ASSUME NEW j \in DOMAIN trace, trace[j].run = 0 PROVE FALSE
    BY <1>1 DEF Fresh, Owned
  <2>1. trace[j].type = "ERROR"
    BY <1>1 DEF TraceInv
  <2>2. j \in Errors(trace)
    BY <2>1 DEF Errors
  <2> QED
    BY <1>1, <2>2
<1>5. EventNext(trace, e)
  <2>1. ~InPipeline(e) /\ PathNext(trace, e)
    BY <1>1 DEF InPipeline, PathNext
  <2>2. StepsNext(trace, e)
    BY <1>1, <1>4, <2>1 DEF StepsNext, Fresh
  <2>3. Settled(trace, e.run) /\ RefusalNext(trace, e)
    BY <1>4 DEF Settled, RefusalNext, Quiet, Fresh
  <2> QED
    BY <1>1, <2>1, <2>2, <2>3 DEF EventNext, EventTypes
<1>6. EventOK(n, l)
  BY <1>1, <1>5, NextEventOK
<1> HIDE DEF n, l
<1>7. \A i \in DOMAIN n : EventOK(n, i)
  <2> TAKE i \in DOMAIN n
  <2>1. CASE i \in DOMAIN trace
    BY <1>1, <1>3, <2>1, EventKept DEF TraceInv
  <2>2. i \in DOMAIN trace \/ i = l
    BY <1>2 DEF l
  <2> QED
    BY <1>6, <2>1, <2>2
<1>8. \A i \in DOMAIN n : i \in DOMAIN trace \/ i = l
  BY <1>2 DEF l
<1>9. trace' = n
  BY DEF n
<1>10. TraceInv'
  <2>1. \A i \in DOMAIN trace' : EventOK(trace, i)'
    BY <1>7, <1>9, SamePackage
  <2>2. \A i \in DOMAIN trace' :
           trace'[i].run \in 0..started /\ (trace'[i].run = 0 => trace'[i].type = "ERROR")
    <3> TAKE i \in DOMAIN trace'
    <3>1. CASE i \in DOMAIN trace
      BY <1>1, <1>2, <1>9, <3>1 DEF TraceInv
    <3>2. CASE i = l
      BY <1>1, <1>2, <1>9, <3>2 DEF Kinds
    <3> QED
      BY <1>8, <1>9, <3>1, <3>2
  <2> QED
    BY <1>2, <1>9, <2>1, <2>2 DEF TraceInv
<1>11. RanInv'
  <2>1. \A i \in (Len(trace) + 1)..Len(trace') : trace'[i].run = 0
    BY <1>1, <1>2, <1>9 DEF l
  <2> QED
    BY <1>1, <1>3, <1>9, <2>1, CallsOnRecord
<1>12. trace' # <<>>
  BY <1>2, <1>9, EmptySeq DEF l
<1>13. l \in DOMAIN n /\ Errors(n) = {l}
  <2>1. l \in DOMAIN n /\ l \notin DOMAIN trace
    BY <1>2 DEF l
  <2>2. \A i \in DOMAIN trace : i \notin Errors(n)
    BY <1>1, <1>2 DEF Errors
  <2>3. l \in Errors(n)
    BY <1>1, <1>2, <2>1 DEF Errors
  <2>4. Errors(n) \subseteq DOMAIN n
    BY DEF Errors
  <2> QED
    BY <1>8, <2>1, <2>2, <2>3, <2>4
<1> QED
  BY <1>9, <1>10, <1>11, <1>12, <1>13

LEMMA SurfaceKeeps ==
  ASSUME IInv, Surface
  PROVE  IInv'
<1> DEFINE e == [type |-> "ERROR", run |-> 0, node |-> None, step |-> 0,
                 what |-> "exception", then |-> None]
<1>1. /\ raised # "none" /\ stack = <<>> /\ raised' = "none" /\ result' = "raised"
      /\ UNCHANGED <<pkg, stack, started, ran>>
      /\ IF raised = "raw" THEN trace' = trace \o <<e>> ELSE trace' = trace
  BY DEF Surface, Write
<1>2. Kinds /\ TraceInv /\ RanInv /\ ErrorInv /\ IsList(trace)
  BY DEF IInv, TraceInv
<1>3. result = "none"
  BY <1>1, <1>2 DEF Kinds
<1>4. CASE raised = "raw"
  <2>1. Unrecorded(e)
    BY DEF Unrecorded
  <2> HIDE DEF e
  <2>2. trace' = Append(trace, e)
    BY <1>1, <1>2, <1>4, OneMore
  <2>3. /\ TraceInv' /\ RanInv' /\ trace' # <<>>
        /\ \E i \in DOMAIN trace' : Errors(trace') = {i}
    BY <1>1, <1>4, <2>1, <2>2, SurfaceWrites
  <2> QED
    BY <1>1, <2>3, EndedKeeps
<1>5. CASE raised = "refusal"
  <2>1. trace' = trace
    BY <1>1, <1>5
  <2>2. TraceInv'
    <3>1. \A i \in DOMAIN trace' : EventOK(trace, i)'
      BY <1>1, <1>2, <2>1, SamePackage DEF TraceInv
    <3> QED
      BY <1>1, <1>2, <2>1, <3>1 DEF TraceInv
  <2>3. RanInv'
    <3>1. Prefix(trace, trace') /\ \A i \in (Len(trace) + 1)..Len(trace') : trace'[i].run = 0
      BY <1>2, <2>1, ListFacts DEF Prefix
    <3> QED
      BY <1>1, <1>2, <1>3, <3>1, CallsOnRecord
  <2>4. \E i \in DOMAIN trace' : Errors(trace') = {i}
    BY <1>1, <1>2, <1>5, <2>1 DEF ErrorInv
  <2> QED
    BY <1>1, <2>1, <2>2, <2>3, <2>4, EndedKeeps
<1>6. raised \in {"raw", "refusal"}
  BY <1>1, <1>2 DEF Kinds
<1> QED
  BY <1>4, <1>5, <1>6

-----------------------------------------------------------------------------
(***************************************************************************)
(* A capability is called, and a traversal returns.                        *)
(***************************************************************************)
LEMMA RunCapabilityKeeps ==
  ASSUME IInv, RunCapability
  PROVE  IInv'
<1> DEFINE f == [Top EXCEPT !.place = "inside", !.calls = 0]
           c == [run |-> Top.run, node |-> Top.node, after |-> Len(trace)]
<1>1. /\ stack # <<>> /\ raised = "none" /\ Top.place = "steps" /\ Top.step <= Len(Pipeline)
      /\ stack' = Front(stack) \o <<f>> /\ ran' = Append(ran, c)
      /\ UNCHANGED <<pkg, raised, trace, started, result>>
  BY AtFacts DEF RunCapability, AtStep, SetTop
<1>2. /\ Kinds /\ StackInv /\ TraceInv /\ FrameInv /\ RanInv /\ ErrorInv
      /\ IsList(trace) /\ trace # <<>> /\ Errors(trace) = {} /\ result = "none"
      /\ Len(stack) \in Nat \ {0} /\ DOMAIN stack = 1..Len(stack)
      /\ Top = stack[Len(stack)] /\ Top \in Frames /\ Placed(Top) /\ FrameOK(trace, Top)
      /\ Top.run \in 1..started
  BY <1>1, InRun
<1>3. /\ f \in Frames /\ f.run = Top.run /\ f.node = Top.node /\ f.step = Top.step
      /\ f.outcome = Top.outcome /\ f.place = "inside"
  BY <1>2 DEF Frames
<1>4. c.run = Top.run /\ c.node = Top.node /\ c.after = Len(trace)
  OBVIOUS
<1> HIDE DEF f, c
<1>5. Replaced(stack, stack', f)
  BY <1>1, <1>2, <1>3, StackMoves
<1>6. Wrote(trace, trace', Top.run)
  BY <1>1, <1>2, TraceStays
<1>7. FrameOK(trace', f)
  <2>1. Within(trace, Top)
    BY <1>1, <1>2 DEF FrameOK
  <2>2. Within(trace, f)
    BY <1>3, <2>1 DEF Within
  <2>3. FrameOK(trace, f)
    BY <1>1, <1>2, <1>3, <2>2 DEF FrameOK
  <2> QED
    BY <1>1, <2>3
<1>8. Placed(f)
  BY <1>1, <1>2, <1>3 DEF Placed, Pipeline
<1>9. StackInv' /\ FrameInv'
  BY <1>1, <1>2, <1>3, <1>5, <1>6, <1>7, <1>8, TopReplaced
<1>10. TraceInv'
  BY <1>1, <1>2, <1>6, TraceMoves
<1>11. Kinds'
  BY <1>1, <1>2 DEF Kinds
<1>12. ErrorInv'
  BY <1>1, <1>2, <1>5, EmptySeq DEF ErrorInv, Replaced
<1>13. /\ IsList(ran') /\ DOMAIN ran' = 1..(Len(ran) + 1) /\ DOMAIN ran = 1..Len(ran) /\ Len(ran) \in Nat
       /\ \A k \in 1..Len(ran) : ran'[k] = ran[k]
       /\ ran'[Len(ran) + 1] = c
  BY <1>1, <1>2, ListAppend, ListFacts DEF RanInv
<1>14. Len(trace) \in Nat /\ DOMAIN trace = 1..Len(trace)
  BY <1>2, ListFacts
<1>15. ASSUME NEW k \in DOMAIN ran'
       PROVE  /\ ran'[k].after \in 0..Len(trace)
              /\ \A i \in DOMAIN trace : trace[i].type = "ERROR" /\ trace[i].run = ran'[k].run => ran'[k].after < i
              /\ Recorded(trace, ran'[k]) \/ \E d \in DOMAIN stack' : InProgress(trace, ran'[k], stack'[d])
  <2>1. CASE k \in DOMAIN ran
    <3>1. ran'[k] = ran[k]
      BY <1>13, <2>1
    <3>2. /\ ran[k].after \in 0..Len(trace)
          /\ \A i \in DOMAIN trace : trace[i].type = "ERROR" /\ trace[i].run = ran[k].run => ran[k].after < i
          /\ Recorded(trace, ran[k]) \/ \E d \in DOMAIN stack : InProgress(trace, ran[k], stack[d])
      BY <1>2, <2>1 DEF RanInv
    <3>3. ASSUME NEW d \in DOMAIN stack, InProgress(trace, ran[k], stack[d])
          PROVE  d \in DOMAIN stack' /\ stack'[d] = stack[d]
      <4>1. d # Len(stack)
        BY <1>1, <1>2, <3>3 DEF InProgress
      <4>2. d \in 1..(Len(stack) - 1) /\ d \in 1..Len(stack)
        BY <1>2, <4>1
      <4> QED
        BY <1>5, <4>2 DEF Replaced
    <3> QED
      BY <3>1, <3>2, <3>3
  <2>2. CASE k = Len(ran) + 1
    <3>1. ran'[k] = c
      BY <1>13, <2>2
    <3>2. \A i \in DOMAIN trace : trace[i].run = Top.run => trace[i].type # "ERROR"
      BY <1>2 DEF FrameOK, Quiet, Owned
    <3>3. Len(stack) \in DOMAIN stack' /\ stack'[Len(stack)] = f
      BY <1>2, <1>5 DEF Replaced
    <3>4. InProgress(trace, c, f)
      BY <1>3, <1>4, <1>14 DEF InProgress
    <3> QED
      BY <1>4, <1>14, <3>1, <3>2, <3>3, <3>4
  <2> QED
    BY <1>13, <2>1, <2>2
<1>16. RanInv'
  BY <1>1, <1>13, <1>15 DEF RanInv
<1> QED
  BY <1>9, <1>10, <1>11, <1>12, <1>16 DEF IInv

LEMMA StackReturns ==
  ASSUME StackInv, Len(stack) > 1
  PROVE  /\ Last(Front(stack)) = stack[Len(stack) - 1] /\ stack[Len(stack) - 1] \in Frames
         /\ \A f \in Frames : Resumed(stack, Front(Front(stack)) \o <<f>>, f)
<1>1. stack \in Seq(Frames) /\ stack # <<>> /\ Len(stack) \in Nat
  BY LenProperties, EmptySeq DEF StackInv
<1>2. Last(Front(stack)) = stack[Len(stack) - 1]
  <2> DEFINE g == Front(stack)
  <2>1. Len(g) = Len(stack) - 1 /\ \A i \in 1..(Len(stack) - 1) : g[i] = stack[i]
    BY <1>1, LastRemoved
  <2>2. Last(g) = g[Len(g)]
    BY DEF Last
  <2> HIDE DEF g
  <2>3. Len(stack) - 1 \in 1..(Len(stack) - 1)
    BY <1>1
  <2>4. Last(g) = stack[Len(stack) - 1]
    BY <2>1, <2>2, <2>3
  <2> QED
    BY <2>4 DEF g
<1>3. stack[Len(stack) - 1] \in Frames
  <2>1. Len(stack) - 1 \in 1..Len(stack)
    BY <1>1
  <2> QED
    BY <1>1, <2>1, ElementOfSeq
<1>4. ASSUME NEW f \in Frames PROVE Resumed(stack, Front(Front(stack)) \o <<f>>, f)
  <2> DEFINE n == Front(Front(stack)) \o <<f>>
  <2>1. /\ n \in Seq(Frames) /\ Len(n) = Len(stack) - 1
        /\ \A i \in 1..(Len(stack) - 2) : n[i] = stack[i]
        /\ n[Len(stack) - 1] = f
    BY <1>1, LastTwoReplaced
  <2> HIDE DEF n
  <2>2. DOMAIN n = 1..(Len(stack) - 1)
    BY <2>1, LenProperties
  <2> QED
    BY <2>1, <2>2 DEF Resumed, n
<1> QED
  BY <1>2, <1>3, <1>4

LEMMA RouteToEndingKeeps ==
  ASSUME IInv, RouteToEnding
  PROVE  IInv'
<1> DEFINE ending == pkg.terminal[Top.node][Condition(Top.outcome)]
           a == Event("WF_ROUTE", Top.outcome, ending)
           b == Event("WF_COMPLETE", Top.outcome, None)
           n == Append(trace, a)
           m == Append(n, b)
           f == [Last(Front(stack)) EXCEPT !.place = "inside"]
<1>1. /\ stack # <<>> /\ raised = "none" /\ Top.place = "route"
      /\ ~Routed(Top.node, Top.outcome) /\ Ending(Top.node, Top.outcome)
  BY AtFacts DEF RouteToEnding
<1>2. /\ Kinds /\ StackInv /\ IsList(trace) /\ TraceInv /\ FrameOK(trace, Top)
      /\ Top \in Frames /\ Len(stack) \in Nat \ {0}
  BY <1>1, InRun
<1>3. /\ trace' = trace \o <<a, b>> /\ UNCHANGED <<pkg, raised, started, ran>>
      /\ \/ Len(stack) = 1 /\ stack' = <<>> /\ result' = Top.outcome
         \/ Len(stack) # 1 /\ stack' = Front(Front(stack)) \o <<f>> /\ result' = result
  BY DEF RouteToEnding, Return, Write
<1>4. ending \in Exits
  <2>1. WellTyped(pkg) /\ Top.node \in Nodes
    BY <1>2, TraversalAssumption DEF Kinds, Frames
  <2> QED
    BY <1>1, <2>1 DEF WellTyped, Table, Ending
<1>5. ending = SealedNext(Top.node, Top.outcome)
  BY <1>1 DEF SealedNext
<1> HIDE DEF ending
<1>6. a.type = "WF_ROUTE" /\ a.run = Top.run /\ a.node = Top.node /\ a.what = Top.outcome /\ a.then = ending
  BY EventFacts
<1>7. b.type = "WF_COMPLETE" /\ b.run = Top.run /\ b.what = Top.outcome
  BY EventFacts
<1> HIDE DEF a, b
<1>8. trace' = m
  <2>1. trace \o (<<a>> \o <<b>>) = Append(Append(trace, a), b)
    BY <1>2, TwoMore
  <2>2. <<a>> \o <<b>> = <<a, b>>
    BY Pair
  <2> QED
    BY <1>3, <2>1, <2>2
<1>9. /\ Decided(trace, a.run, a.node, a.what) /\ Outside(trace, a.run)
      /\ Settled(trace, a.run) /\ Quiet(trace, a.run)
  BY <1>1, <1>2, <1>6 DEF FrameOK
<1>10. ~InContract(a) /\ ~InPipeline(a)
  BY <1>6 DEF InContract, InPipeline
<1>11. EventNext(trace, a)
  <2>1. PathNext(trace, a)
    BY <1>5, <1>6, <1>9 DEF PathNext
  <2>2. a.type \in EventTypes \ {"EVENT", "CC_COMPLETE"} /\ a.type # "CC_START"
    BY <1>6 DEF EventTypes
  <2> QED
    BY <1>9, <1>10, <2>1, <2>2, OutsideNext
<1>12. Wrote(trace, n, a.run)
  BY <1>2, <1>6, <1>11, TraceStays, WroteOne
<1>13. IsList(n)
  BY <1>2, ListAppend
<1>14. Quiet(n, a.run)
  BY <1>2, <1>6, <1>9, QuietAfter
<1>15. Outside(n, a.run)
  BY <1>2, <1>10, OutsideAfter
<1>16. Settled(n, a.run)
  BY <1>2, <1>6, SettledAfter
<1>17. Len(n) \in Owned(n, a.run) /\ n[Len(n)] = a
  BY <1>2, AddedAfter
<1> HIDE DEF n
<1>18. EventNext(n, b)
  <2>1. a.run = b.run
    BY <1>6, <1>7
  <2>2. PathNext(n, b)
    BY <1>4, <1>6, <1>7, <1>17, <2>1 DEF PathNext
  <2>3. b.type \in EventTypes \ {"EVENT", "CC_COMPLETE"} /\ b.type # "CC_START" /\ ~InPipeline(b)
    BY <1>7 DEF EventTypes, InPipeline
  <2> QED
    BY <1>14, <1>15, <1>16, <2>1, <2>2, <2>3, OutsideNext
<1>19. Wrote(trace, m, Top.run)
  <2>1. Wrote(trace, n, b.run)
    BY <1>6, <1>7, <1>12
  <2>2. Wrote(trace, m, b.run)
    BY <1>18, <2>1, WroteOne
  <2> QED
    BY <1>7, <2>2
<1>20. Quiet(m, Top.run)
  <2>1. Quiet(n, b.run)
    BY <1>6, <1>7, <1>14
  <2>2. Quiet(m, b.run)
    BY <1>7, <1>13, <2>1, QuietAfter
  <2> QED
    BY <1>7, <2>2
<1>21. m[Len(m)] = b
  BY <1>13, AddedAfter
<1> HIDE DEF m
<1>22. /\ trace'[Len(trace')].type = "WF_COMPLETE" /\ trace'[Len(trace')].run = Top.run
       /\ trace'[Len(trace')].what = Top.outcome
  BY <1>7, <1>8, <1>21
<1>23. Wrote(trace, trace', Top.run) /\ Quiet(trace', Top.run)
  BY <1>8, <1>19, <1>20
<1>24. Len(stack) # 1 => Len(stack) > 1
  <2>1. Len(stack) \in Nat \ {0}
    BY <1>2
  <2> QED
    BY <2>1
<1>25. ASSUME Len(stack) # 1, stack' = Front(Front(stack)) \o <<f>>
       PROVE  /\ Len(stack) > 1
              /\ \E g \in Frames : /\ Resumed(stack, stack', g) /\ g.place = "inside"
                                   /\ Alike(g, stack[Len(stack) - 1])
  <2>1. Len(stack) > 1
    BY <1>24, <1>25
  <2>2. Last(Front(stack)) = stack[Len(stack) - 1] /\ Last(Front(stack)) \in Frames
    BY <1>2, <2>1, StackReturns
  <2>3. f \in Frames /\ f.place = "inside" /\ Alike(f, Last(Front(stack)))
    BY <2>2 DEF Frames, Alike
  <2> HIDE DEF f
  <2>4. Resumed(stack, stack', f)
    BY <1>2, <1>25, <2>1, <2>3, StackReturns
  <2> QED
    BY <2>1, <2>2, <2>3, <2>4
<1> HIDE DEF f
<1> QED
  BY <1>1, <1>3, <1>22, <1>23, <1>25, CompletedKeeps

-----------------------------------------------------------------------------
(***************************************************************************)
(* A traversal starts.                                                     *)
(***************************************************************************)
LEMMA TraceOpens ==
  ASSUME TraceInv, Kinds, pkg' = pkg, started' = started + 1, Wrote(trace, trace', started + 1)
  PROVE  TraceInv'
<1>1. /\ IsList(trace') /\ DOMAIN trace = 1..Len(trace) /\ DOMAIN trace' = 1..Len(trace')
      /\ Len(trace) \in Nat /\ Len(trace') \in Nat /\ \A i \in 1..Len(trace) : trace'[i] = trace[i]
  BY PrefixFacts DEF Wrote, Prefix
<1>2. ASSUME NEW i \in DOMAIN trace'
      PROVE  trace'[i].run \in 0..started' /\ (trace'[i].run = 0 => trace'[i].type = "ERROR")
  <2>1. CASE i \in DOMAIN trace
    BY <1>1, <2>1 DEF TraceInv, Kinds
  <2>2. CASE i \in (Len(trace) + 1)..Len(trace')
    <3>1. trace'[i].run = started + 1 /\ started \in Nat
      BY <2>2 DEF Wrote, Kinds
    <3> QED
      BY <3>1
  <2> QED
    BY <1>1, <2>1, <2>2
<1>3. \A i \in DOMAIN trace' : EventOK(trace, i)'
  BY SamePackage DEF Wrote
<1> QED
  BY <1>1, <1>2, <1>3 DEF TraceInv

LEMMA StartsKeeps ==
  ASSUME IInv, raised = "none", result = "none", Errors(trace) = {},
         NEW wf \in Workflows, NEW writer, pkg.entry[wf] # None, NEW s, Waiting(s),
         stack' = Append(s, Opened(wf)), trace' = Append(trace, Opening(wf, writer)),
         started' = started + 1, UNCHANGED <<pkg, raised, ran, result>>,
         \A d \in DOMAIN stack : Stays(stack', stack[d])
  PROVE  IInv'
<1> DEFINE f == Opened(wf)
           r == started + 1
<1>1. Kinds /\ StackInv /\ TraceInv /\ RanInv
  BY DEF IInv
<1>2. /\ Wrote(trace, trace', r) /\ f \in Frames /\ FrameOK(trace', f)
      /\ trace' # <<>> /\ Quiet(trace', r)
  BY <1>1, OpensWell
<1>3. f.run = r /\ f.place = "node"
  BY DEF Opened
<1>4. stack' = Append(s, f)
  OBVIOUS
<1> HIDE DEF f
<1>5. r \in Nat /\ \A d \in DOMAIN stack : stack[d].run # r
  BY <1>1 DEF Kinds, StackInv
<1>6. StackInv' /\ FrameInv'
  BY <1>1, <1>2, <1>3, <1>4, TopAdded
<1>7. TraceInv'
  BY <1>1, <1>2, TraceOpens
<1> HIDE DEF r
<1>8. RanInv'
  BY <1>1, <1>2, <1>5, CallsMove
<1>9. Errors(trace') = {}
  BY <1>2, <1>5, ErrorsKept
<1>10. stack' # <<>>
  <2>1. s \in Seq(Frames)
    BY DEF Waiting
  <2> QED
    BY <1>2, <1>4, <2>1, OnTop
<1>11. ErrorInv'
  <2>1. "none" \notin Outcomes
    BY TraversalAssumption
  <2> QED
    BY <1>9, <1>10, <2>1 DEF ErrorInv
<1>12. Kinds'
  <2>1. started' \in Nat
    BY <1>1 DEF Kinds
  <2> QED
    BY <1>1, <1>2, <2>1 DEF Kinds
<1> QED
  BY <1>6, <1>7, <1>8, <1>11, <1>12 DEF IInv

\* What RunWf does, for a workflow with an entry and for one without.
LEMMA RunWfFacts ==
  ASSUME NEW wf, NEW below, RunWf(wf, below)
  PROVE  \/ pkg.entry[wf] = None /\ raised' = "raw" /\ stack' = below /\ UNCHANGED <<trace, started>>
         \/ /\ pkg.entry[wf] # None /\ started' = started + 1
            /\ stack' = Append(below, Opened(wf))
            /\ trace' = Append(trace, Opening(wf, WriterOf(wf, below)))
            /\ UNCHANGED raised
BY DEF RunWf, Opened, Opening

LEMMA InvokeKeeps ==
  ASSUME IInv, Invoke
  PROVE  IInv'
<1> PICK wf \in Workflows : RunWf(wf, <<>>)
  BY DEF Invoke
<1>1. stack = <<>> /\ trace = <<>> /\ raised = "none" /\ result = "none" /\ UNCHANGED <<pkg, ran, result>>
  BY DEF Invoke
<1>2. Kinds /\ StackInv /\ TraceInv /\ RanInv /\ ErrorInv
  BY DEF IInv
<1>3. DOMAIN stack = {} /\ Errors(trace) = {}
  <2>1. DOMAIN trace = {}
    BY <1>1, EmptySeq
  <2> QED
    BY <1>1, <2>1, EmptySeq DEF Errors
<1>4. CASE pkg.entry[wf] # None
  <2>1. /\ stack' = Append(<<>>, Opened(wf)) /\ trace' = Append(trace, Opening(wf, WriterOf(wf, <<>>)))
        /\ started' = started + 1 /\ UNCHANGED raised
    BY <1>4, RunWfFacts
  <2> DEFINE s == <<>>
  <2>2. s \in Seq(Frames) /\ DOMAIN s = {} /\ s = <<>>
    BY EmptySeq
  <2>3. started = 0
    BY <1>1, <1>2 DEF Kinds
  <2> HIDE DEF s
  <2>4. Waiting(s)
    BY <2>2, <2>3 DEF Waiting
  <2>5. stack' = Append(s, Opened(wf))
    BY <2>1, <2>2
  <2> QED
    BY <1>1, <1>3, <1>4, <2>1, <2>4, <2>5, StartsKeeps
<1>5. CASE pkg.entry[wf] = None
  <2>1. raised' = "raw" /\ stack' = <<>> /\ UNCHANGED <<trace, started>>
    BY <1>5, RunWfFacts
  <2>2. StackInv' /\ FrameInv'
    BY <2>1, EmptyStack
  <2>3. TraceInv'
    <3>1. \A i \in DOMAIN trace' : EventOK(trace, i)'
      BY <1>1, <1>2, <2>1, SamePackage DEF TraceInv
    <3> QED
      BY <1>2, <2>1, <3>1 DEF TraceInv
  <2>4. RanInv'
    BY <1>1, <1>2, <2>1 DEF RanInv
  <2>5. ErrorInv'
    <3>1. "none" \notin Outcomes
      BY TraversalAssumption
    <3> QED
      BY <1>1, <1>3, <2>1, <3>1 DEF ErrorInv
  <2>6. Kinds'
    BY <1>1, <1>2, <2>1 DEF Kinds
  <2> QED
    BY <2>2, <2>3, <2>4, <2>5, <2>6 DEF IInv
<1> QED
  BY <1>4, <1>5

LEMMA CallWorkflowKeeps ==
  ASSUME IInv, CallWorkflow
  PROVE  IInv'
<1> DEFINE g == [Top EXCEPT !.place = "calling", !.calls = @ + 1]
           s == Front(stack) \o <<g>>
<1> PICK wf \in Step.calls : RunWf(wf, s)
  BY DEF CallWorkflow
<1>1. stack # <<>> /\ raised = "none" /\ Top.place = "inside" /\ UNCHANGED <<pkg, ran, result>>
  BY AtFacts DEF CallWorkflow
<1>2. /\ Kinds /\ StackInv /\ TraceInv /\ FrameInv /\ Errors(trace) = {} /\ result = "none"
      /\ Len(stack) \in Nat \ {0} /\ DOMAIN stack = 1..Len(stack)
      /\ Top = stack[Len(stack)] /\ Top \in Frames /\ Placed(Top) /\ FrameOK(trace, Top)
      /\ Top.run \in 1..started
  BY <1>1, InRun
<1>3. wf \in Workflows
  <2>1. Len(Pipeline) \in Nat /\ DOMAIN Pipeline = 1..Len(Pipeline) /\ Top.step \in Nat /\ Top.step > 0
        /\ \A i \in DOMAIN Pipeline : IsStep(Pipeline[i])
    BY <1>1, <1>2, PipelineFacts
  <2>2. Top.step <= Len(Pipeline)
    BY <1>1, <1>2 DEF Placed, Pipeline
  <2>3. IsStep(Step)
    BY <2>1, <2>2 DEF Step
  <2> QED
    BY <2>3 DEF IsStep
<1>4. g \in Frames /\ g.place = "calling" /\ Alike(g, Top) /\ g.run = Top.run /\ g.node = Top.node
  <2> DEFINE calls == Top.calls + 1
  <2>1. calls \in Nat
    BY <1>2 DEF Frames
  <2>2. g = [Top EXCEPT !.place = "calling", !.calls = calls]
    OBVIOUS
  <2> HIDE DEF calls, g
  <2> QED
    BY <1>2, <2>1, <2>2 DEF Frames, Alike
<1> HIDE DEF g
<1>5. Replaced(stack, s, g)
  BY <1>1, <1>2, <1>4, StackMoves
<1>6. FrameOK(trace, g) /\ Placed(g)
  BY <1>1, <1>2, <1>4, SameStand
<1> HIDE DEF s
<1>7. CASE pkg.entry[wf] = None
  <2>1. raised' = "raw" /\ stack' = s /\ UNCHANGED <<trace, started>>
    BY <1>7, RunWfFacts
  <2>2. Wrote(trace, trace', Top.run) /\ FrameOK(trace', g) /\ Replaced(stack, stack', g)
    BY <1>2, <1>5, <1>6, <2>1, TraceStays
  <2> QED
    BY <1>1, <1>4, <1>6, <2>1, <2>2, OnwardKeeps
<1>8. CASE pkg.entry[wf] # None
  <2>1. /\ stack' = Append(s, Opened(wf)) /\ trace' = Append(trace, Opening(wf, WriterOf(wf, s)))
        /\ started' = started + 1 /\ UNCHANGED raised
    BY <1>8, RunWfFacts
  <2>2. /\ s \in Seq(Frames) /\ DOMAIN s = 1..Len(stack) /\ Len(s) = Len(stack)
        /\ \A d \in 1..(Len(stack) - 1) : s[d] = stack[d]
        /\ s[Len(stack)] = g
    BY <1>5 DEF Replaced
  <2>3. \A d \in DOMAIN s : d \in DOMAIN stack /\ (d \in 1..(Len(stack) - 1) \/ d = Len(stack))
    BY <1>2, <2>2
  <2>4. \A d \in DOMAIN s : s[d].run = stack[d].run /\ s[d].node = stack[d].node /\ s[d].place = "calling"
    <3> TAKE d \in DOMAIN s
    <3>1. CASE d \in 1..(Len(stack) - 1)
      BY <1>1, <1>2, <2>2, <3>1, TopFacts
    <3>2. CASE d = Len(stack)
      BY <1>2, <1>4, <2>2, <3>2
    <3> QED
      BY <2>3, <3>1, <3>2
  <2>5. \A d \in DOMAIN s : Placed(s[d]) /\ FrameOK(trace, s[d])
    <3> TAKE d \in DOMAIN s
    <3>1. CASE d \in 1..(Len(stack) - 1)
      BY <1>2, <2>2, <2>3, <3>1 DEF StackInv, FrameInv
    <3>2. CASE d = Len(stack)
      BY <1>6, <2>2, <3>2
    <3> QED
      BY <2>3, <3>1, <3>2
  <2>6. Waiting(s)
    <3>1. \A d \in DOMAIN s : s[d].run \in 1..started
      BY <1>2, <2>3, <2>4 DEF StackInv
    <3>2. \A c, d \in DOMAIN s : c < d => s[c].run < s[d].run
      BY <1>2, <2>3, <2>4 DEF StackInv
    <3>3. s # <<>> /\ 1 \in DOMAIN s
      BY <1>2, <2>2, EmptySeq
    <3>4. s[1].run = 1
      BY <1>1, <1>2, <2>4, <3>3 DEF StackInv
    <3> QED
      BY <2>2, <2>4, <2>5, <3>1, <3>2, <3>3, <3>4 DEF Waiting
  <2>7. \A d \in DOMAIN stack : Stays(stack', stack[d])
    <3> TAKE d \in DOMAIN stack
    <3>1. d \in DOMAIN s /\ d \in 1..Len(s) /\ Len(s) \in Nat
      BY <1>2, <2>2
    <3> DEFINE f == Opened(wf)
    <3>2. f \in Frames
      BY <1>2, <1>3, <1>8, OpensWell
    <3> HIDE DEF f
    <3>3. Append(s, f) \in Seq(Frames) /\ Len(Append(s, f)) = Len(s) + 1 /\ \A i \in 1..Len(s) : Append(s, f)[i] = s[i]
      <4>1. s \in Seq(Frames)
        BY <2>2
      <4> QED
        BY <3>2, <4>1, OnTop
    <3>4. DOMAIN Append(s, f) = 1..(Len(s) + 1)
      BY <3>3, LenProperties
    <3>5. stack' = Append(s, f)
      BY <2>1 DEF f
    <3>6. d \in DOMAIN stack' /\ stack'[d] = s[d]
      BY <3>1, <3>3, <3>4, <3>5
    <3> QED
      BY <2>4, <3>1, <3>6 DEF Stays
  <2> QED
    BY <1>1, <1>2, <1>3, <1>8, <2>1, <2>6, <2>7, StartsKeeps
<1> QED
  BY <1>7, <1>8

-----------------------------------------------------------------------------
(***************************************************************************)
(* The announcements of a contract that has completed, written together.   *)
(***************************************************************************)
MomentsDue(f) == IF f.outcome \in DOMAIN pkg.emits[f.node] THEN pkg.emits[f.node][f.outcome] ELSE <<>>

\* n goes on from t with announcements m of a frame, or with the first of them.
Announces(t, n, m, f) ==
    /\ IsList(t) /\ IsList(n) /\ Len(m) \in Nat
    /\ Len(n) = Len(t) + Len(m) /\ \A i \in 1..Len(t) : n[i] = t[i]
    /\ \A k \in 1..Len(m) : /\ n[Len(t) + k].type = "EVENT" /\ n[Len(t) + k].run = f.run
                            /\ n[Len(t) + k].node = f.node /\ n[Len(t) + k].what = m[k]
                            /\ k \in DOMAIN MomentsDue(f) /\ MomentsDue(f)[k] = m[k]

LEMMA AnnouncesFacts ==
  ASSUME NEW t, NEW n, NEW m, NEW f, Announces(t, n, m, f), JustCompleted(t, f)
  PROVE  /\ Prefix(t, n) /\ Len(t) \in Nat \ {0} /\ Len(n) \in Nat /\ DOMAIN t = 1..Len(t) /\ DOMAIN n = 1..Len(n)
         /\ \A i \in DOMAIN t : n[i] = t[i] /\ i \in DOMAIN n
         /\ \A i \in DOMAIN n : i \in DOMAIN t \/ i \in (Len(t) + 1)..Len(n)
         /\ \A i \in (Len(t) + 1)..Len(n) : /\ n[i].type = "EVENT" /\ n[i].run = f.run /\ n[i].node = f.node
                                            /\ i - Len(t) \in DOMAIN MomentsDue(f) /\ MomentsDue(f)[i - Len(t)] = n[i].what
         /\ n[Len(t)].type = "CC_COMPLETE" /\ n[Len(t)].run = f.run /\ n[Len(t)].node = f.node
         /\ SealedMoments(n[Len(t)]) = MomentsDue(f)
<1>1. /\ Len(t) \in Nat /\ Len(n) \in Nat /\ DOMAIN t = 1..Len(t) /\ DOMAIN n = 1..Len(n)
      /\ Len(m) \in Nat /\ Len(n) = Len(t) + Len(m) /\ \A i \in 1..Len(t) : n[i] = t[i]
  BY ListFacts DEF Announces
<1>2. /\ Len(t) \in DOMAIN t /\ t[Len(t)].run = f.run /\ t[Len(t)].type = "CC_COMPLETE"
      /\ t[Len(t)].node = f.node /\ t[Len(t)].what = f.outcome
  BY DEF JustCompleted, Owned
<1>3. Prefix(t, n)
  BY <1>1 DEF Prefix, Announces
<1>4. \A i \in (Len(t) + 1)..Len(n) :
         /\ n[i].type = "EVENT" /\ n[i].run = f.run /\ n[i].node = f.node
         /\ i - Len(t) \in DOMAIN MomentsDue(f) /\ MomentsDue(f)[i - Len(t)] = n[i].what
  <2> TAKE i \in (Len(t) + 1)..Len(n)
  <2>1. i - Len(t) \in 1..Len(m) /\ Len(t) + (i - Len(t)) = i
    BY <1>1
  <2> QED
    BY <2>1 DEF Announces
<1>5. \A i \in DOMAIN n : i \in DOMAIN t \/ i \in (Len(t) + 1)..Len(n)
  BY <1>1
<1>6. \A i \in DOMAIN t : n[i] = t[i] /\ i \in DOMAIN n
  BY <1>1
<1>7. n[Len(t)] = t[Len(t)] /\ Len(t) \in Nat \ {0}
  BY <1>1, <1>2
<1>8. SealedMoments(n[Len(t)]) = MomentsDue(f)
  BY <1>2, <1>7 DEF SealedMoments, MomentsDue
<1> QED
  BY <1>1, <1>2, <1>3, <1>4, <1>5, <1>6, <1>7, <1>8

\* Whatever of a traversal comes after its contract completed is outside it,
\* and nothing but that completion is being announced.
LEMMA AnnouncingOne ==
  ASSUME NEW t, NEW n, NEW m, NEW f, Announces(t, n, m, f), JustCompleted(t, f)
  PROVE  /\ \A j \in DOMAIN n, i \in (Len(t) + 1)..(Len(n) + 1) :
               Announcing(n, j, i - 1) /\ j < i => j = Len(t)
         /\ \A i \in (Len(t) + 1)..(Len(n) + 1) : Announcing(n, Len(t), i - 1)
<1>1. /\ Len(t) \in Nat \ {0} /\ Len(n) \in Nat /\ DOMAIN t = 1..Len(t) /\ DOMAIN n = 1..Len(n)
      /\ \A i \in DOMAIN n : i \in DOMAIN t \/ i \in (Len(t) + 1)..Len(n)
      /\ \A i \in (Len(t) + 1)..Len(n) : n[i].type = "EVENT"
      /\ n[Len(t)].type = "CC_COMPLETE"
  BY AnnouncesFacts
<1>2. ASSUME NEW j \in DOMAIN n, NEW i \in (Len(t) + 1)..(Len(n) + 1), Announcing(n, j, i - 1), j < i, j # Len(t)
      PROVE  FALSE
  <2>1. n[j].type = "CC_COMPLETE" /\ \A k \in (j + 1)..(i - 1) : n[k].type = "EVENT"
    BY <1>2 DEF Announcing
  <2>2. j \in DOMAIN t
    BY <1>1, <2>1
  <2>3. Len(t) \in (j + 1)..(i - 1)
    BY <1>1, <1>2, <2>2
  <2> QED
    BY <1>1, <2>1, <2>3
<1>3. ASSUME NEW i \in (Len(t) + 1)..(Len(n) + 1) PROVE Announcing(n, Len(t), i - 1)
  <2>1. \A k \in (Len(t) + 1)..(i - 1) : k \in (Len(t) + 1)..Len(n)
    BY <1>1
  <2> QED
    BY <1>1, <2>1 DEF Announcing
<1> QED
  BY <1>2, <1>3

LEMMA AnnouncementOK ==
  ASSUME NEW t, NEW n, NEW m, NEW f, Announces(t, n, m, f), JustCompleted(t, f), Quiet(t, f.run),
         NEW i \in (Len(t) + 1)..Len(n)
  PROVE  EventOK(n, i)
<1>1. /\ Len(t) \in Nat \ {0} /\ Len(n) \in Nat /\ DOMAIN t = 1..Len(t) /\ DOMAIN n = 1..Len(n)
      /\ \A j \in DOMAIN t : n[j] = t[j]
      /\ \A j \in DOMAIN n : j \in DOMAIN t \/ j \in (Len(t) + 1)..Len(n)
      /\ n[Len(t)].type = "CC_COMPLETE" /\ n[Len(t)].run = f.run /\ n[Len(t)].node = f.node
      /\ SealedMoments(n[Len(t)]) = MomentsDue(f)
  BY AnnouncesFacts
<1>2. \A j \in (Len(t) + 1)..Len(n) : n[j].type = "EVENT"
  BY AnnouncesFacts
<1>3. /\ n[i].type = "EVENT" /\ n[i].run = f.run /\ n[i].node = f.node
      /\ i - Len(t) \in DOMAIN MomentsDue(f) /\ MomentsDue(f)[i - Len(t)] = n[i].what
  BY AnnouncesFacts
<1>4. i \in Nat /\ Len(t) \in 1..(i - 1) /\ Len(t) \in Earlier(n, i)
  BY <1>1, <1>3 DEF Earlier
<1>5. \A j \in Earlier(n, i) : j \in DOMAIN n /\ n[j].run = f.run /\ j \in 1..(i - 1)
  BY <1>1, <1>3 DEF Earlier
<1>6. PathSealed(n, i)
  BY <1>3 DEF PathSealed
<1>7. StepsSealed(n, i)
  <2>1. ~InPipeline(n[i])
    BY <1>3 DEF InPipeline
  <2>2. ASSUME NEW j \in Earlier(n, i), Latest(j, Earlier(n, i)) PROVE ~InContract(n[j])
    <3>1. Len(t) <= j
      BY <1>4, <2>2 DEF Latest
    <3>2. j = Len(t) \/ j \in (Len(t) + 1)..Len(n)
      BY <1>1, <1>5, <3>1
    <3>3. n[j].type \in {"CC_COMPLETE", "EVENT"}
      BY <1>1, <1>2, <3>2
    <3> QED
      BY <3>3 DEF InContract, InPipeline
  <2> QED
    BY <1>3, <2>1, <2>2 DEF StepsSealed
<1>8. AnnouncementsSealed(n, i)
  <2>1. Announcing(n, Len(t), i - 1)
    <3>1. i \in (Len(t) + 1)..(Len(n) + 1)
      BY <1>1
    <3> QED
      BY <3>1, AnnouncingOne
  <2>2. /\ n[Len(t)].node = n[i].node
        /\ i - Len(t) \in DOMAIN SealedMoments(n[Len(t)])
        /\ n[i].what = SealedMoments(n[Len(t)])[i - Len(t)]
    BY <1>1, <1>3
  <2> QED
    BY <1>3, <1>4, <2>1, <2>2 DEF AnnouncementsSealed
<1>9. RefusalSealed(n, i)
  <2>1. \A j \in Earlier(n, i) : n[j].type # "ERROR"
    <3> TAKE j \in Earlier(n, i)
    <3>1. CASE j \in DOMAIN t
      <4>1. j \in Owned(t, f.run)
        BY <1>1, <1>5, <3>1 DEF Owned
      <4> QED
        BY <1>1, <3>1, <4>1 DEF Quiet
    <3>2. CASE j \in (Len(t) + 1)..Len(n)
      BY <1>2, <3>2
    <3> QED
      BY <1>1, <1>5, <3>1, <3>2
  <2> QED
    BY <2>1 DEF RefusalSealed
<1> QED
  BY <1>3, <1>6, <1>7, <1>8, <1>9 DEF EventOK, EventTypes

LEMMA AnnouncedWell ==
  ASSUME NEW t, NEW n, NEW m, NEW f, Announces(t, n, m, f), JustCompleted(t, f), Quiet(t, f.run),
         \A i \in DOMAIN t : EventOK(t, i)
  PROVE  Wrote(t, n, f.run) /\ Quiet(n, f.run) /\ Outside(n, f.run)
<1>1. /\ Len(t) \in Nat \ {0} /\ Len(n) \in Nat /\ DOMAIN t = 1..Len(t) /\ DOMAIN n = 1..Len(n)
      /\ Prefix(t, n)
      /\ \A j \in DOMAIN t : n[j] = t[j]
      /\ \A j \in DOMAIN n : j \in DOMAIN t \/ j \in (Len(t) + 1)..Len(n)
      /\ n[Len(t)].type = "CC_COMPLETE" /\ n[Len(t)].run = f.run
      /\ Len(n) >= Len(t)
  BY AnnouncesFacts DEF Prefix
<1>2. \A j \in (Len(t) + 1)..Len(n) : n[j].type = "EVENT" /\ n[j].run = f.run
  BY AnnouncesFacts
<1>3. \A i \in DOMAIN n : EventOK(n, i)
  <2>1. \A i \in DOMAIN t : EventOK(n, i)
    BY <1>1, EventKept
  <2>2. \A i \in (Len(t) + 1)..Len(n) : EventOK(n, i)
    BY AnnouncementOK
  <2> QED
    BY <1>1, <2>1, <2>2
<1>4. ASSUME NEW q, q # f.run PROVE Settled(n, q)
  <2> SUFFICES ASSUME NEW j \in Owned(n, q), Announcing(n, j, Len(n)) PROVE FALSE
    BY DEF Settled
  <2>1. j \in DOMAIN n /\ n[j].run # f.run
    BY <1>4 DEF Owned
  <2>2. Len(n) + 1 \in (Len(t) + 1)..(Len(n) + 1) /\ (Len(n) + 1) - 1 = Len(n) /\ j < Len(n) + 1
    BY <1>1, <2>1
  <2>3. j = Len(t)
    BY <2>1, <2>2, AnnouncingOne
  <2> QED
    BY <1>1, <2>1, <2>3
<1>5. Wrote(t, n, f.run)
  BY <1>1, <1>2, <1>3, <1>4 DEF Wrote
<1>6. Quiet(n, f.run)
  <2> SUFFICES ASSUME NEW j \in DOMAIN n, n[j].run = f.run PROVE n[j].type # "ERROR"
    BY DEF Quiet, Owned
  <2>1. CASE j \in DOMAIN t
    BY <1>1, <2>1 DEF Quiet, Owned
  <2>2. CASE j \in (Len(t) + 1)..Len(n)
    BY <1>2, <2>2
  <2> QED
    BY <1>1, <2>1, <2>2
<1>7. Outside(n, f.run)
  <2> SUFFICES ASSUME NEW j \in Owned(n, f.run), Latest(j, Owned(n, f.run)) PROVE ~InContract(n[j])
    BY DEF Outside
  <2>1. Len(t) \in Owned(n, f.run) /\ j \in DOMAIN n
    BY <1>1 DEF Owned
  <2>2. Len(t) <= j
    BY <2>1 DEF Latest
  <2>3. j = Len(t) \/ j \in (Len(t) + 1)..Len(n)
    BY <1>1, <2>1, <2>2
  <2>4. n[j].type \in {"CC_COMPLETE", "EVENT"}
    BY <1>1, <1>2, <2>3
  <2> QED
    BY <2>4 DEF InContract, InPipeline
<1> QED
  BY <1>5, <1>6, <1>7

\* All of them have been announced.
LEMMA AllAnnounced ==
  ASSUME NEW t, NEW n, NEW m, NEW f, Announces(t, n, m, f), JustCompleted(t, f), Len(m) = Len(MomentsDue(f))
  PROVE  /\ Settled(n, f.run)
         /\ \A node, outcome : Decided(t, f.run, node, outcome) => Decided(n, f.run, node, outcome)
<1>1. /\ Len(t) \in Nat \ {0} /\ Len(n) \in Nat /\ DOMAIN t = 1..Len(t) /\ DOMAIN n = 1..Len(n)
      /\ \A j \in DOMAIN t : n[j] = t[j] /\ j \in DOMAIN n
      /\ \A j \in DOMAIN n : j \in DOMAIN t \/ j \in (Len(t) + 1)..Len(n)
      /\ SealedMoments(n[Len(t)]) = MomentsDue(f)
  BY AnnouncesFacts
<1>2. \A j \in (Len(t) + 1)..Len(n) : n[j].type = "EVENT"
  BY AnnouncesFacts
<1>3. Len(m) \in Nat /\ Len(n) = Len(t) + Len(m)
  BY DEF Announces
<1>4. Settled(n, f.run)
  <2> SUFFICES ASSUME NEW j \in Owned(n, f.run), Announcing(n, j, Len(n))
               PROVE  Len(n) - j = Len(SealedMoments(n[j]))
    BY DEF Settled
  <2>1. j \in DOMAIN n
    BY DEF Owned
  <2>2. Len(n) + 1 \in (Len(t) + 1)..(Len(n) + 1) /\ (Len(n) + 1) - 1 = Len(n) /\ j < Len(n) + 1
    BY <1>1, <1>3, <2>1
  <2>3. j = Len(t)
    BY <2>1, <2>2, AnnouncingOne
  <2>4. Len(n) - Len(t) = Len(m)
    BY <1>1, <1>3
  <2> QED
    BY <1>1, <2>3, <2>4
<1>5. Turns(n, f.run) = Turns(t, f.run)
  <2>1. \A j \in (Len(t) + 1)..Len(n) : ~IsTurn(n[j])
    BY <1>2 DEF IsTurn, Determines, Admission
  <2> QED
    BY <1>1, <2>1 DEF Turns, Owned
<1>6. \A j \in Turns(t, f.run) : n[j] = t[j]
  BY <1>1 DEF Turns, Owned
<1> QED
  BY <1>4, <1>5, <1>6 DEF Decided

LEMMA EventsForFacts ==
  ASSUME NEW S, NEW m \in Seq(S)
  PROVE  /\ IsList(EventsFor(m)) /\ Len(EventsFor(m)) = Len(m)
         /\ \A k \in 1..Len(m) : EventsFor(m)[k] = Event("EVENT", m[k], None)
<1> DEFINE n == EventsFor(m)
           e(k) == Event("EVENT", m[k], None)
<1>1. DOMAIN m = 1..Len(m) /\ Len(m) \in Nat
  BY LenProperties
<1>2. n = [k \in 1..Len(m) |-> e(k)]
  BY <1>1 DEF EventsFor
<1> HIDE DEF n, e
<1>3. DOMAIN n = 1..Len(m) /\ \A k \in 1..Len(m) : n[k] = e(k)
  BY <1>2
<1>4. n = [k \in 1..Len(m) |-> n[k]]
  BY <1>2
<1>5. \A k \in 1..Len(m) : n[k] \in {n[j] : j \in DOMAIN n}
  BY <1>3
<1>6. n \in Seq({n[j] : j \in DOMAIN n})
  BY <1>1, <1>4, <1>5, IsASeq
<1>7. Len(n) = Len(m)
  BY <1>1, <1>3, <1>6, LenProperties
<1> QED
  BY <1>3, <1>6, <1>7 DEF IsList, n, e

LEMMA SealedFacts ==
  ASSUME Kinds, Top \in Frames
  PROVE  Announced = MomentsDue(Top) /\ MomentsDue(Top) \in Seq(Moments \cup {Absent})
<1>1. WellTyped(pkg) /\ Top.node \in Nodes
  BY TraversalAssumption DEF Kinds, Frames
<1>2. Table(pkg.emits[Top.node], Outcomes, Seq(Moments \cup {Absent}))
  BY <1>1 DEF WellTyped
<1>3. <<>> \in Seq(Moments \cup {Absent})
  BY EmptySeq
<1> QED
  BY <1>2, <1>3 DEF Announced, MomentsDue, Table

\* What is written of the moments, all of them or the first.
LEMMA MomentsWritten ==
  ASSUME IsList(trace), Kinds, Top \in Frames, NEW m \in Seq(Moments \cup {Absent}),
         \A k \in 1..Len(m) : k \in DOMAIN MomentsDue(Top) /\ MomentsDue(Top)[k] = m[k]
  PROVE  Announces(trace, trace \o EventsFor(m), m, Top)
<1> DEFINE events == EventsFor(m)
           n == trace \o events
<1>1. /\ IsList(events) /\ Len(events) = Len(m)
      /\ \A k \in 1..Len(m) : events[k] = Event("EVENT", m[k], None)
  BY EventsForFacts
<1>2. \A k \in 1..Len(m) : /\ events[k].type = "EVENT" /\ events[k].run = Top.run
                           /\ events[k].node = Top.node /\ events[k].what = m[k]
  BY <1>1, EventFacts
<1>3. Len(m) \in Nat
  BY LenProperties
<1> HIDE DEF events
<1>4. /\ IsList(n) /\ Len(n) = Len(trace) + Len(events)
      /\ \A i \in 1..Len(trace) : n[i] = trace[i]
      /\ \A k \in 1..Len(events) : n[Len(trace) + k] = events[k]
  <2>1. IsList(events)
    BY <1>1
  <2> QED
    BY <2>1, ListConcat
<1> HIDE DEF n
<1>5. Announces(trace, n, m, Top)
  BY <1>1, <1>2, <1>3, <1>4 DEF Announces
<1> QED
  BY <1>5 DEF n, events

LEMMA AnnounceKeeps ==
  ASSUME IInv, Announce
  PROVE  IInv'
<1> DEFINE f == [Top EXCEPT !.place = "route"]
           m == MomentsDue(Top)
           n == trace \o EventsFor(m)
<1>1. stack # <<>> /\ raised = "none" /\ Top.place = "announce" /\ GoOn(EventsFor(Announced), f)
  BY AtFacts DEF Announce
<1>2. Kinds /\ StackInv /\ TraceInv /\ IsList(trace) /\ Top \in Frames /\ FrameOK(trace, Top)
  BY <1>1, InRun
<1>3. /\ JustCompleted(trace, Top) /\ Quiet(trace, Top.run)
      /\ Decided(trace, Top.run, Top.node, Top.outcome)
  BY <1>1, <1>2 DEF FrameOK
<1>4. f \in Frames /\ f.run = Top.run /\ f.node = Top.node /\ f.outcome = Top.outcome /\ f.place = "route"
  BY <1>2 DEF Frames
<1>5. trace' = n /\ stack' = Front(stack) \o <<f>> /\ UNCHANGED <<pkg, raised, started, ran, result>>
  BY <1>1, <1>2, SealedFacts DEF GoOn, Write, SetTop
<1> HIDE DEF f
<1>6. m \in Seq(Moments \cup {Absent}) /\ DOMAIN m = 1..Len(m)
  <2>1. m \in Seq(Moments \cup {Absent})
    BY <1>2, SealedFacts
  <2> QED
    BY <2>1, LenProperties
<1>7. Announces(trace, n, m, Top)
  <2>1. \A k \in 1..Len(m) : k \in DOMAIN MomentsDue(Top) /\ MomentsDue(Top)[k] = m[k]
    BY <1>6
  <2> QED
    BY <1>2, <1>6, <2>1, MomentsWritten
<1> HIDE DEF n
<1>8. Wrote(trace, n, Top.run) /\ Quiet(n, Top.run) /\ Outside(n, Top.run)
  BY <1>2, <1>3, <1>7, AnnouncedWell DEF TraceInv
<1>9. Settled(n, Top.run) /\ Decided(n, Top.run, Top.node, Top.outcome)
  BY <1>3, <1>7, AllAnnounced
<1>10. FrameOK(n, f)
  BY <1>4, <1>8, <1>9 DEF FrameOK
<1>11. Placed(f)
  BY <1>4 DEF Placed
<1>12. Replaced(stack, stack', f)
  BY <1>1, <1>2, <1>4, <1>5, StackMoves
<1>13. Wrote(trace, trace', Top.run) /\ FrameOK(trace', f)
  BY <1>5, <1>8, <1>10
<1>14. UNCHANGED <<pkg, started, ran, result>> /\ raised' \in {"none", "raw"} /\ (f.place = "calling" <=> raised' # "none")
  BY <1>1, <1>4, <1>5
<1>15. Top.place \notin {"inside", "calling"}
  BY <1>1
<1> QED
  BY <1>1, <1>4, <1>11, <1>12, <1>13, <1>14, <1>15, OnwardKeeps

LEMMA SurfaceUnwritableKeeps ==
  ASSUME IInv, SurfaceUnwritable
  PROVE  IInv'
<1>1. stack # <<>> /\ raised = "none" /\ Top.place = "announce"
  BY AtFacts DEF SurfaceUnwritable
<1> PICK k \in DOMAIN Announced : Escape(EventsFor(SubSeq(Announced, 1, k - 1)))
  BY DEF SurfaceUnwritable
<1> DEFINE m == SubSeq(Announced, 1, k - 1)
           n == trace \o EventsFor(m)
<1>2. Kinds /\ StackInv /\ TraceInv /\ IsList(trace) /\ Top \in Frames /\ FrameOK(trace, Top)
  BY <1>1, InRun
<1>3. /\ JustCompleted(trace, Top) /\ Quiet(trace, Top.run)
  BY <1>1, <1>2 DEF FrameOK
<1>4. /\ trace' = n /\ stack' = Front(stack) /\ raised' = "raw"
      /\ UNCHANGED <<pkg, started, ran, result>>
  BY DEF Escape, Write
<1>5. /\ Announced = MomentsDue(Top) /\ Announced \in Seq(Moments \cup {Absent})
      /\ DOMAIN Announced = 1..Len(Announced) /\ Len(Announced) \in Nat
  <2>1. Announced = MomentsDue(Top) /\ Announced \in Seq(Moments \cup {Absent})
    BY <1>2, SealedFacts
  <2> QED
    BY <2>1, LenProperties
<1>6. /\ m \in Seq(Moments \cup {Absent}) /\ Len(m) = k - 1
      /\ \A i \in 1..(k - 1) : m[i] = Announced[i] /\ i \in DOMAIN Announced
  <2> DEFINE s == Announced
             l == k - 1
             S == Moments \cup {Absent}
  <2>1. s \in Seq(S) /\ l \in 0..Len(s) /\ k \in Nat
    BY <1>5
  <2> HIDE DEF s, l, S
  <2>3. /\ SubSeq(s, 1, l) \in Seq(S)
        /\ Len(SubSeq(s, 1, l)) = IF 1 <= l THEN l - 1 + 1 ELSE 0
        /\ \A i \in 1..(l - 1 + 1) : SubSeq(s, 1, l)[i] = s[1 + i - 1]
    <3>1. \A i \in 1..l : s[i] \in S
      BY <2>1, LenProperties, ElementOfSeq
    <3>2. 1 \in Int /\ l \in Int
      BY <2>1, LenProperties
    <3> QED
      BY <3>1, <3>2, SubSeqProperties
  <2>4. l \in Nat /\ (l - 1) + 1 = l /\ (1 <= l \/ l = 0)
    BY <2>1
  <2>5. Len(SubSeq(s, 1, l)) = l
    BY <2>3, <2>4
  <2>6. \A i \in 1..l : SubSeq(s, 1, l)[i] = s[i]
    BY <2>3, <2>4
  <2>7. \A i \in 1..l : i \in DOMAIN s
    <3>1. DOMAIN s = 1..Len(s) /\ Len(s) \in Nat
      BY <1>5 DEF s
    <3> QED
      BY <2>1, <3>1
  <2>8. SubSeq(s, 1, l) = m
    BY DEF s, l
  <2> HIDE DEF m
  <2>9. m \in Seq(S) /\ Len(m) = l /\ \A i \in 1..l : m[i] = s[i] /\ i \in DOMAIN s
    BY <2>3, <2>5, <2>6, <2>7, <2>8
  <2> QED
    BY <2>9 DEF s, l, S
<1> HIDE DEF m
<1>7. Announces(trace, n, m, Top)
  <2>1. \A i \in 1..Len(m) : i \in DOMAIN MomentsDue(Top) /\ MomentsDue(Top)[i] = m[i]
    BY <1>5, <1>6
  <2> QED
    BY <1>2, <1>6, <2>1, MomentsWritten
<1> HIDE DEF n
<1>8. Wrote(trace, n, Top.run) /\ Quiet(n, Top.run)
  BY <1>2, <1>3, <1>7, AnnouncedWell DEF TraceInv
<1>9. Removed(stack, stack')
  BY <1>1, <1>2, <1>4, StackMoves
<1>10. Wrote(trace, trace', Top.run) /\ Quiet(trace', Top.run)
  BY <1>4, <1>8
<1>11. Top.place \notin {"inside", "calling"}
  BY <1>1
<1> QED
  BY <1>1, <1>4, <1>9, <1>10, <1>11, LeftKeeps

-----------------------------------------------------------------------------
(***************************************************************************)
(* The invariant holds.                                                    *)
(***************************************************************************)
LEMMA InitEstablishes ==
  ASSUME Init
  PROVE  IInv
<1>1. /\ pkg \in Packages /\ stack = <<>> /\ raised = "none" /\ trace = <<>> /\ started = 0
      /\ ran = <<>> /\ result = "none"
  BY DEF Init
<1>2. /\ DOMAIN stack = {} /\ stack \in Seq(Frames)
      /\ DOMAIN trace = {} /\ IsList(trace) /\ DOMAIN ran = {} /\ IsList(ran)
  BY <1>1, EmptySeq, EmptyList
<1>3. "none" \notin Outcomes
  BY TraversalAssumption
<1>4. Kinds
  BY <1>1 DEF Kinds
<1>5. StackInv /\ TraceInv /\ FrameInv /\ RanInv
  BY <1>1, <1>2 DEF StackInv, TraceInv, FrameInv, RanInv
<1>6. ErrorInv
  BY <1>1, <1>2, <1>3 DEF ErrorInv, Errors
<1> QED
  BY <1>4, <1>5, <1>6 DEF IInv

LEMMA NextKeeps ==
  ASSUME IInv, Next
  PROVE  IInv'
<1>1. CASE Invoke
  BY <1>1, InvokeKeeps
<1>2. CASE SchedulerStep
  <2>1. CASE TooManyHops
    BY <2>1, TooManyHopsKeeps
  <2>2. CASE BindingFails
    BY <2>2, BindingFailsKeeps
  <2>3. CASE StartContract
    BY <2>3, StartContractKeeps
  <2>4. CASE InputsUnwritable
    BY <2>4, InputsUnwritableKeeps
  <2>5. CASE Admit
    BY <2>5, AdmitKeeps
  <2>6. CASE NoAdmissionContract
    BY <2>6, NoAdmissionContractKeeps
  <2>7. CASE Announce
    BY <2>7, AnnounceKeeps
  <2>8. CASE SurfaceUnwritable
    BY <2>8, SurfaceUnwritableKeeps
  <2>9. CASE RouteOn
    BY <2>9, RouteOnKeeps
  <2>10. CASE RouteToEnding
    BY <2>10, RouteToEndingKeeps
  <2>11. CASE RouteNowhere
    BY <2>11, RouteNowhereKeeps
  <2> QED
    BY <1>2, <2>1, <2>2, <2>3, <2>4, <2>5, <2>6, <2>7, <2>8, <2>9, <2>10, <2>11 DEF SchedulerStep
<1>3. CASE DispatcherStep
  <2>1. CASE StepFails
    BY <2>1, StepFailsKeeps
  <2>2. CASE HandlerMissing
    BY <2>2, HandlerMissingKeeps
  <2>3. CASE RunCapability
    BY <2>3, RunCapabilityKeeps
  <2>4. CASE CallWorkflow
    BY <2>4, CallWorkflowKeeps
  <2>5. CASE CapabilityFails
    BY <2>5, CapabilityFailsKeeps
  <2>6. CASE EndStep
    BY <2>6, EndStepKeeps
  <2>7. CASE CompleteContract
    BY <2>7, CompleteContractKeeps
  <2> QED
    BY <1>3, <2>1, <2>2, <2>3, <2>4, <2>5, <2>6, <2>7 DEF DispatcherStep
<1>4. CASE ExceptionStep
  <2>1. CASE Catch
    BY <2>1, CatchKeeps
  <2>2. CASE LetThrough
    BY <2>2, LetThroughKeeps
  <2>3. CASE Surface
    BY <2>3, SurfaceKeeps
  <2> QED
    BY <1>4, <2>1, <2>2, <2>3 DEF ExceptionStep
<1>5. CASE Kill
  BY <1>5, KillKeeps
<1> QED
  BY <1>1, <1>2, <1>3, <1>4, <1>5 DEF Next, RunStep

LEMMA StutterKeeps ==
  ASSUME IInv, UNCHANGED vars
  PROVE  IInv'
<1>1. UNCHANGED <<pkg, stack, raised, trace, started, ran, result>>
  BY DEF vars
<1>2. Kinds /\ StackInv /\ TraceInv /\ FrameInv /\ RanInv /\ ErrorInv
  BY DEF IInv
<1>3. Kinds'
  BY <1>1, <1>2 DEF Kinds
<1>4. StackInv'
  <2>1. \A d \in DOMAIN stack' : Placed(stack[d])'
    BY <1>1, <1>2, SamePackage DEF StackInv
  <2> QED
    BY <1>1, <1>2, <2>1 DEF StackInv
<1>5. TraceInv'
  <2>1. \A i \in DOMAIN trace' : EventOK(trace, i)'
    BY <1>1, <1>2, SamePackage DEF TraceInv
  <2> QED
    BY <1>1, <1>2, <2>1 DEF TraceInv
<1>6. FrameInv'
  <2>1. \A d \in DOMAIN stack' : FrameOK(trace', stack'[d])
    BY <1>1, <1>2 DEF FrameInv
  <2> QED
    BY <1>1, <2>1, SamePackage
<1>7. RanInv'
  BY <1>1, <1>2 DEF RanInv
<1>8. ErrorInv'
  BY <1>1, <1>2 DEF ErrorInv
<1> QED
  BY <1>3, <1>4, <1>5, <1>6, <1>7, <1>8 DEF IInv

\* Every traversal in progress stands to the trace as its frame says, and every
\* event of the trace is sealed, in every state of a run.
THEOREM Invariance == Spec => []IInv
<1>1. IInv /\ [Next]_vars => IInv'
  BY NextKeeps, StutterKeeps
<1> QED
  BY <1>1, InitEstablishes, PTL DEF Spec

\* The stack, the trace and the calls on record are what they are taken for.
THEOREM TypeCorrect == Spec => []TypeOK
<1>1. IInv => TypeOK
  BY DEF IInv, Kinds, StackInv, TraceInv, RanInv, EventOK, TypeOK
<1> QED
  BY <1>1, Invariance, PTL

\* ARCHITECTURE.md:203: whatever the package, the steps and the workflows inside
\* workflows, the path in the trace is a path of the compiled graph.
THEOREM PathAlwaysSealed == Spec => []PathIsSealed
<1>1. IInv => PathIsSealed
  BY DEF IInv, TraceInv, EventOK, PathIsSealed
<1> QED
  BY <1>1, Invariance, PTL

\* dispatcher.execute_cc runs the steps of the sealed pipeline, in their order,
\* and ends them where the contract says.
THEOREM StepsAlwaysSealed == Spec => []StepsAreSealed
<1>1. IInv => StepsAreSealed
  BY DEF IInv, TraceInv, EventOK, StepsAreSealed
<1> QED
  BY <1>1, Invariance, PTL

\* What is announced after a contract are its sealed moments, in their order,
\* and no traversal goes on before all were.
THEOREM AnnouncementsAlwaysSealed == Spec => []AnnouncementsAreSealed
<1>1. IInv => AnnouncementsAreSealed
  BY DEF IInv, TraceInv, EventOK, AnnouncementsAreSealed
<1> QED
  BY <1>1, Invariance, PTL

\* A traversal that has refused runs nothing more.
THEOREM NothingEverAfterRefusal == Spec => []NothingAfterRefusal
<1>1. ASSUME IInv PROVE NothingAfterRefusal
  <2>1. \A i \in DOMAIN trace : RefusalSealed(trace, i)
    BY <1>1 DEF IInv, TraceInv, EventOK
  <2>2. \A i \in DOMAIN trace : trace[i].type = "ERROR" =>
           \A k \in DOMAIN ran : ran[k].run = trace[i].run => ran[k].after < i
    BY <1>1 DEF IInv, RanInv
  <2> QED
    BY <2>1, <2>2 DEF RefusalSealed, NothingAfterRefusal
<1> QED
  BY <1>1, Invariance, PTL

\* A run that raised has one failure of its own on record, and one that returned
\* has none and ends with the completion of the outcome it returned.
THEOREM FailureAlwaysRecordedOnce == Spec => []FailureIsRecordedOnce
<1>1. ASSUME IInv PROVE FailureIsRecordedOnce
  <2> DEFINE errors == {i \in DOMAIN trace : trace[i].type = "ERROR" /\ trace[i].run <= 1}
  <2>1. errors = Errors(trace)
    BY DEF Errors
  <2>2. ErrorInv
    BY <1>1 DEF IInv
  <2> HIDE DEF errors
  <2>3. result = "raised" => Cardinality(errors) = 1
    <3> SUFFICES ASSUME result = "raised" PROVE Cardinality(errors) = 1
      OBVIOUS
    <3> PICK i \in DOMAIN trace : Errors(trace) = {i}
      BY <2>2 DEF ErrorInv
    <3> QED
      BY <2>1, FS_Singleton
  <2>4. result \in Outcomes =>
           /\ errors = {}
           /\ Last(trace).type = "WF_COMPLETE" /\ Last(trace).run = 1 /\ Last(trace).what = result
    BY <2>1, <2>2 DEF ErrorInv, Last
  <2> QED
    BY <2>3, <2>4 DEF FailureIsRecordedOnce, errors
<1> QED
  BY <1>1, Invariance, PTL

\* The trace says of every capability that was called that it was, unless the
\* process was killed, whatever the call ran itself.
THEOREM EffectsAlwaysRecorded == Spec => []EffectsAreRecorded
<1>1. ASSUME IInv PROVE EffectsAreRecorded
  <2> SUFFICES ASSUME result \in Outcomes \cup {"raised"}, NEW k \in DOMAIN ran
               PROVE  Recorded(trace, ran[k])
    BY DEF EffectsAreRecorded, Recorded
  <2>1. result # "killed" /\ result # "none"
    BY TraversalAssumption
  <2>2. stack = <<>>
    BY <1>1, <2>1 DEF IInv, StackInv
  <2>3. DOMAIN stack = {}
    BY <2>2, EmptySeq
  <2> QED
    BY <1>1, <2>1, <2>3 DEF IInv, RanInv
<1> QED
  BY <1>1, Invariance, PTL
-----------------------------------------------------------------------------
(***************************************************************************)
(* What the examiner reads.                                                *)
(***************************************************************************)
\* A list of some positions, all of them and in their order.
Lists(s, P) ==
    /\ s \in Seq(P)
    /\ \A j, k \in DOMAIN s : j < k => s[j] < s[k]
    /\ \A i \in P : \E k \in DOMAIN s : s[k] = i

LEMMA ListsMore ==
  ASSUME NEW n \in Nat, NEW P \in SUBSET (1..(n - 1)), NEW s, Lists(s, P)
  PROVE  Lists(Append(s, n), P \cup {n})
<1> DEFINE new == Append(s, n)
           Q == P \cup {n}
<1>1. s \in Seq(P) /\ Len(s) \in Nat /\ DOMAIN s = 1..Len(s) /\ \A k \in 1..Len(s) : s[k] \in P
  BY LenProperties, ElementOfSeq DEF Lists
<1>2. s \in Seq(Q)
  BY <1>1, SeqMonotonic
<1>3. /\ new \in Seq(Q) /\ Len(new) = Len(s) + 1
      /\ \A k \in 1..Len(s) : new[k] = s[k]
      /\ new[Len(s) + 1] = n
  BY <1>2, AppendProperties
<1>4. DOMAIN new = 1..(Len(s) + 1)
  BY <1>3, LenProperties
<1>7. \A i \in P : i < n
  OBVIOUS
<1> HIDE DEF new
<1>5. \A j, k \in DOMAIN new : j < k => new[j] < new[k]
  <2> SUFFICES ASSUME NEW j \in DOMAIN new, NEW k \in DOMAIN new, j < k
               PROVE  new[j] < new[k]
    OBVIOUS
  <2>1. j \in 1..Len(s) /\ new[j] = s[j] /\ s[j] \in P
    BY <1>1, <1>3, <1>4
  <2>2. CASE k = Len(s) + 1
    <3>1. s[j] < n
      BY <1>7, <2>1
    <3>2. new[k] = n
      BY <1>3, <2>2
    <3> QED
      BY <2>1, <3>1, <3>2
  <2>3. CASE k # Len(s) + 1
    <3>1. k \in 1..Len(s)
      BY <1>1, <1>4, <2>3
    <3> QED
      BY <1>1, <1>3, <2>1, <3>1 DEF Lists
  <2> QED
    BY <2>2, <2>3
<1>6. \A i \in Q : \E k \in DOMAIN new : new[k] = i
  <2> SUFFICES ASSUME NEW i \in Q PROVE \E k \in DOMAIN new : new[k] = i
    OBVIOUS
  <2>1. CASE i \in P
    <3>1. PICK k \in DOMAIN s : s[k] = i
      BY <2>1 DEF Lists
    <3>2. k \in DOMAIN new /\ new[k] = i
      BY <1>1, <1>3, <1>4, <3>1
    <3> QED
      BY <3>2
  <2>2. CASE i = n
    <3>1. Len(s) + 1 \in DOMAIN new
      BY <1>1, <1>4
    <3> QED
      BY <1>3, <2>2, <3>1
  <2> QED
    BY <2>1, <2>2
<1> QED
  BY <1>3, <1>5, <1>6 DEF Lists, new

\* ParsedTrace.of keeps every event of the type, and their order.
Typed(t, type) == {i \in DOMAIN t : t[i].type = type}

LEMMA PositionsAre ==
  ASSUME NEW t, IsList(t), NEW type
  PROVE  Lists(Positions(t, type), Typed(t, type))
<1> DEFINE Put(g, n) == [m \in 0..n |-> IF m = 0 THEN <<>>
                                        ELSE IF t[m].type = type THEN Append(g[m - 1], m) ELSE g[m - 1]]
           Bad == {n \in Nat : n <= Len(t) /\ ~\E g : g = Put(g, n)}
<1>1. Len(t) \in Nat /\ DOMAIN t = 1..Len(t)
  BY ListFacts
<1>2. Bad = {}
  <2> SUFFICES ASSUME Bad # {} PROVE FALSE
    OBVIOUS
  <2>1. PICK n \in Bad : \A k \in Bad : n <= k
    <3>1. Bad \in SUBSET Nat
      OBVIOUS
    <3> HIDE DEF Bad
    <3> QED
      BY <3>1, LeastMember
  <2>2. n \in Nat /\ n <= Len(t)
    OBVIOUS
  <2>3. CASE n = 0
    <3> DEFINE g == [m \in 0..0 |-> <<>>]
    <3>1. g = Put(g, 0)
      OBVIOUS
    <3> QED
      BY <2>3, <3>1
  <2>4. CASE n # 0
    <3>1. n - 1 \in Nat /\ n - 1 <= Len(t) /\ ~(n <= n - 1)
      BY <1>1, <2>2, <2>4
    <3>2. PICK g : g = Put(g, n - 1)
      BY <2>1, <3>1
    <3> DEFINE h == [m \in 0..n |-> IF m < n THEN g[m]
                                    ELSE IF t[n].type = type THEN Append(g[n - 1], n) ELSE g[n - 1]]
    <3>3. \A m \in 0..n : h[m] = Put(h, n)[m]
      <4> TAKE m \in 0..n
      <4>1. CASE m < n
        <5>1. m \in 0..(n - 1) /\ (m # 0 => m - 1 \in 0..n /\ m - 1 < n)
          BY <2>2, <4>1
        <5>2. g[m] = Put(g, n - 1)[m]
          BY <3>2
        <5>3. h[m] = g[m] /\ (m # 0 => h[m - 1] = g[m - 1])
          BY <4>1, <5>1
        <5> HIDE DEF h
        <5> QED
          BY <5>1, <5>2, <5>3
      <4>2. CASE m = n
        <5>1. n - 1 \in 0..n /\ n - 1 < n
          BY <2>2, <2>4
        <5>2. h[n - 1] = g[n - 1] /\ h[n] = IF t[n].type = type THEN Append(g[n - 1], n) ELSE g[n - 1]
          BY <2>2, <5>1
        <5> HIDE DEF h
        <5> QED
          BY <2>4, <4>2, <5>2
      <4> QED
        BY <2>2, <4>1, <4>2
    <3>4. h = Put(h, n)
      <4>1. h = [m \in 0..n |-> h[m]]
        OBVIOUS
      <4>2. Put(h, n) = [m \in 0..n |-> Put(h, n)[m]]
        OBVIOUS
      <4> HIDE DEF h, Put
      <4> QED
        BY <3>3, <4>1, <4>2
    <3> HIDE DEF h
    <3> QED
      BY <3>4
  <2> QED
    BY <2>3, <2>4
<1> DEFINE f == CHOOSE g : g = Put(g, Len(t))
<1>3. f = Put(f, Len(t))
  <2>1. \E g : g = Put(g, Len(t))
    BY <1>1, <1>2
  <2> QED
    BY <2>1
<1>4. Positions(t, type) = f[Len(t)]
  BY DEF Positions
<1> HIDE DEF f
<1> DEFINE First(n) == {i \in 1..n : t[i].type = type}
           Off == {n \in 0..Len(t) : ~Lists(f[n], First(n))}
<1>5. Off = {}
  <2> SUFFICES ASSUME Off # {} PROVE FALSE
    OBVIOUS
  <2>1. PICK n \in Off : \A k \in Off : n <= k
    <3>1. Off \in SUBSET Nat
      BY <1>1
    <3> HIDE DEF Off
    <3> QED
      BY <3>1, LeastMember
  <2>2. n \in 0..Len(t) /\ ~Lists(f[n], First(n))
    OBVIOUS
  <2>3. f[n] = IF n = 0 THEN <<>> ELSE IF t[n].type = type THEN Append(f[n - 1], n) ELSE f[n - 1]
    BY <1>3, <2>2
  <2>4. n # 0
    <3> SUFFICES ASSUME n = 0 PROVE FALSE
      OBVIOUS
    <3>1. f[n] = <<>> /\ First(n) = {}
      BY <2>3
    <3>2. Lists(<<>>, {})
      BY EmptySeq DEF Lists
    <3> QED
      BY <2>2, <3>1, <3>2
  <2>5. n - 1 \in 0..Len(t) /\ ~(n <= n - 1)
    BY <1>1, <2>2, <2>4
  <2>6. Lists(f[n - 1], First(n - 1))
    BY <2>1, <2>5
  <2>7. First(n - 1) \in SUBSET (1..(n - 1))
    OBVIOUS
  <2>8. CASE t[n].type = type
    <3>1. First(n) = First(n - 1) \cup {n}
      BY <1>1, <2>2, <2>4, <2>8
    <3>2. n \in Nat
      BY <1>1, <2>2
    <3> HIDE DEF First
    <3>3. Lists(Append(f[n - 1], n), First(n - 1) \cup {n})
      BY <2>6, <2>7, <3>2, ListsMore
    <3> QED
      BY <2>2, <2>3, <2>4, <2>8, <3>1, <3>3
  <2>9. CASE t[n].type # type
    <3>1. First(n) = First(n - 1)
      BY <1>1, <2>2, <2>4, <2>9
    <3> QED
      BY <2>2, <2>3, <2>4, <2>6, <2>9, <3>1
  <2> QED
    BY <2>8, <2>9
<1>6. Lists(f[Len(t)], First(Len(t)))
  <2> HIDE DEF First
  <2>1. \A n \in 0..Len(t) : Lists(f[n], First(n))
    BY <1>5
  <2>2. Len(t) \in 0..Len(t)
    BY <1>1
  <2> QED
    BY <2>1, <2>2
<1>7. First(Len(t)) = Typed(t, type)
  BY <1>1 DEF Typed
<1> QED
  BY <1>4, <1>6, <1>7

\* What a list of events selected by their type has, and its last.
LEMMA OfFacts ==
  ASSUME NEW t, IsList(t), NEW type
  PROVE  LET s == Positions(t, type)
         IN  /\ Len(s) \in Nat /\ DOMAIN s = 1..Len(s)
             /\ DOMAIN Of(t, type) = DOMAIN s /\ Len(Of(t, type)) = Len(s)
             /\ \A k \in DOMAIN s : s[k] \in Typed(t, type) /\ Of(t, type)[k] = t[s[k]]
             /\ \A j, k \in DOMAIN s : j < k => s[j] < s[k]
             /\ \A i \in Typed(t, type) : \E k \in DOMAIN s : s[k] = i
             /\ Of(t, type) = <<>> <=> Typed(t, type) = {}
<1> DEFINE s == Positions(t, type)
<1>1. Lists(s, Typed(t, type))
  BY PositionsAre
<1> HIDE DEF s
<1>2. Len(s) \in Nat /\ DOMAIN s = 1..Len(s) /\ \A k \in DOMAIN s : s[k] \in Typed(t, type)
  BY <1>1, LenProperties, ElementOfSeq DEF Lists
<1>3. Of(t, type) = [k \in 1..Len(s) |-> t[s[k]]]
  BY <1>2 DEF Of, s
<1> DEFINE of == [k \in 1..Len(s) |-> t[s[k]]]
<1>4. DOMAIN of = 1..Len(s) /\ Len(of) = Len(s) /\ \A k \in 1..Len(s) : of[k] = t[s[k]]
  BY <1>2
<1>6. Of(t, type) = of
  BY <1>3
<1> HIDE DEF of
<1>5. Of(t, type) = <<>> <=> Typed(t, type) = {}
  <2>1. Of(t, type) = <<>> <=> Len(s) = 0
    <3>1. Len(s) = 0 => of = <<>>
      <4> SUFFICES ASSUME Len(s) = 0 PROVE of = <<>>
        OBVIOUS
      <4>1. of \in [1..Len(of) -> {}]
        BY <1>4 DEF of
      <4>2. of \in Seq({})
        BY <1>2, <1>4, <4>1, IsASeq
      <4> QED
        BY <1>4, <4>2, EmptySeq
    <3>2. of = <<>> => Len(s) = 0
      BY <1>4, EmptySeq
    <3> QED
      BY <1>6, <3>1, <3>2
  <2>2. Len(s) = 0 => Typed(t, type) = {}
    BY <1>1, <1>2 DEF Lists
  <2>3. Len(s) # 0 => 1 \in DOMAIN s
    BY <1>2
  <2> QED
    BY <1>2, <2>1, <2>2, <2>3
<1> QED
  BY <1>1, <1>2, <1>4, <1>5, <1>6 DEF Lists, s
LEMMA LastOf ==
  ASSUME NEW t, IsList(t), NEW i \in DOMAIN t,
         \A j \in DOMAIN t : t[j].type = t[i].type => j <= i
  PROVE  Of(t, t[i].type) # <<>> /\ Last(Of(t, t[i].type)) = t[i]
<1> DEFINE type == t[i].type
           s == Positions(t, type)
           of == Of(t, type)
<1>1. /\ Len(s) \in Nat /\ DOMAIN s = 1..Len(s) /\ Len(of) = Len(s)
      /\ \A k \in DOMAIN s : s[k] \in Typed(t, type) /\ of[k] = t[s[k]]
      /\ \A j, k \in DOMAIN s : j < k => s[j] < s[k]
      /\ \A j \in Typed(t, type) : \E k \in DOMAIN s : s[k] = j
      /\ of = <<>> <=> Typed(t, type) = {}
  BY OfFacts
<1>2. i \in Typed(t, type) /\ \A j \in Typed(t, type) : j \in Nat /\ j <= i
  BY ListFacts DEF Typed
<1> HIDE DEF type, s, of
<1>3. PICK k \in DOMAIN s : s[k] = i
  BY <1>1, <1>2
<1>4. k = Len(s)
  <2> SUFFICES ASSUME k # Len(s) PROVE FALSE
    OBVIOUS
  <2>1. k < Len(s) /\ Len(s) \in DOMAIN s
    BY <1>1, <1>3
  <2>2. s[k] < s[Len(s)] /\ s[Len(s)] <= i /\ s[Len(s)] \in Nat
    BY <1>1, <1>2, <2>1
  <2> QED
    BY <1>2, <1>3, <2>2
<1>5. of[Len(of)] = t[i]
  BY <1>1, <1>3, <1>4
<1> QED
  BY <1>1, <1>2, <1>5 DEF Last, of, type

\* A contract that completes has started, and all its traversal wrote since then
\* are steps of it.
Since(s, j) ==
    /\ trace[s].type = "CC_START" /\ trace[s].run = trace[j].run /\ trace[s].node = trace[j].node
    /\ \A k \in (s + 1)..(j - 1) : trace[k].run = trace[j].run => InPipeline(trace[k])

LEMMA StartOf ==
  ASSUME IInv, NEW j \in DOMAIN trace, trace[j].type = "CC_COMPLETE"
  PROVE  \E s \in 1..(j - 1) : Since(s, j)
<1> DEFINE Bad == {i \in DOMAIN trace : /\ InPipeline(trace[i]) \/ trace[i].type = "CC_COMPLETE"
                                        /\ ~\E s \in 1..(i - 1) : Since(s, i)}
<1>1. /\ Len(trace) \in Nat /\ DOMAIN trace = 1..Len(trace)
      /\ \A i \in DOMAIN trace : StepsSealed(trace, i)
  BY ListFacts DEF IInv, TraceInv, EventOK
<1>2. Bad = {}
  <2> SUFFICES ASSUME Bad # {} PROVE FALSE
    OBVIOUS
  <2>1. PICK i \in Bad : \A k \in Bad : i <= k
    <3>1. Bad \in SUBSET Nat
      BY <1>1
    <3> HIDE DEF Bad
    <3> QED
      BY <3>1, LeastMember
  <2>2. /\ i \in 1..Len(trace) /\ i \in DOMAIN trace
        /\ InPipeline(trace[i]) \/ trace[i].type = "CC_COMPLETE"
        /\ ~\E s \in 1..(i - 1) : Since(s, i)
    BY <1>1
  <2>3. PICK p \in Earlier(trace, i) : /\ Latest(p, Earlier(trace, i))
                                       /\ InContract(trace[p]) /\ trace[p].node = trace[i].node
    BY <1>1, <2>2 DEF StepsSealed
  <2>4. p \in 1..(i - 1) /\ trace[p].run = trace[i].run /\ p \in DOMAIN trace /\ ~(i <= p)
    BY <1>1, <2>2 DEF Earlier
  <2>5. \A k \in 1..(i - 1) : trace[k].run = trace[i].run => k <= p
    BY <2>3 DEF Earlier, Latest
  <2>6. CASE trace[p].type = "CC_START"
    <3>1. \A k \in (p + 1)..(i - 1) : trace[k].run # trace[i].run
      <4> SUFFICES ASSUME NEW k \in (p + 1)..(i - 1), trace[k].run = trace[i].run PROVE FALSE
        OBVIOUS
      <4>1. k \in 1..(i - 1) /\ ~(k <= p)
        BY <2>2, <2>4
      <4> QED
        BY <2>5, <4>1
    <3>2. Since(p, i)
      BY <2>3, <2>4, <2>6, <3>1 DEF Since
    <3> QED
      BY <2>2, <2>4, <3>2
  <2>7. CASE InPipeline(trace[p])
    <3>1. PICK s \in 1..(p - 1) : Since(s, p)
      BY <2>1, <2>4, <2>7
    <3>2. s \in 1..(i - 1)
      BY <2>2, <2>4
    <3>3. \A k \in (s + 1)..(i - 1) : trace[k].run = trace[i].run => InPipeline(trace[k])
      <4> SUFFICES ASSUME NEW k \in (s + 1)..(i - 1), trace[k].run = trace[i].run
                   PROVE  InPipeline(trace[k])
        OBVIOUS
      <4>1. k \in 1..(i - 1)
        BY <3>2
      <4>2. k <= p
        BY <2>5, <4>1
      <4>3. CASE k = p
        BY <2>7, <4>3
      <4>4. CASE k # p
        <5>1. k \in (s + 1)..(p - 1)
          BY <2>2, <2>4, <4>1, <4>2, <4>4
        <5> QED
          BY <2>4, <3>1, <5>1 DEF Since
      <4> QED
        BY <4>3, <4>4
    <3>4. Since(s, i)
      BY <2>3, <2>4, <3>1, <3>3 DEF Since
    <3> QED
      BY <2>2, <3>2, <3>4
  <2> QED
    BY <2>3, <2>6, <2>7 DEF InContract
<1> QED
  BY <1>2

\* A contract that has started, in a traversal that has completed one since, has
\* completed.
LEMMA EndOf ==
  ASSUME IInv, NEW i \in DOMAIN trace, trace[i].type = "CC_START",
         NEW j \in (i + 1)..Len(trace), trace[j].type = "CC_COMPLETE", trace[j].run = trace[i].run
  PROVE  \E e \in (i + 1)..j : /\ trace[e].type = "CC_COMPLETE"
                               /\ trace[e].run = trace[i].run /\ trace[e].node = trace[i].node
<1> DEFINE On(k) == InPipeline(trace[k]) /\ trace[k].node = trace[i].node
           Off == {k \in (i + 1)..Len(trace) : trace[k].run = trace[i].run /\ ~On(k)}
<1>1. /\ Len(trace) \in Nat /\ DOMAIN trace = 1..Len(trace) /\ i \in 1..Len(trace)
      /\ \A k \in DOMAIN trace : StepsSealed(trace, k) /\ RefusalSealed(trace, k)
  BY ListFacts DEF IInv, TraceInv, EventOK
<1>2. j \in Off
  BY DEF InPipeline
<1>3. PICK e \in Off : \A k \in Off : e <= k
  <2>1. Off \in SUBSET Nat
    BY <1>1
  <2> HIDE DEF Off
  <2> QED
    BY <1>2, <2>1, LeastMember
<1>4. /\ e \in (i + 1)..Len(trace) /\ e \in DOMAIN trace
      /\ trace[e].run = trace[i].run /\ ~On(e) /\ e <= j
  BY <1>1, <1>2, <1>3
<1> DEFINE earlier == Earlier(trace, e)
<1>5. i \in earlier /\ earlier \in SUBSET (1..(e - 1)) /\ e - 1 \in Nat
  BY <1>1, <1>4 DEF Earlier
<1>6. PICK p \in earlier : \A k \in earlier : k <= p
  <2> HIDE DEF earlier
  <2> QED
    BY <1>5, MaxMember
<1>7. p \in 1..(e - 1) /\ trace[p].run = trace[i].run /\ i <= p /\ Latest(p, earlier)
  BY <1>4, <1>5, <1>6 DEF Earlier, Latest
<1>8. InContract(trace[p]) /\ trace[p].node = trace[i].node
  <2>1. CASE p = i
    BY <2>1 DEF InContract
  <2>2. CASE p # i
    <3>1. p \in (i + 1)..Len(trace) /\ ~(e <= p)
      BY <1>1, <1>4, <1>7, <2>2
    <3>2. p \notin Off
      BY <1>3, <3>1
    <3>3. On(p)
      BY <1>7, <3>1, <3>2
    <3> QED
      BY <3>3 DEF InContract
  <2> QED
    BY <2>1, <2>2
<1>9. StepsSealed(trace, e)
  BY <1>1, <1>4
<1>10. trace[e].type = "CC_COMPLETE" \/ trace[e].type = "ERROR" \/ InPipeline(trace[e])
  BY <1>7, <1>8, <1>9 DEF StepsSealed
<1>11. InPipeline(trace[e]) \/ trace[e].type = "CC_COMPLETE" => trace[e].node = trace[i].node
  <2> SUFFICES ASSUME InPipeline(trace[e]) \/ trace[e].type = "CC_COMPLETE"
               PROVE  trace[e].node = trace[i].node
    OBVIOUS
  <2>1. PICK q \in earlier : Latest(q, earlier) /\ trace[q].node = trace[e].node
    BY <1>9 DEF StepsSealed
  <2>2. q <= p /\ p <= q /\ q \in Nat /\ p \in Nat
    BY <1>5, <1>6, <2>1 DEF Latest
  <2>3. q = p
    BY <2>2
  <2> QED
    BY <1>8, <2>1, <2>3
<1>12. trace[e].type # "ERROR"
  <2> SUFFICES ASSUME trace[e].type = "ERROR" PROVE FALSE
    OBVIOUS
  <2>1. e # j
    OBVIOUS
  <2>2. e \in Earlier(trace, j) /\ j \in DOMAIN trace
    BY <1>1, <1>4, <2>1 DEF Earlier
  <2>3. RefusalSealed(trace, j)
    BY <1>1, <2>2
  <2> QED
    BY <2>2, <2>3 DEF RefusalSealed
<1>13. trace[e].type = "CC_COMPLETE" /\ trace[e].node = trace[i].node
  BY <1>4, <1>10, <1>11, <1>12
<1>14. e \in (i + 1)..j
  BY <1>1, <1>4
<1> QED
  BY <1>4, <1>13, <1>14

\* The row of a contract whose node no other traversal has come to.
LEMMA ResultOf ==
  ASSUME IInv, NEW k \in DOMAIN Positions(trace, "CC_START"),
         \A j \in DOMAIN Positions(trace, "CC_START") \ {k} :
            Of(trace, "CC_START")[j].node # Of(trace, "CC_START")[k].node
  PROVE  ResultShown(trace, k) = Completion(Positions(trace, "CC_START")[k])
<1> DEFINE starts == Positions(trace, "CC_START")
           i == starts[k]
           ends == Positions(trace, "CC_COMPLETE")
           complete == Of(trace, "CC_COMPLETE")
           there == {m \in DOMAIN complete : complete[m].node = Of(trace, "CC_START")[k].node}
           after == {j \in (i + 1)..Len(trace) :
                        trace[j].type = "CC_COMPLETE" /\ trace[j].run = trace[i].run}
<1>1. IsList(trace) /\ Len(trace) \in Nat /\ DOMAIN trace = 1..Len(trace)
  BY ListFacts DEF IInv, TraceInv
<1>2. /\ i \in DOMAIN trace /\ trace[i].type = "CC_START" /\ Of(trace, "CC_START")[k] = trace[i]
      /\ \A s \in DOMAIN trace : trace[s].type = "CC_START" =>
            \E j \in DOMAIN starts : starts[j] = s /\ Of(trace, "CC_START")[j] = trace[s]
  BY <1>1, OfFacts DEF Typed
<1>3. /\ Len(ends) \in Nat /\ DOMAIN complete = 1..Len(ends)
      /\ \A m \in DOMAIN complete :
            /\ ends[m] \in DOMAIN trace /\ complete[m] = trace[ends[m]]
            /\ trace[ends[m]].type = "CC_COMPLETE"
      /\ \A j \in DOMAIN trace : trace[j].type = "CC_COMPLETE" =>
            \E m \in DOMAIN complete : ends[m] = j
  <2>1. /\ Len(ends) \in Nat /\ DOMAIN ends = 1..Len(ends) /\ DOMAIN complete = DOMAIN ends
        /\ \A m \in DOMAIN ends : ends[m] \in Typed(trace, "CC_COMPLETE") /\ complete[m] = trace[ends[m]]
        /\ \A j \in Typed(trace, "CC_COMPLETE") : \E m \in DOMAIN ends : ends[m] = j
    BY <1>1, OfFacts
  <2> HIDE DEF ends, complete
  <2> QED
    BY <2>1 DEF Typed
<1> HIDE DEF i, starts, ends, complete
<1>4. \A s \in DOMAIN trace : trace[s].type = "CC_START" /\ trace[s].node = trace[i].node => s = i
  BY <1>2 DEF i, starts
<1>5. \A m \in there : ends[m] \in after /\ \A j \in after : ends[m] <= j
  <2> SUFFICES ASSUME NEW m \in there
               PROVE  ends[m] \in after /\ \A j \in after : ends[m] <= j
    OBVIOUS
  <2>1. /\ ends[m] \in DOMAIN trace /\ trace[ends[m]].type = "CC_COMPLETE"
        /\ trace[ends[m]].node = trace[i].node
    BY <1>2, <1>3
  <2>2. PICK s \in 1..(ends[m] - 1) : Since(s, ends[m])
    BY <2>1, StartOf
  <2>3. s \in DOMAIN trace /\ ends[m] \in Nat
    BY <1>1, <2>1
  <2>4. s = i
    BY <1>4, <2>1, <2>2, <2>3 DEF Since
  <2>5. ends[m] \in after
    BY <1>1, <2>1, <2>2, <2>3, <2>4 DEF Since
  <2>6. ASSUME NEW j \in after PROVE ends[m] <= j
    <3> SUFFICES ASSUME ~(ends[m] <= j) PROVE FALSE
      OBVIOUS
    <3>1. j \in (i + 1)..(ends[m] - 1)
      BY <1>1, <1>2, <2>3
    <3>2. trace[j].run = trace[ends[m]].run /\ trace[j].type = "CC_COMPLETE"
      BY <2>2, <2>4 DEF Since
    <3>3. InPipeline(trace[j])
      BY <2>2, <2>4, <3>1, <3>2 DEF Since
    <3> QED
      BY <3>2, <3>3 DEF InPipeline
  <2> QED
    BY <2>5, <2>6
<1>6. after # {} => Min(after) \in after /\ \A j \in after : Min(after) <= j
  <2> SUFFICES ASSUME after # {} PROVE Min(after) \in after /\ \A j \in after : Min(after) <= j
    OBVIOUS
  <2>1. after \in SUBSET Nat
    BY <1>1, <1>2
  <2> HIDE DEF after
  <2>2. \E x \in after : \A y \in after : x <= y
    BY <2>1, LeastMember
  <2> QED
    BY <2>2 DEF Min
<1>7. after # {} => there # {}
  <2> SUFFICES ASSUME after # {} PROVE there # {}
    OBVIOUS
  <2>1. PICK j \in after : TRUE
    OBVIOUS
  <2>2. PICK e \in (i + 1)..j : /\ trace[e].type = "CC_COMPLETE"
                                /\ trace[e].run = trace[i].run /\ trace[e].node = trace[i].node
    BY <1>2, <2>1, EndOf
  <2>3. e \in DOMAIN trace
    BY <1>1, <1>2, <2>1
  <2>4. PICK m \in DOMAIN complete : ends[m] = e
    BY <1>3, <2>2, <2>3
  <2>5. m \in there
    BY <1>2, <1>3, <2>2, <2>4
  <2> QED
    BY <2>5
<1>8. ResultShown(trace, k) = IF there = {} THEN None ELSE complete[Max(there)].what
  BY DEF ResultShown, complete
<1>9. Completion(i) = IF after = {} THEN None ELSE trace[Min(after)].what
  BY DEF Completion
<1>10. there # {} => Max(there) \in there
  <2>1. there \in SUBSET (1..Len(ends))
    BY <1>3
  <2> HIDE DEF there
  <2> QED
    BY <1>3, <2>1, MaxMember
<1>11. there # {} => complete[Max(there)] = trace[Min(after)] /\ after # {}
  <2> SUFFICES ASSUME there # {} PROVE complete[Max(there)] = trace[Min(after)] /\ after # {}
    OBVIOUS
  <2> DEFINE m == Max(there)
  <2>1. m \in there
    BY <1>10
  <2>2. m \in DOMAIN complete
    BY <2>1
  <2> HIDE DEF m, there
  <2>3. ends[m] \in after /\ \A j \in after : ends[m] <= j
    BY <1>5, <2>1
  <2>4. Min(after) \in after /\ Min(after) <= ends[m] /\ ends[m] <= Min(after)
    BY <1>6, <2>3
  <2>5. \A j \in after : j \in Nat
    BY <1>1, <1>2
  <2> HIDE DEF after
  <2>6. Min(after) = ends[m]
    BY <2>3, <2>4, <2>5
  <2> QED
    BY <1>3, <2>2, <2>3, <2>6 DEF m
<1> HIDE DEF there, after
<1>12. ResultShown(trace, k) = Completion(i)
  BY <1>7, <1>8, <1>9, <1>11
<1> QED
  BY <1>12 DEF i, starts

\* examine.analyze: what it reads from the trace, and from nothing else, is what
\* the run did and how it ended, whatever ran inside it; and it shows of every
\* contract how that ended, unless its node was come to again.
THEOREM ReportAlwaysAgrees == Spec => []ReportAgrees
<1>1. ASSUME IInv PROVE ReportAgrees
  <2>1. /\ IsList(trace) /\ Len(trace) \in Nat /\ DOMAIN trace = 1..Len(trace)
        /\ \A i \in DOMAIN trace : EventOK(trace, i)
    BY <1>1, ListFacts DEF IInv, TraceInv
  <2> DEFINE starts == Positions(trace, "CC_START")
             shown == Of(trace, "CC_START")
             rows == ReportedContracts(trace)
  <2>2. /\ DOMAIN shown = DOMAIN starts
        /\ \A k \in DOMAIN starts : starts[k] \in DOMAIN trace /\ shown[k] = trace[starts[k]]
                                    /\ trace[starts[k]].type = "CC_START"
    BY <2>1, OfFacts DEF Typed
  <2>3. /\ DOMAIN rows = DOMAIN starts
        /\ \A k \in DOMAIN starts : /\ rows[k].node = shown[k].node
                                    /\ rows[k].contract = shown[k].what
                                    /\ rows[k].result = ResultShown(trace, k)
    BY <2>2 DEF ReportedContracts
  <2> HIDE DEF rows
  <2>4. ASSUME NEW k \in DOMAIN rows
        PROVE  rows[k].contract = pkg.contract[rows[k].node]
    <3>1. StepsSealed(trace, starts[k])
      BY <2>1, <2>2, <2>3 DEF EventOK
    <3> QED
      BY <2>2, <2>3, <3>1 DEF StepsSealed
  <2>5. ASSUME NEW k \in DOMAIN rows, \A j \in DOMAIN rows \ {k} : rows[j].node # rows[k].node
        PROVE  rows[k].result = Completion(starts[k])
    <3>1. \A j \in DOMAIN starts \ {k} : shown[j].node # shown[k].node
      BY <2>3, <2>5
    <3>2. ResultShown(trace, k) = Completion(starts[k])
      BY <1>1, <2>3, <3>1, ResultOf
    <3> QED
      BY <2>3, <3>2
  <2>6. ASSUME result \in Outcomes
        PROVE  LET routes == {i \in DOMAIN trace : trace[i].type = "WF_ROUTE" /\ trace[i].run = 1}
               IN  /\ ReportedOutcome(trace) = result
                   /\ ReportedEnding(trace) = trace[Max(routes)].then
    <3> DEFINE n == Len(trace)
               routes == {i \in DOMAIN trace : trace[i].type = "WF_ROUTE" /\ trace[i].run = 1}
    <3>1. /\ trace # <<>> /\ Errors(trace) = {}
          /\ trace[n].type = "WF_COMPLETE" /\ trace[n].run = 1 /\ trace[n].what = result
      BY <1>1, <2>6 DEF IInv, ErrorInv
    <3>2. n \in DOMAIN trace
      BY <2>1, <3>1, EmptySeq, NoMore DEF IsList
    <3>3. n - 1 \in DOMAIN trace /\ trace[n - 1].type = "WF_ROUTE" /\ trace[n - 1].run = 1
      <4>1. PathSealed(trace, n)
        BY <2>1, <3>2 DEF EventOK
      <4>2. \A j \in Earlier(trace, n) : trace[j].type # "ERROR"
        BY <2>1, <3>1 DEF Earlier, Errors
      <4>3. n - 1 \in Earlier(trace, n) /\ trace[n - 1].type = "WF_ROUTE"
        BY <3>1, <4>1, <4>2 DEF PathSealed
      <4> QED
        BY <2>1, <3>1, <4>3 DEF Earlier
    <3>4. ReportedOutcome(trace) = result
      BY <2>1, <3>1, <3>2, LastOf DEF ReportedOutcome
    <3>5. Of(trace, "WF_COMPLETE") # <<>>
      BY <2>1, <3>1, <3>2, OfFacts DEF Typed
    <3>6. \A i \in DOMAIN trace : trace[i].type = "WF_ROUTE" => i <= n - 1
      BY <2>1, <3>1
    <3>7. ReportedEnding(trace) = trace[n - 1].then
      BY <2>1, <3>3, <3>5, <3>6, LastOf DEF ReportedEnding
    <3>8. Max(routes) = n - 1
      <4>1. routes \in SUBSET (1..n) /\ n - 1 \in routes /\ \A i \in routes : i <= n - 1
        BY <2>1, <3>3, <3>6
      <4> HIDE DEF routes
      <4>2. Max(routes) \in routes /\ n - 1 <= Max(routes)
        BY <2>1, <4>1, MaxMember
      <4>3. Max(routes) <= n - 1 /\ Max(routes) \in 1..n
        BY <4>1, <4>2
      <4> QED
        BY <2>1, <4>2, <4>3
    <3> QED
      BY <3>4, <3>7, <3>8
  <2>7. ASSUME result = "raised" PROVE StructuralFailure(trace)
    <3>1. PICK i \in DOMAIN trace : Errors(trace) = {i}
      BY <1>1, <2>7 DEF IInv, ErrorInv
    <3>2. i \in Typed(trace, "ERROR")
      BY <3>1 DEF Errors, Typed
    <3> QED
      BY <2>1, <3>2, OfFacts DEF StructuralFailure
  <2> QED
    BY <2>4, <2>5, <2>6, <2>7 DEF ReportAgrees, rows
<1> QED
  BY <1>1, Invariance, PTL
=============================================================================
