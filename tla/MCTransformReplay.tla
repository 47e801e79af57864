------------------------- MODULE MCTransformReplay -------------------------
(***************************************************************************)
(* Two transforms.  The first draws a value, enters a molecule inside a    *)
(* molecule, goes through the members of a list with the inner one, and    *)
(* ends with an atom that judges; the second loops over an atom.           *)
(***************************************************************************)
EXTENDS TransformReplay

CONSTANTS k, l, first_ct, second_ct, outer, inner, silent, a, b, c, one, two, list, tuple,
          Draw, DrawAgain, Pick, Judge

Steps == [form |-> "atom", name |-> Pick, purity |-> "ct_pure", out |-> None,
          args |-> <<>>, over |-> None, start |-> None]
Atom(name, out, args) == [Steps EXCEPT !.name = name, !.out = out, !.args = args]
Drawing(name, out) == [Steps EXCEPT !.name = name, !.out = out, !.purity = "ct_impure"]
Input == <<"inputs", 1>>
Result(symbol) == <<"results", symbol>>

Construct(form, out, over, args) ==
    [Steps EXCEPT !.form = form, !.name = IF form = "loop" THEN Judge ELSE inner,
                  !.out = out, !.over = over, !.args = args]
Nowhere == Result(b)

\* Streams with one thing wrong in each: a path that reaches nothing, a loop
\* over what is no list, an output that is not produced, an atom in a loop that
\* refuses, fails or is not deterministic, an atom that draws and is given the
\* result of a loop, which has none if there was no round.
Flawed ==
    <<<<Atom(Pick, c, <<Nowhere>>)>>,
      <<Construct("molecule", c, None, <<Nowhere>>)>>,
      <<Construct("each", c, Input, <<Nowhere>>)>>,
      <<Construct("loop", c, Input, <<Nowhere>>)>>,
      <<Construct("loop", c, Nowhere, <<Input>>)>>,
      <<[Construct("loop", c, Input, <<Input>>) EXCEPT !.start = Nowhere]>>,
      <<Construct("molecule", a, None, <<Input>>), Construct("loop", c, Result(a), <<Input, Input>>)>>,
      <<Construct("loop", c, None, <<>>)>>,
      <<Construct("molecule", a, None, <<Input>>), Construct("loop", c, Input, <<Input, Result(a)>>)>>,
      <<Drawing(Draw, a), Construct("loop", c, Input, <<Result(a), Input>>)>>,
      <<[Construct("molecule", c, None, <<Input>>) EXCEPT !.name = silent]>>,
      <<[Drawing(DrawAgain, c) EXCEPT !.form = "loop", !.over = Input]>>,
      <<[Construct("loop", b, Input, <<<<"iterator">>>>) EXCEPT !.name = Pick],
        [Drawing(DrawAgain, c) EXCEPT !.args = <<Result(b)>>]>>>>

Sound ==
    silent :> <<Atom(Pick, a, <<Input>>)>>
 @@ inner :> <<Atom(Pick, a, <<Input>>), Drawing(DrawAgain, b)>>
 @@ outer :> <<[Steps EXCEPT !.form = "molecule", !.name = inner, !.out = a, !.args = <<Input>>],
               Atom(Pick, None, <<Result(a)>>)>>
 @@ first_ct :> <<Drawing(Draw, a),
                  [Steps EXCEPT !.form = "molecule", !.name = outer, !.args = <<Input>>],
                  [Steps EXCEPT !.form = "each", !.name = inner, !.out = b, !.over = Result(a),
                                !.args = <<<<"iterator">>>>],
                  Atom(Judge, c, <<Result(a), Result(b)>>)>>
 @@ second_ct :> <<[Steps EXCEPT !.form = "loop", !.name = Pick, !.out = a, !.over = Input,
                                 !.args = <<<<"accumulator">>>>, !.start = Input],
                   Atom(Judge, c, <<Result(a), Result(a)>>)>>
 @@ Flawed

Emitted == inner :> b @@ silent :> b @@ outer :> a
        @@ [ct \in {first_ct, second_ct} \cup DOMAIN Flawed |-> c]
Drawable == Draw :> {list, tuple, "refusal"} @@ DrawAgain :> {one, two, "fault"}
\* Answers that all read back as they were written, and no refusals.
Steady == Draw :> {list} @@ DrawAgain :> {one, two}
Listed == one :> None @@ two :> <<>> @@ list :> <<one, two>> @@ tuple :> <<one, two>>
Read(value) == IF value = tuple THEN list ELSE value

\* Pick answers what it is given; Judge refuses to judge by the value one and
\* cannot tell what it is to do with a tuple.
Answering(name, given) ==
    IF name = Pick THEN given[1]
    ELSE IF given[1] = tuple THEN "fault"
    ELSE IF given[2] = one THEN "refusal" ELSE given[1]

Visit(contract, pipeline) == [cc |-> contract, pipeline |-> pipeline]
Separate == {<<Visit(k, <<first_ct, second_ct>>), Visit(l, <<first_ct>>)>>}
Twice == {<<Visit(k, <<first_ct>>), Visit(k, <<first_ct>>)>>}
Wrong == {<<Visit(k, <<i>>)>> : i \in DOMAIN Flawed}
\* On the second visit the loop goes through no members.
Unset == {<<Visit(k, <<Len(Flawed)>>), Visit(k, <<Len(Flawed)>>)>>}
All == Unset \cup Separate \cup Twice \cup Wrong
TransformsOfAll == {first_ct, second_ct} \cup DOMAIN Flawed
=============================================================================
