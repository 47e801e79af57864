--------------------------- MODULE MCConformance ---------------------------
(***************************************************************************)
(* The runs of MCTransformReplay, and builds of its two transforms.  The   *)
(* first needs a result for each atom that draws: its own, one inside two  *)
(* molecules, and one in each round of the loop.                           *)
(***************************************************************************)
EXTENDS MCTransformReplay, Conformance

Drawn(value, last) ==
    <<<<a>>>> :> value @@ <<<<2>>, <<a>>, <<b>>>> :> one
 @@ <<<<b, 0>>, <<b>>>> :> one @@ <<<<b, 1>>, <<b>>>> :> last
Full == Drawn(list, two)
Nothing == <<>>

Expect(target, supplied, expects, want) ==
    [target |-> target, input |-> list, supplied |-> supplied, expects |-> expects, want |-> want]

\* Cases that should pass, and each with one thing wrong.
Replayed == Expect(first_ct, Full, "SUCCESS", list)
Refusing == Expect(first_ct, Drawn(list, one), "VIOLATION", Whatever)
Plain == Expect(second_ct, Nothing, "SUCCESS", list)
Faulty ==
    {Expect(first_ct, Full, "SUCCESS", two),
     Expect(first_ct, Full, "VIOLATION", Whatever),
     Expect(first_ct, Drawn(tuple, two), "VIOLATION", Whatever),
     Expect(first_ct, <<<<a>>>> :> list, "VIOLATION", Whatever),
     Expect(first_ct, <<<<a>>>> :> list, "SUCCESS", Whatever),
     Expect(first_ct, Full @@ <<<<c>>>> :> one, "SUCCESS", Whatever),
     Expect(second_ct, <<<<a>>>> :> list, "SUCCESS", list),
     Expect(first_ct, Nothing, "SUCCESS", list),
     Expect(8, Nothing, "SUCCESS", Whatever)}

CaseLists ==
    {<<>>, <<Replayed>>, <<Plain, Refusing, Replayed>>}
    \cup {<<case>> : case \in Faulty} \cup {<<Plain, case>> : case \in Faulty}

Compiled ==
    [transforms : {{first_ct, second_ct}}, imported : {{}, {first_ct}},
     targets : {{}, {first_ct, second_ct}}, declared : {TRUE, FALSE}, cases : CaseLists]
=============================================================================
