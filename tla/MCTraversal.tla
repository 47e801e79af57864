---------------------------- MODULE MCTraversal ----------------------------
(***************************************************************************)
(* A workflow W of three places: a gate, and two places that run the same  *)
(* contract with routing of their own, the first of which may come back to *)
(* itself.  Its contract is a transform and a capability that may run the  *)
(* workflow V.  Around it, the same package with one thing wrong in it.    *)
(***************************************************************************)
EXTENDS Traversal, TLC

CONSTANTS W, V, gate, first, second, inner, done, rejected, G, C, D, e1, e2, ledger

Every == {W, V}
Places == {gate, first, second, inner}
Ends == {done, rejected}
Addresses == {G, C, D}
Entities == {ledger}
Statuses == {"SUCCESS", "VIOLATION", "ACK", "NACK", "RETRY"}

Transition(outcome) == <<"transition", outcome>>

Transform == [kind |-> "ct", handler |-> "present", calls |-> {}, writes |-> None,
              on |-> "SUCCESS" :> "continue" @@ "VIOLATION" :> "exit"]
Capability == [kind |-> "cs", handler |-> "present", calls |-> {V}, writes |-> ledger,
               on |-> "SUCCESS" :> "continue" @@ "VIOLATION" :> "exit" @@ "RETRY" :> "exit"]

\* ACK and NACK are registered as outcomes only.
Sound ==
    [entry |-> W :> gate @@ V :> inner,
     contract |-> gate :> G @@ first :> C @@ second :> C @@ inner :> D,
     pipeline |-> C :> <<Transform, Capability>> @@ D :> <<Transform>>,
     admission |-> {G},
     consulted |-> W :> {} @@ V :> {ledger},
     vocab |-> ({"transition"} \X {"SUCCESS", "VIOLATION", "RETRY"})
               \cup ({"outcome"} \X {"SUCCESS", "ACK", "NACK"}),
     routing |-> gate :> (<<"outcome", "ACK">> :> first)
              @@ first :> (Transition("SUCCESS") :> second @@ Transition("RETRY") :> first)
              @@ second :> <<>> @@ inner :> <<>>,
     terminal |-> gate :> (<<"outcome", "NACK">> :> rejected)
               @@ first :> (Transition("VIOLATION") :> rejected)
               @@ second :> (Transition("SUCCESS") :> done @@ Transition("VIOLATION") :> rejected)
               @@ inner :> (Transition("SUCCESS") :> done @@ Transition("VIOLATION") :> rejected),
     emits |-> gate :> <<>>
            @@ first :> ("VIOLATION" :> <<Absent, e1>>)
            @@ second :> ("SUCCESS" :> <<e1, e2>>)
            @@ inner :> <<>>]

Sealed ==
    {Sound,
     [Sound EXCEPT !.admission = {}],
     [Sound EXCEPT !.entry[V] = None],
     [Sound EXCEPT !.pipeline[D] = <<>>],
     [Sound EXCEPT !.pipeline[D] = <<[Transform EXCEPT !.handler = "absent"]>>],
     [Sound EXCEPT !.pipeline[C][1].on = "SUCCESS" :> "continue"],
     [Sound EXCEPT !.pipeline[C][2].on = "SUCCESS" :> "exit" @@ "RETRY" :> "evaluate"],
     [Sound EXCEPT !.consulted[W] = {ledger}],
     [Sound EXCEPT !.terminal[inner] = Transition("SUCCESS") :> done],
     [Sound EXCEPT !.vocab = @ \ {Transition("SUCCESS")}]}
=============================================================================
