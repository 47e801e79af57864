--------------------------- MODULE MCContractData ---------------------------
(***************************************************************************)
(* Packages of two workflows.  The outer one goes from contract c to       *)
(* contract d and back while d says so; d runs the inner one, which comes  *)
(* to contract c as well.                                                  *)
(***************************************************************************)
EXTENDS ContractData

CONSTANTS outer, inner, first, second, only, c, d, read, judge, act

a == <<"a">>
b == <<"b">>
store == <<"__store__">>
Fields == {a, b, store}
KeptInside == {store}
Supplied == {a}

Sealed == [from |-> "sealed"]
Outcome == [from |-> "outcome"]
Wrong == [from |-> "malformed"]
In(name) == [from |-> "inputs", name |-> name]
Result(name) == [from |-> "result", name |-> name]
Of(of, name) == [from |-> "results", of |-> of, name |-> name]
List(parts) == [from |-> "list", parts |-> parts]

Go(outcomes) == [o \in outcomes |-> "continue"]
Do(name, inputs, makes, outputs, on) ==
    [name |-> name, calls |-> None, inputs |-> inputs, makes |-> makes, outputs |-> outputs, on |-> on]

\* c reads a record, judges what was read, and if the judgement is against it
\* acts on that; its surface has what was read, or, if nothing was, its input.
Reading(taken) ==
    <<Do(read, a :> In(a), {a} \cup DOMAIN taken, a :> Result(a), Go({"SUCCESS", "VIOLATION"})),
      Do(judge, (a :> Of(read, a)) @@ taken, {},
         b :> Of(read, a), ("SUCCESS" :> "exit") @@ ("VIOLATION" :> "continue")),
      Do(act, a :> List(<<In(a), Sealed>>), {}, (a :> Sealed) @@ (b :> Outcome),
         ("SUCCESS" :> "exit") @@ ("VIOLATION" :> "exit"))>>

\* d has the inner workflow run, and judges what it came to.
Calling ==
    <<[Do(act, (a :> In(b)) @@ (b :> In(a)), {}, b :> Result(b),
          ("SUCCESS" :> "continue") @@ ("VIOLATION" :> "exit")) EXCEPT !.calls = inner],
      Do(judge, b :> Of(act, Raw(a)), {}, a :> Of(act, Raw(b)), Go({"SUCCESS", "VIOLATION"}))>>

Package(reading, calling, bindings) ==
    [entry |-> (outer :> first) @@ (inner :> only),
     contract |-> (first :> c) @@ (second :> d) @@ (only :> c),
     pipeline |-> (c :> reading) @@ (d :> calling),
     bindings |-> (first :> bindings) @@ (only :> ((a :> In(a)) @@ (b :> Of(c, b))))
                  @@ (second :> ((a :> Of(c, a)) @@ (b :> Of(c, b)) @@ (store :> Sealed))),
     routing |-> (first :> (("SUCCESS" :> second) @@ ("VIOLATION" :> None)))
                 @@ (second :> (("SUCCESS" :> None) @@ ("VIOLATION" :> first)))
                 @@ (only :> (("SUCCESS" :> None) @@ ("VIOLATION" :> None)))]

Came == (a :> In(a)) @@ (b :> Of(d, b))
Nothing == <<>>

\* Sound ones, and one with one thing wrong each: a list of what may not be
\* there, the same in a step, a path that is none, a step of another contract,
\* one that has not run yet, and outcomes that go nowhere.
All ==
    {Package(Reading(Nothing), Calling, Came),
     Package(Reading(b :> Of(read, Raw(b))), Calling, Came),
     Package([Reading(Nothing) EXCEPT ![2].outputs = (a :> Of(read, Raw(a))) @@ (b :> Outcome)], Calling, Came),
     Package(Reading(Nothing), Calling, b :> List(<<In(a), Of(d, b)>>)),
     Package(Reading(b :> List(<<Of(read, Raw(b)), In(a)>>)), Calling, Came),
     Package(Reading(Nothing), Calling, b :> Wrong),
     Package(Reading(Nothing), [Calling EXCEPT ![2].inputs = b :> Of(read, a)], Came),
     Package(Reading(Nothing), [Calling EXCEPT ![1].outputs = b :> Of(judge, b)], Came),
     [Package(Reading(Nothing),
             [Calling EXCEPT ![1].on = "SUCCESS" :> "continue", ![2].on = "SUCCESS" :> "continue"], Came)
         EXCEPT !.routing[first] = "SUCCESS" :> second]}
=============================================================================
