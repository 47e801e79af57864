---------------------------- MODULE Conformance ----------------------------
(***************************************************************************)
(* Transform conformance (conformance.py): a build runs every case of its  *)
(* vectors with the executor of TransformReplay, one after the other, and  *)
(* says of every transform it supplies whether it is proven, unproven or   *)
(* refused, and of itself whether it is admitted.                          *)
(*                                                                         *)
(* A case names its transform, the input and what is expected: a refusal,  *)
(* or a result, which is one value or any that satisfies its assertions.   *)
(* It may supply recorded results for atoms that are not deterministic.    *)
(* Left out: an implementation that is absent, which fails a case as any   *)
(* other fault does; which fields a result may have; and cases that cannot *)
(* be compared at all, which the compiler refuses.                         *)
(***************************************************************************)
EXTENDS TransformReplay

CONSTANTS
    Builds,  \* the compiled builds
    Whatever  \* an expectation that any result meets

IsCase(case) ==
    /\ case.target \in Transforms
    /\ case.input \in Values
    /\ \A path \in DOMAIN case.supplied : case.supplied[path] \in Values
    /\ case.expects \in {"SUCCESS", "VIOLATION"}
    /\ case.want \in Values \cup {Whatever}

\* A build has transforms of its own and carried ones, vectors with their
\* targets, and a place for the cases compiled from them if it declares one.
IsBuild(b) ==
    /\ b.transforms \subseteq Transforms
    /\ b.imported \subseteq Transforms
    /\ b.targets \subseteq Transforms
    /\ b.declared \in BOOLEAN
    /\ IsSequence(b.cases) /\ \A i \in DOMAIN b.cases : IsCase(b.cases[i])

ASSUME ConformanceAssumption ==
    /\ \A b \in Builds : IsBuild(b)
    /\ Whatever \notin Values
    /\ None \notin Builds

VARIABLES
    build,    \* the build, or None in a run and its replay
    results,  \* the results of the cases so far
    report    \* what the build is told at the end

buildVars == <<build, results, report>>

BuildTypeOK ==
    /\ TypeOK
    /\ build \in Builds \cup {None}
    /\ phase = "case" <=> build # None
    /\ \A i \in DOMAIN results :
          /\ results[i].passed \in BOOLEAN
          /\ results[i].ended \in {"SUCCESS", "VIOLATION", "raised", "unsupplied"}
    /\ report # None =>
          /\ report.proven \cup report.unproven \cup report.refused \subseteq Transforms
          /\ report.admitted \in BOOLEAN

\* A run as in TransformReplay, or a build that has run nothing yet.
BuildInit ==
    /\ results = <<>>
    /\ report = None
    /\ \/ build = None /\ Init
       \/ /\ build \in Builds
          /\ phase = "case" /\ done = "judged"
          /\ run = <<>> /\ at = [contract |-> 1, step |-> 0] /\ carried = Payload
          /\ stack = <<>> /\ trace = <<>> /\ first = None /\ recorded = <<>>
          /\ drawn = <<>>

-----------------------------------------------------------------------------
(***************************************************************************)
(* _run_case.                                                              *)
(***************************************************************************)
Cases == IF build.declared THEN build.cases ELSE <<>>
Case == Cases[Len(results) + 1]
Supplies == DOMAIN Case.supplied # {}

Between == phase = "case" /\ done = "judged" /\ report = None
Placed == build.declared \/ build.targets = {}

\* The transform is executed on the input of the case, with the recorded
\* results if the case supplies any.
RunCase ==
    /\ Between /\ Placed
    /\ Len(results) < Len(Cases)
    /\ run' = <<[cc |-> "case", pipeline |-> <<Case.target>>]>>
    /\ at' = [contract |-> 1, step |-> 1]
    /\ carried' = Case.input
    /\ recorded' = IF Supplies
                   THEN <<[key \in {<<"case", Case.target, path>> : path \in DOMAIN Case.supplied} |->
                              Case.supplied[key[3]]]>>
                   ELSE <<>>
    /\ done' = "no"
    /\ trace' = <<>> /\ drawn' = <<>>
    /\ UNCHANGED <<phase, stack, first, buildVars>>

InCase == phase = "case" /\ Len(results) < Len(Cases)

\* What the observer saw: results that were used, and atoms that were run.
Used == {trace[i].path : i \in {j \in DOMAIN trace : trace[j].replayed = "yes"}}
Observed == {trace[i].path : i \in {j \in DOMAIN trace :
                trace[j].purity = "ct_impure" /\ trace[j].replayed = "no"}}

Conclude(passed, ended) ==
    /\ results' = Append(results,
            [target |-> Case.target, passed |-> passed, ended |-> ended,
             value |-> IF ended = "SUCCESS" /\ Produced THEN Output ELSE None,
             used |-> Used, drew |-> \E i \in DOMAIN drawn : drawn[i].key[3] # None])
    /\ done' = "judged"
    /\ stack' = <<>>
    /\ UNCHANGED <<run, phase, at, carried, trace, first, recorded, drawn, build, report>>

\* Variant: any error of the executor is the refusal a case may expect.
JudgeAnyRefusal ==
    /\ InCase /\ done \in {"VIOLATION", "unsupplied"}
    /\ Conclude(Case.expects = "VIOLATION", done)

JudgeRefusal ==
    /\ InCase /\ done = "VIOLATION"
    /\ Conclude(Case.expects = "VIOLATION", done)

\* The transform's own fault and the runner's refusal judge nothing.
JudgeFault ==
    /\ InCase /\ done \in {"raised", "unsupplied"}
    /\ Conclude(FALSE, done)

\* A completed case passes if completion was expected, nothing was drawn that
\* was to be replayed, every supplied result was used, and the output is what
\* was expected.
Agreeing ==
    /\ Case.expects = "SUCCESS"
    /\ Supplies => Observed = {} /\ Used = DOMAIN Case.supplied
    /\ Produced
    /\ Case.want \in {Output, Whatever}

JudgeResult ==
    /\ InCase /\ AtEnd /\ Len(stack) = 1
    /\ Conclude(Agreeing, "SUCCESS")

-----------------------------------------------------------------------------
(***************************************************************************)
(* run_domain.                                                             *)
(***************************************************************************)
Own == build.transforms \ build.imported
ResultsOf(ct) == {i \in DOMAIN results : results[i].target = ct}
Tested == {ct \in Own : ResultsOf(ct) # {}}
Failed == {ct \in Own : \E i \in ResultsOf(ct) : ~results[i].passed}
Untested == (Own \cap build.targets) \ Tested

\* Vectors, and no place for their cases: the build is told nothing.
Misplaced ==
    /\ Between /\ ~Placed
    /\ done' = "raised"
    /\ UNCHANGED <<run, phase, at, carried, stack, trace, first, recorded, drawn, buildVars>>

Tell(proven, refused) ==
    /\ Between /\ Placed
    /\ Len(results) = Len(Cases)
    /\ report' = [proven |-> proven, refused |-> refused,
                  unproven |-> Own \ (proven \cup refused),
                  admitted |-> refused = {} /\ \A i \in DOMAIN results : results[i].passed]
    /\ UNCHANGED <<vars, build, results>>

\* Variant: all() is asked of the cases of a transform before their number is.
ReportOverNothing == Tell(Own \ Failed, Failed)

\* A transform is proven by cases that all passed, and refused if one failed or
\* if it has a vector from which no case came.
Report == Tell(Tested \ Failed, Failed \cup Untested)

BuildNext ==
    \/ Next /\ UNCHANGED buildVars
    \/ RunCase \/ JudgeRefusal \/ JudgeFault \/ JudgeResult \/ Misplaced \/ Report

BuildSpec == BuildInit /\ [][BuildNext]_<<vars, buildVars>>

-----------------------------------------------------------------------------
\* conformance.py:18: "Such a case is therefore also a proof of replay".  A case
\* that expects a refusal passes by a refusal of the transform itself, and not
\* because it broke or because the case left out a result; one that expects a
\* result passes with that result, and if it supplies results all of them were
\* used and no atom was run in the place of one, at any depth of molecules.
\* (An atom in a loop of its own is run and not observed: LoopAtom.)
PassedIsProof ==
    \A i \in DOMAIN results : results[i].passed =>
        LET case == Cases[i]
        IN  IF case.expects = "VIOLATION" THEN results[i].ended = "VIOLATION"
            ELSE /\ results[i].ended = "SUCCESS"
                 /\ results[i].value # None
                 /\ case.want \in {results[i].value, Whatever}
                 /\ DOMAIN case.supplied # {} =>
                       results[i].used = DOMAIN case.supplied /\ ~results[i].drew

\* "It never reports success over nothing": what the build is told accounts for
\* every transform it supplies, once; a proven one has run cases, which passed;
\* an unproven one has no vector; and a build is admitted only if every case
\* compiled for it was run and passed, whoever supplies the transform, and every
\* transform of its own that has a vector is proven.
VerdictIsTrue ==
    report # None =>
        /\ report.proven \cup report.refused \cup report.unproven = Own
        /\ \A ct \in Own : Cardinality({s \in {"proven", "refused", "unproven"} : ct \in report[s]}) = 1
        /\ \A ct \in report.proven : \E i \in DOMAIN Cases : Cases[i].target = ct
        /\ \A i \in DOMAIN Cases : Cases[i].target \in report.proven => results[i].passed
        /\ report.unproven \cap build.targets = {}
        /\ report.admitted =>
              /\ \A i \in DOMAIN Cases : results[i].passed
              /\ Own \cap build.targets \subseteq report.proven
=============================================================================
