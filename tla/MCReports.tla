------------------------------ MODULE MCReports -------------------------------
(***************************************************************************)
(* From the data to what is said of the results, each part by itself: the  *)
(* cache of datasets with its processes, also with a directory named by    *)
(* hand; the drawing of samples; the reports of a run; the analysis of     *)
(* several; and its tests. A behaviour is of one of these parts.           *)
(***************************************************************************)
EXTENDS DatasetCache, ScoreReports, Analysis, Integers, Sequences, SequencesExt

(* Datasets: two runs of one sample, another process that fetches it and one  *)
(* for the whole; two made by hand in one directory; up to three items, the   *)
(* first of up to three questions, some of them not objects.                  *)
OneSample == [r \in Requests |-> IF r = "fetchall" THEN "all" ELSE "fifth"]
NoSample == [r \in Requests |-> "all"]
TwoSamples == [a |-> "fifth", b |-> "all", fetch |-> "half", fetchall |-> "all"]
MCDeclarations == {OneSample, NoSample, TwoSamples}

Datum(n) == {<<>>} \cup {<<q>> : q \in BoundedSeq({1, 2}, n)}
Payloads ==
    {<<>>} \cup {<<i>> : i \in Datum(3)} \cup (Datum(2) \X Datum(2))
        \cup ({<<<<1, 2, 2>>>>, <<<<2, 1>>>>} \X Datum(2) \X {<<>>, <<<<>>>>, <<<<1>>>>})

(* Reports: three questions in two units, or two in one where every list of   *)
(* memories is tried; a provider may be silent about usage, give all of it or *)
(* leave out the total.                                                       *)
TwoUnits == <<2, 1>>
Silent == {}
InFull == {[prompt |-> 1, completion |-> 1, total |-> 3]}
InParts == {[prompt |-> 1, completion |-> 1, total |-> 0]}
Lists == {<<>>} \cup {<<r>> : r \in SUBSET {1, 2}}
              \cup {<<r, s>> : r \in {{}, {1}, {2}}, s \in {{}, {1}, {2}, {1, 2}}}
Searches ==
    {[gold |-> g, results |-> l, included |-> 0] : g \in {{}, {1}, {1, 2}}, l \in Lists}
        \cup {[gold |-> {1}, results |-> <<{1}, {2}>>, included |-> n] : n \in {1, 2}}
OneSearch == {[gold |-> {1}, results |-> <<{2}, {1}>>, included |-> 1]}
OfUsage ==
    [schema |-> 3, units |-> TwoUnits, judges |-> 2, primary |-> 1, ingestions |-> {3},
     replies |-> {Silent, InFull}, searches |-> OneSearch, applicable |-> TRUE]
OfRanks ==
    [schema |-> 3, units |-> <<2>>, judges |-> 1, primary |-> 1, ingestions |-> {0},
     replies |-> {InParts}, searches |-> Searches, applicable |-> TRUE]
OfTiming ==
    [schema |-> 2, units |-> TwoUnits, judges |-> 1, primary |-> 1, ingestions |-> {0, 3},
     replies |-> {Silent, InFull, InParts}, searches |-> OneSearch, applicable |-> FALSE]
OneQuestion ==
    [schema |-> 2, units |-> <<1>>, judges |-> 1, primary |-> 1, ingestions |-> {0},
     replies |-> {Silent}, searches |-> OneSearch, applicable |-> FALSE]
MCExperiments == {OfUsage, OfRanks, OfTiming, OneQuestion}

(* Analysis: three queries in two units; for the comparisons publications     *)
(* whose files do not agree too, with rows that have no task or a type that   *)
(* no evaluation has; for the frontier several costs and latencies.           *)
Strata ==
    <<[competence |-> 1, task |-> 1], [competence |-> 1, task |-> 2], [competence |-> 2]>>
Rows(grades) ==
    [q \in 1 .. 3 |-> [query |-> q, score |-> grades[q], strata |-> Strata[q]]]
Run(grades) ==
    [framework |-> "dmf", benchmark |-> "memoryagentbench", controls |-> 1, ablation |-> 0,
     expected |-> <<1, 2, 3>>, units |-> <<<<1, 2>>, <<3>>>>, predictions |-> <<1, 2, 3>>,
     rows |-> Rows(grades), evaluations |-> Rows(grades),
     judgments |-> [q \in 1 .. 3 |-> [of |-> q, score |-> grades[q]]],
     cost |-> {1}, latency |-> {1}]
NoTask == [competence |-> 1]
Typed(strata) == [question_type |-> 1] @@ strata
Grades == {<<0, 0, 1>>, <<1, 0, 0>>, <<1, 1, 0>>}
Compared ==
    UNION {{Run(s), [Run(s) EXCEPT !.controls = 2], [Run(s) EXCEPT !.ablation = 1],
            [Run(s) EXCEPT !.units = <<<<1>>, <<2, 3>>>>],
            [Run(s) EXCEPT !.units = <<<<1, 2>>, <<2, 3>>>>],
            [Run(s) EXCEPT !.rows[1].score = 1 - @],
            [Run(s) EXCEPT !.rows = <<@[1], @[3], @[2]>>],
            [Run(s) EXCEPT !.rows = <<@[1], @[2]>>],
            [Run(s) EXCEPT !.rows[2].strata.task = 1],
            [Run(s) EXCEPT !.rows[2].strata = NoTask],
            [Run(s) EXCEPT !.rows[2].strata = NoTask, !.evaluations[2].strata = NoTask],
            [Run(s) EXCEPT !.rows[2].strata.task = 1, !.evaluations[2].strata.task = 1],
            [Run(s) EXCEPT !.rows[1].strata = Typed(@)],
            [Run(s) EXCEPT !.rows[1].strata = Typed(@), !.rows[3].strata = Typed(@)],
            [Run(s) EXCEPT !.benchmark = "beam"],
            [Run(s) EXCEPT !.benchmark = "unknown"],
            [Run(s) EXCEPT !.evaluations[3].score = 1 - @],
            [Run(s) EXCEPT !.judgments[3].score = 1 - @],
            [Run(s) EXCEPT !.judgments[1].of = 2],
            [Run(s) EXCEPT !.framework = "full-context"]} : s \in Grades}
Ranked ==
    {[Run(s) EXCEPT !.cost = c, !.latency = l] :
        s \in {<<1, 0, 0>>, <<1, 1, 0>>}, c \in {{}, {1}, {2}}, l \in {{1}, {2}}}
    \cup {[Run(s) EXCEPT !.latency = l, !.framework = "full-context"] :
        s \in {<<1, 0, 0>>, <<1, 1, 0>>}, l \in {{1}, {2}}}
OneRow == <<[query |-> 1, score |-> 0, strata |-> [category |-> 1]]>>
Smallest ==
    [framework |-> "dmf", benchmark |-> "locomo", controls |-> 1, ablation |-> 0, expected |-> <<1>>,
     units |-> <<<<1>>>>, predictions |-> <<1>>, rows |-> OneRow, evaluations |-> OneRow,
     judgments |-> <<[of |-> 1, score |-> 0]>>, cost |-> {}, latency |-> {}]
MCPublications == Compared \cup Ranked \cup {Smallest}
BothWays == <<<<1, 2>>, <<2, 1>>>>
MCCellPlans == UNION {[F -> {{}, {1}, {2}}] : F \in SUBSET {"dmf", "full-context"}}

VARIABLES
    part,   \* the part that a behaviour is of; the others are unused in it, or at their start
    pc,
    payload, spec, left, selected, sample, manifest,
    counts,
    differences,
    at, ranks, used, p, z, order, adjusted

sampleVars == <<payload, spec, left, selected, sample, manifest>>
testVars == <<at, ranks, used, p, z, order, adjusted>>
all == <<part, pc, vars, sampleVars, counts, reportVars, analysisVars, differences, testVars>>

Unused == "unused"
SampleVarsUnused ==
    /\ payload = Unused /\ spec = Unused /\ left = Unused
    /\ selected = Unused /\ sample = Unused /\ manifest = Unused
CountsUnused == counts = Unused
DifferencesUnused == differences = Unused
TestVarsUnused ==
    /\ at = Unused /\ ranks = Unused /\ used = Unused
    /\ p = Unused /\ z = Unused /\ order = Unused /\ adjusted = Unused

-----------------------------------------------------------------------------
Sample == INSTANCE DatasetSample WITH
    Groups <- {1, 2}, Fractions <- {<<1, 5>>, <<1, 2>>, <<2, 3>>, <<1, 1>>},
    Units <- {"qa", "conversation", "record"}
Wilcoxon == INSTANCE PairedTest WITH
    Comparisons <- 1, Units <- 4, ExactLimit <- 25, MaxDifference <- 4
Normal == INSTANCE PairedTest WITH
    Comparisons <- 1, Units <- 4, ExactLimit <- 2, MaxDifference <- 3
Holm == INSTANCE PairedTest WITH
    Comparisons <- 3, Units <- 3, ExactLimit <- 25, MaxDifference <- 1

ASSUME DataAssumption ==
    RequestAssumption /\ Sample!SamplingAssumption
ASSUME AnalysisAssumption ==
    /\ ReportAssumption /\ PlanAssumption
    /\ Wilcoxon!CountAssumption /\ Normal!CountAssumption /\ Holm!CountAssumption

CacheAtStart == Init /\ samplingOf = OneSample /\ ~ byHand
ReportsAtStart == experiment = OneQuestion /\ ReportsInit
AnalysisAtStart ==
    published = [r \in RunIds |-> Smallest] /\ cells = <<>> /\ AnalysisInit

\* Bound: matrices are filled where the second run is as it should be.
MCInit ==
    \/ /\ part = "cache" /\ Init /\ pc = Unused
       /\ byHand = (samplingOf = TwoSamples)
       /\ ReportsAtStart /\ AnalysisAtStart /\ SampleVarsUnused /\ CountsUnused
       /\ DifferencesUnused /\ TestVarsUnused
    \/ /\ CacheAtStart /\ ReportsAtStart /\ AnalysisAtStart
       /\ \/ /\ part = "sample" /\ Sample!Init
             /\ DifferencesUnused /\ TestVarsUnused
          \/ /\ \/ part = "wilcoxon" /\ Wilcoxon!Init
                \/ part = "normal" /\ Normal!Init
                \/ part = "holm" /\ Holm!Init
             /\ SampleVarsUnused
    \/ /\ CacheAtStart /\ pc = Unused
       /\ \/ /\ part = "reports" /\ ReportsInit /\ AnalysisAtStart
          \/ /\ part = "pairs"
             /\ published \in [RunIds -> Compared] /\ published[3] = Run(<<1, 0, 0>>)
             /\ cells \in CellPlans
             /\ cells # <<>> => published[2] = Run(<<1, 0, 0>>)
             /\ ReportsAtStart /\ AnalysisInit
          \/ /\ part = "frontier"
             /\ published \in [RunIds -> Ranked] /\ cells = <<>>
             /\ ReportsAtStart /\ AnalysisInit
       /\ SampleVarsUnused /\ CountsUnused /\ DifferencesUnused /\ TestVarsUnused

\* Bound: nothing fails in the directory that was named by hand, and one thing
\* where nobody takes a sample.
InCache(step) ==
    /\ part = "cache" /\ step
    /\ byHand => faults' = 0
    /\ samplingOf = NoSample => faults' <= 1
    /\ UNCHANGED <<part, pc, sampleVars, counts, reportVars, analysisVars,
        differences, testVars>>
InSample(step) ==
    /\ part = "sample" /\ step
    /\ UNCHANGED <<part, vars, reportVars, analysisVars, differences, testVars>>
InReports(step) ==
    /\ part = "reports" /\ step
    /\ UNCHANGED <<part, pc, vars, sampleVars, counts, analysisVars, differences, testVars>>
InAnalysis(step) ==
    /\ part \in {"pairs", "frontier"} /\ step
    /\ UNCHANGED <<part, pc, vars, sampleVars, counts, reportVars, differences, testVars>>
OfTests(step) ==
    /\ step
    /\ UNCHANGED <<part, vars, sampleVars, reportVars, analysisVars>>
InWilcoxon(step) == part = "wilcoxon" /\ OfTests(step)
InNormal(step) == part = "normal" /\ OfTests(step)
InHolm(step) == part = "holm" /\ OfTests(step)

MCNext ==
    \/ InCache(Next)
    \/ InSample(Sample!Next)
    \/ InReports(ReportsNext)
    \/ InAnalysis(AnalysisNext)
    \/ InWilcoxon(Wilcoxon!Next)
    \/ InNormal(Normal!Next)
    \/ InHolm(Holm!Next)

\* As in DatasetCache: processes go on, and the operator clears the way.
MCFairness ==
    /\ \A r \in Requests : WF_all(InCache(Process(r)))
    /\ \A d \in Dirs : WF_all(InCache(RemoveSource(d)))

MCSpec == MCInit /\ [][MCNext]_all /\ MCFairness

-----------------------------------------------------------------------------
\* Each group has its share of a sample, which holds what was picked and what is
\* recorded; and a sample of everything loses nothing.
SampleIsAsRecorded ==
    part = "sample" =>
        /\ Sample!TypeOK /\ Sample!EveryGroupHasItsShare
        /\ Sample!SampleIsAsRecorded /\ Sample!AllOfItIsAllOfIt

\* Of the differences as they were computed, few have their exact p-value and
\* many that of the fitting normal distribution, ties included; and the adjusted
\* p-values are those of Holm's procedure.
TestsAsDefined ==
    /\ part = "wilcoxon" => Wilcoxon!TypeOK /\ Wilcoxon!PIsExact /\ Wilcoxon!NormalFits
    /\ part = "normal" => Normal!TypeOK /\ Normal!PIsExact /\ Normal!NormalFits
    /\ part = "holm" => Holm!TypeOK /\ Holm!HolmIsStepDown

\* Whatever fails on the way, every run has its data in the end.
EventuallyLoaded == <>[](part = "cache" /\ ~ byHand => Loaded)
=============================================================================
