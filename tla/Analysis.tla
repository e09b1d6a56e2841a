------------------------------- MODULE Analysis -------------------------------
(***************************************************************************)
(* The offline analysis of published runs: each is loaded and what its     *)
(* files say of one another is cross-checked, declared comparisons are     *)
(* paired unit by unit, the matrix of benchmarks and frameworks is filled, *)
(* and the runs on the frontier of score, cost and latency are found.      *)
(* Anything that does not fit refuses the whole analysis.                  *)
(*                                                                         *)
(* Means and differences of means are fractions <<numerator, denominator>>,*)
(* scores and costs are integers in some unit, and a run is what its       *)
(* publication holds.  Scores are the primary judge's: secondary judges    *)
(* are paired alike, of all units only.  The tests on the differences are  *)
(* in PairedTest.                                                          *)
(***************************************************************************)
EXTENDS Integers, Sequences, SequencesExt, FiniteSets, Functions

CONSTANTS
    RunIds,         \* the runs of the plan: 1 .. n
    Queries,
    Publications,   \* what a run may have published
    Comparisons,    \* the plan's: pairs of different runs
    Frameworks,
    CellPlans       \* the matrices a plan may ask for

\* What is assumed of the constants; the instances check it.  The queries of a
\* publication's files, and what the files say of them, need not fit together.
PlanAssumption ==
    /\ IsFiniteSet(RunIds) /\ RunIds = 1 .. Cardinality(RunIds)
    /\ Comparisons \in Seq(RunIds \X RunIds)
    /\ \A c \in ToSet(Comparisons) : c[1] # c[2]
    /\ \A p \in Publications :
          /\ p.framework \in Frameworks
          /\ p.expected \in Seq(Queries) /\ p.units \in Seq(Seq(Queries))
          /\ \A row \in ToSet(p.rows) : row.score \in Int
          /\ p.cost \subseteq Int /\ p.latency \subseteq Int
    /\ \A given \in CellPlans :
          /\ DOMAIN given \subseteq Frameworks
          /\ \A f \in DOMAIN given : \A q, r \in given[f] : q = r

VARIABLES
    published,     \* of each run
    cells,         \* the plan's matrix: a run or no run for some frameworks
    phase,         \* "load", "compare", "report", "done", "refused"
    loaded,        \* the runs that were checked
    compared,      \* of each comparison made: of all units, and by name and stratum
    matrix,        \* status of every framework
    frontier       \* status of every run

plan == <<published, cells>>
analysisVars == <<plan, phase, loaded, compared, matrix, frontier>>

Refuse == phase' = "refused"
QueriesOf(rows) == [k \in DOMAIN rows |-> rows[k].query]
RowOf(rows, query) == rows[CHOOSE k \in DOMAIN rows : rows[k].query = query]
UnitOf(run, query) == CHOOSE u \in DOMAIN run.units : query \in ToSet(run.units[u])
Expected(run) == ToSet(run.expected)

\* The names of a benchmark's strata.
ExpectedStrata ==
    [locomo |-> {"category"},
     longmemeval |-> {"question_type", "is_abstention"},
     memoryagentbench |-> {"competence", "task", "source", "answer_format"},
     beam |-> {"scale", "ability", "difficulty"}]

\* The names that comparisons are broken down by, whatever the benchmark.
Names == {"category", "competence", "task", "question_type", "ability", "scale"}

\* What strata say by a name: one value or, where it is absent or None, none.
\* A value is its text, and no text is "None".
Said(strata, name) == {strata[n] : n \in DOMAIN strata \cap {name}}

-----------------------------------------------------------------------------
\* Variant: the rows are taken as they are.
RowsAsTheyAre(run) == QueriesOf(run.rows) = run.expected

\* The units ask every query in one place.
EachAskedOnce(run) ==
    /\ \A u, v \in DOMAIN run.units :
          \A i \in DOMAIN run.units[u] : \A j \in DOMAIN run.units[v] :
             run.units[u][i] = run.units[v][j] => u = v /\ i = j
    /\ UNION {ToSet(run.units[u]) : u \in DOMAIN run.units} = Expected(run)

\* Every query has a row, an evaluation, a prediction in one unit and a
\* judgment of that prediction, and they give the same score and, by the names
\* of its benchmark, the same strata.
Consistent(run) ==
    /\ run.benchmark \in DOMAIN ExpectedStrata
    /\ run.expected # <<>> /\ IsInjective(run.expected)
    /\ QueriesOf(run.rows) = run.expected /\ QueriesOf(run.evaluations) = run.expected
    /\ EachAskedOnce(run)
    /\ \A query \in Expected(run) :
          LET row == RowOf(run.rows, query)
              evaluation == RowOf(run.evaluations, query)
              judgment == run.judgments[query] IN
          /\ judgment.of = run.predictions[query]
          /\ judgment.score = evaluation.score /\ evaluation.score = row.score
          /\ \A name \in ExpectedStrata[run.benchmark] :
                Said(row.strata, name) = Said(evaluation.strata, name)

LoadRun(r) ==
    /\ phase = "load" /\ loaded = 1 .. r - 1 /\ r \in RunIds
    /\ IF Consistent(published[r])
       THEN loaded' = loaded \cup {r} /\ UNCHANGED phase
       ELSE Refuse /\ UNCHANGED loaded
    /\ UNCHANGED <<plan, compared, matrix, frontier>>

EndLoad ==
    /\ phase = "load" /\ loaded = RunIds /\ phase' = "compare"
    /\ UNCHANGED <<plan, loaded, compared, matrix, frontier>>

-----------------------------------------------------------------------------
\* The scores of a unit's queries, of those asked for: their sum and number.
UnitMean(run, unit, queries) ==
    LET ours == ToSet(run.units[unit]) \cap queries IN
    <<SumFunctionOnSet([q \in ours |-> RowOf(run.rows, q).score], ours),
      Cardinality(ours)>>

UnitsWith(run, queries) ==
    {u \in DOMAIN run.units : ToSet(run.units[u]) \cap queries # {}}

\* The difference of two means, a numerator over a denominator.
Difference(left, right) == <<right[1] * left[2] - left[1] * right[2], left[2] * right[2]>>

Paired(left, right, queries) ==
    [u \in UnitsWith(left, queries) |->
        Difference(UnitMean(left, u, queries), UnitMean(right, u, queries))]

\* The same frozen settings, the benchmark being one, the same queries in the
\* same units, and ablations with ablations of the same configuration.
Compatible(left, right) ==
    /\ left.benchmark = right.benchmark /\ left.controls = right.controls
    /\ left.expected = right.expected
    /\ DOMAIN left.units = DOMAIN right.units
    /\ \A u \in DOMAIN left.units : ToSet(left.units[u]) = ToSet(right.units[u])
    /\ left.ablation = right.ablation

\* The strata by a name that some row has one in, and the queries in one.
Values(run, name) == UNION {Said(row.strata, name) : row \in ToSet(run.rows)}
InStratum(run, name, value) ==
    {q \in Expected(run) : value \in Said(RowOf(run.rows, q).strata, name)}

\* Variant: it is enough that the right run knows the stratum.
StrataKnown(left, right) ==
    \A name \in Names : Values(left, name) \subseteq Values(right, name)

\* Whatever has a stratum in the left run has the same in the right one.
StrataPaired(left, right) ==
    \A name \in Names : \A value \in Values(left, name) :
        InStratum(left, name, value) = InStratum(right, name, value)

\* Of all units, and by each name that some row has a stratum by, of those units
\* that a stratum has queries of, rows without one left out.
Comparison(left, right) ==
    [units |-> Paired(left, right, Expected(left)),
     strata |-> [name \in {n \in Names : Values(left, n) # {}} |->
                    [value \in Values(left, name) |->
                        Paired(left, right, InStratum(left, name, value))]]]

Compare ==
    /\ phase = "compare" /\ Len(compared) < Len(Comparisons)
    /\ LET pair == Comparisons[Len(compared) + 1]
           left == published[pair[1]]  right == published[pair[2]] IN
       IF Compatible(left, right) /\ StrataPaired(left, right)
       THEN /\ compared' = Append(compared, Comparison(left, right))
            /\ UNCHANGED phase
       ELSE Refuse /\ UNCHANGED compared
    /\ UNCHANGED <<plan, loaded, matrix, frontier>>

EndCompare ==
    /\ phase = "compare" /\ Len(compared) = Len(Comparisons) /\ phase' = "report"
    /\ UNCHANGED <<plan, loaded, compared, matrix, frontier>>

-----------------------------------------------------------------------------
CellFits(framework, run) == run \in loaded /\ published[run].framework = framework

\* A common multiple of how many queries the units have that have any.
Multiple(run) ==
    LET asking == UnitsWith(run, Expected(run))
        multiple[k \in 0 .. Len(run.units)] ==
            IF k = 0 THEN 1
            ELSE IF k \in asking
            THEN multiple[k - 1] * UnitMean(run, k, Expected(run))[2]
            ELSE multiple[k - 1]
    IN multiple[Len(run.units)]

\* The mean of the units' means.
Score(run) ==
    LET asking == UnitsWith(run, Expected(run))
        share == [u \in asking |-> UnitMean(run, u, Expected(run))[1]
                     * (Multiple(run) \div UnitMean(run, u, Expected(run))[2])]
    IN <<SumFunctionOnSet(share, asking), Multiple(run) * Cardinality(asking)>>

AtLeast(x, y) == x[1] * y[2] >= y[1] * x[2]

Comparable(a, b) ==
    /\ (a.framework = "full-context") = (b.framework = "full-context")
    /\ a.benchmark = b.benchmark /\ a.controls = b.controls

Available(run) == run.cost # {} /\ run.latency # {}
The(one) == CHOOSE x \in one : TRUE

\* Variant: being as good is enough.
AsGood(a, b) ==
    /\ Available(a) /\ AtLeast(Score(a), Score(b))
    /\ The(a.cost) <= The(b.cost) /\ The(a.latency) <= The(b.latency)

\* No worse in any respect, and better in one.
Dominates(a, b) ==
    /\ Available(a) /\ AtLeast(Score(a), Score(b))
    /\ The(a.cost) <= The(b.cost) /\ The(a.latency) <= The(b.latency)
    /\ \/ ~ AtLeast(Score(b), Score(a))
       \/ The(a.cost) < The(b.cost) \/ The(a.latency) < The(b.latency)

StatusOf(r) ==
    IF ~Available(published[r]) THEN "UNAVAILABLE"
    ELSE IF \E q \in RunIds \ {r} : /\ Comparable(published[q], published[r])
                                    /\ Dominates(published[q], published[r])
    THEN "DOMINATED" ELSE "FRONTIER"

Report ==
    /\ phase = "report"
    /\ IF \A f \in DOMAIN cells : \A r \in cells[f] : CellFits(f, r)
       THEN /\ matrix' = [f \in Frameworks |->
                             IF f \in DOMAIN cells THEN cells[f] ELSE {}]
            /\ frontier' = [r \in RunIds |-> StatusOf(r)]
            /\ phase' = "done"
       ELSE Refuse /\ UNCHANGED <<matrix, frontier>>
    /\ UNCHANGED <<plan, loaded, compared>>

AnalysisInit ==
    /\ published \in [RunIds -> Publications]
    /\ cells \in CellPlans
    /\ phase = "load" /\ loaded = {} /\ compared = <<>>
    /\ matrix = <<>> /\ frontier = <<>>

AnalysisNext ==
    (\E r \in RunIds : LoadRun(r)) \/ EndLoad \/ Compare \/ EndCompare \/ Report

AnalysisSpec == AnalysisInit /\ [][AnalysisNext]_analysisVars

-----------------------------------------------------------------------------
AnalysisTypeOK ==
    /\ phase \in {"load", "compare", "report", "done", "refused"}
    /\ loaded \subseteq RunIds
    /\ phase = "done" =>
          \A f \in Frameworks : /\ \A q, r \in matrix[f] : q = r
                               /\ \A r \in matrix[f] : published[r].framework = f

LeftOf(k) == published[Comparisons[k][1]]
RightOf(k) == published[Comparisons[k][2]]

\* A difference between two means is that between what the two runs' judges gave
\* these queries.
AsJudged(k, queries, difference) ==
    LET gain == [q \in queries |-> RightOf(k).judgments[q].score
                                      - LeftOf(k).judgments[q].score] IN
    difference[1] * Cardinality(queries) = SumFunctionOnSet(gain, queries) * difference[2]

\* So is the difference of every unit.
UnitsAsJudged(k) ==
    \A u \in UnitsWith(LeftOf(k), Expected(LeftOf(k))) :
        AsJudged(k, ToSet(LeftOf(k).units[u]), compared[k].units[u])

\* A query's stratum by a name, none or one: its evaluation's, or its row's where
\* no name of the benchmark's is that name.
StratumOf(run, query, name) ==
    IF name \in ExpectedStrata[run.benchmark]
    THEN Said(RowOf(run.evaluations, query).strata, name)
    ELSE Said(RowOf(run.rows, query).strata, name)

\* Every query of the left run that has a stratum is in that one's comparison.
\* Of each unit it has the queries that have that stratum, in both runs alike and
\* no other, and the difference is of what these were given.
StrataAsJudged(k) ==
    LET left == LeftOf(k)  strata == compared[k].strata
        within(run, u, name, value) ==
            {q \in ToSet(left.units[u]) : value \in StratumOf(run, q, name)} IN
    /\ \A q \in Expected(left), name \in Names : \A value \in StratumOf(left, q, name) :
          /\ name \in DOMAIN strata /\ value \in DOMAIN strata[name]
          /\ \E u \in DOMAIN strata[name][value] : q \in ToSet(left.units[u])
    /\ \A name \in DOMAIN strata : \A value \in DOMAIN strata[name] :
          \A u \in DOMAIN strata[name][value] :
             LET queries == within(left, u, name, value) IN
             /\ queries # {} /\ queries = within(RightOf(k), u, name, value)
             /\ AsJudged(k, queries, strata[name][value][u])

\* A comparison is of judgments as they were published: of all units, and by name
\* and stratum of exactly the queries that have it, those without one in none;
\* whatever path the scores and the strata took to the rows and whichever files
\* of a publication disagree.
ComparedAsJudged ==
    AnalysisTypeOK /\ \A k \in DOMAIN compared : UnitsAsJudged(k) /\ StrataAsJudged(k)

\* Whatever is said to be dominated is so by a run on the frontier, and no two
\* comparable runs are on it of which one is the better choice in every respect.
FrontierDominates ==
    phase = "done" =>
        \A r \in RunIds :
            LET better(q) == /\ q # r /\ frontier[q] = "FRONTIER"
                             /\ Comparable(published[q], published[r])
                             /\ Dominates(published[q], published[r]) IN
            /\ frontier[r] = "DOMINATED" => \E q \in RunIds : better(q)
            /\ frontier[r] = "FRONTIER" => ~\E q \in RunIds : better(q)
=============================================================================
