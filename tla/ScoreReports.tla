----------------------------- MODULE ScoreReports -----------------------------
(***************************************************************************)
(* What a run's reports say of its questions, from the adapters that count *)
(* tokens to the analysis that reads the rows: the tokens a unit's         *)
(* ingestion took are shared out to its questions, every answer and every  *)
(* verdict brings its own, each call leaves a timing, and the evaluators   *)
(* and reports put it together again.  A ledger is kept of what was really *)
(* spent and done.                                                         *)
(*                                                                         *)
(* One counter stands for tokens and calls alike, every call takes the     *)
(* same time, and means are left out: they follow from sums and numbers.   *)
(* How results are kept and redone is in JudgedItems and RetrievalQA.      *)
(***************************************************************************)
EXTENDS Integers, Sequences, SequencesExt, FiniteSets, Functions

\* What is planned and what may come: the schema, 2 or 3; the numbers of
\* questions of the units; how many judges there are and which one is the
\* primary; tokens the ingestion of a unit may take; the usage a reply may bring,
\* none or one record of three counters; what a search may find, [gold, results,
\* included]: a question's evidence, the sources of each memory found, and how
\* many were packed; and whether the benchmark has evidence and the framework
\* sources.
CONSTANT Experiments

Usages == [prompt : Nat, completion : Nat, total : Nat]

\* What is assumed of the constants; the instances check it.
ReportAssumption ==
    \A e \in Experiments :
        /\ e.schema \in {2, 3} /\ e.judges \in Nat /\ e.primary \in 1 .. e.judges
        /\ (e.schema = 2 => e.judges = 1)
        /\ e.units \in Seq(Nat \ {0}) /\ e.units # <<>>
        /\ e.ingestions \subseteq Nat /\ e.applicable \in BOOLEAN
        /\ \A reply \in e.replies :
              reply \subseteq Usages /\ \A u, v \in reply : u = v
        /\ \A s \in e.searches :
              /\ IsFiniteSet(s.gold) /\ s.results \in Seq(Range(s.results))
              /\ s.included \in 0 .. Len(s.results)

VARIABLES
    experiment,    \* the setting
    progress,      \* "predict", "judge", "evaluate", "report", "done"
    ingested,      \* tokens of the units ingested so far
    asked,         \* how many questions of the last of them were asked
    predictions,   \* of the questions so far, in their order
    verdicts,      \* of each question judged so far, by judge
    retrieval,     \* evaluations/retrieval_report.json
    rows,          \* evaluations/analysis_rows.jsonl
    scores,        \* verdicts and agreement of the judges
    usage,         \* reports/usage.json
    timing,        \* reports/timing.json: how many timings of each stage
    spent,         \* the ledger: tokens, and replies that said nothing of them
    calls          \* the ledger: how often each stage was done

evaluated == <<retrieval, rows, scores>>
reported == <<usage, timing>>
ledger == <<spent, calls>>
reportVars == <<experiment, progress, ingested, asked, predictions, verdicts,
                evaluated, reported, ledger>>

Judges == 1 .. experiment.judges
Unit == Len(ingested)                  \* the one that is worked on
UnitIsDone == ingested # <<>> => asked = experiment.units[Unit]

\* A provider that gives no total gives its parts.
Tokens(reply) ==
    IF reply = {} THEN 0
    ELSE LET given == CHOOSE u \in reply : TRUE IN
         IF given.total # 0 THEN given.total ELSE given.prompt + given.completion

Silence(reply) == IF reply = {} THEN 1 ELSE 0

-----------------------------------------------------------------------------
\* Variant: what is left over by the division is nobody's.
EvenShare(tokens, questions, index) == tokens \div questions

\* The tokens of a unit's ingestion are divided among its questions, and the
\* first of them take what is left over.
Share(tokens, questions, index) ==
    tokens \div questions + (IF index <= tokens % questions THEN 1 ELSE 0)

\* What is a question's of the tokens of its unit's ingestion.
MemoryShare == Share(ingested[Unit], experiment.units[Unit], asked + 1)

Ingest ==
    /\ progress = "predict" /\ UnitIsDone /\ Unit < Len(experiment.units)
    /\ \E tokens \in experiment.ingestions :
          /\ ingested' = Append(ingested, tokens) /\ asked' = 0
          /\ spent' = [spent EXCEPT !.memory = @ + tokens]
    /\ calls' = [calls EXCEPT !.ingestion = @ + 1]
    /\ UNCHANGED <<experiment, progress, predictions, verdicts, evaluated, reported>>

\* A question is searched for, what was found is packed, and it is answered.
Predict ==
    /\ progress = "predict" /\ ~ UnitIsDone
    /\ \E search \in experiment.searches, reply \in experiment.replies :
          /\ predictions' = Append(predictions,
                 [unit |-> Unit, search |-> search, answerer |-> reply,
                  memory |-> MemoryShare])
          /\ spent' = [spent EXCEPT !.answerer = @ + Tokens(reply),
                                    !.silent = @ + Silence(reply)]
    /\ asked' = asked + 1
    /\ calls' = [calls EXCEPT !.qa = @ + 1]
    /\ UNCHANGED <<experiment, progress, ingested, verdicts, evaluated, reported>>

BeginJudging ==
    /\ progress = "predict" /\ UnitIsDone /\ Unit = Len(experiment.units)
    /\ progress' = "judge" /\ verdicts' = <<<<>>>>
    /\ UNCHANGED <<experiment, ingested, asked, predictions, evaluated, reported, ledger>>

\* Every question goes to every judge.
Judge ==
    LET k == Len(verdicts) IN
    /\ progress = "judge" /\ Len(verdicts[k]) < experiment.judges
    /\ \E label \in {"CORRECT", "WRONG"}, reply \in experiment.replies :
          /\ verdicts' = [verdicts EXCEPT ![k] = Append(@, [label |-> label, usage |-> reply])]
          /\ spent' = [spent EXCEPT !.judge = @ + Tokens(reply),
                                    !.silent = @ + Silence(reply)]
    /\ calls' = [calls EXCEPT !.judge = @ + 1]
    /\ UNCHANGED <<experiment, progress, ingested, asked, predictions, evaluated, reported>>

NextQuestion ==
    /\ progress = "judge" /\ Len(verdicts[Len(verdicts)]) = experiment.judges
    /\ IF Len(verdicts) < Len(predictions)
       THEN verdicts' = Append(verdicts, <<>>) /\ UNCHANGED progress
       ELSE progress' = "evaluate" /\ UNCHANGED verdicts
    /\ UNCHANGED <<experiment, ingested, asked, predictions, evaluated, reported, ledger>>

-----------------------------------------------------------------------------
Unavailable(reason) == [status |-> "NOT_APPLICABLE", reason |-> reason]

\* One memory after the other, in their ranks.
Ranks(gold, results) ==
    LET after[k \in 0 .. Len(results)] ==
            IF k = 0 THEN [seen |-> {}, first |-> 0]
            ELSE LET matches == gold \cap results[k] IN
                 [seen |-> after[k - 1].seen \cup matches,
                  first |-> IF matches # {} /\ after[k - 1].first = 0
                            THEN k ELSE after[k - 1].first]
    IN after[Len(results)]

\* A question's metrics, if it has evidence and what was found has sources.
Metric(search) ==
    LET found == Ranks(search.gold, search.results) IN
    CASE search.gold = {} -> Unavailable("no evidence")
      [] search.gold # {} /\ search.results # <<>> /\ UNION ToSet(search.results) = {} ->
             Unavailable("no sources")
      [] OTHER -> [status |-> "COMPLETED", found |-> Cardinality(found.seen),
                   first |-> found.first, retrieved |-> Len(search.results)]

RetrievalReport ==
    LET queries == [k \in DOMAIN predictions |-> Metric(predictions[k].search)] IN
    IF ~experiment.applicable THEN Unavailable("plan")
    ELSE IF \A k \in DOMAIN queries : queries[k].status # "COMPLETED" THEN Unavailable("no query")
    ELSE [status |-> "COMPLETED", queries |-> queries]

\* Variant: a question without metrics has its own reason, whatever the report's.
OwnMetric(k, report) == IF experiment.applicable THEN Metric(predictions[k].search) ELSE report

\* A row has its question's metrics, or the reason why there is no report.
RowMetric(k, report) ==
    IF report.status = "COMPLETED" THEN report.queries[k] ELSE Unavailable(report.reason)

AnalysisRow(k, report) ==
    LET search == predictions[k].search IN
    [query |-> k, metric |-> RowMetric(k, report),
     primary |-> verdicts[k][experiment.primary].label,
     labels |-> [j \in Judges |-> verdicts[k][j].label],
     returned |-> Len(search.results), included |-> search.included,
     excluded |-> Len(search.results) - search.included,
     answerer |-> predictions[k].answerer]

\* One row for each prediction, with the same report of retrieval.
AnalysisRows ==
    LET report == RetrievalReport IN [k \in DOMAIN predictions |-> AnalysisRow(k, report)]

Discordant(k) == Cardinality({v.label : v \in ToSet(verdicts[k])}) > 1

\* Each judge's passes, and the questions on which the judges differ.
MultiJudgeReport ==
    [passes |-> [j \in Judges |->
         Cardinality({k \in DOMAIN verdicts : verdicts[k][j].label = "CORRECT"})],
     discordant |-> {k \in DOMAIN verdicts : Discordant(k)}]

\* The evaluators, in a schema 3 run.
Evaluate ==
    /\ progress = "evaluate" /\ progress' = "report"
    /\ IF experiment.schema = 3
       THEN /\ retrieval' = RetrievalReport
            /\ rows' = AnalysisRows
            /\ scores' = MultiJudgeReport
       ELSE UNCHANGED evaluated
    /\ UNCHANGED <<experiment, ingested, asked, predictions, verdicts, reported, ledger>>

-----------------------------------------------------------------------------
\* Of a role's replies, by any numbers: their tokens, and how many had none.
Aggregate(replies) ==
    [tokens |-> SumFunction([k \in DOMAIN replies |-> Tokens(replies[k])]),
     missing |-> SumFunction([k \in DOMAIN replies |-> Silence(replies[k])])]

AnswererUsage == Aggregate([k \in DOMAIN predictions |-> predictions[k].answerer])

\* The replies that judged a question.
RepliesTo(k) == [j \in DOMAIN verdicts[k] |-> verdicts[k][j].usage]
JudgeUsage ==
    [tokens |-> SumFunction([k \in DOMAIN verdicts |-> Aggregate(RepliesTo(k)).tokens]),
     missing |-> SumFunction([k \in DOMAIN verdicts |-> Aggregate(RepliesTo(k)).missing])]

MemoryUsage == SumFunction([k \in DOMAIN predictions |-> predictions[k].memory])

UsageReport ==
    [memory |-> MemoryUsage, answerer |-> AnswererUsage, judge |-> JudgeUsage,
     benchmark |-> MemoryUsage + AnswererUsage.tokens, evaluation |-> JudgeUsage.tokens,
     overall |-> MemoryUsage + AnswererUsage.tokens + JudgeUsage.tokens]

\* The timing files: of schema 2's predictions, whose conversation's ingestion is
\* in each of its questions, and of every verdict.
Records ==
    LET predicted == IF experiment.schema = 2
                     THEN {[query |-> k, judge |-> 0, stages |-> {"ingestion", "qa"}] :
                              k \in DOMAIN predictions}
                     ELSE {} IN
    predicted \cup {[query |-> k, judge |-> j, stages |-> {"judge"}] :
                       k \in DOMAIN verdicts, j \in Judges}

\* What a stage is timed for, once: later files take the place of earlier ones.
Identity(stage, record) ==
    IF stage = "ingestion" THEN <<"conversation", predictions[record.query].unit>>
    ELSE <<"question", record.query>>

TimingReport ==
    [stage \in UNION {record.stages : record \in Records} |->
        Cardinality({Identity(stage, record) : record \in
                        {r \in Records : stage \in r.stages}})]

WriteReports ==
    /\ progress = "report" /\ progress' = "done"
    /\ usage' = {UsageReport} /\ timing' = {TimingReport}
    /\ UNCHANGED <<experiment, ingested, asked, predictions, verdicts, evaluated, ledger>>

ReportsInit ==
    /\ experiment \in Experiments
    /\ progress = "predict" /\ ingested = <<>> /\ asked = 0
    /\ predictions = <<>> /\ verdicts = <<>>
    /\ retrieval = <<>> /\ rows = <<>> /\ scores = <<>> /\ usage = {} /\ timing = {}
    /\ spent = [memory |-> 0, answerer |-> 0, judge |-> 0, silent |-> 0]
    /\ calls = [ingestion |-> 0, qa |-> 0, judge |-> 0]

ReportsNext ==
    \/ Ingest \/ Predict \/ BeginJudging \/ Judge \/ NextQuestion \/ Evaluate
    \/ WriteReports

ReportsSpec == ReportsInit /\ [][ReportsNext]_reportVars

-----------------------------------------------------------------------------
Replied == [unit : Nat, search : experiment.searches, answerer : experiment.replies,
            memory : Nat]
Verdicts == [label : {"CORRECT", "WRONG"}, usage : experiment.replies]

ReportsTypeOK ==
    /\ experiment \in Experiments
    /\ progress \in {"predict", "judge", "evaluate", "report", "done"}
    /\ ingested \in Seq(Nat) /\ Unit <= Len(experiment.units)
    /\ asked \in Nat /\ (ingested # <<>> => asked <= experiment.units[Unit])
    /\ predictions \in Seq(Replied)
    /\ verdicts \in Seq(Seq(Verdicts)) /\ Len(verdicts) <= Len(predictions)
    /\ \A k \in DOMAIN verdicts : Len(verdicts[k]) <= experiment.judges
    /\ spent \in [memory : Nat, answerer : Nat, judge : Nat, silent : Nat]
    /\ calls \in [ingestion : Nat, qa : Nat, judge : Nat]

\* Nothing that a unit's ingestion, an answer or any judge took is lost or counted
\* twice on its way to the usage report, and replies without usage are known by
\* number.
UsageIsTheLedger ==
    \A report \in usage :
        /\ report.memory = spent.memory
        /\ report.answerer.tokens = spent.answerer /\ report.judge.tokens = spent.judge
        /\ report.overall = spent.memory + spent.answerer + spent.judge
        /\ report.answerer.missing + report.judge.missing = spent.silent

\* Where there is one judge, the timing report has a timing of every ingestion,
\* answer and verdict it is about, and has it once.
EachCallIsTimed ==
    \A report \in timing :
        experiment.judges = 1 => \A stage \in DOMAIN report : report[stage] = calls[stage]

\* Two judges' numbers of passes differ by no more than the questions on which
\* the agreement report says the judges do.
ScoresDifferWhereJudgesDo ==
    experiment.schema = 3 /\ progress = "done" =>
        \A i, j \in Judges : scores.passes[i] - scores.passes[j] <= Cardinality(scores.discordant)

\* The reports add up to what was spent and done.
UsageIsWhatWasSpent ==
    ReportsTypeOK /\ UsageIsTheLedger /\ EachCallIsTimed /\ ScoresDifferWhereJudgesDo

\* A question's metrics are those of its list: the evidence that some memory has,
\* and the first memory that has any, in whatever order evidence comes.
RanksAreExact ==
    \A k \in DOMAIN predictions :
        LET s == predictions[k].search  m == retrieval.queries[k]
            hits == {r \in DOMAIN s.results : s.results[r] \cap s.gold # {}} IN
        m.status = "COMPLETED" =>
            /\ m.found = Cardinality({g \in s.gold : \E r \in hits : g \in s.results[r]})
            /\ IF hits = {} THEN m.first = 0
               ELSE m.first \in hits /\ \A r \in hits : m.first <= r

\* A row is what the offline analysis asks of it: its metrics are the report's or
\* have its reason, its counts add up, its scores are the judges', and its usage
\* is the prediction's.
Acceptable(row, k) ==
    /\ row.query = k
    /\ row.returned = row.included + row.excluded
    /\ row.primary = row.labels[experiment.primary]
    /\ \A j \in Judges : row.labels[j] = verdicts[k][j].label
    /\ row.answerer = predictions[k].answerer
    /\ IF retrieval.status = "COMPLETED" THEN row.metric = retrieval.queries[k]
       ELSE row.metric.status = "NOT_APPLICABLE" /\ row.metric.reason = retrieval.reason

\* The offline analysis accepts what the evaluators wrote, and what they wrote of
\* the memories found is so.
AnalysisAccepts ==
    experiment.schema = 3 /\ progress = "done" =>
        /\ retrieval.status = "COMPLETED" => RanksAreExact
        /\ DOMAIN rows = DOMAIN predictions
        /\ \A k \in DOMAIN rows : Acceptable(rows[k], k)
=============================================================================
