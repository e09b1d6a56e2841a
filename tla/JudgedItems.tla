----------------------------- MODULE JudgedItems -----------------------------
(***************************************************************************)
(* The judging, evaluation and reporting of a schema 3 run, item by item:  *)
(* every answer goes to every judge of the run, in the order of the        *)
(* manifest; the verdicts are gathered in evaluations.json; evaluators     *)
(* read them, and some of them the files of the predictions as well; the   *)
(* reports read it all.  Each step leaves a checkpoint that a later        *)
(* attempt may rely on, and predictions may be redone between attempts.    *)
(*                                                                         *)
(* A file is what it was made from: an answer the number of times its unit *)
(* was done, a verdict its answer, judge and attempt.  A set of at most    *)
(* one element is a file that may be missing; an unreadable or altered     *)
(* file is the same as a missing one, since both fail the checksum of the  *)
(* checkpoint.  The state machine of the phases, the failed checkpoints    *)
(* and the status file are in RunLifecycle; a stop request ends an attempt *)
(* where its kill could have, at a step that writes nothing.               *)
(***************************************************************************)
EXTENDS Integers, FiniteSets, Sequences

CONSTANTS
    LastQuery, LastJudge,   \* number of questions and of judges
    Primary,                \* the judge whose verdict is the score
    MaxFaults               \* bound: kills, failures, lost files, redone units

\* What is assumed of the constants; the instances check it.
SizeAssumption ==
    LastQuery \in Nat \ {0} /\ LastJudge \in Nat \ {0} /\ MaxFaults \in Nat
PrimaryAssumption == Primary \in 1 .. LastJudge

Queries == 1 .. LastQuery
Judges == 1 .. LastJudge
Items == Queries \X Judges
Done == 0 .. MaxFaults             \* times a unit was redone
Attempts == 1 .. MaxFaults + 1     \* bound: an attempt that is not the last met a fault
Answers == [Queries -> Done]
Verdicts == [answer : Done, judge : Judges, by : Attempts]
Missing == {}

\* A question's evaluation: the verdict of each judge, and the primary one,
\* whose fields it repeats.
Evaluations == [Queries -> [judges : [Judges -> Verdicts], primary : Verdicts]]

\* The plan, in its order, down to one evaluator of each kind: those that read
\* evaluations.json only, the one that also writes rows, and those that read
\* the files of the predictions too.  evaluation-summary.json, which lists the
\* outputs by digest, is left out: it follows from them.
Requirements == <<"primary_judge_score", "analysis_rows", "retrieval_report">>
Names == {Requirements[i] : i \in DOMAIN Requirements}
ReadsPredictions == {"analysis_rows", "retrieval_report"}

VARIABLES
    answers,      \* the units' predictions, retrievals and contexts
    judgment,     \* judgments/<judge>/<question>.json
    timing,       \* judgments/timing/<judge>/<question>.json
    itemMark,     \* the checkpoint of an item: the two files it refers to
    evaluations,  \* evaluations/evaluations.json
    judgingMark,  \* the JUDGING checkpoint
    output,       \* evaluations/<evaluator>.json
    rows,         \* evaluations/analysis_rows.jsonl
    outputMark,   \* the checkpoint of an evaluator
    evaluatingMark,
    report,       \* the reports
    reportingMark,
    \* the attempt
    pc, attempt, at,
    gathered,     \* the verdicts it has so far
    faults

judging == <<judgment, timing, itemMark, evaluations, judgingMark>>
evaluating == <<output, rows, outputMark, evaluatingMark>>
reporting == <<report, reportingMark>>
vars == <<answers, judging, evaluating, reporting, pc, attempt, at, gathered, faults>>

Goto(from, to) == pc = from /\ pc' = to
Fault == faults < MaxFaults /\ faults' = faults + 1
The(file) == CHOOSE content \in file : TRUE

\* The pairs of a question and a judge, question by question.
Item(n) == <<1 + ((n - 1) \div LastJudge), 1 + ((n - 1) % LastJudge)>>
AnswerOf(item) == answers[item[1]]

-----------------------------------------------------------------------------
\* What a later attempt relies on.

\* Variant: the checkpoint of an item does not say which answer was judged.
ItemPresent(item) ==
    /\ itemMark[item] = judgment[item] \X timing[item]
    /\ itemMark[item] # Missing

\* Variant: a verdict is reused by the attempt that asked for it only.
ItemOfThisAttempt(item) ==
    /\ itemMark[item] = judgment[item] \X timing[item]
    /\ itemMark[item] # Missing
    /\ The(judgment[item]).answer = AnswerOf(item)
    /\ The(judgment[item]).by = attempt

\* The checkpoint is of this answer and its files are as they were.
ItemValid(item) ==
    /\ itemMark[item] = judgment[item] \X timing[item]
    /\ itemMark[item] # Missing
    /\ The(judgment[item]).answer = AnswerOf(item)

\* The digests of the answers are in the phase's input; the files it lists
\* are the evaluations and those of every item.
JudgingFiles == [answers |-> answers, evaluations |-> evaluations,
                 judgment |-> judgment, timing |-> timing, itemMark |-> itemMark]
JudgingValid ==
    /\ judgingMark # Missing
    /\ The(judgingMark).files = JudgingFiles

\* An evaluator's checkpoint is of these evaluations.  For analysis_rows it
\* lists the rows as well.
OutputFiles(name) ==
    [evaluations |-> evaluations, output |-> output[name],
     rows |-> IF name = "analysis_rows" THEN rows ELSE Missing]
OutputValid(name) == outputMark[name] = {OutputFiles(name)}

EvaluatingFiles == [judging |-> judgingMark, output |-> output, rows |-> rows,
                    outputMark |-> outputMark]
EvaluatingValid == evaluatingMark # Missing /\ The(evaluatingMark).files = EvaluatingFiles

ReportingValid ==
    reportingMark = {[evaluating |-> evaluatingMark, report |-> report]} /\ report # Missing

-----------------------------------------------------------------------------
\* JUDGING.

Begin ==
    /\ Goto("idle", IF JudgingValid THEN "evaluating" ELSE "judging")
    /\ attempt < MaxFaults + 1 /\ attempt' = attempt + 1
    /\ at' = 1
    /\ gathered' = IF JudgingValid THEN judgment ELSE [i \in Items |-> Missing]
    /\ UNCHANGED <<answers, judging, evaluating, reporting, faults>>

ReuseVerdict ==
    LET item == Item(at) IN
    /\ pc = "judging" /\ at <= Cardinality(Items)
    /\ ItemValid(item)
    /\ gathered' = [gathered EXCEPT ![item] = judgment[item]]
    /\ at' = at + 1
    /\ UNCHANGED <<pc, answers, judging, evaluating, reporting, attempt, faults>>

\* Variant: the verdict is written to a file that must not exist yet.
AskJudgeOnce ==
    LET item == Item(at)
        verdict == {[answer |-> AnswerOf(item), judge |-> item[2], by |-> attempt]} IN
    /\ at <= Cardinality(Items) /\ ~ItemValid(item)
    /\ Goto("judging", "timing")
    /\ judgment[item] = Missing
    /\ judgment' = [judgment EXCEPT ![item] = verdict]
    /\ gathered' = [gathered EXCEPT ![item] = verdict]
    /\ UNCHANGED <<answers, timing, itemMark, evaluations, judgingMark, evaluating,
                   reporting, attempt, at, faults>>

\* The judge is asked, and its verdict validated and written.
AskJudge ==
    LET item == Item(at)
        verdict == {[answer |-> AnswerOf(item), judge |-> item[2], by |-> attempt]} IN
    /\ at <= Cardinality(Items) /\ ~ItemValid(item)
    /\ Goto("judging", "timing")
    /\ judgment' = [judgment EXCEPT ![item] = verdict]
    /\ gathered' = [gathered EXCEPT ![item] = verdict]
    /\ UNCHANGED <<answers, timing, itemMark, evaluations, judgingMark, evaluating,
                   reporting, attempt, at, faults>>

WriteTiming ==
    /\ Goto("timing", "marking")
    /\ timing' = [timing EXCEPT ![Item(at)] = {attempt}]
    /\ UNCHANGED <<answers, judgment, itemMark, evaluations, judgingMark, evaluating,
                   reporting, attempt, at, gathered, faults>>

CommitVerdict ==
    /\ Goto("marking", "judging")
    /\ itemMark' = [itemMark EXCEPT ![Item(at)] = judgment[Item(at)] \X timing[Item(at)]]
    /\ at' = at + 1
    /\ UNCHANGED <<answers, judgment, timing, evaluations, judgingMark, evaluating,
                   reporting, attempt, gathered, faults>>

\* One evaluation per question, with the primary judge's fields on top.
Evaluation ==
    [q \in Queries |-> [judges |-> [j \in Judges |-> The(gathered[<<q, j>>])],
                        primary |-> The(gathered[<<q, Primary>>])]]

WriteEvaluations ==
    /\ at > Cardinality(Items)
    /\ Goto("judging", "gathered")
    /\ evaluations' = {Evaluation}
    /\ UNCHANGED <<answers, judgment, timing, itemMark, judgingMark, evaluating,
                   reporting, attempt, at, gathered, faults>>

CommitJudging ==
    /\ Goto("gathered", "evaluating")
    /\ judgingMark' = {[by |-> attempt, files |-> JudgingFiles]}
    /\ at' = 1
    /\ UNCHANGED <<answers, judgment, timing, itemMark, evaluations, evaluating,
                   reporting, attempt, gathered, faults>>

-----------------------------------------------------------------------------
\* EVALUATING.

SkipEvaluating ==
    /\ EvaluatingValid /\ at = 1
    /\ Goto("evaluating", "reporting")
    /\ UNCHANGED <<answers, judging, evaluating, reporting, attempt, at, gathered, faults>>

ReuseOutput ==
    /\ pc = "evaluating" /\ ~(EvaluatingValid /\ at = 1) /\ at <= Len(Requirements)
    /\ OutputValid(Requirements[at])
    /\ at' = at + 1
    /\ UNCHANGED <<pc, answers, judging, evaluating, reporting, attempt, gathered, faults>>

\* What an evaluator makes of the evaluations and, if it reads them, of the
\* files of the predictions.
Evaluated(name) ==
    {[evaluations |-> evaluations,
      answers |-> IF name \in ReadsPredictions THEN answers ELSE [q \in Queries |-> 0]]}

\* The rows are written by the evaluator, before its output.
RunEvaluator ==
    LET name == Requirements[at] IN
    /\ at <= Len(Requirements)
    /\ Goto("evaluating", "evaluated")
    /\ ~(EvaluatingValid /\ at = 1) /\ ~OutputValid(name)
    /\ rows' = IF name = "analysis_rows" THEN Evaluated(name) ELSE rows
    /\ UNCHANGED <<answers, judging, output, outputMark, evaluatingMark, reporting,
                   attempt, at, gathered, faults>>

WriteOutput ==
    /\ Goto("evaluated", "outputting")
    /\ output' = [output EXCEPT ![Requirements[at]] = Evaluated(Requirements[at])]
    /\ UNCHANGED <<answers, judging, rows, outputMark, evaluatingMark, reporting,
                   attempt, at, gathered, faults>>

CommitOutput ==
    LET name == Requirements[at] IN
    /\ Goto("outputting", "evaluating")
    /\ outputMark' = [outputMark EXCEPT ![name] = {OutputFiles(name)}]
    /\ at' = at + 1
    /\ UNCHANGED <<answers, judging, output, rows, evaluatingMark, reporting,
                   attempt, gathered, faults>>

CommitEvaluating ==
    /\ at > Len(Requirements)
    /\ Goto("evaluating", "reporting")
    /\ evaluatingMark' = {[by |-> attempt, files |-> EvaluatingFiles]}
    /\ UNCHANGED <<answers, judging, output, rows, outputMark, reporting,
                   attempt, at, gathered, faults>>

-----------------------------------------------------------------------------
\* REPORTING.

SkipReporting ==
    /\ ReportingValid
    /\ Goto("reporting", "reported")
    /\ UNCHANGED <<answers, judging, evaluating, reporting, attempt, at, gathered, faults>>

\* The usage and the scores are those of the evaluations, the timing that of
\* the timing files, and the evaluators' outputs are listed by digest.
WriteReports ==
    /\ ~ReportingValid
    /\ Goto("reporting", "committing")
    /\ report' = {[evaluations |-> evaluations, timing |-> timing, output |-> output]}
    /\ UNCHANGED <<answers, judging, evaluating, reportingMark, attempt, at, gathered, faults>>

CommitReporting ==
    /\ Goto("committing", "reported")
    /\ reportingMark' = {[evaluating |-> evaluatingMark, report |-> report]}
    /\ UNCHANGED <<answers, judging, evaluating, report, attempt, at, gathered, faults>>

-----------------------------------------------------------------------------
\* Faults.

\* A kill, a stop, a judge's or an evaluator's failure; a failure replaces the
\* checkpoint of its phase by a failed one.
Interrupt ==
    /\ pc \notin {"idle", "reported"} /\ Fault
    /\ pc' = "idle"
    /\ \/ UNCHANGED <<judgingMark, evaluatingMark, reportingMark>>
       \/ /\ judgingMark' = IF pc \in {"judging", "timing", "marking", "gathered"}
                            THEN Missing ELSE judgingMark
          /\ evaluatingMark' = IF pc \in {"evaluating", "evaluated", "outputting"}
                               THEN Missing ELSE evaluatingMark
          /\ reportingMark' = IF pc \in {"reporting", "committing"}
                              THEN Missing ELSE reportingMark
    /\ UNCHANGED <<answers, judgment, timing, itemMark, evaluations, output, rows,
                   outputMark, report, attempt, at, gathered>>

\* Between attempts, a damaged unit is redone by the prediction runner (its
\* answer is timed, so it is never the same), or a file is lost.
Redo(q) ==
    /\ Fault
    /\ answers' = [answers EXCEPT ![q] = @ + 1]
    /\ UNCHANGED <<judging, evaluating, reporting, attempt, at, gathered>>

Lose ==
    /\ Fault
    /\ \/ /\ \E i \in Items :
               \/ judgment' = [judgment EXCEPT ![i] = Missing] /\ UNCHANGED <<timing, itemMark>>
               \/ timing' = [timing EXCEPT ![i] = Missing] /\ UNCHANGED <<judgment, itemMark>>
               \/ itemMark' = [itemMark EXCEPT ![i] = Missing] /\ UNCHANGED <<judgment, timing>>
          /\ UNCHANGED <<evaluations, evaluating, reporting>>
       \/ evaluations' = Missing
          /\ UNCHANGED <<judgment, timing, itemMark, evaluating, reporting>>
       \/ /\ \/ rows' = Missing /\ UNCHANGED output
             \/ \E name \in Names :
                   output' = [output EXCEPT ![name] = Missing] /\ UNCHANGED rows
          /\ UNCHANGED <<judgment, timing, itemMark, evaluations, outputMark,
                         evaluatingMark, reporting>>
       \/ report' = Missing
          /\ UNCHANGED <<judgment, timing, itemMark, evaluations, evaluating, reportingMark>>
    /\ UNCHANGED <<answers, judgingMark, attempt, at, gathered>>

BetweenAttempts ==
    /\ pc \in {"idle", "reported"} /\ pc' = "idle"
    /\ Lose \/ \E q \in Queries : Redo(q)

-----------------------------------------------------------------------------
Init ==
    /\ answers = [q \in Queries |-> 0]
    /\ judgment = [i \in Items |-> Missing] /\ timing = [i \in Items |-> Missing]
    /\ itemMark = [i \in Items |-> Missing]
    /\ evaluations = Missing /\ judgingMark = Missing
    /\ output = [n \in Names |-> Missing] /\ rows = Missing
    /\ outputMark = [n \in Names |-> Missing] /\ evaluatingMark = Missing
    /\ report = Missing /\ reportingMark = Missing
    /\ pc = "idle" /\ attempt = 0 /\ at = 1
    /\ gathered = [i \in Items |-> Missing] /\ faults = 0

Judge == ReuseVerdict \/ AskJudge \/ WriteTiming \/ CommitVerdict
Evaluate == ReuseOutput \/ RunEvaluator \/ WriteOutput \/ CommitOutput
Attempt ==
    \/ Begin \/ Judge \/ WriteEvaluations \/ CommitJudging
    \/ SkipEvaluating \/ Evaluate \/ CommitEvaluating
    \/ SkipReporting \/ WriteReports \/ CommitReporting

Next == Attempt \/ Interrupt \/ BetweenAttempts

\* The attempt goes on, and one that met a fault is followed by another.
Spec == Init /\ [][Next]_vars /\ WF_vars(Attempt)

-----------------------------------------------------------------------------
TypeOK ==
    /\ answers \in Answers
    /\ \A i \in Items :
          /\ judgment[i] \subseteq Verdicts /\ Cardinality(judgment[i]) <= 1
          /\ timing[i] \subseteq Attempts /\ Cardinality(timing[i]) <= 1
          /\ itemMark[i] \subseteq Verdicts \X Attempts
    /\ evaluations = Missing \/ The(evaluations) \in Evaluations
    /\ pc \in {"idle", "judging", "timing", "marking", "gathered", "evaluating",
               "evaluated", "outputting", "reporting", "committing", "reported"}
    /\ attempt \in 0 .. MaxFaults + 1
    /\ at \in 1 .. Cardinality(Items) + 1 \/ at \in 1 .. Len(Requirements) + 1
    /\ faults \in 0 .. MaxFaults

\* A reported run reports, for every question and judge, the verdict on the
\* answer the run holds now and not on one that was redone since, as it is in
\* the judgment files and with the time that very verdict took.
VerdictsAsJudged ==
    pc = "reported" =>
        LET shown == The(report) IN
        /\ shown.evaluations = evaluations /\ shown.timing = timing
        /\ \A i \in Items :
              LET verdict == The(evaluations)[i[1]].judges[i[2]] IN
              /\ judgment[i] = {verdict}
              /\ verdict.answer = AnswerOf(i) /\ verdict.judge = i[2]
              /\ timing[i] = {verdict.by}

\* The score of a question is the primary judge's verdict on its answer.
ScoreIsPrimary ==
    pc = "reported" =>
        \A q \in Queries : {The(evaluations)[q].primary} = judgment[<<q, Primary>>]

\* What the evaluators publish was made from the evaluations that are
\* reported and from the predictions that were judged, the files that are in
\* none of their fingerprints included, and the rows are those of the output.
EvaluatedFromTheReported ==
    pc = "reported" =>
        /\ The(report).output = output
        /\ \A name \in Names :
              /\ The(output[name]).evaluations = evaluations
              /\ name \in ReadsPredictions => The(output[name]).answers = answers
        /\ rows = output["analysis_rows"]

\* A run reports, of every question and judge, the verdict on the answer it holds
\* now, its evaluations are of those verdicts and predictions, and the score is
\* the primary judge's.
ReportedAsJudged == VerdictsAsJudged /\ ScoreIsPrimary /\ EvaluatedFromTheReported

\* A committed verdict stands: no attempt asks a judge again about an answer
\* it has judged, whatever became of the attempt that asked first.
KeepsVerdicts ==
    pc \notin {"idle", "reported"} =>
        \A i \in Items : \A v \in judgment[i], t \in timing[i] :
            itemMark[i] = {<<v, t>>} /\ v.answer = AnswerOf(i) => judgment'[i] = judgment[i]
VerdictStands == [][KeepsVerdicts]_vars

\* Whatever is interrupted, lost or redone, the run is reported in the end.
AllReported == pc = "reported"
=============================================================================
