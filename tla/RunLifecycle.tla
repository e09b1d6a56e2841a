---------------------------- MODULE RunLifecycle ----------------------------
(***************************************************************************)
(* The life of one benchmark run: the prediction runner of the LongMemEval *)
(* (and, one question per unit, LoCoMo) lifecycle, the terminal phases of  *)
(* the finalizer, and the files of the run directory through which one     *)
(* attempt hands the run over to the next.                                 *)
(*                                                                         *)
(* A process executes one attempt.  It may be asked to stop (a signal,     *)
(* honoured only where the code checks for it), may see one of its steps   *)
(* fail, and may be killed between any two writes.  Whatever it left on    *)
(* disk is all the next attempt has: plan_resume and the finalizer decide  *)
(* from the checkpoints and the files they reference what is reused and    *)
(* what is done again.  While no process runs, files may be damaged: the   *)
(* digests in the checkpoints exist to notice that.                        *)
(*                                                                         *)
(* Contents are abstracted to what the digests tell apart.  An answer is   *)
(* the content of prediction.json, and a second generation may repeat the  *)
(* first one's.  "by" is the number of the attempt that wrote a file and   *)
(* stands for the parts that differ each time (timings).  The digest of a  *)
(* COMMITTED phase checkpoint is the number of the attempt that wrote it:  *)
(* the digest covers attempt_id, and an attempt commits a phase only once. *)
(***************************************************************************)
EXTENDS Naturals, FiniteSets

CONSTANTS
    Units,        \* the expected units; each holds one question
    Answers,      \* contents a generated prediction may have
    NoAnswer,     \* the content of a file that is not there
    Damageable,   \* kinds of files that may be damaged between attempts
    MaxAttempts,  \* bound of the exploration: attempts of one run
    MaxFaults     \* bound: stop requests, failures, kills and damages

ASSUME UnitsAssumption == Units # {} /\ IsFiniteSet(Units)
ASSUME AnswersAssumption == Answers # {} /\ NoAnswer \notin Answers
ASSUME BoundsAssumption == MaxAttempts \in Nat \ {0} /\ MaxFaults \in Nat
ASSUME DamageAssumption ==
    Damageable \subseteq {"prediction", "judgment", "evaluations", "summary",
                          "report", "staging", "payload"}

Attempts == 1 .. MaxAttempts

-----------------------------------------------------------------------------
(* What the files hold. *)

Version == [answer : Answers \cup {NoAnswer}, by : 0 .. MaxAttempts]
Missing == [answer |-> NoAnswer, by |-> 0]

Results == [Units -> Version]
NoResults == [u \in Units |-> Missing]

Report == [by : 0 .. MaxAttempts, of : Results]
NoReport == [by |-> 0, of |-> NoResults]

Phases == {"RUNNING", "JUDGING", "EVALUATING", "REPORTING", "PUBLISHING",
           "VERIFYING"}

\* The states this lifecycle writes to run-status.json ("NONE": no file yet).
RunState == {"NONE", "RUNNING", "JUDGING", "EVALUATING", "REPORTING",
             "PUBLISHING", "VERIFYING", "COMPLETED", "PARTIAL", "INTERRUPTING",
             "INTERRUPTED", "FAILED_RUNNING", "FAILED_JUDGING",
             "FAILED_EVALUATION", "FAILED_REPORTING", "FAILED_PUBLISHING",
             "FAILED_VERIFYING"}

\* Variant: the name of the failed state built from the name of the phase.
FailedStateByName(phase) ==
    CASE phase = "EVALUATING" -> "FAILED_EVALUATING"
      [] phase = "RUNNING"    -> "FAILED_RUNNING"
      [] phase = "JUDGING"    -> "FAILED_JUDGING"
      [] phase = "REPORTING"  -> "FAILED_REPORTING"
      [] phase = "PUBLISHING" -> "FAILED_PUBLISHING"
      [] phase = "VERIFYING"  -> "FAILED_VERIFYING"

FailedState(phase) ==
    CASE phase = "RUNNING"    -> "FAILED_RUNNING"
      [] phase = "JUDGING"    -> "FAILED_JUDGING"
      [] phase = "EVALUATING" -> "FAILED_EVALUATION"
      [] phase = "REPORTING"  -> "FAILED_REPORTING"
      [] phase = "PUBLISHING" -> "FAILED_PUBLISHING"
      [] phase = "VERIFYING"  -> "FAILED_VERIFYING"

\* A lifecycle checkpoint: "by" doubles as its digest, "predecessor" is the
\* digest of the checkpoint it builds on (0 for none), "refs" the content of
\* the files it references.
LifecycleCheckpoint ==
    [status : {"NONE", "COMMITTED", "FAILED"}, by : 0 .. MaxAttempts,
     predecessor : 0 .. MaxAttempts, refs : Results]
NoCheckpoint ==
    [status |-> "NONE", by |-> 0, predecessor |-> 0, refs |-> NoResults]

\* A staged publication: the copy of the run directory, and what became of it.
Payload ==
    [condition : {"absent", "intact", "damaged"}, prediction : Results,
     judgment : Results, evaluations : Results, summary : Results,
     report : Report]
NoPayload ==
    [condition |-> "absent", prediction |-> NoResults, judgment |-> NoResults,
     evaluations |-> NoResults, summary |-> NoResults, report |-> NoReport]

\* The final directory; "manifest" is the publication its manifest describes.
FinalFiles ==
    [prediction : Results, judgment : Results, evaluations : Results,
     summary : Results, report : Report, manifest : 0 .. MaxAttempts]
NoFinalFiles ==
    [prediction |-> NoResults, judgment |-> NoResults,
     evaluations |-> NoResults, summary |-> NoResults, report |-> NoReport,
     manifest |-> 0]

-----------------------------------------------------------------------------
VARIABLES
    \* the process that executes the current attempt
    pc,         \* where it is; "idle" when no process runs
    mode,       \* "full", or "predict" for run --predict-only
    attempt,    \* number of the current or latest attempt
    todo,       \* units its current loop has yet to take
    open,       \* the unit it is working on, as a set
    cancel,     \* whether a stop was requested of it
    exit,       \* how the latest process ended
    faults,     \* faults so far
    \* the run directory
    created,    \* how far its creation got
    status,     \* state in run-status.json
    attempts,   \* status in attempts/<id>/attempt.json
    prediction, \* items/<unit>/prediction.json and timing.json
    unitCheckpoint,     \* what the unit's COMMITTED checkpoint references
    judgment,           \* judgments/<unit>.json and its timing
    judgmentCheckpoint, \* what the JUDGING item checkpoint references
    evaluations, summary, report,   \* the evaluation and report files
    checkpoint, \* phase-checkpoints/<phase>/checkpoint.json
    staging,    \* publish-staging/<publication id>
    final,      \* final/, without its completion marker
    marker      \* publication final/COMPLETED.json vouches for, 0 if none

process == <<pc, mode, attempt, todo, open, cancel, exit>>
records == <<created, status, attempts>>
unitFiles == <<prediction, unitCheckpoint>>
judgeFiles == <<judgment, judgmentCheckpoint>>
resultFiles == <<evaluations, summary, report>>
published == <<staging, final, marker>>
files == <<unitFiles, judgeFiles, resultFiles, checkpoint, published>>
vars == <<process, faults, records, files>>

\* The steps of each phase in which an exception is handled as its failure.
Phase == [RUNNING |-> {"config", "ready", "unit", "opening", "predict",
                       "predicted", "committed", "sealed", "partial"},
          JUDGING |-> {"judging", "judge", "judged", "collected"},
          EVALUATING |-> {"evaluating", "evaluate", "evaluated"},
          REPORTING |-> {"reporting", "report", "reported"},
          PUBLISHING |-> {"publishing", "stage", "staged"},
          VERIFYING |-> {"verifying", "verify", "commit", "copying", "copied",
                         "marked", "closing"}]

Working == UNION {Phase[p] : p \in Phases}
PC == Working \cup {"idle", "create", "begin", "finalize", "interrupting",
                    "interrupted", "failing", "failed"}

ProcessOK ==
    /\ pc \in PC
    /\ mode \in {"full", "predict"}
    /\ attempt \in 0 .. MaxAttempts
    /\ pc # "idle" => attempt \in Attempts
    /\ todo \subseteq Units
    /\ open \subseteq Units
    /\ exit \in {"none", "completed", "partial", "interrupted", "failed",
                 "killed"}
    /\ faults \in 0 .. MaxFaults

RecordsOK ==
    /\ created \in {"absent", "directory", "manifest", "config"}
    /\ status \in RunState
    /\ attempts \in [Attempts -> {"NONE", "IN_PROGRESS", "PARTIAL",
                                  "COMPLETED", "FAILED", "INTERRUPTED"}]

WorkOK ==
    /\ prediction \in Results /\ unitCheckpoint \in Results
    /\ judgment \in Results /\ judgmentCheckpoint \in Results
    /\ evaluations \in Results /\ summary \in Results /\ report \in Report

PublishedOK ==
    /\ checkpoint \in [Phases -> LifecycleCheckpoint]
    /\ staging \in [0 .. MaxAttempts -> Payload]
    /\ final \in FinalFiles
    /\ marker \in 0 .. MaxAttempts

TypeOK ==
    ProcessOK /\ cancel \in BOOLEAN /\ RecordsOK /\ WorkOK /\ PublishedOK

Init ==
    /\ pc = "idle" /\ mode = "full" /\ attempt = 0
    /\ todo = {} /\ open = {} /\ cancel = FALSE
    /\ exit = "none" /\ faults = 0
    /\ created = "absent" /\ status = "NONE"
    /\ attempts = [a \in Attempts |-> "NONE"]
    /\ prediction = NoResults /\ unitCheckpoint = NoResults
    /\ judgment = NoResults /\ judgmentCheckpoint = NoResults
    /\ evaluations = NoResults /\ summary = NoResults /\ report = NoReport
    /\ checkpoint = [p \in Phases |-> NoCheckpoint]
    /\ staging = [a \in 0 .. MaxAttempts |-> NoPayload]
    /\ final = NoFinalFiles /\ marker = 0

-----------------------------------------------------------------------------
(* What the files on disk entitle an attempt to reuse. *)

\* A unit counts as committed if its checkpoint is COMMITTED and every file
\* the checkpoint references still has the recorded digest.
UnitValid(u) ==
    unitCheckpoint[u] # Missing /\ prediction[u] = unitCheckpoint[u]

\* A judgment is reused if its item checkpoint is COMMITTED for the current
\* prediction and the judgment has the recorded digest.
JudgmentValid(u) ==
    /\ judgmentCheckpoint[u] # Missing
    /\ judgmentCheckpoint[u].answer = prediction[u].answer
    /\ judgment[u] = judgmentCheckpoint[u]

\* The files a phase checkpoint references have the recorded digests.  The
\* PUBLISHING and VERIFYING checkpoints reference the staged manifest only:
\* damage to the staged payload does not invalidate them.
ArtifactsValid(phase) ==
    LET c == checkpoint[phase] IN
    CASE phase = "RUNNING"    -> c.refs = unitCheckpoint /\ c.refs = prediction
      [] phase = "JUDGING"    -> /\ c.refs = evaluations
                                 /\ c.refs = judgment
                                 /\ c.refs = judgmentCheckpoint
      [] phase = "EVALUATING" -> c.refs = summary
      [] phase = "REPORTING"  -> report = [by |-> c.by, of |-> c.refs]
      [] OTHER -> staging[checkpoint["REPORTING"].by].condition # "absent"

ValidPhaseCheckpoint(phase, predecessor) ==
    /\ checkpoint[phase].status = "COMMITTED"
    /\ checkpoint[phase].predecessor = predecessor
    /\ ArtifactsValid(phase)

Chain == <<"JUDGING", "EVALUATING", "REPORTING", "PUBLISHING", "VERIFYING">>
PredecessorDigest(i) == IF i = 1 THEN 0 ELSE checkpoint[Chain[i - 1]].by

\* The phase plan_resume names.
NextPhase ==
    LET stale == {i \in 1 .. 5 :
                    ~ ValidPhaseCheckpoint(Chain[i], PredecessorDigest(i))} IN
    IF marker # 0 THEN "COMPLETED"
    ELSE IF \E u \in Units : ~ UnitValid(u) THEN "RUNNING"
    ELSE IF stale = {} THEN "VERIFYING"
    ELSE Chain[CHOOSE i \in stale : \A j \in stale : i <= j]

\* Variant: the judging counts as current whatever predictions it judged.
JudgingCurrentByFiles == ValidPhaseCheckpoint("JUDGING", 0)

\* The finalizer also compares the input fingerprint of the JUDGING
\* checkpoint: the digests of the predictions that were judged.  The inputs
\* of the later phases add nothing to the predecessor's digest.
JudgingCurrent ==
    /\ ValidPhaseCheckpoint("JUDGING", 0)
    /\ \A u \in Units :
          checkpoint["JUDGING"].refs[u].answer = prediction[u].answer

Current(i) == ValidPhaseCheckpoint(Chain[i], PredecessorDigest(i))

\* Variant: one publication id for the run, whatever is published.
PublicationOfRun == 1

\* The publication id: the digest of the REPORTING checkpoint.
Publication == checkpoint["REPORTING"].by

-----------------------------------------------------------------------------
(* How steps move the process. *)

Goto(place) ==
    pc' = place /\ UNCHANGED <<mode, attempt, todo, open, cancel, exit>>

\* The process ends; what it held in memory is gone.
Exit(how) ==
    /\ pc' = "idle" /\ exit' = how
    /\ todo' = {} /\ open' = {} /\ cancel' = FALSE
    /\ UNCHANGED <<mode, attempt>>

Begin(place, m) ==
    /\ attempt < MaxAttempts
    /\ pc' = place /\ mode' = m /\ attempt' = attempt + 1
    /\ exit' = "none"
    /\ UNCHANGED <<open, cancel>>

WriteStatus(state) ==
    status' = state /\ UNCHANGED <<created, attempts>>

RecordAttempt(outcome) ==
    /\ attempts' = [attempts EXCEPT ![attempt] = outcome]
    /\ UNCHANGED <<created, status>>

CommitPhase(phase, predecessor, refs) ==
    checkpoint' = [checkpoint EXCEPT ![phase] =
        [status |-> "COMMITTED", by |-> attempt, predecessor |-> predecessor,
         refs |-> refs]]

-----------------------------------------------------------------------------
(* Starting an attempt. *)

\* run: the directory must not exist yet.
CreateRun(m) ==
    /\ pc = "idle" /\ created = "absent"
    /\ Begin("create", m)
    /\ todo' = Units
    /\ created' = "directory"
    /\ UNCHANGED <<status, attempts, faults, files>>

WriteManifest ==
    /\ pc = "create"
    /\ Goto("begin")
    /\ created' = "manifest"
    /\ UNCHANGED <<status, attempts, faults, files>>

\* Variants: a resume that does not look at the marker; one that starts every
\* unit again.
ResumePublished ==
    /\ pc = "idle" /\ created = "config"
    /\ Begin("begin", "full")
    /\ todo' = {u \in Units : ~ UnitValid(u)}
    /\ UNCHANGED <<records, faults, files>>

ResumeAfresh ==
    /\ pc = "idle" /\ created = "config" /\ marker = 0
    /\ Begin("begin", "full")
    /\ todo' = Units
    /\ UNCHANGED <<records, faults, files>>

\* resume: always the full lifecycle, from the resolved config of the run.
Resume ==
    /\ pc = "idle" /\ created = "config" /\ marker = 0
    /\ Begin("begin", "full")
    /\ todo' = {u \in Units : ~ UnitValid(u)}
    /\ UNCHANGED <<records, faults, files>>

\* Variant: the status is taken to be COMPLETED already.
ResumeCompletedQuietly ==
    /\ pc = "idle" /\ created = "config" /\ marker # 0
    /\ exit' = "completed"
    /\ UNCHANGED <<pc, mode, attempt, todo, open, cancel, faults, records,
                   files>>

\* resume of a published run: verify it, repair the status, open no attempt.
ResumeCompleted ==
    /\ pc = "idle" /\ created = "config" /\ marker # 0
    /\ WriteStatus("COMPLETED")
    /\ exit' = "completed"
    /\ UNCHANGED <<pc, mode, attempt, todo, open, cancel, faults, files>>

\* A second run, or a resume without manifest or config, is refused.
Refuse ==
    /\ pc = "idle" /\ created \in {"directory", "manifest"}
    /\ exit' = "failed"
    /\ UNCHANGED <<pc, mode, attempt, todo, open, cancel, faults, records,
                   files>>

WriteAttempt ==
    /\ pc = "begin"
    /\ Goto("config")
    /\ RecordAttempt("IN_PROGRESS")
    /\ UNCHANGED <<faults, files>>

PersistConfig ==
    /\ pc = "config"
    /\ Goto("ready")
    /\ created' = "config"
    /\ UNCHANGED <<status, attempts, faults, files>>

StartPredictions ==
    /\ pc = "ready" /\ ~ cancel
    /\ Goto("unit")
    /\ WriteStatus("RUNNING")
    /\ UNCHANGED <<faults, files>>

-----------------------------------------------------------------------------
(* Predictions. *)

\* Restarting a unit removes its items first and its checkpoint second.
RestartUnit(u) ==
    /\ pc = "unit" /\ u \in todo /\ ~ cancel
    /\ pc' = "opening" /\ open' = {u}
    /\ prediction' = [prediction EXCEPT ![u] = Missing]
    /\ UNCHANGED <<mode, attempt, todo, cancel, exit, faults, records,
                   unitCheckpoint, judgeFiles, resultFiles, checkpoint,
                   published>>

OpenUnit(u) ==
    /\ pc = "opening" /\ u \in open
    /\ Goto("predict")
    /\ unitCheckpoint' = [unitCheckpoint EXCEPT ![u] = Missing]
    /\ UNCHANGED <<faults, records, prediction, judgeFiles, resultFiles,
                   checkpoint, published>>

\* prepare_unit, retrieve and the answerer, then prediction.json.
WritePrediction(u, answer) ==
    /\ pc = "predict" /\ u \in open /\ ~ cancel
    /\ Goto("predicted")
    /\ prediction' = [prediction EXCEPT ![u] =
                        [answer |-> answer, by |-> attempt]]
    /\ UNCHANGED <<faults, records, unitCheckpoint, judgeFiles, resultFiles,
                   checkpoint, published>>

CommitUnit(u) ==
    /\ pc = "predicted" /\ u \in open
    /\ pc' = "committed" /\ open' = {} /\ todo' = todo \ {u}
    /\ unitCheckpoint' = [unitCheckpoint EXCEPT ![u] = prediction[u]]
    /\ UNCHANGED <<mode, attempt, cancel, exit, faults, records, prediction,
                   judgeFiles, resultFiles, checkpoint, published>>

NextUnit ==
    /\ pc = "committed" /\ ~ cancel
    /\ Goto("unit")
    /\ WriteStatus("RUNNING")
    /\ UNCHANGED <<faults, files>>

\* Variant: any COMMITTED RUNNING checkpoint is kept.
SealPredictionsOnce ==
    /\ pc = "unit" /\ todo = {}
    /\ Goto("sealed")
    /\ IF checkpoint["RUNNING"].status = "COMMITTED"
       THEN UNCHANGED checkpoint
       ELSE CommitPhase("RUNNING", 0, unitCheckpoint)
    /\ UNCHANGED <<faults, records, unitFiles, judgeFiles, resultFiles,
                   published>>

\* The RUNNING checkpoint is rewritten unless it covers the same units.
SealPredictions ==
    /\ pc = "unit" /\ todo = {}
    /\ Goto("sealed")
    /\ IF ValidPhaseCheckpoint("RUNNING", 0)
       THEN UNCHANGED checkpoint
       ELSE CommitPhase("RUNNING", 0, unitCheckpoint)
    /\ UNCHANGED <<faults, records, unitFiles, judgeFiles, resultFiles,
                   published>>

EndPredictions ==
    /\ pc = "sealed"
    /\ IF mode = "predict"
       THEN Goto("partial") /\ WriteStatus("PARTIAL")
       ELSE Goto("finalize") /\ WriteStatus("RUNNING")
    /\ UNCHANGED <<faults, files>>

FinishPartial ==
    /\ pc = "partial"
    /\ Exit("partial")
    /\ RecordAttempt("PARTIAL")
    /\ UNCHANGED <<faults, files>>

-----------------------------------------------------------------------------
(* Judging. *)

\* finalize() records the attempt again and checks for a stop request before
\* its try block: an exception here reaches no handler.
StartFinalize ==
    /\ pc = "finalize" /\ ~ cancel
    /\ Goto("judging")
    /\ RecordAttempt("IN_PROGRESS")
    /\ UNCHANGED <<faults, files>>

StartJudging ==
    /\ pc = "judging"
    /\ IF JudgingCurrent
       THEN Goto("evaluating") /\ UNCHANGED records
       ELSE /\ pc' = "judge" /\ todo' = Units
            /\ UNCHANGED <<mode, attempt, open, cancel, exit>>
            /\ WriteStatus("JUDGING")
    /\ UNCHANGED <<faults, files>>

ReuseJudgment(u) ==
    /\ pc = "judge" /\ u \in todo /\ ~ cancel
    /\ JudgmentValid(u)
    /\ todo' = todo \ {u}
    /\ WriteStatus("JUDGING")
    /\ UNCHANGED <<pc, mode, attempt, open, cancel, exit, faults, files>>

Judge(u) ==
    /\ pc = "judge" /\ u \in todo /\ ~ cancel
    /\ ~ JudgmentValid(u)
    /\ pc' = "judged" /\ open' = {u}
    /\ judgment' = [judgment EXCEPT ![u] =
                      [answer |-> prediction[u].answer, by |-> attempt]]
    /\ UNCHANGED <<mode, attempt, todo, cancel, exit, faults, records,
                   unitFiles, judgmentCheckpoint, resultFiles, checkpoint,
                   published>>

CommitJudgment(u) ==
    /\ pc = "judged" /\ u \in open
    /\ pc' = "judge" /\ open' = {} /\ todo' = todo \ {u}
    /\ judgmentCheckpoint' = [judgmentCheckpoint EXCEPT ![u] = judgment[u]]
    /\ WriteStatus("JUDGING")
    /\ UNCHANGED <<mode, attempt, cancel, exit, faults, unitFiles, judgment,
                   resultFiles, checkpoint, published>>

WriteEvaluations ==
    /\ pc = "judge" /\ todo = {}
    /\ Goto("collected")
    /\ evaluations' = judgment
    /\ UNCHANGED <<faults, records, unitFiles, judgeFiles, summary, report,
                   checkpoint, published>>

CommitJudging ==
    /\ pc = "collected"
    /\ Goto("evaluating")
    /\ CommitPhase("JUDGING", 0, judgment)
    /\ UNCHANGED <<faults, records, unitFiles, judgeFiles, resultFiles,
                   published>>

-----------------------------------------------------------------------------
(* Evaluating and reporting. *)

\* A terminal phase whose checkpoint is current is passed over without a
\* trace; otherwise the status names it and its work begins.
Enter(i, from, work, next) ==
    /\ pc = from
    /\ IF Current(i)
       THEN Goto(next) /\ UNCHANGED records
       ELSE Goto(work) /\ WriteStatus(Chain[i])
    /\ UNCHANGED <<faults, files>>

StartEvaluating == Enter(2, "evaluating", "evaluate", "reporting")

\* The evaluators are functions of evaluations.json.
WriteSummary ==
    /\ pc = "evaluate" /\ ~ cancel
    /\ Goto("evaluated")
    /\ summary' = evaluations
    /\ UNCHANGED <<faults, records, unitFiles, judgeFiles, evaluations, report,
                   checkpoint, published>>

CommitEvaluating ==
    /\ pc = "evaluated"
    /\ Goto("reporting")
    /\ CommitPhase("EVALUATING", PredecessorDigest(2), summary)
    /\ UNCHANGED <<faults, records, unitFiles, judgeFiles, resultFiles,
                   published>>

StartReporting == Enter(3, "reporting", "report", "publishing")

\* The reports carry the timings of this attempt.
WriteReports ==
    /\ pc = "report" /\ ~ cancel
    /\ Goto("reported")
    /\ report' = [by |-> attempt, of |-> summary]
    /\ UNCHANGED <<faults, records, unitFiles, judgeFiles, evaluations,
                   summary, checkpoint, published>>

CommitReporting ==
    /\ pc = "reported" /\ ~ cancel
    /\ Goto("publishing")
    /\ CommitPhase("REPORTING", PredecessorDigest(3), report.of)
    /\ UNCHANGED <<faults, records, unitFiles, judgeFiles, resultFiles,
                   published>>

-----------------------------------------------------------------------------
(* Publishing and verifying. *)

\* Both a staging directory that is reused and one that is loaded again are
\* validated, payload included; a damaged one is rejected and never replaced.
PayloadRejected ==
    /\ \/ pc = "publishing" /\ Current(4)
       \/ pc = "stage" /\ ~ cancel
    /\ staging[Publication].condition = "damaged"

StartPublishing ==
    /\ ~ PayloadRejected
    /\ Enter(4, "publishing", "stage", "verifying")

Snapshot ==
    [condition |-> "intact", prediction |-> prediction, judgment |-> judgment,
     evaluations |-> evaluations, summary |-> summary, report |-> report]

Stage ==
    /\ pc = "stage" /\ ~ cancel
    /\ ~ PayloadRejected
    /\ Goto("staged")
    /\ staging' = IF staging[Publication].condition = "intact" THEN staging
                  ELSE [staging EXCEPT ![Publication] = Snapshot]
    /\ UNCHANGED <<faults, records, unitFiles, judgeFiles, resultFiles,
                   checkpoint, final, marker>>

CommitPublishing ==
    /\ pc = "staged" /\ ~ cancel
    /\ Goto("verifying")
    /\ CommitPhase("PUBLISHING", PredecessorDigest(4), NoResults)
    /\ UNCHANGED <<faults, records, unitFiles, judgeFiles, resultFiles,
                   published>>

StartVerifying ==
    /\ pc = "verifying"
    /\ Goto("verify")
    /\ WriteStatus("VERIFYING")
    /\ UNCHANGED <<faults, files>>

\* The receipt is a function of the staged manifest; it goes with staging.
CommitVerifying ==
    /\ pc = "verify" /\ ~ cancel
    /\ Goto("commit")
    /\ IF Current(5) THEN UNCHANGED checkpoint
       ELSE CommitPhase("VERIFYING", PredecessorDigest(5), NoResults)
    /\ UNCHANGED <<faults, records, unitFiles, judgeFiles, resultFiles,
                   published>>

\* commit() copies the payload into final/ file by file, over whatever an
\* earlier attempt left there, then the manifest, and verifies the copy.
CopyItems ==
    /\ pc = "commit" /\ ~ cancel
    /\ Goto("copying")
    /\ final' = [final EXCEPT
                    !.prediction = staging[Publication].prediction,
                    !.judgment = staging[Publication].judgment]
    /\ UNCHANGED <<faults, records, unitFiles, judgeFiles, resultFiles,
                   checkpoint, staging, marker>>

CopyResults ==
    /\ pc = "copying"
    /\ Goto("copied")
    /\ final' = [final EXCEPT
                    !.evaluations = staging[Publication].evaluations,
                    !.summary = staging[Publication].summary,
                    !.report = staging[Publication].report,
                    !.manifest = Publication]
    /\ UNCHANGED <<faults, records, unitFiles, judgeFiles, resultFiles,
                   checkpoint, staging, marker>>

FinalMatches(publication) ==
    /\ final.manifest = publication
    /\ final.prediction = staging[publication].prediction
    /\ final.judgment = staging[publication].judgment
    /\ final.evaluations = staging[publication].evaluations
    /\ final.summary = staging[publication].summary
    /\ final.report = staging[publication].report

WriteMarker ==
    /\ pc = "copied" /\ FinalMatches(Publication)
    /\ Goto("marked")
    /\ marker' = Publication
    /\ UNCHANGED <<faults, records, unitFiles, judgeFiles, resultFiles,
                   checkpoint, staging, final>>

WriteCompleted ==
    /\ pc = "marked"
    /\ Goto("closing")
    /\ WriteStatus("COMPLETED")
    /\ UNCHANGED <<faults, files>>

FinishCompleted ==
    /\ pc = "closing"
    /\ Exit("completed")
    /\ RecordAttempt("COMPLETED")
    /\ UNCHANGED <<faults, files>>

-----------------------------------------------------------------------------
(* Stop requests, failures, kills and damage. *)

RequestCancel ==
    /\ pc # "idle" /\ ~ cancel /\ faults < MaxFaults
    /\ cancel' = TRUE /\ faults' = faults + 1
    /\ UNCHANGED <<pc, mode, attempt, todo, open, exit, records, files>>

\* Variant: a check after the marker is written as well.
AtCancelCheckOrMarked ==
    \/ pc \in {"ready", "predict", "committed", "evaluate", "report",
               "reported", "stage", "staged", "verify", "commit", "marked"}
    \/ pc \in {"unit", "judge"} /\ todo # {}

\* The places at which the code checks for a stop request.
AtCancelCheck ==
    \/ pc \in {"ready", "predict", "committed", "evaluate", "report",
               "reported", "stage", "staged", "verify", "commit"}
    \/ pc \in {"unit", "judge"} /\ todo # {}

Interrupt ==
    /\ cancel /\ AtCancelCheck
    /\ Goto("interrupting")
    /\ WriteStatus("INTERRUPTING")
    /\ UNCHANGED <<faults, files>>

WriteInterrupted ==
    /\ pc = "interrupting"
    /\ Goto("interrupted")
    /\ WriteStatus("INTERRUPTED")
    /\ UNCHANGED <<faults, files>>

FinishInterrupted ==
    /\ pc = "interrupted"
    /\ Exit("interrupted")
    /\ RecordAttempt("INTERRUPTED")
    /\ UNCHANGED <<faults, files>>

InterruptUnhandled ==
    /\ pc = "finalize" /\ cancel
    /\ Exit("interrupted")
    /\ UNCHANGED <<faults, records, files>>

\* An exception in a phase: the status, the phase checkpoint, the attempt.
Fail(phase) ==
    /\ pc \in Phase[phase]
    /\ IF PayloadRejected THEN UNCHANGED faults
       ELSE faults < MaxFaults /\ faults' = faults + 1
    /\ Goto("failing")
    /\ WriteStatus(FailedState(phase))
    /\ UNCHANGED files

WriteFailedCheckpoint(phase) ==
    /\ pc = "failing" /\ status = FailedState(phase)
    /\ Goto("failed")
    /\ checkpoint' = [checkpoint EXCEPT ![phase] =
                        [NoCheckpoint EXCEPT !.status = "FAILED",
                                             !.by = attempt]]
    /\ UNCHANGED <<faults, records, unitFiles, judgeFiles, resultFiles,
                   published>>

FinishFailed ==
    /\ pc = "failed"
    /\ Exit("failed")
    /\ RecordAttempt("FAILED")
    /\ UNCHANGED <<faults, files>>

\* An exception before the attempt is recorded, or before finalize()'s try.
FailUnhandled ==
    /\ pc \in {"create", "begin", "finalize"} /\ faults < MaxFaults
    /\ faults' = faults + 1
    /\ Exit("failed")
    /\ UNCHANGED <<records, files>>

Crash ==
    /\ pc # "idle" /\ faults < MaxFaults
    /\ faults' = faults + 1
    /\ Exit("killed")
    /\ UNCHANGED <<records, files>>

DamageUnit(u) ==
    \/ /\ "prediction" \in Damageable /\ prediction[u] # Missing
       /\ prediction' = [prediction EXCEPT ![u] = Missing]
       /\ UNCHANGED <<unitCheckpoint, judgeFiles>>
    \/ /\ "judgment" \in Damageable /\ judgment[u] # Missing
       /\ judgment' = [judgment EXCEPT ![u] = Missing]
       /\ UNCHANGED <<unitFiles, judgmentCheckpoint>>

DamageResults ==
    \/ /\ "evaluations" \in Damageable /\ evaluations # NoResults
       /\ evaluations' = NoResults /\ UNCHANGED <<summary, report>>
    \/ /\ "summary" \in Damageable /\ summary # NoResults
       /\ summary' = NoResults /\ UNCHANGED <<evaluations, report>>
    \/ /\ "report" \in Damageable /\ report # NoReport
       /\ report' = NoReport /\ UNCHANGED <<evaluations, summary>>

DamageStaging(publication) ==
    \/ /\ "payload" \in Damageable
       /\ staging[publication].condition = "intact"
       /\ staging' = [staging EXCEPT ![publication].condition = "damaged"]
    \/ /\ "staging" \in Damageable
       /\ staging[publication].condition # "absent"
       /\ staging' = [staging EXCEPT ![publication] = NoPayload]

Damage ==
    /\ pc = "idle" /\ marker = 0 /\ faults < MaxFaults
    /\ faults' = faults + 1
    /\ \/ /\ \E u \in Units : DamageUnit(u)
          /\ UNCHANGED <<resultFiles, published>>
       \/ DamageResults /\ UNCHANGED <<unitFiles, judgeFiles, published>>
       \/ /\ \E p \in Attempts : DamageStaging(p)
          /\ UNCHANGED <<unitFiles, judgeFiles, resultFiles, final, marker>>
    /\ UNCHANGED <<process, records, checkpoint>>

-----------------------------------------------------------------------------
Predictions ==
    \/ StartPredictions \/ NextUnit \/ SealPredictions \/ EndPredictions
    \/ FinishPartial
    \/ \E u \in Units : RestartUnit(u) \/ OpenUnit(u) \/ CommitUnit(u)
    \/ \E u \in Units, answer \in Answers : WritePrediction(u, answer)

Judging ==
    \/ StartFinalize \/ StartJudging \/ WriteEvaluations \/ CommitJudging
    \/ \E u \in Units : ReuseJudgment(u) \/ Judge(u) \/ CommitJudgment(u)

Reporting ==
    \/ StartEvaluating \/ WriteSummary \/ CommitEvaluating
    \/ StartReporting \/ WriteReports \/ CommitReporting

Publishing ==
    \/ StartPublishing \/ Stage \/ CommitPublishing
    \/ StartVerifying \/ CommitVerifying \/ CopyItems \/ CopyResults
    \/ WriteMarker \/ WriteCompleted \/ FinishCompleted

Handlers ==
    \/ Interrupt \/ WriteInterrupted \/ FinishInterrupted \/ InterruptUnhandled
    \/ \E phase \in Phases : WriteFailedCheckpoint(phase)
    \/ FinishFailed
    \/ PayloadRejected /\ Fail("PUBLISHING")

\* What a process does of itself once it has been started.
Advance ==
    \/ WriteManifest \/ WriteAttempt \/ PersistConfig
    \/ Predictions \/ Judging \/ Reporting \/ Publishing \/ Handlers

Start == \/ \E m \in {"full", "predict"} : CreateRun(m)
         \/ Resume \/ ResumeCompleted \/ Refuse

Faults == \/ RequestCancel \/ FailUnhandled \/ Crash \/ Damage
          \/ \E phase \in Phases : Fail(phase)

Next == Start \/ Advance \/ Faults

Spec == Init /\ [][Next]_vars

\* A started process keeps running, and the operator repeats resume until the
\* run is complete, as the batch command of the manual does.
Fairness == WF_vars(Advance) /\ WF_vars(Resume \/ ResumeCompleted)

FairSpec == Spec /\ Fairness

-----------------------------------------------------------------------------
(* Properties. *)

\* What a completion marker vouches for (artifacts/local.py commit, after any
\* number of killed attempts that left parts of other publications in final/):
\* every unit is there with the judgment of that very answer, the evaluations
\* collect those judgments, the summary is theirs and the report the summary's.
Whole(f) ==
    /\ \A u \in Units : /\ f.prediction[u] # Missing
                        /\ f.judgment[u].answer = f.prediction[u].answer
    /\ f.evaluations = f.judgment
    /\ f.summary = f.evaluations
    /\ f.report.of = f.summary

PublishedConsistent == marker # 0 => FinalMatches(marker) /\ Whole(final)

\* A publication is of the work on disk at that moment: whatever was damaged,
\* regenerated, judged again or staged before, the marker is only written over
\* the answers and judgments the run now holds (finalizer.py, the chain of
\* input fingerprints and predecessor digests).
FinalIsCurrentWork ==
    /\ final.judgment = judgment
    /\ \A u \in Units : /\ UnitValid(u) /\ JudgmentValid(u)
                        /\ final.prediction[u].answer = prediction[u].answer

PublishesCurrentWork == [][marker' # marker => FinalIsCurrentWork]_vars

\* run-status.json says COMPLETED only once the marker is there, and never
\* says that a published run stopped or is working on an earlier phase.
StatusAgreesWithMarker ==
    /\ status = "COMPLETED" => marker # 0
    /\ marker # 0 => status \in {"VERIFYING", "COMPLETED", "FAILED_VERIFYING"}

\* A published run is never replaced: no later command changes final/ or the
\* marker.
PublicationKept == [][marker # 0 => UNCHANGED <<final, marker>>]_vars

\* The run implements PublishedRun: final/ counts as its published content from
\* the write of the marker on.  Whatever attempts copied there before, stopped
\* or were killed, the content appears once, all of it in the one step that
\* writes the marker, is whole, and stays.  (The readers are in Publication.)
Abstract == INSTANCE PublishedRun
    WITH Contents <- {f \in FinalFiles : Whole(f)}, Readers <- {},
         Nothing <- NoFinalFiles,
         published <- IF marker = 0 THEN NoFinalFiles ELSE final,
         given <- [r \in {} |-> NoFinalFiles]
OnePublication == Abstract!Spec /\ PublicationKept

\* Completed atomic records are reused: a running process never touches a
\* unit or a judgment that is valid, whichever attempt committed it.
KeepsCommittedWork ==
    \A u \in Units :
       /\ UnitValid(u) => /\ prediction'[u] = prediction[u]
                          /\ unitCheckpoint'[u] = unitCheckpoint[u]
       /\ JudgmentValid(u) => judgment'[u] = judgment[u]

CommittedWorkKept == [][pc # "idle" => KeepsCommittedWork]_vars

\* While a terminal phase is worked on, every unit is valid and sealed by the
\* RUNNING checkpoint, and every earlier terminal phase is current for the
\* very files the phase reads: no phase runs on the output of a stale one.
PhasesBuildOnCurrentWork ==
    \A i \in 1 .. 5 :
        pc \in Phase[Chain[i]] =>
            /\ \A u \in Units : UnitValid(u)
            /\ ValidPhaseCheckpoint("RUNNING", 0)
            /\ i > 1 => JudgingCurrent
            /\ \A j \in 2 .. (i - 1) : Current(j)

\* A process that reports a stop request as its outcome has recorded it:
\* INTERRUPTED in run-status.json and in its attempt.
InterruptRecorded ==
    exit = "interrupted" =>
        status = "INTERRUPTED" /\ attempts[attempt] = "INTERRUPTED"

\* If plan_resume finds every unit and some terminal phases done, the judging
\* it builds on is the judging of the predictions on disk.
PlanIsCurrent ==
    pc = "idle" /\ NextPhase \in {"EVALUATING", "REPORTING", "PUBLISHING",
                                  "VERIFYING"} => JudgingCurrent

\* The transitions RUN_TRANSITIONS allows between the states this lifecycle
\* writes (PREFLIGHT, FAILED_PREFLIGHT and RESUMING are never written).
RunTransitions ==
    [s \in RunState |->
        CASE s = "NONE"         -> RunState
          [] s = "RUNNING"      -> {"JUDGING", "PARTIAL", "FAILED_RUNNING",
                                    "INTERRUPTING"}
          [] s = "JUDGING"      -> {"EVALUATING", "PARTIAL", "FAILED_JUDGING",
                                    "INTERRUPTING"}
          [] s = "EVALUATING"   -> {"REPORTING", "PARTIAL", "INTERRUPTING",
                                    "FAILED_EVALUATION"}
          [] s = "REPORTING"    -> {"PUBLISHING", "FAILED_REPORTING",
                                    "INTERRUPTING"}
          [] s = "PUBLISHING"   -> {"VERIFYING", "FAILED_PUBLISHING",
                                    "INTERRUPTING"}
          [] s = "VERIFYING"    -> {"COMPLETED", "FAILED_VERIFYING",
                                    "INTERRUPTING"}
          [] s = "INTERRUPTING" -> {"INTERRUPTED"}
          [] OTHER -> {}]   \* stopped: RESUMING only; COMPLETED: none

\* run-status.json follows the transition table of state.py.
StatusFollowsTable ==
    [][status' # status => status' \in RunTransitions[status]]_vars

\* Whatever happens, a run whose directory was set up is completed in the end
\* if resume is repeated.
EventuallyCompleted ==
    created = "config" ~> pc = "idle" /\ status = "COMPLETED"
=============================================================================
