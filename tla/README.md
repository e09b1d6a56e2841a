# Verification of dmf-benchmarks

TLA+ specifications of the parts of `dmf_bench` and `dmf_benchctl` whose
correctness depends on the order of steps, on what a killed process leaves behind
and what a later process makes of it, on processes that share files or servers,
or on calculations whose result looks right when it is wrong; the TLC instances
that check them; and TLAPS proofs of results that hold for every instance. Paths
are relative to `src/`, and to `src/dmf_bench/` where no directory is given.

## 1. The system

`dmf-bench run` executes one benchmark run: it materializes the data set, has a
memory framework ingest each unit's events, asks an answerer a prediction per
question, has the predictions judged, evaluates the judgments, writes reports,
stages a publication and commits it to `final/`. `dmf-bench resume` continues a
run that stopped at any point, in a new process, from what the run directory
holds. `dmf-benchctl` wraps both in containers, background workers and prepared
batches. Published runs are read by the API, exported, evaluated again, and
compared by the offline analysis.

| Component | State it keeps | Operations | Hard behaviour | Correct if |
| --- | --- | --- | --- | --- |
| Prediction runner (schema 2) `runner.py` | `items/`, `checkpoints/`, `phase-checkpoints/RUNNING`, `run-status.json` | restart, ingest, ask, commit a unit, retention | killed between any two writes; stops honoured at given places only; cleanup by another process | committed units are reused, the others restarted; answers come from a whole memory |
| Retrieval-QA runner (schema 3) `retrieval_qa.py`, `context.py` | a directory of records per unit, checkpoints per query | ingest, barrier, ask or reuse an answer, retain, commit; pack the context | mixtures of attempts inside one unit; half-removed directories; the budget | one ingestion per committed unit; contexts fit |
| Finalizer `evaluation/` | `judgments/`, `evaluations/`, `reports/`, `phase-checkpoints/` | JUDGING, EVALUATING, REPORTING, PUBLISHING, VERIFYING; judging item by item | every phase decides from checkpoints whether its output is current; upstream work may be redone afterwards | nothing stale is used or published; reports add up |
| Lifecycle state `state.py`, `contracts.py` | digests, predecessors, attempts, the lock | `plan_resume`, checkpoint validation, `RunLock` | digests of files against recorded ones | a plan names what the resume will do |
| Artifact store `artifacts/local.py` | `publish-staging/<id>`, `final/`, `final/COMPLETED.json` | `create_run`, `stage`, `verify`, `commit`, `verify_committed` | a copy interrupted in the middle; reuse of a staging directory | the marker appears last, over one whole publication, and stays |
| Cancellation and command line `execution.py`, `cli.py` | a flag set by a signal handler | `request`, `check`, `run`, `resume`, `status` | a signal between the checks | a stop is recorded |
| Framework adapters `adapters/` | collections, embedded stores, lineage and cleanup manifests | prepare, verify, retrieve, retain, clean up | libraries that swallow errors; requests that outlive their client | a memory is whole, its origins are exact |
| Qdrant collections `adapters/qdrant_lifecycle.py` | remote collections | create, delete, poll, count | partial failure of a sequence of requests | a failed creation can be repeated; nothing leaks |
| Provider clients `providers/`, the judges | rate and retry state | requests, retries, rounds of a judge | three nested loops around one request | bounded, spaced, billed; no verdict is invented |
| Operator tool `dmf_benchctl/` | prepared context, job file | `prepare`, `run --prepared`, worker, containers | exit codes of one command steer the next; two launches at once | the order is kept; a batch can be repeated |
| Derived evaluation, OCI export | a derived bundle, an archive | derive, pack | the source changes meanwhile; two at once | of the published content only |
| Data sets `datasets.py` | cache directories with source, sample and manifest | fetch, sample, record, verify, load | several processes in one directory | a run reads what it names |
| Analysis and reports `analyzer.py`, `ablation_analysis.py`, `reporting/` | files written once | cross-check, pair, test, rank, add up | a wrong number looks like a right one | sums, ranks and p-values are exact |
| Benchmarks, configuration, API, metrics, scripts | none | functions and I/O | | tested by examples |

They interact through files and servers alone: the runner and the finalizer are
called one after the other by `OfflineFullLifecycleRunner.run` under one lock
and share nothing in memory but the attempt record and the stop flag; worker,
container and command share the job file and the run directories; runs share
the Qdrant server and the data set cache.

`PROJECT.json` lists every component with its status and every hazard with its
line and the properties that cover it.

## 2. Modules

| Module | Models |
| --- | --- |
| `RunLifecycle` | the runner, the finalizer, the store and the resume logic as one state machine over the run directory |
| `RetrievalQA` | the schema 3 runner inside its units |
| `PackedContext` | the packing of a context under a token budget |
| `JudgedItems` | judging, evaluation and reporting of schema 3, item by item |
| `UnitMemory` | a unit's memory on the Qdrant server under DMF and Mem0, and the LoCoMo runner that asks it |
| `LightMemUnit`, `AMemUnit` | a unit's memory under the embedded frameworks |
| `EmbeddedUnits` | these two side by side, and what both promise |
| `ProviderCalls` | the calls of the answerer and of the four benchmarks' judges |
| `PreparedBatch` | the operator tool on one batch: launch, worker, containers, lock |
| `Publication` | the store file by file, derivations, exports and downloads |
| `PublishedRun` | the abstract run: at most one content, chosen once, given to every reader |
| `DatasetCache`, `DatasetSample` | the processes that share the cache; the drawing of a sample |
| `ScoreReports` | what the reports say of tokens, timings, scores and ranks |
| `Analysis`, `PairedTest` | the offline analysis; its Wilcoxon tests and Holm's adjustment |
| `MCRunLifecycle`, `MCPreparedBatch`, `MCPublication`, `MCUnitMemory`, `MCRetrievalQA`, `MCJudgedItems`, `MCReports` | instances for TLC |
| `RunLifecycle_proofs`, `PreparedBatch_proofs`, `Publication_proofs`, `RetrievalQA_proofs`, `JudgedItems_proofs`, `UnitMemory_proofs` | theorems about the module they are named for; those about `PackedContext` are in `RetrievalQA_proofs`, about `ProviderCalls` in `JudgedItems_proofs`, about `EmbeddedUnits` in `UnitMemory_proofs` |
| `Reports_proofs` | theorems about `DatasetCache`, `ScoreReports` and `Analysis` |
| `Sums` | lemmas about sums over finite sets and the order of numbers, for the proofs |

What composes what: `RunLifecycle` takes the units as steps that `UnitMemory` and
`RetrievalQA` hold in detail, the judging as steps that `JudgedItems` details,
and the commit as two writes that `Publication` details; `RetrievalQA` takes a
framework as one of three kinds that `UnitMemory`, `LightMemUnit` and `AMemUnit`
detail; `PreparedBatch` takes an attempt as what `status` and an attempt's start
tell apart of `RunLifecycle`. `Publication` and `RunLifecycle` each implement
`PublishedRun`, the first with its readers, the second with all the attempts.

An instance module may hold several components, or several instances of one: a
variable `part` (or `setting`, where the instances differ in bounds only) says
which one a behaviour is of, and it never changes. Thus one run answers one
question about all that it concerns, and the parts do not multiply each other's
states. `MCRetrievalQA`, `MCJudgedItems`, `MCUnitMemory` and `MCReports` (of which
it is true of `DatasetCache`, `ScoreReports` and `Analysis`) extend the components they check, so that the
properties of the runs are the ones the theorems are about; the one a behaviour
is not of stays at its start. Components that share names with others
(`LightMemUnit` and `AMemUnit` in `EmbeddedUnits`, which `MCUnitMemory` extends,
and the other ones of `MCReports`) are used through INSTANCE, and their variables
are `"unused"` where the part does not have them. The assumptions on constants
are definitions (`...Assumption`), which the instance modules assert with ASSUME,
except in `RunLifecycle`, `PreparedBatch`, `Publication` and `PackedContext`, which
assert their own.

Definitions with the comment "Variant:" are plausible mistakes, used by nothing
in a specification, each of which breaks the property that `PROJECT.json` pairs
it with.

### RunLifecycle

The state is one process (`pc`, `mode`, `attempt`, `todo`, `open`, `cancel`,
`exit`) and the run directory it works on:

| Variable | In the code |
| --- | --- |
| `created` | how far `create_run` and `_persist_resolved_config` got |
| `status`, `attempts` | `run-status.json`, `attempts/<id>/attempt.json` |
| `prediction`, `unitCheckpoint` | `items/<unit>/`, the COMMITTED `checkpoints/<unit>/checkpoint.json` |
| `judgment`, `judgmentCheckpoint` | `judgments/<question>.json` and the JUDGING item checkpoints |
| `evaluations`, `summary`, `report` | the files of `evaluations/` and `reports/` |
| `checkpoint` | `phase-checkpoints/<phase>/checkpoint.json` |
| `staging`, `final`, `marker` | `publish-staging/<id>`, `final/` and `final/COMPLETED.json` |

Each action is the code between two writes, so that a kill (`Crash`) can fall
between any two of them. `Phase[p]` is the set of places in which the code
handles an exception as a failure of phase `p`; `Fail(p)` may happen at any of
them. A stop request sets `cancel` at any time and is seen where the code calls
`_check_cancel` (`AtCancelCheck`). While no process runs, `Damage` may remove a
file or change a staged one.

Contents are reduced to what the digests distinguish. A prediction is an answer,
chosen from `Answers`, so that a second generation may repeat or change the
first; `by`, the attempt that wrote a file, stands for its timings. The digest
of a COMMITTED phase checkpoint is the number of the attempt that wrote it: the
real digest covers `attempt_id`, and one attempt commits a phase at most once.
A judgment holds the answer it judged. The evaluation and the summary are
functions of the judgments and carry them; a report carries the summary it was
made from. A FAILED checkpoint is reduced to its status and digest: every
reader rejects it on its status before looking at the rest.

What is merged: files written one after the other and only ever read through
one digest list (prediction and timing, the report files, a staged payload,
which becomes visible in one `os.replace`) are one write; the copy into `final/`
is two, with a kill possible between them. What is left out: metrics and events,
the injected interrupts used by tests, and what other modules detail: the
framework's resources and the retention policy (`UnitMemory`), several judges and
schema 3 (`JudgedItems`, `RetrievalQA`), and the lock (one process per run at a
time is assumed; `PreparedBatch` has the lock).

| Property | Says |
| --- | --- |
| `TypeOK` | type invariant |
| `PublishedConsistent` | the marker vouches for a whole: every unit, the judgments of those very answers, evaluations, summary and reports that belong together |
| `PublishesCurrentWork` | the marker is only written over the answers and judgments the run now holds, whatever was staged earlier |
| `PhasesBuildOnCurrentWork` | while a terminal phase is worked on, all units are valid and sealed and every earlier phase is current |
| `CommittedWorkKept` | a running process never touches a valid unit or judgment |
| `StatusAgreesWithMarker` | COMPLETED only with the marker; a published run never shows another phase |
| `OnePublication` | the run implements `PublishedRun`: its content appears in the one step that writes the marker, whole, and stays; and nothing changes `final/` or the marker afterwards (`PublicationKept`) |
| `EventuallyCompleted` | a run whose configuration was persisted is completed in the end |

The first invariant worth arguing about is `PublishedConsistent`. After a unit
is predicted again, every downstream file still has the digest its checkpoint
recorded; that the stale files are not published depends on the judge input
fingerprint, on the item fingerprints, on the predecessor digests of three more
checkpoints and on the publication id; leaving out any one of them violates a
safety property, in counterexamples of some forty to eighty steps.

### RetrievalQA and PackedContext

`RetrievalQA` has the files of a unit's directory one by one (`owned` is
`resources.json`, then `prepared`, `barrier`, `ingested`, the `answer` files and
their checkpoints `mark`, the `aggregate` and the unit's `checkpoint`), the
framework's `memory` of the unit, and a process that plans, wipes, ingests,
passes the barrier, asks or reuses, retains and commits. Contents are the number
of the ingestion they come from; an answer also has the attempt that wrote it. A
kill may fall between two writes and inside `rmtree`, which leaves any subset of
the files; stops are seen at the code's checks; a failure is recorded as the
handlers do it; files and memory may be damaged. BEAM, retention and kind of the
framework are settings. `CommittedFromOneIngestion` says that a committed unit's
answers all come from the ingestion its barrier verified
(`AnswersOfOneIngestion`), that queries are asked of whole memories only
(`AskedOfWholeMemory`), that retention was applied (`RetentionHonoured`) and that
PARTIAL means all units (`PartialMeansPredicted`); `CommittedStay`, that no attempt touches what is committed or what
declares other resources; `AllPredicted`, that the run gets predicted.

`PackedContext` is `context.py`: memories in their ranks, and a binary search over
the places where the first may be cut. The tokenizer is external and arbitrary:
no monotonicity is assumed of it. `BudgetHeld` says the context never exceeds
the budget, `LargestPrefix` that the cut is followed by one that does not fit and,
if longer texts have no fewer tokens, is the last that does (`CutAtLargest`), and
that the memories taken are the best ranked (`BestFirst`).

### JudgedItems and ProviderCalls

`JudgedItems` has the judgment, timing and checkpoint of each question and judge,
`evaluations.json`, each evaluator's output, the rows, the reports and the phase
checkpoints, each as what it was made from; predictions may be redone between
attempts. Judges, evaluators and reporters skip what their checkpoints say is
current. `ReportedAsJudged`: a reported run reports, of every question and judge,
the verdict on the answer the run holds now, with its time (`VerdictsAsJudged`),
the evaluators read those verdicts and predictions, files outside their
fingerprints included (`EvaluatedFromTheReported`), and the score is the primary
judge's (`ScoreIsPrimary`). `VerdictStands`: nobody asks again what has
been judged. `AllJudged`: it is reported in the end.

`ProviderCalls` is one client: the rate limit, the retries of a transient error
with their back-off, and the rounds of a judge over malformed or cut replies,
for the answerer and each judge. Time passes in units of the back-off.
`RequestsSpaced`: requests keep the rate's distance whatever loop made them
(`SpacedByRate`), and each loop is bounded (`RetriesAreBounded`).
`NeverFlattered`: a result rests on replies that were complete and as asked
(`RestsOnComplete`), never says more than they do, and its usage is that of every
reply, those a judge rejected included (`UsageIsOfEveryReply`). Of two kinds of
reply the metrics see nothing: one without content is an error of the transport,
for every adapter, and an answerer's that is empty is counted as failed without
its tokens (`Recorded`; `adapters/providers.py:160`).

### UnitMemory, LightMemUnit, AMemUnit

`UnitMemory` has the collections and the local file of each unit by name, the
checkpoints, and a process per run. A memory is how many copies of each batch it
holds. A request may be lost, fail, or reach the server after its client died
(`late`); a deletion may take longer than it is polled for; cleanup after a kill
is by the next process. Assumed: a late request lands before the next attempt
counts the collection or is lost (a client's timeout is seconds, an ingestion
minutes), at most one outlives its client at a time, and one ingestion suffers
either a lost record or a late duplicate, not both (the barrier compares numbers,
so the two would cancel out). `AnsweredFromWholeMemory`: committed answers came
from a memory with every batch exactly once. `RetentionHonoured`,
`KeptMemoryStays`: deleted units have nothing left on the server, kept ones keep
everything whatever other units and runs do. `EveryUnitIsDone`: a unit is
committed in the end.

`LightMemUnit` and `AMemUnit` have the library's index on disk, what the process
holds, and what the adapter checks after each step, since both libraries swallow
errors. LightMem's manager deletes, rewrites or keeps entries;
`OriginsAreExact` says an entry named with a source still reads as extracted
from it. A-MEM's links are words of a model; the same property says that those
followed lead to other notes of the unit, once, within the limits.
It includes that every update and evolution that was decided was carried out,
and that what is searched is what was prepared.

### PreparedBatch

The launching commands, the detached or foreground workers and their containers
are processes of their own; a container outlives its killed worker. The state is
the config files, the prepared context, the job file, each entry's run (as
`status` tells it) and the holder of its lock. `OrderKept`: no entry starts
before the earlier ones have succeeded. `SuccessMeansDone`: a worker that exits
with 0 leaves every run predicted or published, as asked. `OneAttemptAtATime`:
no two workers are inside one run, though nothing keeps two from starting.
`RunsAsPrepared`: every run is of the config that was locked. `BatchEnds`:
workers end, and a batch without faults is published.

### Publication and PublishedRun

Directories are copied one file at a time. A content is the number of the report
it was written for, and the id of a staged copy is that of the report. Beside
the attempts there are derivations, exports and the API's downloads, each of
which verifies first. Files are damaged only while no process is at work.
`OnePublishedContent` is the refinement (`Abstract!Spec`: `published` is the
marker, `given` what each reader was given) and that a derived bundle is never
replaced. `MarkerIsLast`: when the marker is written, `final/` holds all of the
staged copy and nothing else. `SumsAreOfTheArchive`: the checksums in an archive
are of the files in it, unless another export or attempt wrote in the run
directory meanwhile. `EventuallyPublished` excepts, by name, the two states no
attempt repairs: a directory that a kill left without a manifest, and a staged
copy damaged after it was made.

### DatasetCache and DatasetSample

Processes that prepare a data set or run on it find or download the source,
sample, hash, record the manifest, verify, load and copy the manifest, each step
by itself; downloads may fail or end early, processes be killed, files be
damaged. What each request declares (`samplingOf`) and whether the directories
are named by a cache key or all requests name one by hand (`byHand`) is chosen at
the start. `ReadsWhatItNames`: a source that was not damaged is whole
(`SourceIsWhole`), a run reads what its configuration names (`DataIsAsNamed`) and
what every run of the same sample reads (`SameSampleSameData`), and its manifest
describes it (`ManifestDescribesData`). Of a directory named by hand nothing is
said of the manifest, since the second one replaces the first; nor, where two
samples are drawn into it, of what is read of them (`Undisturbed`), since both
have one file name and the file may be replaced after it was hashed. Damage
between the hash of a file and its reading, which nothing in the code would see,
is left out. `EventuallyLoaded`: every run gets its data. `DatasetSample` draws from
every payload of the instance with each unit, fraction, rounding and
stratification; fractions are exact, floating point numbers in the code.

### ScoreReports, Analysis, PairedTest

`ScoreReports` keeps a ledger of what was spent and done next to the reports. What
is planned and what may come (units, judges, replies, searches) is an experiment,
and `Experiments` has any number of them.
`UsageIsWhatWasSpent`: nothing is lost or counted twice between the adapters'
shares, the answers and verdicts, and the totals; schema 2 timings are there and
once; judges' scores differ by no more than the agreement report says.
`AnalysisAccepts`: the ranks are those of the lists and the rows pass the
analysis's own checks. One counter stands for tokens and calls; means, Mem0's
usage in retrieval and durations are left out.

`Analysis` loads published runs whose files may disagree and refuses what does
not fit. Means, also the mean of the units' means, are fractions, floating point
numbers in the code. `ComparedAsJudged`: every difference is of judgments as
published, unit by unit (`UnitsAsJudged`); and by each of the six names that
comparisons are broken down by, a query that has a stratum is in that one's
comparison, which has of each unit just the queries with that stratum, the same in
both runs, and the difference of their judgments. Rows whose stratum by a name is
absent or `None` are left out there, as in the code, such as `question_type` in a
run of several MemoryAgentBench tasks (`StrataAsJudged`). Secondary judges are
paired alike, of all units, and left out.
`FrontierDominates`: whatever is not on the frontier is dominated by a run that
is, and nothing on it is dominated.

`PairedTest` is the ranking with ties, the test of each comparison, and Holm's
adjustment. Up to 25 differences that are not zero (`ExactLimit`) the code counts
the sign patterns in nested loops, and beyond it approximates their distribution by
a normal one. The differences are the floating point numbers that the test is
given: integers stand for them, as it asks only for their signs and how their
absolute values compare with `<` and `==`. Two that exact arithmetic would make
equal, 1 - 2/3 and 2/3 - 1/3, may differ there, and get different ranks.
`TestsAsDefined` compares the loops with the methods' definitions: an exact
p-value is the share of sign patterns as extreme (`PIsExact`), an approximation has
the variance that these patterns have, ties included, and the correction for
continuity (`NormalFits`), and an adjusted one is within a level just when Holm's
procedure rejects at it (`HolmIsStepDown`). `erfc` is left out: an approximated p
is 1 where the deviate is zero and one smaller value elsewhere.

## 3. Runs

| Run | Instance | Result |
| --- | --- | --- |
| `lifecycle_safety` | 2 units, 2 answers, every kind of damage, 5 attempts, 3 faults; units and answers symmetric | the seven safety properties hold, with the refinement of `PublishedRun` |
| `lifecycle_liveness` | 2 units, 1 answer, damage other than to a staged payload, 4 attempts, 2 faults | `EventuallyCompleted` holds, no deadlock |
| `batch` | 2 entries, 2 launches; settings: every mix of full and predict-only with 2 faults, edits of configs in between, full ones with 1 fault for liveness | holds |
| `publication` | 2 files; settings: 2 derivations, an export and the API with 2 faults; 2 exports with 1; 4 kills and damages with none beside | holds, with the refinement of `PublishedRun` |
| `unit_memory` | one run of 2 units of 2 batches with 3 faults; two runs of schema 2 on one server, each its first unit, with 1; LightMem with 2 events, up to 4 entries and 2 faults; A-MEM with 3 notes and 1 | holds; the shared server for safety only |
| `retrieval_qa` | 2 units of 2 queries, three kinds of framework, 2 faults, 3 attempts; first memories of up to 5 places to cut, up to 2 more, 3 budgets | holds |
| `judged_items` | 2 questions, 2 judges, the second the primary, 3 faults; 2 calls of each client, 2 retries, 1 more round, a rate longer than the first back-off | holds |
| `reports` | data sets: 4 processes on one sample and the whole with 2 faults, 4 without a sample with 1, two samples and the whole in one directory by hand with none; payloads of up to 3 items and 3 questions; 3 questions in 2 units; 3 runs, two of them compared, of publications with any one file out of step, rows and evaluations without a stratum and strata nobody checks among them, and matrices where the second run is as it should be; 3 runs on the frontier; 4 units of differences of up to 4 magnitudes, counted, and of 3, approximated from the third difference on; 3 comparisons | holds |
| `interrupt_recorded`, `plan_current`, `status_table`, `judge_verdict` | 1 unit and 1 to 3 faults; 1 call | violated, see below |

Bounds. Faults are kills, failures, stops, lost or late requests and damaged
files. The number in each instance is what the listed hazards need: a kill after
a step was done, a second fault in the attempt that repairs it, and for
`publication` two more, to have parts of one copy, another report and a kill in
the copy of that. Two units or entries are needed for work that is half done;
two answers, judges, files or launches, for two that differ. Attempts are never
cut off: an attempt that does not complete uses a fault, so one more than the
faults suffices (plus one predict-only attempt in `RunLifecycle`). The values of
`ScoreReports`, `DatasetSample`, `Analysis` and `PairedTest` include zero and
empty ones, remainders, ties, and a silent provider.

Deadlock is checked in `lifecycle_liveness` only. The other systems may really
stop: a run ends when it is predicted, reported or published, an operator may
leave a batch alone, a payload damaged after staging fails every further attempt
(`artifacts/local.py:228`), and calculations end. Each cfg says why.

Fairness. In every module it is weak fairness of what a live process does next,
since the code is sequential and calls to frameworks and providers are assumed
to return, raise or time out; and of the operator's resumption, as the manual
asks for it (`manual/user-manual.md:776`). No fairness is assumed of faults,
which are finitely many. In detail: `Advance` and `Resume \/ ResumeCompleted`
(`RunLifecycle`); `LauncherStep`, `WorkerStep` and `ContainerStep` of each worker
but not of the operator (`PreparedBatch`); `Attempt` (`Publication`,
`JudgedItems`), in which a later attempt is included; `Step` of each run and
`Server`, which completes deletions (`UnitMemory`, where the run of an instance has the server
for itself); `Start` and `Step`
(`RetrievalQA`); `Step` (`LightMemUnit`, `AMemUnit`); `Call` (`ProviderCalls`);
`Process` of each request and `RemoveSource` of each directory, since the operator has
to remove a source that is refused (`DatasetCache`); `Next` (`PackedContext`).

### Disagreements between the code and what is said of it

Each is the violation of one property by one run.

1. `finalizer.py:182`. `finalize()` checks for a stop request before its `try`
   block. A signal that arrived during the last prediction steps ends the
   process as interrupted (exit code 128 + signal, event "Benchmark stopped at a
   safe lifecycle boundary."), with RUNNING in `run-status.json` and IN_PROGRESS
   in the attempt. The manual ties safe cancellation to INTERRUPTED.
2. `state.py:484`. `plan_resume` does not compare input fingerprints. After a
   unit was predicted again, `resume --plan-only` and `attempt.json` name
   EVALUATING or a later phase, and the resume starts at JUDGING. The work done
   is right (`PhasesBuildOnCurrentWork`), the plan shown is not.
3. `state.py:66`. `RUN_TRANSITIONS` is tested as the rule for run states, but no
   writer of `run-status.json` consults it; a resume writes RUNNING over a
   stopped state and RESUMING never appears.
4. `adapters/providers.py:385`. The strict check of a judge's reply accepts the
   keys "judgment" and "label" and the words "VERDICT:" and "JUDGMENT:"; the parser
   that reads the verdict, `benchmarks/locomo/judge.py:17` and `:24`, knows one of
   each. `{"judgment": "CORRECT"}` is recorded as WRONG with score 0, where the
   manual (`manual/user-manual.md:1268`) says that no score is invented.

### Seen while modelling

These are not runs of their own; the models take the paths the code takes.

- `dmf_benchctl/cli.py:952`: for a run directory without manifest or status the
  batch sees exit code 3, runs `run`, and `run` refuses the directory; the manual
  (`manual/user-manual.md:1975`) says a batch can be launched again.
- `dmf_benchctl/cli.py:944`: `--predict-only` is passed to `run` only; a second
  launch, which resumes, goes on to the terminal phases (`manual/user-manual.md:1005`).
- `retrieval_qa.py:346`: the schema 3 runner has no handler of its own for a stop
  request and records FAILED_RUNNING (`manual/user-manual.md:1563`).
- `benchmarks/beam/judge.py:74`, `benchmarks/memoryagentbench/judge.py:94`: these
  judges never read `response_max_retries` (`manual/user-manual.md:1267`).
- `adapters/providers.py:160`: an answerer's empty reply is recorded as failed
  without its response, so that its tokens are in no metric; a judge's rejected
  replies are counted with theirs (`:242`).
- `cli.py:577`: two samples made by hand in one directory share the manifest
  of the second (`manual/user-manual.md:1317`).
- `datasets.py:403`: both samples are also written to one file,
  `<stem>.sample.json`, whatever the sampling. The second takes the place of the
  first, whose configuration is refused from then on, or, if it comes between the
  hashing of the file and its reading, the run reads the other sample.
- `reporting/reports.py:51`: the timings of two judges of one question have one
  identity (`:97`) and collapse into one (`manual/user-manual.md:1615`).

## 4. Proofs

The theorems hold for all values of the constants that the modules' assumptions
allow: any numbers of units, questions, judges, files, entries and workers, and
any number of faults. Where the assumptions are definitions, a theorem names them
as its hypothesis (`Assumed`, `PlanAssumption`): they are what the instance modules assert with
ASSUME. Proved are all seven safety properties of `lifecycle_safety`, all four of
`batch`, the three of `publication` with the refinement of `PublishedRun`, all of
`retrieval_qa`, `judged_items` and `unit_memory`, and `ReadsWhatItNames`,
`ComparedAsJudged` and `FrontierDominates` of `reports`. The type invariants are proved
with them; outside `lifecycle_safety` they are no properties of the runs, where
they would only take time: TLC checked each of them before its proof.

A proof starts from a lemma `Steps` that says which actions a step may be, shows
first what an action leaves alone, and then takes each part of the invariant
through the actions that can disturb it.

`RunLifecycle_proofs`:

- `TypeCorrect`: `Spec => []TypeOK`. `TypeOK` is inductive. It is proved part by
  part: one step per action for the process and the records; for the files,
  first which actions write them at all (`WorkWriters`, `PublicationWriters`).
- `StatusAgrees`: `Spec => []StatusAgreesWithMarker`, and
- `PublicationStays`: `Spec => PublicationKept`. Neither is inductive by itself:
  both follow from `MarkerInv`, which adds that a process past its config has a
  persisted one (so that `run` cannot start over), that VERIFYING is on disk
  before the first byte of `final/` is written, that a committed phase has a
  digest (so that the marker names a publication), and that once the marker
  exists a process can only be in the steps that close the run.
- `PhasesCurrent`: `Spec => []PhasesBuildOnCurrentWork`, and
- `WorkKept`: `Spec => CommittedWorkKept`, from `WorkInv`: until the predictions
  are sealed, the units before a process are exactly the invalid ones and the
  open one has lost its checkpoint before it gets its prediction; from then on
  all units stay valid and sealed; a unit that left the judging loop has a valid
  judgment; behind each phase its checkpoint is current.
- `Consistent`: `Spec => []PublishedConsistent`, and
- `PublishedIsCurrent`: `Spec => PublishesCurrentWork`, from `PublishedInv`. Its
  core is that a predecessor digest stands for content: if the EVALUATING
  checkpoint names the JUDGING checkpoint, both reference the same results
  (`LinksInv`), and what is staged under the digest of a fully linked REPORTING
  checkpoint is what those results were (`StagedInv`). To be inductive it needs
  that digests are fresh (`DigestsInv`): until an attempt commits the phase that
  refers to it, nothing on disk refers to a digest of this attempt, and nothing
  is staged under it. This is where the proof uses that a digest covers
  `attempt_id`: work that is redone upstream breaks every link downstream, even
  if the content comes out the same.
- `OnePublished`: `Spec => OnePublication`. Under the mapping `final/` is the
  published content if there is a marker, and nothing is published otherwise.
  Copying, also of a publication that is then abandoned, is a stutter;
  `WriteMarker` is `Publish`, of a whole content by `PublishedInv`; afterwards
  every step stutters by `PublicationStays`.

`PreparedBatch_proofs`. `TypeOK` is inductive (`TypeCorrect`); the rest stands on
it in layers, each of which needs the ones before.

- `OneAttempt`: `Spec => []OneAttemptAtATime`. The invariant is `Locks`: a
  container that is inside a run is the holder of its lock. A worker's death does
  not release it, which is why it is about containers and not about workers.
- `OrderIsKept` (`[]OrderKept`) and `SuccessIsDone` (`[]SuccessMeansDone`), from
  `Attempts` (the run is where the container inside it has brought it, so that no
  other exit code can be read of it) and `Progress` (what is behind a worker is
  done for its mode, and an entry's run exists only if the entries before it have
  succeeded once). Done is for good: a published run may become corrupt, never
  unpublished.
- `RunsArePrepared` (`RunsAsPrepared`), from `Places` (who has a container),
  `Agreed` (while anybody works the configs are those that were locked, and a
  container has read the prepared one) and `Sources`.

`Publication_proofs`, from one invariant of six parts:

- `TypeCorrect` needs `Counted`: a report is only made again after a fault, so
  their numbers stay within the bound of the model.
- `MarkerLast` (`MarkerIsLast`), from `Attempting` (the artifacts are whole and
  the copy is of them) and `Installing` (what was installed is as staged): this
  holds whatever an earlier attempt left in `final/`.
- `SumsOfTheArchive` (`SumsAreOfTheArchive`), from `Summing`.
- `OnePublished` (`OnePublishedContent`): initial states and steps of the store
  are ones of `PublishedRun` under the mapping, step by step: `WriteMarker` is
  `Publish`, what a reader is given is the marker since it verified first
  (`Reading`), all else stutters; and derived bundles stay.

`RetrievalQA_proofs`, from one invariant of twelve parts:

- `OneIngestion` (`[]CommittedFromOneIngestion`). A committed checkpoint refers
  to files of one ingestion (`GoodRefs`, a statement on the checkpoint and so
  immune to damage of the files). It is so when it is written because at each
  place of the process the ingestion in hand is that of the unit's files
  (`Holding`) and the answers given so far are of it (`Answering`); and a cached
  answer may be reused because recorded answers are of the recorded ingestion
  (`Marks`), which holds through half-removed directories since the records
  are removed and written in an order that keeps it.
  A query is asked of the whole memory of the ingestion in hand, and retention is
  honoured, by `Remembering`; PARTIAL means all units by `Plan` (done, in hand and
  to do are all units) and `Closing`.
- `CommittedUnitsStay` (`CommittedStay`), from `Plan` and `Ownership`.

About `PackedContext`, in the same module:

- `PackingTypes`, `ContextFits` (`Spec => []BudgetHeld`) and `CutAtTheLargest`
  (`Spec => []LargestPrefix`), from `PackInv`, which adds to the types that the input
  is one of those assumed and the bracket of the search: the place at `low` fits,
  the one after `high` does not, nor does the last. Monotonicity is a hypothesis
  of a part of `LargestPrefix`; the rest needs no assumption on the tokenizer.

`JudgedItems_proofs`, from one invariant of ten parts:

- `Reported` (`[]ReportedAsJudged`), from `VerdictsReported`, `ScoredByThePrimary`
  and `EvaluatedOfTheReported`, one for each of its parts: what a checkpoint refers to is consistent in itself
  (`JudgingMarked`, `OutputMarked`, `EvaluatingMarked`, `ReportingMarked`),
  whatever became of the files since; at each place the phases behind are valid
  (`Behind`), that is, the files are those; together they are of the answers the
  run holds. The core is that an evaluator's output is a function of the
  evaluations alone (`OutputOf`), although two evaluators read the files of the
  predictions: the evaluations were made of verdicts on just those answers.
- `NoVerdictAskedTwice` (`VerdictStands`), from `ItemFiles` and `Gathering`: the
  items before the place of the attempt are settled.
- The items are counted through by one number; that it enumerates every question
  and judge once is the arithmetic of `Division` and `Composition`.

About `ProviderCalls`, in the same module, from one invariant of seven parts:

- `CallTypes`: `CallSpec => []CallTypeOK`.
- `Spaced` (`[]RequestsSpaced`). `SpacedByRate` is inductive: whichever loop comes
  to a request, the clock of the adapter is the time of the last one, and it waits
  for the rest of the interval. For the bounds, `Spent` says what the rounds before
  this one and the attempts of this round have cost, and `Judging` in which round a
  judge may be.
- `Unflattered` (`[]NeverFlattered`). The replies a judge has kept were accepted,
  and a vote is complete when they are as many as asked (`Judging`, `Ending`). What
  was counted is at every place the replies so far, of which the one that has just
  arrived may not be counted yet (`Booked`), and a kept score is one of a reply
  (`Scoring`); so the verdict is no better than the replies, and the usage is the
  sum over all of them, for lists of any length. The one reply that `Booked` excepts
  is an answerer's empty one (`EmptyAnswer`), which no result comes of.

The sums are folds, and what they add up to for every input has to be shown by
induction over a set. The induction rule itself cannot be used, since it is about
any predicate; `Sums` argues by a smallest counterexample instead: among the sets
for which a claim fails there would be one of least size. It shows that the fold
has a value and does not depend on the order of the elements, and from this what
a sum with one element more or less is (`SumWith`, `SumWithout`) and the sum of a
longer list (`SumOfAppended`).

`UnitMemory_proofs`, from one invariant: at most one late request, six parts for
each run, and one for the memory of each unit.

- `TypeCorrect`: `Spec => []TypeOK`.
- `WholeMemory` (`[]AnsweredFromWholeMemory`). The barrier compares a number with a
  number, so it must be shown that equal numbers mean that every batch is there
  once. While an ingestion goes on it is either `Lossless` (it holds each batch so
  far at least once) or `Unrepeated` (it holds none twice, and no late copy of one
  is on its way); the assumption on faults in Section 2 says no more than that. Then
  the copies counted include, or are included in, the batches reported, and finite
  sets of equal size of which one includes the other are the same
  (`CopiesCounted`, `Counted`). That a late creation or deletion does no harm after
  the barrier holds because the barrier outlasts every request on its collection
  (`Plan`, `Ingesting`); questions find the memory as it passed (`Asking`, `Asked`).
- `NothingLeft` (`[]RetentionHonoured`) and `MemoryKept` (`[]KeptMemoryStays`), from
  `Retaining`, from `Quiet` (nothing late is on its way to a committed unit), and
  from the names: steps of another run or of another unit leave a unit's resources
  alone (`Elsewhere`, `OtherRuns`).

About `EmbeddedUnits`, in the same module:

- `Origins` (`EmbeddedSpec => []OriginsAreExact`), from an invariant of each
  framework. Every behaviour of `MCUnitMemory` is one of `EmbeddedSpec`, seen without
  the server. For LightMem: until the manager has decided, an entry reads as it was
  extracted (`LmAdded`), from then on only those to be decided on may read
  otherwise (`LmQueued`), so that the sources kept at the end are exact and the
  index as decided (`LmPrepared`); and once a query was answered the index stays,
  whatever was damaged before was refused (`LmRetrieved`). For A-MEM: a memory is
  prepared once every evolution decided was carried out (`AmPrepared`), and its
  links lead to notes of the unit, each once: the positions kept are taken in
  their order, and of k numbers there is a first, a second, up to a k-th
  (`InOrder`). The answer is a recursion over the links of the notes found, laid
  out as one list; that each of its values is an answer within the limits
  (`Answer`) holds for the first and passes on from one to the next (`RankedIs`,
  `AnswerTakes`), where again a smallest counterexample stands for induction, and
  for the recursive function to have a value at all (`RankingExists`).

`Reports_proofs`. About `DatasetCache`, from one invariant: the types,
`SourceIsWhole`, `Recorded` for the manifests, and three parts for each request.

- `TypeCorrect`: `Spec => []TypeOK`.
- `ReadAsNamed` (`[]ReadsWhatItNames`). A request that goes on has found or
  published a right source (`Sourced`), only runs read (`Running`), and a
  configuration names the file as it was declared, which is how the file is
  whenever it is hashed or about to be read (`Named`, `Read`). What has to be
  shown is that the steps of others leave it so (`OtherRuns`, `WholeFileStays`):
  whoever replaces a file in between replaces it by the same content, for where
  directories are named by their key all who share one declare the same sampling,
  and where they are named by hand `Undisturbed` says so. The manifests are of the
  directory's sampling whoever wrote them (`OwnDirectory`, `Recorded`).

About `ScoreReports`, from the invariant `Accounts`, for any plan, replies and
searches:

- `Spending` (`ReportsSpec => []UsageIsWhatWasSpent`). `Balanced` says at every step
  that the reports, if they were written now, would be the ledger, but for what is
  `Pending`: of the unit at work, the tokens that no question has been given yet.
  Dividing with a remainder, the first questions get one more, so that the shares
  of all its questions are the whole (`GivenSoFar`), and nothing is pending where a
  unit is done. That a total grows by what an answer or a verdict brings is a
  lemma on sums (`TakenOfGrown`, `SummedOfJudged`, with `Sums`). The timings are
  counted by their identities, which are as many as the calls because every unit
  has a question and every question one judge (`Asked`, `Timed`, `Judged`). A
  question on which one judge passes and the other does not has two labels, which
  bounds the difference of their scores.
- `Accepted` (`ReportsSpec => []AnalysisAccepts`). The ranks are a recursion along
  the list of memories; its value is the evidence that any memory so far has and
  the first of them that has some (`RankedToNext`, `RanksAre`).

About `Analysis`:

- `Compared` and `Frontier`: `AnalysisSpec` implies
  `[]ComparedAsJudged` and `[]FrontierDominates`, for any publications, whatever
  their files say of each other. Their invariant, `AnalysisInv`, keeps that the
  runs loaded are consistent, that nothing is compared or reported before all are
  loaded, and that a comparison made is of compatible runs with paired strata
  (`MadeOf`). `Compared` then takes the scores from the rows to the judgments
  (`RowsAre`), and the difference of two sums is the sum of the differences, of any
  of the queries of a unit (`DifferencesAreOfJudgments`, with `Sums`). The strata of
  rows are those of the evaluations where the benchmark names them (`StrataHold`),
  so that the queries with a stratum are the same in both runs (`PairedAsJudged`)
  and a comparison by a name has all of them and no other
  (`ComparisonIsOfJudgments`). For `Frontier`, a score is a
  fraction whose denominator is positive (`MultipleIs`, `ScoreIs`), as every
  consistent run has a unit that asks something (`SomeUnitAsks`); so the order of
  scores is transitive (`FractionsInOrder`) and dominating is a strict order
  (`DominanceIsStrict`). Among the runs that dominate a given one and are
  comparable with it, one with the fewest dominators of its own has none
  (`DominatedFromFrontier`): that is the run on the frontier.

Each invariant was also checked with TLC before it was proved. Proving found
mistakes of two models. In `DatasetCache` a request without a sampling went
through the step that draws one, and the instance had no run of that kind and no
two samples in one directory: damage to the source between its hashing and that
step would have broken `ManifestDescribesData`, and a second sample
`DataIsAsNamed`. The step is now skipped as in the code, both cases are in the
instance, and the second is the exception `Undisturbed` makes. And the type
invariant of `JudgedItems` bounded the place of an attempt by the number of
items, but the same counter goes through the evaluators, of which there are three
also where there is one question and one judge; no instance was that small.

Only model-checked:

- all liveness, since properties under fairness are outside what the prover does;
- what two of the calculations give for every input: the results of
  `DatasetSample` and `PairedTest` are shown for the inputs of their instances.
  They would need facts about nested folds and sorted sequences, of
  which `Sums` has only the first.

## 5. Plan

Done: the lifecycle; the schema 3 runner and context packing; judging item by
item; batches; the store, exports and derivations with their abstract
specification, all with their theorems; unit memory under four frameworks;
provider calls; data sets; reports, analysis and tests.

Left, in order:

1. the evaluators of single benchmarks, whose inputs differ from those of the
   common ones;
2. the choice of the latest attempt, once something reads it.

## 6. Not modelled

Formats, prompts, metric formulas, HTML, logging, container and image commands
are functions of their input or one call. The contents of providers' answers are
arbitrary values. Interrupts that tests inject are left out. Ablation tables, the
pilot scripts and the scripts that convert or fetch data sets and models run
once, in one process, and keep no state between calls. `PROJECT.json` gives the
reason for each component.

## 7. Running

Each run of `PROJECT.json` names its module and configuration:

    tlc -config RunLifecycleSafety.cfg MCRunLifecycle.tla
    tlc -config PreparedBatch.cfg MCPreparedBatch.tla
    tlc -config Publication.cfg MCPublication.tla
    tlc -config UnitMemory.cfg MCUnitMemory.tla
    tlc -config RetrievalQA.cfg MCRetrievalQA.tla
    tlc -config JudgedItems.cfg MCJudgedItems.tla
    tlc -config Reports.cfg MCReports.tla
    tlc -config ProviderCallsVerdict.cfg ProviderCalls.tla

and the proofs are checked by

    tlapm Sums.tla
    tlapm RunLifecycle_proofs.tla
    tlapm PreparedBatch_proofs.tla
    tlapm Publication_proofs.tla
    tlapm RetrievalQA_proofs.tla
    tlapm JudgedItems_proofs.tla
    tlapm UnitMemory_proofs.tla
    tlapm Reports_proofs.tla

With two workers each run takes between seconds and some three minutes.
