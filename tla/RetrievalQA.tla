----------------------------- MODULE RetrievalQA -----------------------------
(***************************************************************************)
(* The schema 3 prediction runner: for every unit it has to do, it makes   *)
(* the framework's memory of that unit empty, ingests the events, checks   *)
(* the ingestion (the commit barrier), answers the unit's queries from the *)
(* memory and commits the unit.  A BEAM run also records the ingestion and *)
(* each answer, so that a later attempt can go on inside a unit.           *)
(*                                                                         *)
(* Files and memory carry the ingestion they come from, numbered by the    *)
(* attempt that made it; an answer carries its ingestion and the attempt   *)
(* that wrote it.  A checkpoint is the list of the contents it refers to.  *)
(* The attempts of one run never overlap (its lock), and the terminal      *)
(* phases are in RunLifecycle.                                             *)
(***************************************************************************)
EXTENDS Integers, FiniteSets, Sequences

CONSTANTS
    LastUnit, LastQuery,   \* number of units, and of the queries of each
    Kinds,                 \* the kinds of framework of the exploration
    MaxFaults              \* bound: kills, failures, stops and damaged files

\* What is assumed of the constants; the instances check it. Kinds: an "index"
\* in the run directory, a "stateless" baseline without stored memory, and an
\* "external" memory system that cannot restore an ingestion.
SizeAssumption == LastUnit \in Nat \ {0} /\ LastQuery \in Nat \ {0}
KindsAssumption ==
    Kinds # {} /\ Kinds \subseteq {"index", "stateless", "external"}
FaultsAssumption == MaxFaults \in Nat

Units == 1 .. LastUnit
Queries == 1 .. LastQuery
Absent == 0
Damaged == -1
MaxAttempts == MaxFaults + 1   \* bound: an attempt that is not the last met a fault
Ingestions == 1 .. MaxAttempts
Contents == {Absent, Damaged} \cup Ingestions
NoAnswer == <<Absent, Absent>>
Answers == {NoAnswer, <<Damaged, Damaged>>} \cup (Ingestions \X Ingestions)
AnswerSets == [Queries -> Answers]
NoAnswers == [q \in Queries |-> NoAnswer]

VARIABLES
    \* the settings of the run
    kind, beam, retention,
    \* the framework
    memory,     \* the ingestion the memory of a unit holds, and if all of it
    \* the run directory, by unit
    owned,      \* resources.json: "absent", the "declared" resources or "other"
    prepared,   \* prepared.json
    barrier,    \* commit-barrier.json
    ingested,   \* ingested.json: the ingestion it refers to
    answer,     \* the retrieval, context and prediction files of each query
    mark,       \* the query checkpoints: the answer each refers to
    aggregate,  \* predictions.json
    checkpoint, \* checkpoint.json
    \* the run directory
    phase,      \* the RUNNING phase checkpoint: the unit checkpoints it binds
    status,     \* run-status.json
    \* the process
    pc, attempt,
    todo,       \* the units of this attempt
    unit,       \* the one it is at
    done,       \* the units it counts as committed
    query,      \* the query it is at
    handle,     \* the prepared memory it holds: an ingestion
    stopping,   \* a stop signal has arrived
    faults

settings == <<kind, beam, retention>>
records == <<owned, prepared, barrier, ingested, answer, mark, aggregate>>
shown == <<phase, status>>
process == <<attempt, todo, unit, done, query, handle, stopping>>
vars == <<settings, memory, records, checkpoint, shown, pc, process, faults>>

Empty == [from |-> Absent, whole |-> FALSE]
Nothing == <<>>
Snapshot(u) == <<owned[u], prepared[u], barrier[u], ingested[u], answer[u],
                 mark[u], aggregate[u]>>
Progress == {"none", "INGESTING", "INGESTED", "PREDICTING"}
Working(s) == [is |-> s, refs |-> Nothing]

TypeOK ==
    /\ kind \in Kinds /\ beam \in BOOLEAN
    /\ retention \in {"keep", "delete-on-success"}
    /\ memory \in [Units -> [from : Contents, whole : BOOLEAN]]
    /\ owned \in [Units -> {"absent", "declared", "other"}]
    /\ prepared \in [Units -> Contents] /\ barrier \in [Units -> Contents]
    /\ ingested \in [Units -> Contents]
    /\ answer \in [Units -> AnswerSets] /\ mark \in [Units -> AnswerSets]
    /\ aggregate \in [Units -> AnswerSets \cup {Nothing}]
    /\ \A u \in Units :
          \/ checkpoint[u].is \in Progress /\ checkpoint[u].refs = Nothing
          \/ /\ checkpoint[u].is = "COMMITTED"
             /\ checkpoint[u].refs \in
                   {"absent", "declared", "other"} \X Contents \X Contents
                   \X Contents \X AnswerSets \X AnswerSets
                   \X (AnswerSets \cup {Nothing})
    /\ phase = Nothing \/ DOMAIN phase = Units
    /\ status \in [is : {"none", "RUNNING", "PARTIAL", "FAILED_RUNNING",
                         "INTERRUPTED"}, units : SUBSET Units]
    /\ pc \in {"idle", "open", "next", "restore", "clean", "cleaning", "wipe",
               "declare", "ingest", "ingesting", "barrier", "ingested",
               "predict", "ask", "record", "mark", "gather", "retain",
               "retaining", "commit", "count", "end", "close"}
    /\ attempt \in 0 .. MaxAttempts
    /\ todo \subseteq Units /\ unit \in Units /\ done \subseteq Units
    /\ query \in 1 .. LastQuery + 1
    /\ handle \in Contents /\ stopping \in BOOLEAN /\ faults \in 0 .. MaxFaults

Init ==
    /\ kind \in Kinds /\ beam \in BOOLEAN
    /\ retention \in {"keep", "delete-on-success"}
    /\ memory = [u \in Units |-> Empty]
    /\ owned = [u \in Units |-> "absent"]
    /\ prepared = [u \in Units |-> Absent] /\ barrier = prepared
    /\ ingested = prepared
    /\ answer = [u \in Units |-> NoAnswers] /\ mark = answer
    /\ aggregate = [u \in Units |-> Nothing]
    /\ checkpoint = [u \in Units |-> Working("none")]
    /\ phase = Nothing /\ status = [is |-> "none", units |-> {}]
    /\ pc = "idle" /\ attempt = 0 /\ todo = {} /\ done = {} /\ handle = Absent
    /\ unit = 1 /\ query = 1
    /\ stopping = FALSE /\ faults = 0

Committed(u) == checkpoint[u].is = "COMMITTED" /\ checkpoint[u].refs = Snapshot(u)
Fault == faults < MaxFaults /\ faults' = faults + 1
NoFault == UNCHANGED faults
Goto(from, to) == pc = from /\ pc' = to
WriteStatus(s, units) == status' = [is |-> s, units |-> units]
WriteCheckpoint(s) == checkpoint' = [checkpoint EXCEPT ![unit] = Working(s)]
StoresMemory == kind # "stateless"

-----------------------------------------------------------------------------
(* An attempt begins.  It plans from the unit checkpoints whose artifacts   *)
(* still match, and records itself and its status before the guarded part. *)

\* Variant: every unit is done again.
StartAfresh ==
    /\ Goto("idle", "open") /\ attempt < MaxAttempts
    /\ status.is # "PARTIAL" \/ \E u \in Units : ~ Committed(u)
    /\ attempt' = attempt + 1
    /\ todo' = Units /\ done' = {}
    /\ stopping' = FALSE /\ handle' = Absent
    /\ UNCHANGED <<settings, memory, records, checkpoint, shown, unit, query>> /\ NoFault

Start ==
    /\ Goto("idle", "open") /\ attempt < MaxAttempts
    /\ status.is # "PARTIAL" \/ \E u \in Units : ~ Committed(u)
    /\ attempt' = attempt + 1
    /\ todo' = {u \in Units : ~ Committed(u)} /\ done' = Units \ todo'
    /\ stopping' = FALSE /\ handle' = Absent
    /\ UNCHANGED <<settings, memory, records, checkpoint, shown, unit, query>> /\ NoFault

Open ==
    /\ Goto("open", "next")
    /\ WriteStatus("RUNNING", done)
    /\ UNCHANGED <<settings, memory, records, checkpoint, phase, process>> /\ NoFault

First(units) == CHOOSE u \in units : \A v \in units : u <= v

NextUnit ==
    /\ pc = "next" /\ ~ stopping
    /\ IF todo = {} THEN pc' = "end" /\ UNCHANGED <<unit, todo>>
       ELSE /\ pc' = "restore" /\ unit' = First(todo) /\ todo' = todo \ {unit'}
    /\ UNCHANGED <<settings, memory, records, checkpoint, shown, attempt, done,
                   query, handle, stopping>> /\ NoFault

\* _restore_ingested: the checkpoint must refer to exactly the files and the
\* memory that are there, and the restored memory must answer the barrier.
Restorable ==
    /\ beam /\ attempt > 1 /\ kind # "external"
    /\ ingested[unit] \in Ingestions
    /\ owned[unit] = "declared"
    /\ prepared[unit] = ingested[unit] /\ barrier[unit] = ingested[unit]
    /\ kind = "index" => memory[unit] = [from |-> ingested[unit], whole |-> TRUE]

RestoreIngested ==
    /\ pc = "restore"
    /\ IF Restorable THEN pc' = "predict" /\ handle' = prepared[unit]
                     ELSE pc' = "clean" /\ handle' = Absent
    /\ UNCHANGED <<settings, memory, records, checkpoint, shown, attempt, todo,
                   unit, done, query, stopping>> /\ NoFault

-----------------------------------------------------------------------------
(* The unit is restarted: the framework's data of the unit are deleted,     *)
(* then its files.                                                          *)

Clean ==
    /\ Goto("clean", "cleaning") /\ owned[unit] # "other"
    /\ memory' = [memory EXCEPT ![unit].whole = FALSE]
    /\ UNCHANGED <<settings, records, checkpoint, shown, process>> /\ NoFault

\* Variant: the cleanup reports success and leaves what it could not delete.
CleanedPartly ==
    /\ Goto("cleaning", "wipe")
    /\ UNCHANGED <<settings, memory, records, checkpoint, shown, process>>
    /\ NoFault

Cleaned ==
    /\ Goto("cleaning", "wipe")
    /\ memory' = [memory EXCEPT ![unit] = Empty]
    /\ UNCHANGED <<settings, records, checkpoint, shown, process>> /\ NoFault

\* rmtree of the unit directory and of its checkpoints, or as much of them
\* as was gone when the process was killed: the files go in no given order,
\* the checkpoints after the directory.
Keep(f, kept, none) == f' = [f EXCEPT ![unit] = IF kept THEN @ ELSE none]
RemoveFiles(names, asked) ==
    /\ Keep(owned, "owned" \in names, "absent")
    /\ Keep(prepared, "prepared" \in names, Absent)
    /\ Keep(barrier, "barrier" \in names, Absent)
    /\ Keep(ingested, "ingested" \in names, Absent)
    /\ Keep(checkpoint, "checkpoint" \in names, Working("none"))
    /\ Keep(aggregate, "aggregate" \in names, Nothing)
    /\ answer' = [answer EXCEPT ![unit] =
                    [q \in Queries |-> IF q \in asked THEN @[q] ELSE NoAnswer]]
UnitFiles == {"owned", "prepared", "barrier", "aggregate"}
UnitCheckpoints == {"ingested", "checkpoint"}

\* Variant: the answers are left where they are.
WipeFiles ==
    /\ Goto("wipe", "declare")
    /\ RemoveFiles({}, Queries) /\ UNCHANGED mark
    /\ UNCHANGED <<settings, memory, shown, process>> /\ NoFault

Wipe ==
    /\ Goto("wipe", "declare")
    /\ RemoveFiles({}, {}) /\ mark' = [mark EXCEPT ![unit] = NoAnswers]
    /\ UNCHANGED <<settings, memory, shown, process>> /\ NoFault

KillInWipe ==
    /\ Goto("wipe", "idle") /\ Fault
    /\ \/ \E names \in SUBSET UnitFiles, asked, marked \in SUBSET Queries :
             /\ RemoveFiles(names \cup UnitCheckpoints, asked)
             /\ mark' = [mark EXCEPT ![unit] =
                   [q \in Queries |-> IF q \in marked THEN @[q] ELSE NoAnswer]]
       \/ \E names \in SUBSET UnitCheckpoints :
             /\ RemoveFiles(names, {})
             /\ mark' = [mark EXCEPT ![unit] = NoAnswers]
    /\ UNCHANGED <<settings, memory, shown, process>>

-----------------------------------------------------------------------------
(* Ingestion. *)

\* The PREPARING checkpoint that comes first is not told from INGESTING.
Declare ==
    /\ Goto("declare", "ingest")
    /\ owned' = [owned EXCEPT ![unit] = "declared"]
    /\ WriteCheckpoint("INGESTING")
    /\ UNCHANGED <<settings, memory, prepared, barrier, ingested, answer, mark,
                   aggregate, shown, process>> /\ NoFault

\* The index refuses to be made where one is.
Ingest ==
    /\ Goto("ingest", "ingesting")
    /\ memory[unit] = Empty
    /\ memory' = IF StoresMemory
                 THEN [memory EXCEPT ![unit] = [from |-> attempt, whole |-> FALSE]]
                 ELSE memory
    /\ UNCHANGED <<settings, records, checkpoint, shown, process>> /\ NoFault

\* The memory is whole; the process writes its description.
Prepare ==
    /\ Goto("ingesting", "barrier")
    /\ memory' = IF StoresMemory THEN [memory EXCEPT ![unit].whole = TRUE] ELSE memory
    /\ prepared' = [prepared EXCEPT ![unit] = attempt]
    /\ handle' = attempt
    /\ UNCHANGED <<settings, owned, barrier, ingested, answer, mark, aggregate,
                   checkpoint, shown, attempt, todo, unit, done, query, stopping>>
    /\ NoFault

Barrier ==
    /\ pc = "barrier" /\ pc' = IF beam THEN "ingested" ELSE "predict"
    /\ barrier' = [barrier EXCEPT ![unit] = handle]
    /\ UNCHANGED <<settings, memory, owned, prepared, ingested, answer, mark,
                   aggregate, checkpoint, shown, process>> /\ NoFault

Ingested ==
    /\ Goto("ingested", "predict")
    /\ ingested' = [ingested EXCEPT ![unit] = handle]
    /\ WriteCheckpoint("INGESTED")
    /\ UNCHANGED <<settings, memory, owned, prepared, barrier, answer, mark,
                   aggregate, shown, process>> /\ NoFault

-----------------------------------------------------------------------------
(* The queries, in their order.  A stop is honoured before each of them and *)
(* before each unit.                                                        *)

BeginPredicting ==
    /\ Goto("predict", "ask")
    /\ WriteCheckpoint("PREDICTING") /\ query' = 1
    /\ UNCHANGED <<settings, memory, records, shown, attempt, todo, unit, done,
                   handle, stopping>> /\ NoFault

\* _cached_prediction: the query checkpoint refers to the answer that is there.
CachedPrediction ==
    /\ beam /\ attempt > 1
    /\ mark[unit][query] # NoAnswer /\ mark[unit][query] = answer[unit][query]

\* The index verifies its digest at every retrieval.
Retrievable == kind = "index" => memory[unit] = [from |-> handle, whole |-> TRUE]

Ask ==
    /\ pc = "ask" /\ ~ stopping
    /\ IF query > LastQuery THEN pc' = "gather" /\ UNCHANGED query
       ELSE IF CachedPrediction THEN query' = query + 1 /\ UNCHANGED pc
       ELSE Retrievable /\ pc' = "record" /\ UNCHANGED query
    /\ UNCHANGED <<settings, memory, records, checkpoint, shown, attempt, todo,
                   unit, done, handle, stopping>> /\ NoFault

Record ==
    /\ pc = "record" /\ pc' = IF beam THEN "mark" ELSE "ask"
    /\ answer' = [answer EXCEPT ![unit][query] = <<handle, attempt>>]
    /\ query' = IF beam THEN query ELSE query + 1
    /\ UNCHANGED <<settings, memory, owned, prepared, barrier, ingested, mark,
                   aggregate, checkpoint, shown, attempt, todo, unit, done,
                   handle, stopping>> /\ NoFault

Mark ==
    /\ Goto("mark", "ask")
    /\ mark' = [mark EXCEPT ![unit][query] = answer[unit][query]]
    /\ query' = query + 1
    /\ UNCHANGED <<settings, memory, owned, prepared, barrier, ingested, answer,
                   aggregate, checkpoint, shown, attempt, todo, unit, done,
                   handle, stopping>> /\ NoFault

-----------------------------------------------------------------------------
(* The unit is committed, after the retention policy has been applied.      *)

Gather ==
    /\ pc = "gather"
    /\ pc' = IF retention = "keep" THEN "commit" ELSE "retain"
    /\ aggregate' = [aggregate EXCEPT ![unit] = answer[unit]]
    /\ UNCHANGED <<settings, memory, owned, prepared, barrier, ingested, answer,
                   mark, checkpoint, shown, process>> /\ NoFault

Retain ==
    /\ Goto("retain", "retaining")
    /\ memory' = [memory EXCEPT ![unit].whole = FALSE]
    /\ UNCHANGED <<settings, records, checkpoint, shown, process>> /\ NoFault

Retained ==
    /\ Goto("retaining", "commit")
    /\ memory' = [memory EXCEPT ![unit] = Empty]
    /\ UNCHANGED <<settings, records, checkpoint, shown, process>> /\ NoFault

Commit ==
    /\ Goto("commit", "count")
    /\ checkpoint' = [checkpoint EXCEPT ![unit] =
                        [is |-> "COMMITTED", refs |-> Snapshot(unit)]]
    /\ UNCHANGED <<settings, memory, records, shown, process>> /\ NoFault

Count ==
    /\ Goto("count", "next")
    /\ done' = done \cup {unit} /\ WriteStatus("RUNNING", done')
    /\ UNCHANGED <<settings, memory, records, checkpoint, phase, attempt, todo,
                   unit, query, handle, stopping>> /\ NoFault

\* The RUNNING phase checkpoint binds the unit checkpoints of this moment.
End ==
    /\ Goto("end", "close")
    /\ phase' = checkpoint
    /\ UNCHANGED <<settings, memory, records, checkpoint, status, process>> /\ NoFault

Close ==
    /\ Goto("close", "idle")
    /\ WriteStatus("PARTIAL", done)
    /\ UNCHANGED <<settings, memory, records, checkpoint, phase, process>> /\ NoFault

-----------------------------------------------------------------------------
(* What goes wrong.  One handler takes every exception of the guarded part, *)
(* the stop request's included.                                             *)

Failed ==
    /\ pc' = "idle" /\ WriteStatus("FAILED_RUNNING", done)
    /\ UNCHANGED <<settings, memory, records, checkpoint, phase, process>>

Fail == pc \notin {"idle", "open"} /\ Fault /\ Failed
Refuse == pc = "clean" /\ owned[unit] = "other" /\ Failed /\ NoFault
Stop == pc \in {"next", "ask"} /\ stopping /\ Failed /\ NoFault

RequestStop ==
    /\ pc # "idle" /\ ~ stopping /\ Fault /\ stopping' = TRUE
    /\ UNCHANGED <<settings, memory, records, checkpoint, shown, pc, attempt,
                   todo, unit, done, query, handle>>

Kill ==
    /\ pc # "idle" /\ Fault /\ pc' = "idle"
    /\ UNCHANGED <<settings, memory, records, checkpoint, shown, process>>

\* Between attempts a file may be damaged or the stored memory lost.
DamageIf(f, u, present, bad) == present /\ f' = [f EXCEPT ![u] = bad]
DamageRecord(u) ==
    \/ /\ DamageIf(owned, u, owned[u] = "declared", "other")
       /\ UNCHANGED <<prepared, barrier, ingested, answer, mark, aggregate>>
    \/ /\ DamageIf(prepared, u, prepared[u] # Absent, Damaged)
       /\ UNCHANGED <<owned, barrier, ingested, answer, mark, aggregate>>
    \/ /\ DamageIf(barrier, u, barrier[u] # Absent, Damaged)
       /\ UNCHANGED <<owned, prepared, ingested, answer, mark, aggregate>>
    \/ /\ DamageIf(ingested, u, ingested[u] # Absent, Damaged)
       /\ UNCHANGED <<owned, prepared, barrier, answer, mark, aggregate>>
    \/ /\ \E q \in Queries :
             /\ answer[u][q] # NoAnswer
             /\ answer' = [answer EXCEPT ![u][q] = <<Damaged, Damaged>>]
       /\ UNCHANGED <<owned, prepared, barrier, ingested, mark, aggregate>>
    \/ /\ DamageIf(aggregate, u, aggregate[u] # Nothing, Nothing)
       /\ UNCHANGED <<owned, prepared, barrier, ingested, answer, mark>>

Damage ==
    /\ pc = "idle" /\ attempt > 0 /\ Fault
    /\ \E u \in Units :
          \/ DamageRecord(u) /\ UNCHANGED memory
          \/ /\ memory[u] # Empty /\ UNCHANGED records
             /\ memory' = [memory EXCEPT ![u] = [from |-> Damaged, whole |-> FALSE]]
    /\ UNCHANGED <<settings, checkpoint, shown, pc, process>>

-----------------------------------------------------------------------------
Step ==
    \/ Open \/ NextUnit \/ RestoreIngested \/ Clean \/ Cleaned \/ Wipe
    \/ Declare \/ Ingest \/ Prepare \/ Barrier \/ Ingested
    \/ BeginPredicting \/ Ask \/ Record \/ Mark
    \/ Gather \/ Retain \/ Retained \/ Commit \/ Count \/ End \/ Close
    \/ Refuse \/ Stop

Next ==
    \/ Start \/ Step
    \/ KillInWipe \/ Fail \/ RequestStop \/ Kill \/ Damage

\* A process that runs goes on; the operator resumes a run that is not done.
Fairness == WF_vars(Start) /\ WF_vars(Step)

Spec == Init /\ [][Next]_vars
FairSpec == Spec /\ Fairness

-----------------------------------------------------------------------------
(* What the runner promises. *)

\* The answers of a committed unit all come from one ingestion, the one its
\* barrier verified, whatever mixture of attempts, reused answers and reused
\* ingestions produced them.
AnswersOfOneIngestion ==
    \A u \in Units : Committed(u) =>
        /\ prepared[u] \in Ingestions /\ barrier[u] = prepared[u]
        /\ aggregate[u] = answer[u]
        /\ \A q \in Queries : answer[u][q][1] = prepared[u]

\* Queries are only asked of a memory that holds the whole of the ingestion
\* the unit's files describe: never of a rest, nor of one that was deleted.
AskedOfWholeMemory ==
    pc \in {"ask", "record"} =>
        /\ handle = prepared[unit] /\ barrier[unit] = handle
        /\ StoresMemory => memory[unit] = [from |-> handle, whole |-> TRUE]

\* A committed unit has had the retention policy applied: its memory is gone,
\* or is the one it was answered from (unless storage lost it).
RetentionHonoured ==
    \A u \in Units : Committed(u) =>
        IF retention = "keep" /\ StoresMemory
        THEN memory[u] \in {[from |-> prepared[u], whole |-> TRUE],
                            [from |-> Damaged, whole |-> FALSE]}
        ELSE memory[u] = Empty

\* PARTIAL says that every unit is committed and that the RUNNING checkpoint
\* binds the very unit checkpoints that are there.
PartialMeansPredicted ==
    status.is = "PARTIAL" =>
        /\ status.units = Units /\ phase = checkpoint
        /\ \A u \in Units : checkpoint[u].is = "COMMITTED"

\* A committed unit is what it says: its answers come from one whole ingestion,
\* its memory is dealt with as the retention policy says, and PARTIAL means that
\* every unit is so.
CommittedFromOneIngestion ==
    /\ AnswersOfOneIngestion /\ AskedOfWholeMemory
    /\ RetentionHonoured /\ PartialMeansPredicted

\* No attempt touches a committed unit, its files or its memory, nor those of a
\* unit whose manifest declares other resources.
LeavesCommitted ==
    \A u \in Units : Committed(u) /\ pc # "idle" =>
        Committed(u)' /\ memory'[u] = memory[u]
LeavesOthers ==
    \A u \in Units : owned[u] = "other" /\ pc # "idle" =>
        /\ memory'[u] = memory[u] /\ owned'[u] = "other"
        /\ prepared'[u] = prepared[u] /\ answer'[u] = answer[u]
KeepsDone == LeavesCommitted /\ LeavesOthers
CommittedStay == [][KeepsDone]_vars

\* The run gets predicted, however often it is killed, fails, is stopped or
\* damaged, unless a manifest declares other resources.
Predicted ==
    \/ status.is = "PARTIAL" /\ \A u \in Units : Committed(u)
    \/ \E u \in Units : owned[u] = "other"
=============================================================================
