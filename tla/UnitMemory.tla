----------------------------- MODULE UnitMemory -----------------------------
(***************************************************************************)
(* The memory of a unit on the shared Qdrant server, as the DMF and Mem0   *)
(* adapters build it, and the LoCoMo runner that asks it.  Several runs    *)
(* use one server at once.  A unit owns two collections (the second holds  *)
(* cards or entities) and a local file (cards, or the sqlite history); it  *)
(* is cleaned, ingested batch by batch, counted against what the framework *)
(* reported (the barrier), asked every question, and committed.            *)
(*                                                                         *)
(* The memory is the number of copies of each batch it holds.  A request   *)
(* of a client that died or gave up may still reach the server, at the     *)
(* latest when the next attempt counts the collection (the client's        *)
(* request timeout is seconds, an ingestion takes minutes).  The schema 3  *)
(* runner takes the same steps with one more verification; what else it    *)
(* does is in RetrievalQA.                                                 *)
(***************************************************************************)
EXTENDS Integers, FiniteSets

CONSTANTS
    Runs,                               \* runs that share the server
    LastUnit, LastBatch, LastQuestion,  \* units of a run, batches and questions of a unit
    Window,                             \* records DMF keeps in its process
    Frameworks, Schemas,                \* the settings of the exploration
    MaxFaults                           \* bound: kills, failures, stops, slow deletions

\* What is assumed of the constants; the instances check it.
SizeAssumption ==
    LastUnit \in Nat \ {0} /\ LastBatch \in Nat \ {0} /\ LastQuestion \in Nat \ {0}
    /\ Window \in Nat \ {0}
SettingsAssumption ==
    Frameworks \subseteq {"dmf", "mem0"} /\ Schemas \subseteq {2, 3}
FaultsAssumption == MaxFaults \in Nat

Units == 1 .. LastUnit
Batches == 1 .. LastBatch
Questions == 1 .. LastQuestion
Roles == {"primary", "second"}
Owners == Runs \X Units
Copies == [Batches -> Nat]
NoCopies == [b \in Batches |-> 0]
Whole == [b \in Batches |-> 1]   \* every batch of the unit, once
Unasked == NoCopies
Progress == {"none", "INGESTING", "PREDICTING", "COMMITTED"}

VARIABLES
    \* the settings
    framework, schema, retention,
    \* the server and the file system, by name of the unit's resources
    collection, \* of each role: "absent", "there" or "deleting"
    points,     \* what the primary collection holds
    file,       \* the local file exists
    late,       \* requests of clients that no longer wait for them
    \* the directory of each run
    checkpoint, \* of each unit
    answer,     \* of each question: the memory it was answered from
    retained,   \* retention.json: "none", "kept" or "deleted"
    status,     \* run-status.json
    \* the process of each run
    pc, todo, unit, batch, question,
    active,     \* the records in the engine of the process
    added,      \* the number of records the framework reported
    stopping,   \* a stop signal has arrived
    faults

settings == <<framework, schema, retention>>
server == <<collection, points, file>>
files == <<checkpoint, answer, retained>>
engine == <<batch, active, added>>
process == <<todo, unit, question, stopping>>
vars == <<settings, server, late, files, status, pc, process, engine, faults>>

TypeOK ==
    /\ framework \in Frameworks /\ schema \in Schemas
    /\ retention \in {"keep", "delete-on-success"}
    /\ collection \in [Owners -> [Roles -> {"absent", "there", "deleting"}]]
    /\ points \in [Owners -> Copies] /\ file \in [Owners -> BOOLEAN]
    /\ late \subseteq [op : {"create", "delete"}, at : Owners, role : Roles]
                      \cup [op : {"add"}, at : Owners, batch : Batches]
    /\ checkpoint \in [Owners -> Progress]
    /\ answer \in [Owners -> [Questions -> Copies]]
    /\ retained \in [Owners -> {"none", "kept", "deleted"}]
    /\ status \in [Runs -> {"none", "RUNNING", "PARTIAL", "INTERRUPTED",
                            "FAILED_RUNNING"}]
    /\ pc \in [Runs -> {"idle", "next", "delete", "poll", "reset",
                        "absent", "build", "ingest", "undo", "undone",
                        "predict", "verify", "ask", "forget", "forgetting",
                        "forgotten", "commit", "checked", "over"}]
    /\ todo \in [Runs -> SUBSET Units] /\ unit \in [Runs -> Units]
    /\ batch \in [Runs -> 1 .. LastBatch + 1]
    /\ question \in [Runs -> 1 .. LastQuestion + 1]
    /\ active \in [Runs -> SUBSET Batches] /\ added \in [Runs -> 0 .. LastBatch]
    /\ stopping \in [Runs -> BOOLEAN] /\ faults \in 0 .. MaxFaults

Init ==
    /\ framework \in Frameworks /\ schema \in Schemas
    /\ retention \in {"keep", "delete-on-success"}
    /\ collection = [o \in Owners |-> [role \in Roles |-> "absent"]]
    /\ points = [o \in Owners |-> NoCopies] /\ file = [o \in Owners |-> FALSE]
    /\ late = {}
    /\ checkpoint = [o \in Owners |-> "none"]
    /\ answer = [o \in Owners |-> [q \in Questions |-> Unasked]]
    /\ retained = [o \in Owners |-> "none"]
    /\ status = [r \in Runs |-> "none"] /\ pc = [r \in Runs |-> "idle"]
    /\ todo = [r \in Runs |-> {}] /\ unit = [r \in Runs |-> 1]
    /\ batch = unit /\ question = unit
    /\ active = todo /\ added = [r \in Runs |-> 0]
    /\ stopping = [r \in Runs |-> FALSE] /\ faults = 0

At(r) == <<r, unit[r]>>

\* Variant: two runs of one configuration share their collections.
NameOfUnit(r) == <<CHOOSE first \in Runs : TRUE, unit[r]>>

\* The names of a run's resources begin with a hash of its identifier and its
\* scientific fingerprint; the attempt is not part of it.
Namespace(r) == r
Name(r) == <<Namespace(r), unit[r]>>

Goto(r, from, to) == pc[r] = from /\ pc' = [pc EXCEPT ![r] = to]
Fault == faults < MaxFaults /\ faults' = faults + 1
NoFault == UNCHANGED faults
WriteStatus(r, s) == status' = [status EXCEPT ![r] = s]
WriteCheckpoint(r, s) == checkpoint' = [checkpoint EXCEPT ![At(r)] = s]
Exists(n, role) == collection[n][role] # "absent"
Absent(n) == \A role \in Roles : ~ Exists(n, role)

-----------------------------------------------------------------------------
(* An attempt plans the units that are not committed and takes them in      *)
(* order.  A stop is honoured before a unit, after it is prepared, at every *)
(* question and after it is committed.                                      *)

Start(r) ==
    /\ Goto(r, "idle", "checked")
    /\ status[r] # "PARTIAL"
    /\ todo' = [todo EXCEPT ![r] = {u \in Units : checkpoint[<<r, u>>] # "COMMITTED"}]
    /\ stopping' = [stopping EXCEPT ![r] = FALSE]
    /\ WriteStatus(r, "RUNNING")
    /\ UNCHANGED <<settings, server, late, files, unit, question, engine>> /\ NoFault

Check(r) ==
    /\ Goto(r, "checked", "next") /\ ~ stopping[r]
    /\ UNCHANGED <<settings, server, late, files, status, process, engine>> /\ NoFault

First(units) == CHOOSE u \in units : \A v \in units : u <= v

NextUnit(r) ==
    /\ Goto(r, "next", "delete") /\ ~ stopping[r]
    /\ todo[r] # {}
    /\ unit' = [unit EXCEPT ![r] = First(todo[r])]
    /\ todo' = [todo EXCEPT ![r] = @ \ {First(todo[r])}]
    /\ UNCHANGED <<settings, server, late, files, status, question, stopping, engine>>
    /\ NoFault

End(r) ==
    /\ Goto(r, "next", "over") /\ todo[r] = {}
    /\ WriteStatus(r, "PARTIAL")
    /\ UNCHANGED <<settings, server, late, files, process, engine>> /\ NoFault

Stop(r) ==
    /\ stopping[r]
    /\ \/ pc[r] \in {"checked", "predict"}
       \/ pc[r] = "next" /\ todo[r] # {}
       \/ pc[r] = "ask" /\ question[r] <= LastQuestion
    /\ pc' = [pc EXCEPT ![r] = "idle"]
    /\ WriteStatus(r, IF schema = 2 THEN "INTERRUPTED" ELSE "FAILED_RUNNING")
    /\ UNCHANGED <<settings, server, late, files, process, engine>> /\ NoFault

-----------------------------------------------------------------------------
(* delete_and_wait: every collection that exists is deleted, then all are   *)
(* polled until none exists.  It is called to restart a unit, to undo a     *)
(* failed ingestion and to apply the retention policy; the local file is    *)
(* removed after it.                                                        *)

Deleting == {"delete", "undo", "forget"}
Polling == {"poll", "undone", "forgetting"}
Waits == [delete |-> "poll", undo |-> "undone", forget |-> "forgetting"]
Removed == [poll |-> "reset", undone |-> "idle", forgetting |-> "forgotten"]

Delete(r) ==
    /\ pc[r] \in Deleting
    /\ pc' = [pc EXCEPT ![r] = Waits[pc[r]]]
    /\ collection' = [collection EXCEPT ![Name(r)] =
                         [role \in Roles |-> IF Exists(Name(r), role)
                                             THEN "deleting" ELSE "absent"]]
    /\ UNCHANGED <<settings, points, file, late, files, status, process, engine>>
    /\ NoFault

\* Variant: the deletion is not awaited.
GoneSoon(n) == \A role \in Roles : collection[n][role] # "there"

Gone(n) == Absent(n)

\* Variant: the local file stays.
WithoutFile(n) == file

UnlinkLocal(n) == [file EXCEPT ![n] = FALSE]

\* After an undone ingestion its error is raised again, which fails the run.
Unlink(r) ==
    /\ pc[r] \in Polling /\ Gone(Name(r))
    /\ file' = UnlinkLocal(Name(r))
    /\ pc' = [pc EXCEPT ![r] = Removed[pc[r]]]
    /\ IF pc[r] = "undone" THEN WriteStatus(r, "FAILED_RUNNING") ELSE UNCHANGED status
    /\ UNCHANGED <<settings, collection, points, late, files, process, engine>>
    /\ NoFault

\* cleanup_unit_v3 of DMF looks once more before it calls the cleanup verified.
Recheck(r) ==
    /\ framework = "dmf" /\ schema = 3 /\ pc[r] \in {"reset", "forgotten"}
    /\ ~ Absent(Name(r))
    /\ pc[r] = "forgotten" => retention = "delete-on-success"
    /\ pc' = [pc EXCEPT ![r] = "idle"]
    /\ WriteStatus(r, "FAILED_RUNNING")
    /\ UNCHANGED <<settings, server, late, files, process, engine>> /\ NoFault

\* The polls run out when a collection is there again: a late creation.
GiveUp(r) ==
    /\ pc[r] \in Polling
    /\ \E role \in Roles : collection[Name(r)][role] = "there"
    /\ pc' = [pc EXCEPT ![r] = "idle"]
    /\ WriteStatus(r, "FAILED_RUNNING")
    /\ UNCHANGED <<settings, server, late, files, process, engine>> /\ NoFault

\* The runner removes the unit's files and its checkpoint and starts over.
Reset(r) ==
    /\ Goto(r, "reset", "absent")
    /\ answer' = [answer EXCEPT ![At(r)] = [q \in Questions |-> Unasked]]
    /\ retained' = [retained EXCEPT ![At(r)] = "none"]
    /\ WriteCheckpoint(r, "INGESTING")
    /\ UNCHANGED <<settings, server, late, status, process, engine>> /\ NoFault

-----------------------------------------------------------------------------
(* The ingestion.  What it finds in its way fails the run without a         *)
(* cleanup; what fails after that is undone.                                *)

InTheWay(n) ==
    \/ ~ Absent(n)
    \/ framework = "mem0" /\ file[n]

AssertAbsent(r) ==
    /\ pc[r] = "absent"
    /\ IF InTheWay(Name(r))
       THEN pc' = [pc EXCEPT ![r] = "idle"] /\ WriteStatus(r, "FAILED_RUNNING")
       ELSE pc' = [pc EXCEPT ![r] = "build"] /\ UNCHANGED status
    /\ UNCHANGED <<settings, server, late, files, process, engine>> /\ NoFault

NewEngine(r) ==
    /\ batch' = [batch EXCEPT ![r] = 1]
    /\ active' = [active EXCEPT ![r] = {}]
    /\ added' = [added EXCEPT ![r] = 0]

\* DMF has the collections created for it, and fails if one exists by now.
BuildDmf(r) ==
    /\ pc[r] = "build" /\ framework = "dmf"
    /\ IF ~ Absent(Name(r))
       THEN pc' = [pc EXCEPT ![r] = "undo"] /\ UNCHANGED server
       ELSE /\ pc' = [pc EXCEPT ![r] = "ingest"]
            /\ collection' = [collection EXCEPT ![Name(r)] =
                                 [role \in Roles |-> "there"]]
            /\ points' = [points EXCEPT ![Name(r)] = NoCopies]
            /\ file' = [file EXCEPT ![Name(r)] = TRUE]
    /\ NewEngine(r)
    /\ UNCHANGED <<settings, late, files, status, process>> /\ NoFault

\* The Mem0 library creates the collections that are missing.
BuildMem0(r) ==
    /\ Goto(r, "build", "ingest") /\ framework = "mem0"
    /\ collection' = [collection EXCEPT ![Name(r)] = [role \in Roles |-> "there"]]
    /\ points' = [points EXCEPT ![Name(r)] =
                     IF collection[Name(r)]["primary"] = "there" THEN @ ELSE NoCopies]
    /\ file' = [file EXCEPT ![Name(r)] = TRUE]
    /\ NewEngine(r)
    /\ UNCHANGED <<settings, late, files, status, process>> /\ NoFault

Stored(n, batches) ==
    [points EXCEPT ![n] = [b \in Batches |-> IF b \in batches THEN @[b] + 1 ELSE @[b]]]

\* DMF keeps the newest records and archives the oldest ones.
Archived(records) ==
    {b \in records : Cardinality({c \in records : c > b}) >= Window}

Reported(r) ==
    /\ added' = [added EXCEPT ![r] = @ + 1]
    /\ batch' = [batch EXCEPT ![r] = @ + 1]

AddToDmf(r) ==
    /\ pc[r] = "ingest" /\ batch[r] <= LastBatch /\ framework = "dmf"
    /\ collection[Name(r)]["primary"] = "there"
    /\ LET records == active[r] \cup {batch[r]}
       IN /\ points' = Stored(Name(r), Archived(records))
          /\ active' = [active EXCEPT ![r] = records \ Archived(records)]
    /\ Reported(r)
    /\ UNCHANGED <<settings, collection, file, late, files, status, pc, process>>
    /\ NoFault

AddToMem0(r) ==
    /\ pc[r] = "ingest" /\ batch[r] <= LastBatch /\ framework = "mem0"
    /\ collection[Name(r)]["primary"] = "there"
    /\ points' = Stored(Name(r), {batch[r]})
    /\ Reported(r)
    /\ UNCHANGED <<settings, collection, file, late, files, status, pc, process, active>>
    /\ NoFault

\* The collection is no longer there: a late deletion of an earlier client.
AddNowhere(r) ==
    /\ pc[r] = "ingest" /\ batch[r] <= LastBatch
    /\ collection[Name(r)]["primary"] # "there"
    /\ pc' = [pc EXCEPT ![r] = "undo"]
    /\ UNCHANGED <<settings, server, late, files, status, process, engine>> /\ NoFault

\* Mem0 logs a failed extraction and returns an empty result.
\* The adapter listens to the library's log while it adds.
FailExtraction(r) ==
    /\ pc[r] = "ingest" /\ framework = "mem0" /\ batch[r] <= LastBatch
    /\ pc' = [pc EXCEPT ![r] = "undo"]
    /\ Fault
    /\ UNCHANGED <<settings, server, late, files, status, process, engine>>

\* The points of the collection: so many copies of each batch.
Count(n) == Cardinality(UNION {{b} \X (1 .. points[n][b]) : b \in Batches})

\* A record is reported, and its write is lost.  A count cannot tell when a
\* loss and a late duplicate make up for each other: an ingestion of this
\* exploration suffers one of them.
LoseRecord(r) ==
    /\ pc[r] = "ingest" /\ batch[r] <= LastBatch
    /\ framework = "dmf" => Archived(active[r] \cup {batch[r]}) # {}
    /\ ~ \E q \in late : q.op = "add" /\ q.at = Name(r)
    /\ Count(Name(r)) + Cardinality(active[r]) = added[r]
    /\ active' = [active EXCEPT ![r] =
                     IF framework = "dmf"
                     THEN (@ \cup {batch[r]}) \ Archived(@ \cup {batch[r]}) ELSE {}]
    /\ Reported(r)
    /\ Fault
    /\ UNCHANGED <<settings, server, late, files, status, pc, process>>

\* Variant: the count is a lower bound.
AtLeastReported(r) == Count(Name(r)) + Cardinality(active[r]) >= added[r]

\* DMF stores what is no longer in its process.
CountsOfDmf(r) == Count(Name(r)) + Cardinality(active[r]) = added[r]

\* Mem0 stores what it reported, and has its history on disk.
CountsOfMem0(r) == Count(Name(r)) = added[r] /\ file[Name(r)]

CountsMatch(r) ==
    /\ \A role \in Roles : collection[Name(r)][role] = "there"
    /\ IF framework = "dmf" THEN CountsOfDmf(r) ELSE CountsOfMem0(r)

\* By now every request of an earlier client has arrived or is lost.
Barrier(r) ==
    /\ pc[r] = "ingest" /\ batch[r] > LastBatch
    /\ late' = {q \in late : q.at # Name(r)}
    /\ pc' = [pc EXCEPT ![r] = IF CountsMatch(r) THEN "predict" ELSE "undo"]
    /\ UNCHANGED <<settings, server, files, status, process, engine>> /\ NoFault

-----------------------------------------------------------------------------
(* The questions.                                                           *)

Predict(r) ==
    /\ Goto(r, "predict", IF schema = 3 THEN "verify" ELSE "ask") /\ ~ stopping[r]
    /\ WriteCheckpoint(r, "PREDICTING")
    /\ question' = [question EXCEPT ![r] = 1]
    /\ UNCHANGED <<settings, server, late, answer, retained, status, todo, unit,
                   stopping, engine>> /\ NoFault

\* verify_prepared_v3: the schema 3 runner has the memory counted once more.
Verify(r) ==
    /\ pc[r] = "verify"
    /\ IF CountsMatch(r)
       THEN pc' = [pc EXCEPT ![r] = "ask"] /\ UNCHANGED status
       ELSE pc' = [pc EXCEPT ![r] = "idle"] /\ WriteStatus(r, "FAILED_RUNNING")
    /\ UNCHANGED <<settings, server, late, files, process, engine>> /\ NoFault

\* DMF answers from its records and from the archive, Mem0 from the server.
RetrievedFromDmf(r) ==
    [b \in Batches |-> points[Name(r)][b] + IF b \in active[r] THEN 1 ELSE 0]
RetrievedFromMem0(r) == points[Name(r)]

Ask(r) ==
    /\ pc[r] = "ask" /\ question[r] <= LastQuestion /\ ~ stopping[r]
    /\ answer' = [answer EXCEPT ![At(r)][question[r]] =
                     IF framework = "dmf" THEN RetrievedFromDmf(r)
                     ELSE RetrievedFromMem0(r)]
    /\ question' = [question EXCEPT ![r] = @ + 1]
    /\ UNCHANGED <<settings, server, late, checkpoint, retained, status, pc, todo,
                   unit, stopping, engine>> /\ NoFault

Gather(r) ==
    /\ Goto(r, "ask", IF retention = "keep" THEN "forgotten" ELSE "forget")
    /\ question[r] > LastQuestion
    /\ UNCHANGED <<settings, server, late, files, status, process, engine>> /\ NoFault

\* _apply_unit_retention: the outcome is written after the deletion.
RecordRetention(r) ==
    /\ Goto(r, "forgotten", "commit")
    /\ retained' = [retained EXCEPT ![At(r)] =
                       IF retention = "keep" THEN "kept" ELSE "deleted"]
    /\ UNCHANGED <<settings, server, late, checkpoint, answer, status, process, engine>>
    /\ NoFault

Commit(r) ==
    /\ Goto(r, "commit", "checked")
    /\ WriteCheckpoint(r, "COMMITTED")
    /\ active' = [active EXCEPT ![r] = {}]
    /\ UNCHANGED <<settings, server, late, answer, retained, status, process, batch,
                   added>> /\ NoFault

-----------------------------------------------------------------------------
(* What goes wrong.                                                         *)

\* The request that a process waits for goes on without it.
Outlives(r) ==
    \/ /\ pc[r] \in Deleting
       /\ \E role \in Roles : late' = {[op |-> "delete", at |-> Name(r), role |-> role]}
    \/ /\ pc[r] = "build"
       /\ \E role \in Roles : late' = {[op |-> "create", at |-> Name(r), role |-> role]}
    \/ /\ pc[r] = "ingest" /\ batch[r] <= LastBatch
       /\ late' = {[op |-> "add", at |-> Name(r), batch |-> batch[r]]}

\* Bound: one request at a time outlives its client.
LeftBehind(r) == UNCHANGED late \/ (late = {} /\ Outlives(r))

\* The process is killed; its engine is gone, a request may go on.
Kill(r) ==
    /\ pc[r] \notin {"idle", "over"}
    /\ LeftBehind(r)
    /\ pc' = [pc EXCEPT ![r] = "idle"]
    /\ active' = [active EXCEPT ![r] = {}]
    /\ Fault
    /\ UNCHANGED <<settings, server, files, status, process, batch, added>>

\* A call raises: while the memory is built it is undone first.  A deletion
\* that does not finish within the polls raises too.
Fail(r) ==
    /\ pc[r] \notin {"idle", "over"}
    /\ LeftBehind(r)
    /\ IF pc[r] \in {"build", "ingest"}
       THEN pc' = [pc EXCEPT ![r] = "undo"] /\ UNCHANGED status
       ELSE pc' = [pc EXCEPT ![r] = "idle"] /\ WriteStatus(r, "FAILED_RUNNING")
    /\ active' = [active EXCEPT ![r] = {}]
    /\ Fault
    /\ UNCHANGED <<settings, server, files, process, batch, added>>

RequestStop(r) ==
    /\ pc[r] \notin {"idle", "over"} /\ ~ stopping[r]
    /\ stopping' = [stopping EXCEPT ![r] = TRUE]
    /\ Fault
    /\ UNCHANGED <<settings, server, late, files, status, pc, todo, unit, question,
                   engine>>

Working == {"predict", "verify", "ask", "forget", "forgetting",
            "forgotten", "commit"}

\* There is nothing to delete, nothing to create, or nowhere to add to.
Moot(q) ==
    \/ q.op = "delete" /\ ~ Exists(q.at, q.role)
    \/ q.op = "create" /\ Exists(q.at, q.role)
    \/ q.op = "add" /\ collection[q.at]["primary"] # "there"

\* A request arrives after its client is gone, before the next barrier.
Arrive(q) ==
    /\ ~ \E r \in Runs : pc[r] \in Working /\ Name(r) = q.at
    /\ late' = late \ {q}
    /\ \/ /\ q.op = "delete" /\ Exists(q.at, q.role)
          /\ collection' = [collection EXCEPT ![q.at][q.role] = "deleting"]
          /\ UNCHANGED <<points, file>>
       \/ /\ q.op = "create" /\ ~ Exists(q.at, q.role)
          /\ collection' = [collection EXCEPT ![q.at][q.role] = "there"]
          /\ points' = IF q.role = "primary"
                       THEN [points EXCEPT ![q.at] = NoCopies] ELSE points
          /\ UNCHANGED file
       \/ /\ q.op = "add" /\ collection[q.at]["primary"] = "there"
          /\ points' = Stored(q.at, {q.batch}) /\ UNCHANGED <<collection, file>>
       \/ Moot(q) /\ UNCHANGED server
    /\ UNCHANGED <<settings, files, status, pc, process, engine>> /\ NoFault

\* The server finishes a deletion.
Vanish(n, role) ==
    /\ collection[n][role] = "deleting"
    /\ collection' = [collection EXCEPT ![n][role] = "absent"]
    /\ points' = IF role = "primary" THEN [points EXCEPT ![n] = NoCopies] ELSE points
    /\ UNCHANGED <<settings, file, late, files, status, pc, process, engine>> /\ NoFault

Step(r) ==
    \/ Start(r) \/ Check(r) \/ NextUnit(r) \/ End(r) \/ Stop(r)
    \/ Delete(r) \/ Unlink(r) \/ Recheck(r) \/ GiveUp(r) \/ Reset(r)
    \/ AssertAbsent(r) \/ BuildDmf(r) \/ BuildMem0(r)
    \/ AddToDmf(r) \/ AddToMem0(r) \/ AddNowhere(r) \/ Barrier(r)
    \/ Predict(r) \/ Verify(r) \/ Ask(r) \/ Gather(r) \/ RecordRetention(r) \/ Commit(r)

Mishap(r) == FailExtraction(r) \/ LoseRecord(r) \/ Kill(r) \/ Fail(r) \/ RequestStop(r)

Server == \E n \in Owners, role \in Roles : Vanish(n, role)

Next ==
    \/ \E r \in Runs : Step(r) \/ Mishap(r)
    \/ Server
    \/ \E q \in late : Arrive(q)

\* A process goes on, the server finishes deletions, the operator resumes.
Fairness == (\A r \in Runs : WF_vars(Step(r))) /\ WF_vars(Server)

Spec == Init /\ [][Next]_vars /\ Fairness

-----------------------------------------------------------------------------
(* Properties.                                                              *)

\* The answers of a committed unit were given by a memory that held every
\* batch of the unit exactly once, whatever failed, was lost, or arrived late
\* on the way: the reason for the cleanup, the log handler and the barrier.
AnsweredFromWholeMemory ==
    \A o \in Owners : checkpoint[o] = "COMMITTED" =>
        \A q \in Questions : answer[o][q] = Whole

\* delete-on-success: when a unit is committed, none of its collections and
\* files are left (the deletion is finished, and comes before the commit).
RetentionHonoured ==
    \A o \in Owners : checkpoint[o] = "COMMITTED" /\ retained[o] = "deleted" =>
        Absent(o) /\ ~ file[o]

\* keep: the collections and the file of a committed unit stay, whatever the
\* other units and the other runs on the same server do.
KeptMemoryStays ==
    \A o \in Owners : checkpoint[o] = "COMMITTED" /\ retained[o] = "kept" =>
        (\A role \in Roles : collection[o][role] = "there") /\ file[o]

\* Every unit of every run is committed in the end, whatever a failed or
\* killed attempt left on the server and on the disk.
Done == \A o \in Owners : checkpoint[o] = "COMMITTED"
=============================================================================
