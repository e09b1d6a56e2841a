---------------------------- MODULE PreparedBatch ----------------------------
(***************************************************************************)
(* The operator tool on one prepared batch: prepare locks the configs of   *)
(* the entries, "run --prepared" starts a worker (detached, or in the      *)
(* foreground with --follow), and the worker takes the entries in order.   *)
(* For each it inspects the run in one container and then starts another   *)
(* that runs or resumes it.                                                *)
(*                                                                         *)
(* The processes are separate: the launching command, the worker, and the  *)
(* container, which goes on when its worker is killed.  They meet in four  *)
(* places only: the prepared context, the job file, the run directories    *)
(* and the lock file of each run, whose flock the kernel drops when the    *)
(* process that holds it ends.  A run is abstracted to what the status     *)
(* command and the start of an attempt distinguish; RunLifecycle holds the *)
(* detail of an attempt.                                                   *)
(***************************************************************************)
EXTENDS Naturals, FiniteSets

CONSTANTS
    Workers,      \* the "run --prepared" commands of the exploration
    NoWorker,
    Last,         \* number of entries of the batch
    Versions,     \* contents a config file may have
    Modes,        \* "full", and "predict" for --predict-only
    MaxFaults     \* bound: kills, failures and damaged runs

ASSUME WorkersAssumption == Workers # {} /\ NoWorker \notin Workers
ASSUME EntriesAssumption == Last \in Nat \ {0}
ASSUME VersionsAssumption ==
    Versions # {} /\ Versions \subseteq Nat \ {0} /\ MaxFaults \in Nat
ASSUME ModesAssumption == Modes # {} /\ Modes \subseteq {"full", "predict"}

Entries == 1 .. Last
Configs == [Entries -> Versions]
Unlocked == [e \in Entries |-> 0]

VARIABLES
    \* the operator's files
    config,     \* content of each entry's config file
    preparing,  \* the configs a prepare command has read, Unlocked if none runs
    prepared,   \* the configs the prepared context locks, Unlocked if no file
    job,        \* the worker the job file names
    \* the commands and their workers
    launcher,   \* the launching command of a detached worker
    pc,         \* the worker
    mode,
    locked,     \* the context the worker loaded
    entry,      \* the entry it is at
    op,         \* the operation it chose for that entry
    exit,       \* its exit code
    \* the containers: one per worker, outliving it
    box,        \* where the container is
    reads,      \* the config the container resolved
    result,     \* the exit code of the container
    \* the run directories
    run,        \* state of each entry's run
    source,     \* the config the run was created from, 0 if none
    holder,     \* whose container holds the lock of the run
    best,       \* how far the run ever got (for the properties only)
    faults

operator == <<config, preparing, prepared, job>>
workers == <<launcher, pc, mode, locked, entry, op, exit>>
boxes == <<box, reads, result>>
runs == <<run, source, holder, best>>
vars == <<operator, workers, boxes, runs, faults>>

\* "bare": created, without manifest or config; "unstated": without a status.
RunStates == {"absent", "bare", "unstated", "running", "failed", "partial",
              "interrupted", "completed", "corrupt"}
Codes == {"ok", "usage", "runtime", "scientific", "incomplete", "other"}
Finished == {"refused", "exited", "dead"}

TypeOK ==
    /\ config \in Configs
    /\ preparing \in Configs \cup {Unlocked}
    /\ prepared \in Configs \cup {Unlocked}
    /\ job \in Workers \cup {NoWorker}
    /\ launcher \in [Workers -> {"none", "spawning", "recording", "done", "dead"}]
    /\ pc \in [Workers -> {"unused", "boot", "stack", "inspect", "start",
                           "wait"} \cup Finished]
    /\ mode \in [Workers -> Modes]
    /\ locked \in [Workers -> Configs \cup {Unlocked}]
    /\ entry \in [Workers -> Entries]
    /\ op \in [Workers -> {"none", "run", "resume"}]
    /\ exit \in [Workers -> Codes \cup {"none"}]
    /\ box \in [Workers -> {"none", "starting", "locked", "opened", "recorded",
                            "live", "ended"}]
    /\ reads \in [Workers -> Versions \cup {0}]
    /\ result \in [Workers -> Codes \cup {"none"}]
    /\ run \in [Entries -> RunStates]
    /\ source \in [Entries -> Versions \cup {0}]
    /\ holder \in [Entries -> Workers \cup {NoWorker}]
    /\ best \in [Entries -> {"none", "partial", "completed"}]
    /\ faults \in 0 .. MaxFaults

Init ==
    /\ config \in Configs
    /\ preparing = Unlocked /\ prepared = Unlocked /\ job = NoWorker
    /\ launcher = [w \in Workers |-> "none"]
    /\ pc = [w \in Workers |-> "unused"]
    /\ mode \in [Workers -> Modes]
    /\ locked = [w \in Workers |-> Unlocked]
    /\ entry = [w \in Workers |-> 1]
    /\ op = [w \in Workers |-> "none"] /\ exit = [w \in Workers |-> "none"]
    /\ box = [w \in Workers |-> "none"] /\ reads = [w \in Workers |-> 0]
    /\ result = [w \in Workers |-> "none"]
    /\ run = [e \in Entries |-> "absent"] /\ source = Unlocked
    /\ holder = [e \in Entries |-> NoWorker]
    /\ best = [e \in Entries |-> "none"]
    /\ faults = 0

Alive(w) == pc[w] \notin Finished \cup {"unused"}
Fault == faults < MaxFaults /\ faults' = faults + 1
NoFault == UNCHANGED faults

-----------------------------------------------------------------------------
(* The operator.  The manual asks not to edit a config of a prepared batch, *)
(* and to prepare a changed one under a new batch id; what the tool checks *)
(* is that a worker does not start from a changed one.  The configs are    *)
(* left alone from then on, and this batch id is not prepared again once   *)
(* it has runs.                                                            *)

PastBoot ==
    \E w \in Workers : \/ pc[w] \notin {"unused", "boot"} \cup Finished
                       \/ box[w] \notin {"none", "ended"}

EditConfig(e) ==
    /\ ~ PastBoot
    /\ \E v \in Versions \ {config[e]} : config' = [config EXCEPT ![e] = v]
    /\ UNCHANGED <<preparing, prepared, job, workers, boxes, runs>> /\ NoFault

\* prepare hashes the configs, then pulls and inspects the image, starts the
\* stack and validates each config in a container; any of it may fail.
ReadConfigs ==
    /\ preparing = Unlocked /\ source = Unlocked /\ ~ PastBoot
    /\ preparing' = config
    /\ UNCHANGED <<config, prepared, job, workers, boxes, runs>> /\ NoFault

WritePrepared ==
    /\ preparing # Unlocked /\ source = Unlocked /\ ~ PastBoot
    /\ prepared' = preparing /\ preparing' = Unlocked
    /\ UNCHANGED <<config, job, workers, boxes, runs>> /\ NoFault

PrepareFails ==
    /\ preparing # Unlocked /\ Fault
    /\ preparing' = Unlocked
    /\ UNCHANGED <<config, prepared, job, workers, boxes, runs>>

InputsVerified == prepared # Unlocked /\ prepared = config

-----------------------------------------------------------------------------
(* Launching.  The command loads and verifies the context; a detached       *)
(* worker runs the same command line again, so it does so a second time.    *)

\* --follow: the command is the worker, and the job file is not consulted.
LaunchForeground(w) ==
    /\ pc[w] = "unused" /\ InputsVerified
    /\ pc' = [pc EXCEPT ![w] = "stack"]
    /\ locked' = [locked EXCEPT ![w] = prepared]
    /\ UNCHANGED <<operator, launcher, mode, entry, op, exit, boxes, runs>>
    /\ NoFault

JobActive == job # NoWorker /\ Alive(job)

CheckJob(w) ==
    /\ pc[w] = "unused" /\ launcher[w] = "none" /\ InputsVerified
    /\ IF JobActive
       THEN /\ pc' = [pc EXCEPT ![w] = "refused"]
            /\ exit' = [exit EXCEPT ![w] = "usage"]
            /\ UNCHANGED launcher
       ELSE /\ launcher' = [launcher EXCEPT ![w] = "spawning"]
            /\ UNCHANGED <<pc, exit>>
    /\ UNCHANGED <<operator, mode, locked, entry, op, boxes, runs>> /\ NoFault

Spawn(w) ==
    /\ launcher[w] = "spawning" /\ pc[w] = "unused"
    /\ launcher' = [launcher EXCEPT ![w] = "recording"]
    /\ pc' = [pc EXCEPT ![w] = "boot"]
    /\ UNCHANGED <<operator, mode, locked, entry, op, exit, boxes, runs>>
    /\ NoFault

RecordJob(w) ==
    /\ launcher[w] = "recording"
    /\ launcher' = [launcher EXCEPT ![w] = "done"]
    /\ job' = w
    /\ UNCHANGED <<config, preparing, prepared, pc, mode, locked, entry, op,
                   exit, boxes, runs>>
    /\ NoFault

\* Variant: the worker trusts the check of the command that launched it.
BootTrusting(w) ==
    /\ pc[w] = "boot"
    /\ pc' = [pc EXCEPT ![w] = "stack"]
    /\ locked' = [locked EXCEPT ![w] = prepared]
    /\ UNCHANGED <<operator, launcher, mode, entry, op, exit, boxes, runs>>
    /\ NoFault

Boot(w) ==
    /\ pc[w] = "boot"
    /\ IF InputsVerified
       THEN /\ pc' = [pc EXCEPT ![w] = "stack"]
            /\ locked' = [locked EXCEPT ![w] = prepared]
            /\ UNCHANGED exit
       ELSE /\ pc' = [pc EXCEPT ![w] = "exited"]
            /\ exit' = [exit EXCEPT ![w] = "usage"]
            /\ UNCHANGED locked
    /\ UNCHANGED <<operator, launcher, mode, entry, op, boxes, runs>> /\ NoFault

-----------------------------------------------------------------------------
(* The worker. *)

Leave(w, code) ==
    /\ pc' = [pc EXCEPT ![w] = "exited"] /\ exit' = [exit EXCEPT ![w] = code]

StackUp(w) ==
    /\ pc[w] = "stack"
    /\ \/ pc' = [pc EXCEPT ![w] = "inspect"] /\ UNCHANGED exit /\ NoFault
       \/ Fault /\ Leave(w, "other")
    /\ UNCHANGED <<operator, launcher, mode, locked, entry, op, boxes, runs>>

\* The exit code of the status command, from the files of the run and without
\* its lock.
StatusCode(s) ==
    CASE s \in {"absent", "bare", "unstated", "corrupt"} -> "runtime"
      [] s = "failed" -> "scientific"
      [] s \in {"partial", "interrupted"} -> "incomplete"
      [] s \in {"running", "completed"} -> "ok"

Inspect(w) ==
    /\ pc[w] = "inspect"
    /\ \/ /\ pc' = [pc EXCEPT ![w] = "start"]
          /\ op' = [op EXCEPT ![w] =
                      IF StatusCode(run[entry[w]]) = "runtime" THEN "run"
                      ELSE "resume"]
          /\ UNCHANGED exit /\ NoFault
       \/ Fault /\ Leave(w, "other") /\ UNCHANGED op
    /\ UNCHANGED <<operator, launcher, mode, locked, entry, boxes, runs>>

\* run resolves the mounted config; resume loads the one stored in the run.
StartContainer(w) ==
    /\ pc[w] = "start"
    /\ pc' = [pc EXCEPT ![w] = "wait"]
    /\ IF op[w] = "resume" /\ run[entry[w]] \in {"absent", "bare"}
       THEN /\ box' = [box EXCEPT ![w] = "ended"]
            /\ result' = [result EXCEPT ![w] = "runtime"]
            /\ UNCHANGED reads
       ELSE /\ box' = [box EXCEPT ![w] = "starting"]
            /\ result' = [result EXCEPT ![w] = "none"]
            /\ reads' = [reads EXCEPT ![w] =
                  IF op[w] = "run" THEN config[entry[w]] ELSE source[entry[w]]]
    /\ UNCHANGED <<operator, launcher, mode, locked, entry, op, exit, runs>>
    /\ NoFault

\* What the worker does with the container's result: go on with an entry, or
\* leave.
Proceed(w, goesOn, next, code) ==
    /\ pc[w] = "wait" /\ box[w] = "ended"
    /\ box' = [box EXCEPT ![w] = "none"]
    /\ result' = [result EXCEPT ![w] = "none"]
    /\ op' = [op EXCEPT ![w] = "none"]
    /\ IF goesOn
       THEN /\ entry' = [entry EXCEPT ![w] = next]
            /\ pc' = [pc EXCEPT ![w] = "inspect"] /\ UNCHANGED exit
       ELSE Leave(w, code) /\ UNCHANGED entry
    /\ UNCHANGED <<operator, launcher, mode, locked, reads, runs>> /\ NoFault

\* Variants: a failed entry does not stop the batch; the loop ends one entry
\* early.
CollectAny(w) == Proceed(w, entry[w] < Last, entry[w] + 1, result[w])
CollectShort(w) ==
    Proceed(w, result[w] = "ok" /\ entry[w] + 1 < Last, entry[w] + 1, result[w])

\* The first result other than 0 ends the batch.
Collect(w) ==
    Proceed(w, result[w] = "ok" /\ entry[w] < Last, entry[w] + 1, result[w])

KillLauncher(w) ==
    /\ launcher[w] \in {"spawning", "recording"} /\ Fault
    /\ launcher' = [launcher EXCEPT ![w] = "dead"]
    /\ UNCHANGED <<operator, pc, mode, locked, entry, op, exit, boxes, runs>>

\* The container is a child of the Docker engine and goes on.
KillWorker(w) ==
    /\ Alive(w) /\ Fault
    /\ pc' = [pc EXCEPT ![w] = "dead"]
    /\ UNCHANGED <<operator, launcher, mode, locked, entry, op, exit, boxes, runs>>

-----------------------------------------------------------------------------
(* The container that runs or resumes an entry. *)

End(w, code) ==
    /\ box' = [box EXCEPT ![w] = "ended"]
    /\ result' = [result EXCEPT ![w] = code]
    /\ reads' = [reads EXCEPT ![w] = 0]
    /\ holder' = [e \in Entries |->
                    IF holder[e] = w THEN NoWorker ELSE holder[e]]

Step(w, place) ==
    box' = [box EXCEPT ![w] = place] /\ UNCHANGED <<reads, result>>

\* The error exit code tells whether the status on disk is a failed one.
\* run leaves its directory unset until the attempt is recorded.
ErrorCode(w) ==
    IF op[w] = "resume" /\ run[entry[w]] = "failed" THEN "scientific"
    ELSE "runtime"

\* Variant: no lock.
AcquireNothing(w) ==
    /\ box[w] = "starting"
    /\ Step(w, "locked")
    /\ holder' = [holder EXCEPT ![entry[w]] = w]
    /\ UNCHANGED <<operator, workers, run, source, best>> /\ NoFault

\* A held lock is refused at once.
Acquire(w) ==
    /\ box[w] = "starting"
    /\ IF holder[entry[w]] = NoWorker
       THEN /\ Step(w, "locked")
            /\ holder' = [holder EXCEPT ![entry[w]] = w]
       ELSE End(w, ErrorCode(w))
    /\ UNCHANGED <<operator, workers, run, source, best>> /\ NoFault

\* run: the directory must not exist.
Create(w) ==
    /\ box[w] = "locked" /\ op[w] = "run"
    /\ IF run[entry[w]] # "absent"
       THEN End(w, "runtime") /\ UNCHANGED <<run, source>>
       ELSE /\ run' = [run EXCEPT ![entry[w]] = "bare"]
            /\ source' = [source EXCEPT ![entry[w]] = reads[w]]
            /\ Step(w, "opened") /\ UNCHANGED holder
    /\ UNCHANGED <<operator, workers, best>> /\ NoFault

\* Manifest, attempt and config, then the first status.
RecordRun(w) ==
    /\ box[w] \in {"opened", "recorded"}
    /\ IF box[w] = "opened"
       THEN Step(w, "recorded") /\ run' = [run EXCEPT ![entry[w]] = "unstated"]
       ELSE Step(w, "live") /\ run' = [run EXCEPT ![entry[w]] = "running"]
    /\ UNCHANGED <<operator, workers, source, holder, best>> /\ NoFault

\* resume: a published run is verified and left alone.
Reopen(w) ==
    /\ box[w] = "locked" /\ op[w] = "resume"
    /\ \/ run[entry[w]] = "completed" /\ End(w, "ok") /\ UNCHANGED run
       \/ run[entry[w]] = "corrupt" /\ End(w, "runtime") /\ UNCHANGED run
       \/ /\ run[entry[w]] \notin {"completed", "corrupt"}
          /\ run' = [run EXCEPT ![entry[w]] = "running"]
          /\ Step(w, "live") /\ UNCHANGED holder
    /\ UNCHANGED <<operator, workers, source, best>> /\ NoFault

\* Only run is told to stop after the predictions.
Succeed(w) ==
    LET reached == IF op[w] = "run" /\ mode[w] = "predict" THEN "partial"
                   ELSE "completed" IN
    /\ box[w] = "live"
    /\ run' = [run EXCEPT ![entry[w]] = reached]
    /\ best' = [best EXCEPT ![entry[w]] =
                  IF @ = "completed" THEN @ ELSE reached]
    /\ End(w, "ok")
    /\ UNCHANGED <<operator, workers, source>> /\ NoFault

\* A failure of the attempt, or a stop request it honoured.
Stop(w) ==
    /\ box[w] = "live" /\ Fault
    /\ \/ run' = [run EXCEPT ![entry[w]] = "failed"] /\ End(w, "scientific")
       \/ run' = [run EXCEPT ![entry[w]] = "interrupted"] /\ End(w, "other")
    /\ UNCHANGED <<operator, workers, source, best>>

\* A failure before there is an attempt to record it in.
FailUnrecorded(w) ==
    /\ box[w] \in {"starting", "locked", "opened"} /\ Fault
    /\ End(w, ErrorCode(w))
    /\ UNCHANGED <<operator, workers, run, source, best>>

KillContainer(w) ==
    /\ box[w] \notin {"none", "ended"} /\ Fault
    /\ End(w, "other")
    /\ UNCHANGED <<operator, workers, run, source, best>>

\* The published files no longer match their manifest.
DamageRun(e) ==
    /\ run[e] = "completed" /\ Fault
    /\ run' = [run EXCEPT ![e] = "corrupt"]
    /\ UNCHANGED <<operator, workers, boxes, source, holder, best>>

-----------------------------------------------------------------------------
WorkerStep(w) == Boot(w) \/ StackUp(w) \/ Inspect(w) \/ StartContainer(w) \/ Collect(w)
ContainerStep(w) ==
    Acquire(w) \/ Create(w) \/ RecordRun(w) \/ Reopen(w) \/ Succeed(w)
LauncherStep(w) == Spawn(w) \/ RecordJob(w)

Faults(w) ==
    KillLauncher(w) \/ KillWorker(w) \/ Stop(w) \/ FailUnrecorded(w) \/ KillContainer(w)

Next ==
    \/ \E e \in Entries : EditConfig(e) \/ DamageRun(e)
    \/ ReadConfigs \/ WritePrepared \/ PrepareFails
    \/ \E w \in Workers :
          \/ LaunchForeground(w) \/ CheckJob(w) \/ LauncherStep(w)
          \/ WorkerStep(w) \/ ContainerStep(w) \/ Faults(w)

\* The processes that were started are scheduled; the operator may stop.
Fairness ==
    \A w \in Workers : WF_vars(LauncherStep(w)) /\ WF_vars(WorkerStep(w))
                       /\ WF_vars(ContainerStep(w))

Spec == Init /\ [][Next]_vars
FairSpec == Spec /\ Fairness

-----------------------------------------------------------------------------
(* What the tool promises. *)

\* An entry's run is created only when every earlier entry of the batch has
\* had a successful run: the batch stops at the first failure, whatever the
\* launches, kills and resumes that came before.
OrderKept ==
    \A e \in Entries : e > 1 /\ run[e] # "absent" => best[e - 1] # "none"

\* A worker that exits with 0 leaves every run of the batch predicted, and in
\* the full lifecycle published.
SuccessMeansDone ==
    \A w \in Workers, e \in Entries :
        exit[w] = "ok" =>
            /\ best[e] # "none"
            /\ mode[w] = "full" => run[e] \in {"completed", "corrupt"}

\* Two workers of one batch - the job file is checked before it is written,
\* not at all with --follow, and a container outlives its worker - are never
\* both inside an attempt of the same run.
OneAttemptAtATime ==
    \A w, v \in Workers :
        /\ w # v /\ entry[w] = entry[v]
        /\ box[w] \in {"opened", "recorded", "live"}
        => box[v] \notin {"opened", "recorded", "live"}

\* Every run comes from the config its batch locked, though configs may be
\* edited until the worker has taken over; no run is created twice, and a
\* published one is never opened again.
RunsAsPrepared ==
    /\ [](\A e \in Entries : source[e] # 0 => source[e] = prepared[e])
    /\ [][\A e \in Entries :
            /\ run[e] \in {"completed", "corrupt"} => run'[e] \in {"completed", "corrupt"}
            /\ source[e] # 0 => source'[e] = source[e]]_vars

\* A worker that has started comes to an end, unless it is killed or its
\* container waits for ever; and a full batch that meets no fault and no
\* other worker in its way publishes every run.
WorkerEnds == \A w \in Workers : pc[w] = "boot" ~> pc[w] \in Finished

Published == \A e \in Entries : run[e] = "completed"
FullBatchPublishes ==
    \A w \in Workers :
        pc[w] = "inspect" /\ mode[w] = "full" ~>
            Published \/ faults > 0 \/ \E v \in Workers : exit[v] = "runtime"

BatchCompletes == WorkerEnds /\ FullBatchPublishes
=============================================================================
