------------------------- MODULE PreparedBatch_proofs -------------------------
(***************************************************************************)
(* One attempt of a run at a time, entries in their order, an exit code of *)
(* 0 only for a finished batch and runs of the locked configs alone: for   *)
(* every number of workers, entries and faults, and every mix of modes.    *)
(***************************************************************************)
EXTENDS PreparedBatch, TLAPS

\* What the proofs are told of a step: the action it is, of which worker.
LEMMA Steps ==
    ASSUME [Next]_vars
    PROVE  \/ UNCHANGED vars
           \/ ReadConfigs \/ WritePrepared \/ PrepareFails
           \/ \E e \in Entries : EditConfig(e) \/ DamageRun(e)
           \/ \E w \in Workers :
                 \/ LaunchForeground(w) \/ CheckJob(w) \/ Spawn(w) \/ RecordJob(w)
                 \/ Boot(w) \/ StackUp(w) \/ Inspect(w) \/ StartContainer(w)
                 \/ Collect(w) \/ Acquire(w) \/ Create(w) \/ RecordRun(w)
                 \/ Reopen(w) \/ Succeed(w)
                 \/ KillLauncher(w) \/ KillWorker(w) \/ Stop(w)
                 \/ FailUnrecorded(w) \/ KillContainer(w)
BY DEF Next, WorkerStep, ContainerStep, LauncherStep, Faults

-----------------------------------------------------------------------------
(* Types. *)

LEMMA InitialTypes == Init => TypeOK
<1>1. SUFFICES ASSUME Init PROVE TypeOK
  OBVIOUS
<1>2. 0 \in 0 .. MaxFaults
  BY VersionsAssumption
<1>3. 1 \in Entries
  BY EntriesAssumption DEF Entries
<1>4. Unlocked \in [Entries -> Versions \cup {0}]
  BY DEF Unlocked
<1>5. QED
  BY <1>1, <1>2, <1>3, <1>4 DEF Init, TypeOK, RunStates, Finished

LEMMA TypeStep ==
    ASSUME TypeOK, [Next]_vars
    PROVE  TypeOK'
<1> USE VersionsAssumption, EntriesAssumption, WorkersAssumption
<1>1. CASE UNCHANGED vars
  BY <1>1 DEF TypeOK, vars, operator, workers, boxes, runs
<1>2. CASE ReadConfigs
  BY <1>2 DEF ReadConfigs, TypeOK, workers, boxes, runs, NoFault
<1>3. CASE WritePrepared
  BY <1>3 DEF WritePrepared, TypeOK, workers, boxes, runs, NoFault
<1>4. CASE PrepareFails
  BY <1>4 DEF PrepareFails, TypeOK, workers, boxes, runs, Fault
<1>5. ASSUME NEW e \in Entries, EditConfig(e) PROVE TypeOK'
  BY <1>5 DEF EditConfig, TypeOK, Configs, workers, boxes, runs, NoFault
<1>6. ASSUME NEW e \in Entries, DamageRun(e) PROVE TypeOK'
  BY <1>6 DEF DamageRun, TypeOK, RunStates, operator, workers, boxes, Fault
<1>7. ASSUME NEW w \in Workers,
             \/ LaunchForeground(w) \/ CheckJob(w) \/ Spawn(w) \/ RecordJob(w)
             \/ Boot(w) \/ StackUp(w) \/ Inspect(w) \/ KillLauncher(w)
             \/ KillWorker(w)
      PROVE  TypeOK'
  <2>1. CASE LaunchForeground(w)
    BY <2>1 DEF LaunchForeground, InputsVerified, TypeOK, operator, boxes, runs, NoFault
  <2>2. CASE CheckJob(w)
    BY <2>2 DEF CheckJob, TypeOK, Codes, Finished, operator, boxes, runs, NoFault
  <2>3. CASE Spawn(w)
    BY <2>3 DEF Spawn, TypeOK, operator, boxes, runs, NoFault
  <2>4. CASE RecordJob(w)
    BY <2>4 DEF RecordJob, TypeOK, boxes, runs, NoFault
  <2>5. CASE Boot(w)
    BY <2>5 DEF Boot, TypeOK, Codes, Finished, operator, boxes, runs, NoFault
  <2>6. CASE StackUp(w)
    BY <2>6 DEF StackUp, Leave, TypeOK, Codes, Finished, operator, boxes, runs, NoFault, Fault
  <2>7. CASE Inspect(w)
    BY <2>7 DEF Inspect, Leave, TypeOK, Codes, Finished, operator, boxes, runs, NoFault, Fault
  <2>8. CASE KillLauncher(w)
    BY <2>8 DEF KillLauncher, TypeOK, operator, boxes, runs, Fault
  <2>9. CASE KillWorker(w)
    BY <2>9 DEF KillWorker, TypeOK, Finished, operator, boxes, runs, Fault
  <2>10. QED
    BY <1>7, <2>1, <2>2, <2>3, <2>4, <2>5, <2>6, <2>7, <2>8, <2>9
<1>8. ASSUME NEW w \in Workers, StartContainer(w) PROVE TypeOK'
  BY <1>8 DEF StartContainer, TypeOK, Configs, Codes, operator, runs, NoFault
<1>9. ASSUME NEW w \in Workers, Collect(w) PROVE TypeOK'
  <2>1. CASE result[w] = "ok" /\ entry[w] < Last
    <3>1. entry[w] + 1 \in Entries
      BY <2>1 DEF TypeOK, Entries
    <3>2. QED
      BY <1>9, <2>1, <3>1 DEF Collect, Proceed, TypeOK, operator, runs, NoFault
  <2>2. CASE ~ (result[w] = "ok" /\ entry[w] < Last)
    BY <1>9, <2>2 DEF Collect, Proceed, Leave, TypeOK, Finished, operator, runs, NoFault
  <2>3. QED
    BY <2>1, <2>2
<1>10. ASSUME NEW w \in Workers,
              \/ Acquire(w) \/ Create(w) \/ RecordRun(w) \/ Reopen(w)
              \/ Succeed(w) \/ Stop(w) \/ FailUnrecorded(w) \/ KillContainer(w)
       PROVE  TypeOK'
  <2>1. ASSUME NEW code \in Codes, End(w, code)
        PROVE  /\ box' \in [Workers -> {"none", "starting", "locked", "opened",
                                        "recorded", "live", "ended"}]
               /\ result' \in [Workers -> Codes \cup {"none"}]
               /\ reads' \in [Workers -> Versions \cup {0}]
               /\ holder' \in [Entries -> Workers \cup {NoWorker}]
    BY <2>1 DEF End, TypeOK
  <2>2. ErrorCode(w) \in Codes
    BY DEF ErrorCode, Codes
  <2>3. CASE Acquire(w)
    BY <2>1, <2>2, <2>3 DEF Acquire, Step, TypeOK, operator, workers, NoFault
  <2>4. CASE Create(w)
    BY <2>1, <2>4 DEF Create, Step, TypeOK, Codes, RunStates, operator, workers, NoFault
  <2>5. CASE RecordRun(w)
    BY <2>5 DEF RecordRun, Step, TypeOK, RunStates, operator, workers, NoFault
  <2>6. CASE Reopen(w)
    BY <2>1, <2>6 DEF Reopen, Step, TypeOK, Codes, RunStates, operator, workers, NoFault
  <2>7. CASE Succeed(w)
    BY <2>1, <2>7 DEF Succeed, TypeOK, Codes, RunStates, operator, workers, NoFault
  <2>8. CASE Stop(w)
    BY <2>1, <2>8 DEF Stop, TypeOK, Codes, RunStates, operator, workers, Fault
  <2>9. CASE FailUnrecorded(w)
    BY <2>1, <2>2, <2>9 DEF FailUnrecorded, TypeOK, operator, workers, Fault
  <2>10. CASE KillContainer(w)
    BY <2>1, <2>10 DEF KillContainer, TypeOK, Codes, operator, workers, Fault
  <2>11. QED
    BY <1>10, <2>3, <2>4, <2>5, <2>6, <2>7, <2>8, <2>9, <2>10
<1>11. QED
  BY <1>1, <1>2, <1>3, <1>4, <1>5, <1>6, <1>7, <1>8, <1>9, <1>10, Steps

\* Every variable keeps its type, whatever is launched, edited and killed.
THEOREM TypeCorrect == Spec => []TypeOK
BY InitialTypes, TypeStep, PTL DEF Spec

-----------------------------------------------------------------------------
(* The lock.  A container that holds the lock of its entry is the only one *)
(* that changes the run, and the run is where that container has brought it. *)

Holds(w) == box[w] \in {"locked", "opened", "recorded", "live"}

Locks == \A w \in Workers : Holds(w) => holder[entry[w]] = w

Attempts ==
    \A w \in Workers :
        /\ box[w] = "opened" => run[entry[w]] = "bare"
        /\ box[w] = "recorded" => run[entry[w]] = "unstated"
        /\ box[w] = "live" => run[entry[w]] = "running"

\* Steps that leave the containers, the runs and the places of the workers be.
Quiet == UNCHANGED <<entry, mode, boxes, run, holder, best>>

LEMMA QuietSteps ==
    /\ UNCHANGED vars \/ ReadConfigs \/ WritePrepared \/ PrepareFails => Quiet
    /\ \A e \in Entries : EditConfig(e) => Quiet
    /\ \A w \in Workers :
          \/ LaunchForeground(w) \/ CheckJob(w) \/ Spawn(w) \/ RecordJob(w)
          \/ Boot(w) \/ StackUp(w) \/ Inspect(w) \/ KillLauncher(w) \/ KillWorker(w)
          => Quiet
BY DEF Quiet, vars, operator, workers, boxes, runs, ReadConfigs, WritePrepared,
       PrepareFails, EditConfig, LaunchForeground, CheckJob, Spawn, RecordJob,
       Boot, StackUp, Inspect, KillLauncher, KillWorker

LEMMA LocksStep ==
    ASSUME TypeOK, Locks, [Next]_vars
    PROVE  Locks'
<1> USE WorkersAssumption
<1>1. CASE Quiet
  BY <1>1 DEF Quiet, Locks, Holds, boxes
<1>2. ASSUME NEW e \in Entries, DamageRun(e) PROVE Locks'
  BY <1>2 DEF DamageRun, Locks, Holds, boxes, workers
<1>3. ASSUME NEW w \in Workers, StartContainer(w) PROVE Locks'
  BY <1>3 DEF StartContainer, Locks, Holds, TypeOK, runs
<1>4. ASSUME NEW w \in Workers, Collect(w) PROVE Locks'
  BY <1>4 DEF Collect, Proceed, Locks, Holds, TypeOK, runs
<1>5. ASSUME NEW w \in Workers, NEW code, End(w, code), UNCHANGED workers
      PROVE  Locks'
  BY <1>5 DEF End, workers, Locks, Holds, TypeOK
<1>6. ASSUME NEW w \in Workers, Acquire(w) PROVE Locks'
  <2>1. CASE holder[entry[w]] = NoWorker
    BY <1>6, <2>1 DEF Acquire, Step, workers, Locks, Holds, TypeOK
  <2>2. CASE holder[entry[w]] # NoWorker
    BY <1>5, <1>6, <2>2 DEF Acquire
  <2>3. QED
    BY <2>1, <2>2
<1>7. ASSUME NEW w \in Workers, \/ Create(w) \/ RecordRun(w) \/ Reopen(w)
      PROVE  Locks'
  <2>1. ASSUME NEW place \in {"opened", "recorded", "live"}, Holds(w),
               Step(w, place), UNCHANGED <<workers, holder>>
        PROVE  Locks'
    BY <2>1 DEF Step, workers, Locks, Holds, TypeOK
  <2>2. Holds(w) /\ UNCHANGED workers
    BY <1>7 DEF Holds, Create, RecordRun, Reopen
  <2>3. CASE Create(w)
    BY <1>5, <2>1, <2>2, <2>3 DEF Create
  <2>4. CASE RecordRun(w)
    BY <2>1, <2>2, <2>4 DEF RecordRun
  <2>5. CASE Reopen(w)
    BY <1>5, <2>1, <2>2, <2>5 DEF Reopen
  <2>6. QED
    BY <1>7, <2>3, <2>4, <2>5
<1>8. ASSUME NEW w \in Workers, \/ Succeed(w) \/ Stop(w) \/ FailUnrecorded(w)
                                \/ KillContainer(w)
      PROVE  Locks'
  BY <1>5, <1>8 DEF Succeed, Stop, FailUnrecorded, KillContainer
<1>9. QED
  BY <1>1, <1>2, <1>3, <1>4, <1>6, <1>7, <1>8, Steps, QuietSteps

\* Two containers that hold the lock are at different entries.
LEMMA OneHolder ==
    ASSUME Locks, NEW w \in Workers, NEW v \in Workers, w # v, Holds(w), Holds(v)
    PROVE  entry[w] # entry[v]
BY DEF Locks

\* Two workers of one batch are never both inside an attempt of the same run,
\* though the job file is checked before it is written, not at all with
\* --follow, and a container outlives its worker.
THEOREM OneAttempt == Spec => []OneAttemptAtATime
<1>1. Init => Locks
  BY DEF Init, Locks, Holds
<1>2. Locks => OneAttemptAtATime
  BY OneHolder DEF OneAttemptAtATime, Holds
<1>3. QED
  BY <1>1, <1>2, LocksStep, TypeCorrect, PTL DEF Spec

-----------------------------------------------------------------------------
(* How a step changes a run. *)

\* The run of an entry changes only under its lock, or is damaged when it is
\* complete; and what is published stays published.
LEMMA RunStep ==
    ASSUME TypeOK, Locks, Attempts, [Next]_vars, NEW e \in Entries
    PROVE  /\ run'[e] = run[e] \/ run[e] = "completed"
              \/ \E w \in Workers : Holds(w) /\ entry[w] = e
           /\ run[e] \in {"completed", "corrupt"} => run'[e] \in {"completed", "corrupt"}
           /\ best[e] # "none" => best'[e] # "none"
           /\ run[e] # "absent" => run'[e] # "absent"
<1> DEFINE P == /\ run'[e] = run[e] \/ run[e] = "completed"
                   \/ \E w \in Workers : Holds(w) /\ entry[w] = e
                /\ run[e] \in {"completed", "corrupt"} => run'[e] \in {"completed", "corrupt"}
                /\ best[e] # "none" => best'[e] # "none"
                /\ run[e] # "absent" => run'[e] # "absent"
<1>1. CASE UNCHANGED <<run, best>>
  BY <1>1
<1>2. ASSUME NEW f \in Entries, DamageRun(f) PROVE P
  BY <1>2 DEF DamageRun, TypeOK
<1>3. ASSUME NEW w \in Workers, \/ StartContainer(w) \/ Collect(w) \/ Acquire(w)
                                \/ FailUnrecorded(w) \/ KillContainer(w)
      PROVE  P
  BY <1>1, <1>3 DEF StartContainer, Collect, Proceed, Acquire, FailUnrecorded,
                    KillContainer, runs
<1>4. ASSUME NEW w \in Workers, \/ Create(w) \/ RecordRun(w) \/ Reopen(w)
                                \/ Succeed(w) \/ Stop(w)
      PROVE  P
  BY <1>4 DEF Create, RecordRun, Reopen, Succeed, Stop, Holds, Attempts, TypeOK
<1>5. QED
  BY <1>1, <1>2, <1>3, <1>4, Steps, QuietSteps DEF Quiet

LEMMA AttemptsStep ==
    ASSUME TypeOK, Locks, Attempts, [Next]_vars
    PROVE  Attempts'
<1>1. CASE Quiet
  BY <1>1 DEF Quiet, Attempts, boxes
<1>2. ASSUME NEW e \in Entries, DamageRun(e) PROVE Attempts'
  BY <1>2 DEF DamageRun, Attempts, boxes, workers, TypeOK
<1>3. ASSUME NEW w \in Workers, StartContainer(w) PROVE Attempts'
  BY <1>3 DEF StartContainer, Attempts, TypeOK, runs
<1>4. ASSUME NEW w \in Workers, Collect(w) PROVE Attempts'
  BY <1>4 DEF Collect, Proceed, Attempts, TypeOK, runs
<1>5. ASSUME NEW w \in Workers, \/ Acquire(w) \/ FailUnrecorded(w) \/ KillContainer(w)
      PROVE  Attempts'
  BY <1>5 DEF Acquire, FailUnrecorded, KillContainer, End, Step, Attempts, TypeOK, workers
<1>6. ASSUME NEW w \in Workers, \/ Create(w) \/ RecordRun(w) \/ Reopen(w)
                                \/ Succeed(w) \/ Stop(w)
      PROVE  Attempts'
  <2>1. Holds(w) /\ UNCHANGED workers
    BY <1>6 DEF Holds, Create, RecordRun, Reopen, Succeed, Stop
  <2>2. ASSUME NEW v \in Workers, v # w
        PROVE  /\ box'[v] = box[v]
               /\ Holds(v) => run'[entry[v]] = run[entry[v]]
    <3>1. box'[v] = box[v]
      BY <1>6, <2>2 DEF Create, RecordRun, Reopen, Succeed, Stop, End, Step, TypeOK
    <3>2. CASE Holds(v)
      <4>1. entry[w] # entry[v]
        BY <2>1, <2>2, <3>2, OneHolder
      <4>2. QED
        BY <1>6, <3>1, <4>1 DEF Create, RecordRun, Reopen, Succeed, Stop, TypeOK
    <3>3. QED
      BY <3>1, <3>2
  <2>3. /\ box'[w] = "opened" => run'[entry[w]] = "bare"
        /\ box'[w] = "recorded" => run'[entry[w]] = "unstated"
        /\ box'[w] = "live" => run'[entry[w]] = "running"
    BY <1>6 DEF Create, RecordRun, Reopen, Succeed, Stop, End, Step, TypeOK
  <2>4. QED
    BY <2>1, <2>2, <2>3 DEF Attempts, Holds, workers
<1>7. QED
  BY <1>1, <1>2, <1>3, <1>4, <1>5, <1>6, Steps, QuietSteps

-----------------------------------------------------------------------------
(* The order of the entries. *)

\* What a worker of its mode is to leave of an entry.
Done(w, e) ==
    /\ best[e] # "none"
    /\ mode[w] = "full" => run[e] \in {"completed", "corrupt"}

Progress ==
    /\ \A e \in Entries : run[e] \in {"completed", "corrupt"} => best[e] # "none"
    /\ \A w \in Workers, e \in Entries : e < entry[w] => Done(w, e)
    /\ \A w \in Workers : result[w] = "ok" => Done(w, entry[w])
    /\ \A e, f \in Entries : f < e /\ run[e] # "absent" => best[f] # "none"

LEMMA ModesStay ==
    ASSUME [Next]_vars
    PROVE  mode' = mode
<1>1. ASSUME NEW w \in Workers, \/ Acquire(w) \/ Create(w) \/ RecordRun(w)
                                \/ Reopen(w) \/ Succeed(w) \/ Stop(w)
                                \/ FailUnrecorded(w) \/ KillContainer(w)
                                \/ StartContainer(w) \/ Collect(w)
      PROVE  mode' = mode
  BY <1>1 DEF Acquire, Create, RecordRun, Reopen, Succeed, Stop, FailUnrecorded,
              KillContainer, StartContainer, Collect, Proceed, workers
<1>2. ASSUME NEW e \in Entries, DamageRun(e) PROVE mode' = mode
  BY <1>2 DEF DamageRun, workers
<1>3. QED
  BY <1>1, <1>2, Steps, QuietSteps DEF Quiet

LEMMA DoneStays ==
    ASSUME TypeOK, Locks, Attempts, [Next]_vars,
           NEW w \in Workers, NEW e \in Entries, Done(w, e)
    PROVE  Done(w, e)'
BY RunStep, ModesStay DEF Done

\* A worker moves on from an entry whose container ended with 0, and only then.
LEMMA EntryStep ==
    ASSUME TypeOK, [Next]_vars, NEW w \in Workers
    PROVE  \/ entry'[w] = entry[w]
           \/ /\ result[w] = "ok" /\ result'[w] = "none"
              /\ entry'[w] = entry[w] + 1
<1>1. ASSUME UNCHANGED entry PROVE entry'[w] = entry[w]
  BY <1>1
<1>2. ASSUME NEW v \in Workers, Collect(v)
      PROVE  \/ entry'[w] = entry[w]
             \/ /\ result[w] = "ok" /\ result'[w] = "none"
                /\ entry'[w] = entry[w] + 1
  BY <1>2 DEF Collect, Proceed, TypeOK
<1>3. ASSUME NEW v \in Workers, \/ Acquire(v) \/ Create(v) \/ RecordRun(v)
                                \/ Reopen(v) \/ Succeed(v) \/ Stop(v)
                                \/ FailUnrecorded(v) \/ KillContainer(v)
                                \/ StartContainer(v)
      PROVE  UNCHANGED entry
  BY <1>3 DEF Acquire, Create, RecordRun, Reopen, Succeed, Stop, FailUnrecorded,
              KillContainer, StartContainer, workers
<1>4. ASSUME NEW e \in Entries, DamageRun(e) PROVE UNCHANGED entry
  BY <1>4 DEF DamageRun, workers
<1>5. QED
  BY <1>1, <1>2, <1>3, <1>4, Steps, QuietSteps DEF Quiet

\* A container that ends with 0 leaves its entry done.
LEMMA ResultStep ==
    ASSUME TypeOK, Progress, [Next]_vars, NEW w \in Workers,
           result'[w] = "ok", result[w] # "ok"
    PROVE  Done(w, entry[w])'
<1>1. ~ UNCHANGED result
  OBVIOUS
<1>2. ASSUME NEW v \in Workers, Succeed(v) PROVE Done(w, entry[w])'
  <2>1. v = w
    BY <1>2 DEF Succeed, End, TypeOK
  <2>2. QED
    BY <1>2, <2>1 DEF Succeed, Done, workers, TypeOK
<1>3. ASSUME NEW v \in Workers, Reopen(v) PROVE Done(w, entry[w])'
  <2>1. v = w /\ run[entry[w]] = "completed" /\ UNCHANGED <<run, best, workers>>
    BY <1>3 DEF Reopen, End, Step, TypeOK
  <2>2. entry[w] \in Entries
    BY DEF TypeOK
  <2>3. QED
    BY <2>1, <2>2 DEF Done, workers, Progress
<1>4. ASSUME NEW v \in Workers, \/ Acquire(v) \/ Create(v) \/ Stop(v)
                                \/ FailUnrecorded(v) \/ KillContainer(v)
                                \/ StartContainer(v) \/ Collect(v)
      PROVE  result'[w] # "ok"
  BY <1>4 DEF Acquire, Create, Stop, FailUnrecorded, KillContainer, StartContainer,
              Collect, Proceed, End, Step, ErrorCode, TypeOK
<1>5. ASSUME NEW v \in Workers, RecordRun(v) PROVE UNCHANGED result
  BY <1>5 DEF RecordRun, Step
<1>6. ASSUME NEW e \in Entries, DamageRun(e) PROVE UNCHANGED result
  BY <1>6 DEF DamageRun, boxes
<1>7. QED
  BY <1>1, <1>2, <1>3, <1>4, <1>5, <1>6, Steps, QuietSteps DEF Quiet, boxes

\* What reaches "completed" has succeeded.
LEMMA ReachStep ==
    ASSUME TypeOK, Progress, [Next]_vars, NEW e \in Entries,
           run'[e] \in {"completed", "corrupt"}
    PROVE  best'[e] # "none"
<1>1. CASE UNCHANGED <<run, best>>
  BY <1>1 DEF Progress
<1>2. ASSUME NEW f \in Entries, DamageRun(f) PROVE best'[e] # "none"
  BY <1>2 DEF DamageRun, TypeOK, Progress
<1>3. ASSUME NEW w \in Workers, Succeed(w) PROVE best'[e] # "none"
  BY <1>3 DEF Succeed, TypeOK, Progress
<1>4. ASSUME NEW w \in Workers, \/ Create(w) \/ RecordRun(w) \/ Reopen(w) \/ Stop(w)
      PROVE  best'[e] # "none"
  BY <1>4 DEF Create, RecordRun, Reopen, Stop, TypeOK, Progress
<1>5. ASSUME NEW w \in Workers, \/ StartContainer(w) \/ Collect(w) \/ Acquire(w)
                                \/ FailUnrecorded(w) \/ KillContainer(w)
      PROVE  UNCHANGED <<run, best>>
  BY <1>5 DEF StartContainer, Collect, Proceed, Acquire, FailUnrecorded,
              KillContainer, runs
<1>6. QED
  BY <1>1, <1>2, <1>3, <1>4, <1>5, Steps, QuietSteps DEF Quiet

LEMMA ProgressStep ==
    ASSUME TypeOK, Locks, Attempts, Progress, [Next]_vars
    PROVE  Progress'
<1>1. ASSUME NEW w \in Workers, NEW e \in Entries, e < entry'[w]
      PROVE  Done(w, e)'
  <2>1. Done(w, e)
    BY <1>1, EntryStep DEF Progress, TypeOK, Entries
  <2>2. QED
    BY <2>1, DoneStays
<1>2. ASSUME NEW w \in Workers, result'[w] = "ok" PROVE Done(w, entry[w])'
  <2>1. CASE result[w] = "ok"
    <3>1. entry[w] \in Entries /\ Done(w, entry[w])
      BY <2>1 DEF Progress, TypeOK
    <3>2. entry'[w] = entry[w]
      BY <1>2, EntryStep
    <3>3. best'[entry[w]] # "none"
          /\ (mode'[w] = "full" => run'[entry[w]] \in {"completed", "corrupt"})
      BY <3>1, RunStep, ModesStay DEF Done
    <3>4. QED
      BY <3>2, <3>3 DEF Done
  <2>2. QED
    BY <1>2, <2>1, ResultStep
<1>3. ASSUME NEW e \in Entries, NEW f \in Entries, f < e, run'[e] # "absent"
      PROVE  best'[f] # "none"
  <2>1. CASE run[e] # "absent"
    BY <1>3, <2>1, RunStep DEF Progress
  <2>2. CASE run[e] = "absent"
    <3>1. PICK w \in Workers : Holds(w) /\ entry[w] = e
      BY <1>3, <2>2, RunStep
    <3>2. best[f] # "none"
      BY <1>3, <3>1 DEF Progress, Done
    <3>3. QED
      BY <3>2, RunStep
  <2>3. QED
    BY <2>1, <2>2
<1>4. QED
  BY <1>1, <1>2, <1>3, ReachStep DEF Progress

\* A worker leaves with 0 from the last entry, and only when that is done.
LEMMA ExitStep ==
    ASSUME TypeOK, Locks, Attempts, Progress, SuccessMeansDone, [Next]_vars
    PROVE  SuccessMeansDone'
<1>1. SUFFICES ASSUME NEW w \in Workers, NEW e \in Entries, exit'[w] = "ok"
               PROVE  Done(w, e)'
  BY DEF SuccessMeansDone, Done
<1>2. SUFFICES Done(w, e)
  BY DoneStays
<1>3. CASE exit[w] = "ok"
  BY <1>3 DEF SuccessMeansDone, Done
<1>4. ASSUME NEW v \in Workers, Collect(v), exit'[w] # exit[w] PROVE Done(w, e)
  <2>1. v = w /\ result[w] = "ok" /\ ~ (entry[w] < Last)
    BY <1>1, <1>4 DEF Collect, Proceed, Leave, TypeOK
  <2>2. e = entry[w] \/ e < entry[w]
    BY <2>1, EntriesAssumption DEF TypeOK, Entries
  <2>3. QED
    BY <2>1, <2>2 DEF Progress
<1>5. ASSUME NEW v \in Workers, \/ CheckJob(v) \/ Boot(v) \/ StackUp(v) \/ Inspect(v)
      PROVE  exit'[w] # "ok" \/ exit'[w] = exit[w]
  BY <1>5 DEF CheckJob, Boot, StackUp, Inspect, Leave, TypeOK
<1>6. ASSUME NEW v \in Workers, \/ LaunchForeground(v) \/ Spawn(v) \/ RecordJob(v)
                                \/ StartContainer(v) \/ KillLauncher(v) \/ KillWorker(v)
      PROVE  UNCHANGED exit
  BY <1>6 DEF LaunchForeground, Spawn, RecordJob, StartContainer, KillLauncher,
              KillWorker
<1>7. ASSUME NEW v \in Workers, \/ Acquire(v) \/ Create(v) \/ RecordRun(v)
                                \/ Reopen(v) \/ Succeed(v) \/ Stop(v)
                                \/ FailUnrecorded(v) \/ KillContainer(v)
      PROVE  UNCHANGED exit
  BY <1>7 DEF Acquire, Create, RecordRun, Reopen, Succeed, Stop, FailUnrecorded,
              KillContainer, workers
<1>8. ASSUME NEW f \in Entries, \/ EditConfig(f) \/ DamageRun(f) PROVE UNCHANGED exit
  BY <1>8 DEF EditConfig, DamageRun, workers
<1>9. CASE UNCHANGED vars \/ ReadConfigs \/ WritePrepared \/ PrepareFails
  BY <1>1, <1>3, <1>9 DEF vars, ReadConfigs, WritePrepared, PrepareFails, workers
<1>10. QED
  BY <1>1, <1>3, <1>4, <1>5, <1>6, <1>7, <1>8, <1>9, Steps

LEMMA InitialProgress == Init => Locks /\ Attempts /\ Progress /\ SuccessMeansDone
BY DEF Init, Locks, Holds, Attempts, Progress, Done, SuccessMeansDone, Entries

\* An entry's run is created only when every earlier entry of the batch has had
\* a successful run, whatever the launches, kills and resumes that came before.
THEOREM OrderIsKept == Spec => []OrderKept
<1>1. Progress => OrderKept
  BY EntriesAssumption DEF Progress, OrderKept, Entries
<1>2. QED
  BY <1>1, InitialProgress, TypeCorrect, LocksStep, AttemptsStep, ProgressStep,
     PTL DEF Spec

\* A worker that exits with 0 leaves every run of the batch predicted, and in
\* the full lifecycle published: no other worker, killed container or damaged
\* file undoes what it has found done.
THEOREM SuccessIsDone == Spec => []SuccessMeansDone
BY InitialProgress, TypeCorrect, LocksStep, AttemptsStep, ProgressStep, ExitStep,
   PTL DEF Spec

-----------------------------------------------------------------------------
(* The configs.  From the start of a worker on, the configs, the context   *)
(* and what a container has read of them agree.                            *)

\* A worker has a container only while it waits for it, or is dead.
Places == \A w \in Workers : pc[w] \notin {"wait", "dead"} => box[w] = "none"

LEMMA PlacesStep ==
    ASSUME TypeOK, Places, [Next]_vars
    PROVE  Places'
<1>1. ASSUME UNCHANGED <<pc, box>> PROVE Places'
  BY <1>1 DEF Places
<1>2. ASSUME NEW w \in Workers,
             \/ LaunchForeground(w) \/ CheckJob(w) \/ Spawn(w) \/ RecordJob(w)
             \/ Boot(w) \/ StackUp(w) \/ Inspect(w) \/ KillLauncher(w) \/ KillWorker(w)
      PROVE  Places'
  BY <1>2 DEF LaunchForeground, CheckJob, Spawn, RecordJob, Boot, StackUp, Inspect,
              Leave, KillLauncher, KillWorker, boxes, Places, TypeOK
<1>3. ASSUME NEW w \in Workers, StartContainer(w) \/ Collect(w) PROVE Places'
  BY <1>3 DEF StartContainer, Collect, Proceed, Leave, Places, TypeOK
<1>4. ASSUME NEW w \in Workers,
             \/ Acquire(w) \/ Create(w) \/ RecordRun(w) \/ Reopen(w) \/ Succeed(w)
             \/ Stop(w) \/ FailUnrecorded(w) \/ KillContainer(w)
      PROVE  Places'
  <2>1. box[w] # "none" /\ UNCHANGED pc
    BY <1>4 DEF Acquire, Create, RecordRun, Reopen, Succeed, Stop, FailUnrecorded,
                KillContainer, workers
  <2>2. \A v \in Workers : v # w => box'[v] = box[v]
    BY <1>4 DEF Acquire, Create, RecordRun, Reopen, Succeed, Stop, FailUnrecorded,
                KillContainer, End, Step, TypeOK
  <2>3. QED
    BY <2>1, <2>2 DEF Places
<1>5. ASSUME NEW e \in Entries, EditConfig(e) \/ DamageRun(e) PROVE Places'
  BY <1>1, <1>5 DEF EditConfig, DamageRun, workers, boxes
<1>6. CASE UNCHANGED vars \/ ReadConfigs \/ WritePrepared \/ PrepareFails
  BY <1>1, <1>6 DEF vars, workers, boxes, ReadConfigs, WritePrepared, PrepareFails
<1>7. QED
  BY <1>2, <1>3, <1>4, <1>5, <1>6, Steps

Going(w) == box[w] \notin {"none", "ended"}
Begun(w) == pc[w] \notin {"unused", "boot"} \cup Finished \/ Going(w)

Agreed ==
    /\ \A w \in Workers : Begun(w) => InputsVerified
    /\ \A w \in Workers : Going(w) /\ op[w] = "run" => reads[w] = prepared[entry[w]]

Sources ==
    /\ \A e \in Entries : run[e] = "absent" => source[e] = 0
    /\ \A e \in Entries : source[e] # 0 => source[e] = prepared[e]

\* The context is written over only while no worker has begun and nothing of
\* it is used; a config is edited only while no worker has begun.
LEMMA ContextStep ==
    ASSUME [Next]_vars
    PROVE  /\ PastBoot => UNCHANGED <<config, prepared>>
           /\ source # Unlocked => UNCHANGED prepared
<1>1. ASSUME NEW e \in Entries, EditConfig(e) PROVE ~ PastBoot /\ UNCHANGED prepared
  BY <1>1 DEF EditConfig
<1>2. CASE WritePrepared
  BY <1>2 DEF WritePrepared
<1>3. CASE UNCHANGED vars \/ ReadConfigs \/ PrepareFails
  BY <1>3 DEF vars, operator, ReadConfigs, PrepareFails
<1>4. ASSUME NEW e \in Entries, DamageRun(e) PROVE UNCHANGED <<config, prepared>>
  BY <1>4 DEF DamageRun, operator
<1>5. ASSUME NEW w \in Workers,
             \/ LaunchForeground(w) \/ CheckJob(w) \/ Spawn(w) \/ RecordJob(w)
             \/ Boot(w) \/ StackUp(w) \/ Inspect(w) \/ StartContainer(w)
             \/ Collect(w) \/ KillLauncher(w) \/ KillWorker(w)
      PROVE  UNCHANGED <<config, prepared>>
  BY <1>5 DEF LaunchForeground, CheckJob, Spawn, RecordJob, Boot, StackUp, Inspect,
              StartContainer, Collect, Proceed, KillLauncher, KillWorker, operator
<1>6. ASSUME NEW w \in Workers,
             \/ Acquire(w) \/ Create(w) \/ RecordRun(w) \/ Reopen(w) \/ Succeed(w)
             \/ Stop(w) \/ FailUnrecorded(w) \/ KillContainer(w)
      PROVE  UNCHANGED <<config, prepared>>
  BY <1>6 DEF Acquire, Create, RecordRun, Reopen, Succeed, Stop, FailUnrecorded,
              KillContainer, operator
<1>7. QED
  BY <1>1, <1>2, <1>3, <1>4, <1>5, <1>6, Steps

\* Who begins has verified the context.
LEMMA BeginStep ==
    ASSUME TypeOK, Agreed, [Next]_vars, NEW w \in Workers, Begun(w)'
    PROVE  InputsVerified'
<1>1. ASSUME NEW v \in Workers, Begun(v) PROVE InputsVerified'
  <2>1. PastBoot /\ InputsVerified
    BY <1>1 DEF PastBoot, Begun, Going, Agreed
  <2>2. QED
    BY <2>1, ContextStep DEF InputsVerified
<1>2. ASSUME InputsVerified, UNCHANGED <<config, prepared>> PROVE InputsVerified'
  BY <1>2 DEF InputsVerified
<1>3. ASSUME NEW v \in Workers, LaunchForeground(v) \/ Boot(v) PROVE InputsVerified'
  <2>1. CASE InputsVerified
    BY <1>2, <1>3, <2>1 DEF LaunchForeground, Boot, operator
  <2>2. CASE ~ InputsVerified
    <3>1. Begun(w)
      BY <1>3, <2>2 DEF LaunchForeground, Boot, boxes, Begun, Going, Finished, TypeOK
    <3>2. QED
      BY <1>1, <3>1
  <2>3. QED
    BY <2>1, <2>2
<1>4. ASSUME UNCHANGED <<pc, box>> PROVE InputsVerified'
  BY <1>1, <1>4 DEF Begun, Going
<1>5. ASSUME NEW v \in Workers,
             \/ CheckJob(v) \/ Spawn(v) \/ RecordJob(v) \/ KillLauncher(v) \/ KillWorker(v)
      PROVE  InputsVerified'
  <2>1. Begun(w)
    BY <1>5 DEF CheckJob, Spawn, RecordJob, KillLauncher, KillWorker, boxes, Begun,
                Going, Finished, TypeOK
  <2>2. QED
    BY <1>1, <2>1
<1>6. ASSUME NEW v \in Workers,
             \/ StackUp(v) \/ Inspect(v) \/ StartContainer(v) \/ Collect(v)
      PROVE  InputsVerified'
  <2>1. Begun(v)
    BY <1>6 DEF StackUp, Inspect, StartContainer, Collect, Proceed, Begun, Finished
  <2>2. QED
    BY <1>1, <2>1
<1>7. ASSUME NEW v \in Workers,
             \/ Acquire(v) \/ Create(v) \/ RecordRun(v) \/ Reopen(v) \/ Succeed(v)
             \/ Stop(v) \/ FailUnrecorded(v) \/ KillContainer(v)
      PROVE  InputsVerified'
  <2>1. Begun(v)
    BY <1>7 DEF Acquire, Create, RecordRun, Reopen, Succeed, Stop, FailUnrecorded,
                KillContainer, Begun, Going
  <2>2. QED
    BY <1>1, <2>1
<1>8. ASSUME NEW e \in Entries, EditConfig(e) \/ DamageRun(e) PROVE InputsVerified'
  BY <1>4, <1>8 DEF EditConfig, DamageRun, workers, boxes
<1>9. CASE UNCHANGED vars \/ ReadConfigs \/ WritePrepared \/ PrepareFails
  BY <1>4, <1>9 DEF vars, workers, boxes, ReadConfigs, WritePrepared, PrepareFails
<1>10. QED
  BY <1>3, <1>4, <1>5, <1>6, <1>7, <1>8, <1>9, Steps

\* A container that runs an entry has read the config its batch locked.
LEMMA ReadStep ==
    ASSUME TypeOK, Places, Agreed, [Next]_vars, NEW w \in Workers,
           Going(w)', op'[w] = "run"
    PROVE  reads'[w] = prepared'[entry'[w]]
<1>1. ASSUME Going(w), op'[w] = op[w], entry'[w] = entry[w], reads'[w] = reads[w]
      PROVE  reads'[w] = prepared'[entry'[w]]
  <2>1. PastBoot
    BY <1>1 DEF PastBoot, Going
  <2>2. QED
    BY <1>1, <2>1, ContextStep DEF Agreed
<1>2. ASSUME UNCHANGED <<op, entry, boxes>> PROVE reads'[w] = prepared'[entry'[w]]
  BY <1>1, <1>2 DEF Going, boxes
<1>3. ASSUME NEW v \in Workers, StartContainer(v) PROVE reads'[w] = prepared'[entry'[w]]
  <2>1. CASE v = w /\ ~ (op[w] = "resume" /\ run[entry[w]] \in {"absent", "bare"})
    <3>1. Begun(w)
      BY <1>3, <2>1 DEF StartContainer, Begun, Finished
    <3>2. InputsVerified
      BY <3>1 DEF Agreed
    <3>3. reads'[w] = config[entry[w]] /\ UNCHANGED <<operator, entry>>
      BY <1>3, <2>1 DEF StartContainer, TypeOK
    <3>4. QED
      BY <3>2, <3>3 DEF InputsVerified, operator
  <2>2. CASE v = w /\ op[w] = "resume" /\ run[entry[w]] \in {"absent", "bare"}
    BY <1>3, <2>2 DEF StartContainer, Going, TypeOK
  <2>3. CASE v # w
    BY <1>1, <1>3, <2>3 DEF StartContainer, Going, TypeOK
  <2>4. QED
    BY <2>1, <2>2, <2>3
<1>4. ASSUME NEW v \in Workers, Collect(v) PROVE reads'[w] = prepared'[entry'[w]]
  BY <1>1, <1>4 DEF Collect, Proceed, Going, TypeOK
<1>5. ASSUME NEW v \in Workers, Inspect(v) PROVE reads'[w] = prepared'[entry'[w]]
  <2>1. CASE v # w
    BY <1>1, <1>5, <2>1 DEF Inspect, Leave, boxes, Going, TypeOK
  <2>2. CASE v = w
    BY <1>5, <2>2 DEF Inspect, boxes, Going, Places
  <2>3. QED
    BY <2>1, <2>2
<1>6. ASSUME NEW v \in Workers,
             \/ Acquire(v) \/ Create(v) \/ RecordRun(v) \/ Reopen(v) \/ Succeed(v)
             \/ Stop(v) \/ FailUnrecorded(v) \/ KillContainer(v)
      PROVE  reads'[w] = prepared'[entry'[w]]
  <2>1. UNCHANGED <<op, entry>>
    BY <1>6 DEF Acquire, Create, RecordRun, Reopen, Succeed, Stop, FailUnrecorded,
                KillContainer, workers
  <2>2. Going(w) /\ reads'[w] = reads[w]
    BY <1>6 DEF Acquire, Create, RecordRun, Reopen, Succeed, Stop, FailUnrecorded,
                KillContainer, End, Step, Going, TypeOK
  <2>3. QED
    BY <1>1, <2>1, <2>2
<1>7. ASSUME NEW v \in Workers,
             \/ LaunchForeground(v) \/ CheckJob(v) \/ Spawn(v) \/ RecordJob(v)
             \/ Boot(v) \/ StackUp(v) \/ KillLauncher(v) \/ KillWorker(v)
      PROVE  UNCHANGED <<op, entry, boxes>>
  BY <1>7 DEF LaunchForeground, CheckJob, Spawn, RecordJob, Boot, StackUp,
              KillLauncher, KillWorker
<1>8. ASSUME NEW e \in Entries, EditConfig(e) \/ DamageRun(e)
      PROVE  UNCHANGED <<op, entry, boxes>>
  BY <1>8 DEF EditConfig, DamageRun, workers
<1>9. CASE UNCHANGED vars \/ ReadConfigs \/ WritePrepared \/ PrepareFails
  BY <1>2, <1>9 DEF vars, workers, ReadConfigs, WritePrepared, PrepareFails
<1>10. QED
  BY <1>2, <1>3, <1>4, <1>5, <1>6, <1>7, <1>8, <1>9, Steps

LEMMA AgreedStep ==
    ASSUME TypeOK, Places, Agreed, [Next]_vars
    PROVE  Agreed'
BY BeginStep, ReadStep DEF Agreed

\* The source of a run is written once, when the run is created.
LEMMA SourceStep ==
    ASSUME TypeOK, Agreed, Sources, [Next]_vars, NEW e \in Entries
    PROVE  /\ source[e] # 0 => source'[e] = source[e]
           /\ source'[e] # source[e] =>
                source'[e] = prepared[e] /\ run'[e] # "absent" /\ UNCHANGED prepared
<1>1. CASE UNCHANGED source
  BY <1>1
<1>2. ASSUME NEW w \in Workers, Create(w), source' # source
      PROVE  /\ source[e] # 0 => source'[e] = source[e]
             /\ source'[e] # source[e] =>
                  source'[e] = prepared[e] /\ run'[e] # "absent" /\ UNCHANGED prepared
  <2>1. Going(w) /\ op[w] = "run" /\ run[entry[w]] = "absent" /\ UNCHANGED prepared
    BY <1>2 DEF Create, Going, operator
  <2>2. reads[w] = prepared[entry[w]]
    BY <2>1 DEF Agreed
  <2>3. source[entry[w]] = 0
    BY <2>1 DEF Sources, TypeOK
  <2>4. /\ source' = [source EXCEPT ![entry[w]] = prepared[entry[w]]]
        /\ run' = [run EXCEPT ![entry[w]] = "bare"]
    BY <1>2, <2>1, <2>2 DEF Create
  <2>5. QED
    BY <2>1, <2>3, <2>4 DEF TypeOK
<1>3. ASSUME NEW w \in Workers,
             \/ Acquire(w) \/ RecordRun(w) \/ Reopen(w) \/ Succeed(w)
             \/ Stop(w) \/ FailUnrecorded(w) \/ KillContainer(w)
      PROVE  UNCHANGED source
  BY <1>3 DEF Acquire, RecordRun, Reopen, Succeed, Stop, FailUnrecorded, KillContainer
<1>4. ASSUME NEW w \in Workers,
             \/ LaunchForeground(w) \/ CheckJob(w) \/ Spawn(w) \/ RecordJob(w)
             \/ Boot(w) \/ StackUp(w) \/ Inspect(w) \/ StartContainer(w)
             \/ Collect(w) \/ KillLauncher(w) \/ KillWorker(w)
      PROVE  UNCHANGED source
  BY <1>4 DEF LaunchForeground, CheckJob, Spawn, RecordJob, Boot, StackUp, Inspect,
              StartContainer, Collect, Proceed, KillLauncher, KillWorker, runs
<1>5. ASSUME NEW f \in Entries, EditConfig(f) \/ DamageRun(f) PROVE UNCHANGED source
  BY <1>5 DEF EditConfig, DamageRun, runs
<1>6. CASE UNCHANGED vars \/ ReadConfigs \/ WritePrepared \/ PrepareFails
  BY <1>1, <1>6 DEF vars, runs, ReadConfigs, WritePrepared, PrepareFails
<1>7. QED
  BY <1>1, <1>2, <1>3, <1>4, <1>5, <1>6, Steps

LEMMA SourcesStep ==
    ASSUME TypeOK, Locks, Attempts, Agreed, Sources, [Next]_vars
    PROVE  Sources'
<1>1. ASSUME NEW e \in Entries, run'[e] = "absent" PROVE source'[e] = 0
  <2>1. run[e] = "absent"
    BY <1>1, RunStep
  <2>2. QED
    BY <1>1, <2>1, SourceStep DEF Sources
<1>2. ASSUME NEW e \in Entries, source'[e] # 0 PROVE source'[e] = prepared'[e]
  <2>1. CASE source'[e] = source[e]
    <3>1. source[e] # 0 /\ source[e] = prepared[e]
      BY <1>2, <2>1 DEF Sources
    <3>2. source # Unlocked
      BY <3>1 DEF Unlocked
    <3>3. QED
      BY <2>1, <3>1, <3>2, ContextStep
  <2>2. CASE source'[e] # source[e]
    BY <2>2, SourceStep
  <2>3. QED
    BY <2>1, <2>2
<1>3. QED
  BY <1>1, <1>2 DEF Sources

\* Every run comes from the config its batch locked, though configs may be
\* edited, and the batch prepared again, until a worker has taken over; no run
\* is created twice, and a published one is never opened again.
THEOREM RunsArePrepared == Spec => RunsAsPrepared
<1> DEFINE Kept == \A e \in Entries :
              /\ run[e] \in {"completed", "corrupt"} => run'[e] \in {"completed", "corrupt"}
              /\ source[e] # 0 => source'[e] = source[e]
           Locked == \A e \in Entries : source[e] # 0 => source[e] = prepared[e]
           IInv == TypeOK /\ Locks /\ Attempts /\ Places /\ Agreed /\ Sources
<1>1. Init => IInv
  <2>1. SUFFICES ASSUME Init PROVE IInv
    OBVIOUS
  <2>2. Places /\ Agreed /\ Sources
    BY <2>1, EntriesAssumption DEF Init, Places, Agreed, Begun, Going, Sources, Unlocked, Entries
  <2>3. QED
    BY <2>1, <2>2, InitialTypes, InitialProgress
<1>2. IInv /\ [Next]_vars => IInv'
  BY TypeStep, LocksStep, AttemptsStep, PlacesStep, AgreedStep, SourcesStep
<1>3. IInv /\ [Next]_vars => [Kept]_vars
  BY RunStep, SourceStep
<1>4. IInv => Locked
  BY DEF Sources
<1>5. QED
  BY <1>1, <1>2, <1>3, <1>4, PTL DEF Spec, RunsAsPrepared
=============================================================================
