-------------------------- MODULE UnitMemory_proofs --------------------------
(***************************************************************************)
(* The answers of a committed unit are from its whole memory, and what is  *)
(* left of that memory is what the retention policy says: for every number *)
(* of runs, units, batches, questions and faults, and every size of DMF's  *)
(* window.  And the frameworks in the run directory answer from a memory   *)
(* whose origin is as they say, for every number of events, entries, notes *)
(* and results.                                                            *)
(***************************************************************************)
EXTENDS UnitMemory, EmbeddedUnits, Sums, TLAPS

Assumed == SizeAssumption /\ SettingsAssumption /\ FaultsAssumption

-----------------------------------------------------------------------------
(* The inductive invariant. *)

NoLate(n) == \A q \in late : q.at # n
NoLateCopy(n) == \A q \in late : q.op = "add" => q.at # n
AllThere(n) == \A role \in Roles : collection[n][role] = "there"

\* An attempt is at a unit between the first deletion and the commit.
AtUnit == {"delete", "poll", "reset", "absent", "build", "ingest", "undo", "undone"}
          \cup Working

\* It is at a unit that is not committed, and goes on to others that are not.
Plan(r) ==
    /\ \A u \in todo[r] : checkpoint[<<r, u>>] # "COMMITTED"
    /\ pc[r] \in AtUnit => /\ unit[r] \notin todo[r]
                          /\ checkpoint[At(r)] # "COMMITTED"

\* The copies of a batch that its process can ask: in the collection, or in
\* DMF's window of records.
Held(r, b) == points[At(r)][b] + (IF b \in active[r] THEN 1 ELSE 0)

\* An ingestion has lost nothing, or nothing was added twice.
Lossless(r) == \A b \in Batches : b < batch[r] => Held(r, b) >= 1
Unrepeated(r) ==
    /\ NoLateCopy(At(r))
    /\ \A b \in Batches : Held(r, b) <= (IF b < batch[r] THEN 1 ELSE 0)

\* A collection that is gone stays so until the ingestion has failed on it.
Ingesting(r) ==
    pc[r] = "ingest" =>
        /\ added[r] = batch[r] - 1
        /\ active[r] \subseteq {b \in Batches : b < batch[r]}
        /\ framework = "mem0" => active[r] = {}
        /\ file[At(r)]
        /\ AllThere(At(r)) \/ NoLate(At(r))
        /\ collection[At(r)]["primary"] = "there" => Lossless(r) \/ Unrepeated(r)

\* The barrier leaves a memory that is whole, and no request on its way.
Asking(r) ==
    pc[r] \in {"predict", "verify", "ask"} =>
        /\ AllThere(At(r)) /\ file[At(r)]
        /\ \A b \in Batches : Held(r, b) = 1
        /\ framework = "mem0" => active[r] = {}

Quiet(r) == pc[r] \in Working => NoLate(At(r))

Asked(r) ==
    /\ pc[r] = "ask" =>
          \A q \in Questions : q < question[r] => answer[At(r)][q] = Whole
    /\ pc[r] = "verify" => question[r] = 1
    /\ pc[r] \in {"forget", "forgetting", "forgotten", "commit"} =>
          \A q \in Questions : answer[At(r)][q] = Whole

\* The policy is carried out, and then recorded.
Dealt(n) ==
    IF retention = "keep" THEN AllThere(n) /\ file[n] ELSE Absent(n) /\ ~ file[n]
Retaining(r) ==
    /\ pc[r] \in {"forget", "forgetting"} => retention # "keep"
    /\ pc[r] \in {"forgotten", "commit"} => Dealt(At(r))
    /\ pc[r] = "commit" =>
          retained[At(r)] = IF retention = "keep" THEN "kept" ELSE "deleted"

\* What holds of a run, whatever its process is at.
RunInv(r) == Plan(r) /\ Ingesting(r) /\ Asking(r) /\ Quiet(r) /\ Asked(r) /\ Retaining(r)

\* What holds of a unit that is committed.
UnitInv(o) ==
    checkpoint[o] = "COMMITTED" =>
        /\ NoLate(o) /\ Dealt(o)
        /\ retained[o] = IF retention = "keep" THEN "kept" ELSE "deleted"
        /\ \A q \in Questions : answer[o][q] = Whole

OneLate == \A p, q \in late : p = q

IInv ==
    /\ TypeOK /\ OneLate
    /\ \A r \in Runs : RunInv(r)
    /\ \A o \in Owners : UnitInv(o)
-----------------------------------------------------------------------------
(* Steps, and what they leave alone. *)

LEMMA Constants ==
    ASSUME Assumed
    PROVE  /\ LastUnit \in Nat /\ LastBatch \in Nat /\ LastQuestion \in Nat /\ Window \in Nat
           /\ LastUnit >= 1 /\ LastBatch >= 1 /\ LastQuestion >= 1 /\ MaxFaults \in Nat
           /\ Frameworks \subseteq {"dmf", "mem0"} /\ Schemas \subseteq {2, 3}
BY DEF Assumed, SizeAssumption, SettingsAssumption, FaultsAssumption

RunStep(r) == Step(r) \/ Mishap(r)

\* What the proofs are told of a step: whose it is.
LEMMA Steps ==
    ASSUME [Next]_vars
    PROVE  \/ UNCHANGED vars
           \/ \E r \in Runs : RunStep(r)
           \/ \E n \in Owners, role \in Roles : Vanish(n, role)
           \/ \E q \in late : Arrive(q)
BY DEF Next, RunStep, Server

LEMMA NameIs == \A r : Name(r) = At(r)
BY DEF Name, Namespace, At

LEMMA Requests ==
    ASSUME TypeOK, NEW q \in late
    PROVE  \/ q.op \in {"create", "delete"} /\ q.at \in Owners /\ q.role \in Roles
           \/ q.op = "add" /\ q.at \in Owners /\ q.batch \in Batches
BY DEF TypeOK

\* Who writes what.
LEMMA Writers ==
    ASSUME NEW r \in Runs, RunStep(r)
    PROVE  /\ UNCHANGED settings
           /\ \/ UNCHANGED collection
              \/ Delete(r) \/ BuildDmf(r) \/ BuildMem0(r)
           /\ \/ UNCHANGED points
              \/ BuildDmf(r) \/ BuildMem0(r) \/ AddToDmf(r) \/ AddToMem0(r)
           /\ \/ UNCHANGED file
              \/ Unlink(r) \/ BuildDmf(r) \/ BuildMem0(r)
           /\ UNCHANGED late \/ Barrier(r) \/ Kill(r) \/ Fail(r)
           /\ UNCHANGED checkpoint \/ Reset(r) \/ Predict(r) \/ Commit(r)
           /\ UNCHANGED answer \/ Reset(r) \/ Ask(r)
           /\ UNCHANGED retained \/ Reset(r) \/ RecordRetention(r)
           /\ UNCHANGED todo \/ Start(r) \/ NextUnit(r)
           /\ UNCHANGED unit \/ NextUnit(r)
           /\ UNCHANGED question \/ Predict(r) \/ Ask(r)
           /\ UNCHANGED stopping \/ Start(r) \/ RequestStop(r)
           /\ \/ UNCHANGED <<batch, added>>
              \/ BuildDmf(r) \/ BuildMem0(r) \/ AddToDmf(r) \/ AddToMem0(r) \/ LoseRecord(r)
           /\ \/ UNCHANGED active
              \/ BuildDmf(r) \/ BuildMem0(r) \/ AddToDmf(r) \/ LoseRecord(r)
              \/ Commit(r) \/ Kill(r) \/ Fail(r)
<1> USE DEF settings, server, files, process, engine
<1>1. CASE Start(r)
  BY <1>1 DEF Start
<1>2. CASE Check(r)
  BY <1>2 DEF Check
<1>3. CASE NextUnit(r)
  BY <1>3 DEF NextUnit
<1>4. CASE End(r)
  BY <1>4 DEF End
<1>5. CASE Stop(r)
  BY <1>5 DEF Stop
<1>6. CASE Delete(r)
  BY <1>6 DEF Delete
<1>7. CASE Unlink(r)
  BY <1>7 DEF Unlink
<1>8. CASE Recheck(r)
  BY <1>8 DEF Recheck
<1>9. CASE GiveUp(r)
  BY <1>9 DEF GiveUp
<1>10. CASE Reset(r)
  BY <1>10 DEF Reset
<1>11. CASE AssertAbsent(r)
  BY <1>11 DEF AssertAbsent
<1>12. CASE BuildDmf(r)
  BY <1>12 DEF BuildDmf
<1>13. CASE BuildMem0(r)
  BY <1>13 DEF BuildMem0
<1>14. CASE AddToDmf(r)
  BY <1>14 DEF AddToDmf
<1>15. CASE AddToMem0(r)
  BY <1>15 DEF AddToMem0
<1>16. CASE AddNowhere(r)
  BY <1>16 DEF AddNowhere
<1>17. CASE Barrier(r)
  BY <1>17 DEF Barrier
<1>18. CASE Predict(r)
  BY <1>18 DEF Predict
<1>19. CASE Verify(r)
  BY <1>19 DEF Verify
<1>20. CASE Ask(r)
  BY <1>20 DEF Ask
<1>21. CASE Gather(r)
  BY <1>21 DEF Gather
<1>22. CASE RecordRetention(r)
  BY <1>22 DEF RecordRetention
<1>23. CASE Commit(r)
  BY <1>23 DEF Commit
<1>24. CASE FailExtraction(r)
  BY <1>24 DEF FailExtraction
<1>25. CASE LoseRecord(r)
  BY <1>25 DEF LoseRecord
<1>26. CASE Kill(r)
  BY <1>26 DEF Kill
<1>27. CASE Fail(r)
  BY <1>27 DEF Fail
<1>28. CASE RequestStop(r)
  BY <1>28 DEF RequestStop
<1>29. QED
  BY <1>1, <1>2, <1>3, <1>4, <1>5, <1>6, <1>7, <1>8, <1>9, <1>10, <1>11, <1>12, <1>13, <1>14, <1>15, <1>16, <1>17, <1>18, <1>19, <1>20, <1>21, <1>22, <1>23, <1>24, <1>25, <1>26, <1>27, <1>28 DEF RunStep, Step, Mishap

-----------------------------------------------------------------------------
(* Types. *)

LEMMA Basics ==
    ASSUME Assumed, TypeOK, NEW r \in Runs
    PROVE  /\ At(r) \in Owners /\ unit[r] \in Units /\ 1 \in Units
           /\ Name(r) = At(r) /\ NoCopies \in Copies
           /\ "primary" \in Roles /\ "second" \in Roles
           /\ \A u \in Units : <<r, u>> \in Owners
BY Constants, NameIs DEF TypeOK, At, Owners, Units, NoCopies, Copies, Roles

\* A copy more of some batches.
LEMMA StoredIs ==
    ASSUME points \in [Owners -> Copies], NEW n \in Owners, NEW S
    PROVE  /\ Stored(n, S) \in [Owners -> Copies]
           /\ \A o \in Owners : o # n => Stored(n, S)[o] = points[o]
           /\ \A b \in Batches :
                 Stored(n, S)[n][b] = points[n][b] + (IF b \in S THEN 1 ELSE 0)
<1>1. points[n] \in Copies
  OBVIOUS
<1>2. [b \in Batches |-> IF b \in S THEN points[n][b] + 1 ELSE points[n][b]] \in Copies
  BY <1>1 DEF Copies
<1>3. QED
  BY <1>1, <1>2 DEF Stored, Copies

\* The places of an attempt, and the status it writes.
PlacesOfRun == {"idle", "next", "delete", "poll", "reset", "absent", "build", "ingest",
                "undo", "undone", "predict", "verify", "ask", "forget", "forgetting",
                "forgotten", "commit", "checked", "over"}
StatusOfRun == {"none", "RUNNING", "PARTIAL", "INTERRUPTED", "FAILED_RUNNING"}

LEMMA Polled ==
    /\ Waits["delete"] = "poll" /\ Waits["undo"] = "undone" /\ Waits["forget"] = "forgetting"
    /\ Removed["poll"] = "reset" /\ Removed["undone"] = "idle"
    /\ Removed["forgetting"] = "forgotten"
BY DEF Waits, Removed

LEMMA Moves ==
    ASSUME Assumed, TypeOK, NEW r \in Runs, RunStep(r)
    PROVE  /\ pc' \in [Runs -> PlacesOfRun] /\ \A s \in Runs : s # r => pc'[s] = pc[s]
           /\ status' \in [Runs -> StatusOfRun]
           /\ faults' \in 0 .. MaxFaults
<1> DEFINE Moved == pc' = pc \/ \E p \in PlacesOfRun : pc' = [pc EXCEPT ![r] = p]
           Told == status' = status \/ \E s \in StatusOfRun : status' = [status EXCEPT ![r] = s]
           Counted == faults' = faults \/ (faults < MaxFaults /\ faults' = faults + 1)
<1> USE DEF Goto, WriteStatus, NoFault, Fault, PlacesOfRun, StatusOfRun
<1>1. ASSUME Start(r) \/ Check(r) \/ NextUnit(r) \/ End(r) \/ Stop(r) PROVE Moved /\ Told /\ Counted
  BY <1>1 DEF Start, Check, NextUnit, End, Stop
<1>2. ASSUME Delete(r) PROVE Moved /\ Told /\ Counted
  BY <1>2, Polled DEF Delete, Deleting
<1>3. ASSUME Unlink(r) PROVE Moved /\ Told /\ Counted
  BY <1>3, Polled DEF Unlink, Polling
<1>4. ASSUME Recheck(r) \/ GiveUp(r) \/ Reset(r) \/ AssertAbsent(r) PROVE Moved /\ Told /\ Counted
  BY <1>4 DEF Recheck, GiveUp, Reset, AssertAbsent
<1>5. ASSUME BuildDmf(r) PROVE Moved /\ Told /\ Counted
  BY <1>5 DEF BuildDmf
<1>6. ASSUME BuildMem0(r) \/ AddNowhere(r) \/ FailExtraction(r) PROVE Moved /\ Told /\ Counted
  BY <1>6 DEF BuildMem0, AddNowhere, FailExtraction
<1>7. ASSUME AddToDmf(r) \/ AddToMem0(r) \/ LoseRecord(r) PROVE Moved /\ Told /\ Counted
  BY <1>7 DEF AddToDmf, AddToMem0, LoseRecord
<1>8. ASSUME Barrier(r) \/ Predict(r) \/ Verify(r) \/ Ask(r) \/ Gather(r) PROVE Moved /\ Told /\ Counted
  BY <1>8 DEF Barrier, Predict, Verify, Ask, Gather
<1>9. ASSUME RecordRetention(r) \/ Commit(r) \/ Kill(r) \/ RequestStop(r) PROVE Moved /\ Told /\ Counted
  BY <1>9 DEF RecordRetention, Commit, Kill, RequestStop
<1>10. ASSUME Fail(r) PROVE Moved /\ Told /\ Counted
  BY <1>10 DEF Fail
<1>11. Moved /\ Told /\ Counted
  BY <1>1, <1>2, <1>3, <1>4, <1>5, <1>6, <1>7, <1>8, <1>9, <1>10 DEF RunStep, Step, Mishap
<1>12. pc \in [Runs -> PlacesOfRun] /\ status \in [Runs -> StatusOfRun] /\ faults \in 0 .. MaxFaults
  BY DEF TypeOK
<1> HIDE DEF PlacesOfRun, StatusOfRun
<1>13. QED
  BY <1>11, <1>12, Constants

\* The server and the files after a step of a run.
LEMMA OwnedTypes ==
    ASSUME Assumed, TypeOK, NEW r \in Runs, RunStep(r)
    PROVE  /\ collection' \in [Owners -> [Roles -> {"absent", "there", "deleting"}]]
           /\ points' \in [Owners -> Copies] /\ file' \in [Owners -> BOOLEAN]
           /\ checkpoint' \in [Owners -> Progress]
           /\ answer' \in [Owners -> [Questions -> Copies]]
           /\ retained' \in [Owners -> {"none", "kept", "deleted"}]
<1>0. /\ At(r) \in Owners /\ Name(r) = At(r) /\ NoCopies \in Copies
      /\ collection \in [Owners -> [Roles -> {"absent", "there", "deleting"}]]
      /\ points \in [Owners -> Copies] /\ file \in [Owners -> BOOLEAN]
      /\ checkpoint \in [Owners -> Progress]
      /\ answer \in [Owners -> [Questions -> Copies]]
      /\ retained \in [Owners -> {"none", "kept", "deleted"}]
  BY Basics DEF TypeOK
<1>1. collection' \in [Owners -> [Roles -> {"absent", "there", "deleting"}]]
  <2>1. \/ collection' = collection
        \/ \E c \in [Roles -> {"absent", "there", "deleting"}] :
              collection' = [collection EXCEPT ![At(r)] = c]
    <3>1. CASE Delete(r)
      BY <1>0, <3>1 DEF Delete
    <3>2. CASE BuildDmf(r)
      BY <1>0, <3>2 DEF BuildDmf, server
    <3>3. CASE BuildMem0(r)
      BY <1>0, <3>3 DEF BuildMem0
    <3>4. QED
      BY <3>1, <3>2, <3>3, Writers
  <2>2. QED
    BY <1>0, <2>1
<1>2. points' \in [Owners -> Copies]
  <2>1. CASE BuildDmf(r)
    BY <1>0, <2>1 DEF BuildDmf, server
  <2>2. CASE BuildMem0(r)
    <3>1. \/ points' = [points EXCEPT ![At(r)] = points[At(r)]]
          \/ points' = [points EXCEPT ![At(r)] = NoCopies]
      BY <1>0, <2>2 DEF BuildMem0
    <3>2. QED
      BY <1>0, <3>1
  <2>3. CASE AddToDmf(r) \/ AddToMem0(r)
    <3>1. \E S : points' = Stored(At(r), S)
      BY <1>0, <2>3, Zenon DEF AddToDmf, AddToMem0
    <3>2. QED
      BY <1>0, <3>1, StoredIs
  <2>4. QED
    BY <1>0, <2>1, <2>2, <2>3, Writers
<1>3. file' \in [Owners -> BOOLEAN]
  <2>1. \/ file' = file \/ file' = [file EXCEPT ![At(r)] = TRUE]
        \/ file' = [file EXCEPT ![At(r)] = FALSE]
    BY <1>0, Writers, Zenon DEF Unlink, UnlinkLocal, BuildDmf, BuildMem0, server
  <2>2. QED
    BY <1>0, <2>1, Zenon
<1>4. checkpoint' \in [Owners -> Progress]
  BY <1>0, Writers DEF Reset, Predict, Commit, WriteCheckpoint, Progress
<1>5. answer' \in [Owners -> [Questions -> Copies]]
  <2>1. CASE Reset(r)
    BY <1>0, <2>1 DEF Reset, Unasked
  <2>2. CASE Ask(r)
    <3>1. /\ RetrievedFromMem0(r) \in Copies
          /\ RetrievedFromDmf(r) \in Copies
      BY <1>0 DEF RetrievedFromMem0, RetrievedFromDmf, Copies
    <3>2. QED
      BY <1>0, <2>2, <3>1 DEF Ask
  <2>3. QED
    BY <1>0, <2>1, <2>2, Writers
<1>6. retained' \in [Owners -> {"none", "kept", "deleted"}]
  BY <1>0, Writers DEF Reset, RecordRetention
<1>7. QED
  BY <1>1, <1>2, <1>3, <1>4, <1>5, <1>6

Requested == [op : {"create", "delete"}, at : Owners, role : Roles]
             \cup [op : {"add"}, at : Owners, batch : Batches]

\* A step of a run leaves at most one request behind, for what is its own, and
\* only when it ends or undoes an ingestion.
LEMMA LateStep ==
    ASSUME Assumed, TypeOK, OneLate, NEW r \in Runs, RunStep(r)
    PROVE  /\ late' \subseteq Requested /\ OneLate'
           /\ \A q \in late' : q \in late \/ q.at = At(r)
           /\ late' \subseteq late \/ pc'[r] \in {"idle", "undo"}
<1>0. /\ late \subseteq Requested /\ pc \in [Runs -> PlacesOfRun]
      /\ At(r) \in Owners /\ Name(r) = At(r)
      /\ batch[r] \in Nat /\ batch[r] >= 1
  BY Basics, Constants DEF TypeOK, Requested, PlacesOfRun
<1>1. CASE UNCHANGED late
  BY <1>0, <1>1 DEF OneLate
<1>2. CASE Barrier(r)
  <2>1. late' \subseteq late
    BY <1>2 DEF Barrier
  <2>2. QED
    BY <1>0, <2>1 DEF OneLate
<1>3. CASE Kill(r) \/ Fail(r)
  <2>1. LeftBehind(r) /\ pc'[r] \in {"idle", "undo"}
    BY <1>0, <1>3 DEF Kill, Fail
  <2>2. CASE Outlives(r)
    <3>1. PICK q : q \in Requested /\ q.at = At(r) /\ late' = {q}
      <4>1. CASE pc[r] = "ingest" /\ batch[r] <= LastBatch
                 /\ late' = {[op |-> "add", at |-> Name(r), batch |-> batch[r]]}
        <5>1. batch[r] \in Batches
          BY <1>0, <4>1, Constants DEF Batches
        <5>2. QED
          BY <1>0, <4>1, <5>1 DEF Requested
      <4>2. CASE \E role \in Roles :
                    late' = {[op |-> "delete", at |-> Name(r), role |-> role]}
        BY <1>0, <4>2 DEF Requested
      <4>3. CASE \E role \in Roles :
                    late' = {[op |-> "create", at |-> Name(r), role |-> role]}
        BY <1>0, <4>3 DEF Requested
      <4>4. QED
        BY <2>2, <4>1, <4>2, <4>3 DEF Outlives
    <3>2. QED
      BY <2>1, <3>1 DEF OneLate
  <2>3. QED
    BY <1>1, <2>1, <2>2 DEF LeftBehind
<1>4. QED
  BY <1>1, <1>2, <1>3, Writers

\* The first of some units is one of them.
LEMMA FirstOf ==
    ASSUME Assumed, NEW S, S \subseteq Units, S # {}
    PROVE  First(S) \in S
<1>1. S \in SUBSET Nat
  BY Constants DEF Units
<1>2. PICK u \in S : \A v \in S : u <= v
  BY <1>1, Smallest
<1>3. QED
  BY <1>2 DEF First

\* The process after a step of its run; that of another run is as it was.
LEMMA ProcessTypes ==
    ASSUME Assumed, TypeOK, NEW r \in Runs, RunStep(r), Ingesting(r)
    PROVE  /\ todo' \in [Runs -> SUBSET Units] /\ unit' \in [Runs -> Units]
           /\ batch' \in [Runs -> 1 .. LastBatch + 1]
           /\ question' \in [Runs -> 1 .. LastQuestion + 1]
           /\ active' \in [Runs -> SUBSET Batches] /\ added' \in [Runs -> 0 .. LastBatch]
           /\ stopping' \in [Runs -> BOOLEAN]
           /\ \A s \in Runs : s # r =>
                 /\ todo'[s] = todo[s] /\ unit'[s] = unit[s] /\ question'[s] = question[s]
                 /\ batch'[s] = batch[s] /\ active'[s] = active[s] /\ added'[s] = added[s]
<1>0. /\ todo \in [Runs -> SUBSET Units] /\ unit \in [Runs -> Units]
      /\ batch \in [Runs -> 1 .. LastBatch + 1]
      /\ question \in [Runs -> 1 .. LastQuestion + 1]
      /\ active \in [Runs -> SUBSET Batches] /\ added \in [Runs -> 0 .. LastBatch]
      /\ stopping \in [Runs -> BOOLEAN]
      /\ LastBatch \in Nat /\ LastQuestion \in Nat /\ LastBatch >= 1 /\ LastQuestion >= 1
  BY Constants DEF TypeOK
<1>1. /\ todo' \in [Runs -> SUBSET Units] /\ \A s \in Runs : s # r => todo'[s] = todo[s]
  <2>1. \/ todo' = todo \/ \E S \in SUBSET Units : todo' = [todo EXCEPT ![r] = S]
    BY <1>0, Writers DEF Start, NextUnit
  <2>2. QED
    BY <1>0, <2>1
<1>2. unit' \in [Runs -> Units] /\ \A s \in Runs : s # r => unit'[s] = unit[s]
  <2>1. CASE NextUnit(r)
    <3>1. First(todo[r]) \in Units /\ unit' = [unit EXCEPT ![r] = First(todo[r])]
      BY <1>0, <2>1, FirstOf DEF NextUnit
    <3>2. QED
      BY <1>0, <3>1
  <2>2. QED
    BY <1>0, <2>1, Writers
<1>3. question' \in [Runs -> 1 .. LastQuestion + 1]
      /\ \A s \in Runs : s # r => question'[s] = question[s]
  BY <1>0, Writers DEF Predict, Ask
<1>4. stopping' \in [Runs -> BOOLEAN]
  <2>1. \/ stopping' = stopping \/ stopping' = [stopping EXCEPT ![r] = TRUE]
        \/ stopping' = [stopping EXCEPT ![r] = FALSE]
    BY Writers, Zenon DEF Start, RequestStop
  <2>2. QED
    BY <1>0, <2>1, Zenon
<1>5. /\ batch' \in [Runs -> 1 .. LastBatch + 1] /\ added' \in [Runs -> 0 .. LastBatch]
      /\ \A s \in Runs : s # r => batch'[s] = batch[s] /\ added'[s] = added[s]
  <2>1. CASE BuildDmf(r) \/ BuildMem0(r)
    BY <1>0, <2>1 DEF BuildDmf, BuildMem0, NewEngine
  <2>2. CASE AddToDmf(r) \/ AddToMem0(r) \/ LoseRecord(r)
    <3>1. pc[r] = "ingest" /\ batch[r] <= LastBatch /\ Reported(r)
      BY <2>2 DEF AddToDmf, AddToMem0, LoseRecord
    <3>2. added[r] = batch[r] - 1
      BY <3>1 DEF Ingesting
    <3>3. QED
      BY <1>0, <3>1, <3>2 DEF Reported
  <2>3. QED
    BY <1>0, <2>1, <2>2, Writers
<1>6. /\ active' \in [Runs -> SUBSET Batches]
      /\ \A s \in Runs : s # r => active'[s] = active[s]
  <2>1. CASE BuildDmf(r) \/ BuildMem0(r) \/ Commit(r) \/ Kill(r) \/ Fail(r)
    <3>1. active' = [active EXCEPT ![r] = {}]
      BY <2>1 DEF BuildDmf, BuildMem0, NewEngine, Commit, Kill, Fail
    <3>2. QED
      BY <1>0, <3>1
  <2>2. CASE AddToDmf(r) \/ LoseRecord(r)
    <3>1. batch[r] \in Batches
      BY <1>0, <2>2 DEF AddToDmf, LoseRecord, Batches
    <3>2. \E S : S \subseteq active[r] \cup {batch[r]} /\ active' = [active EXCEPT ![r] = S]
      <4>1. CASE AddToDmf(r)
        BY <4>1 DEF AddToDmf
      <4>2. CASE LoseRecord(r)
        <5>1. \/ active' = [active EXCEPT ![r] =
                    (active[r] \cup {batch[r]}) \ Archived(active[r] \cup {batch[r]})]
              \/ active' = [active EXCEPT ![r] = {}]
          BY <1>0, <4>2 DEF LoseRecord
        <5>2. QED
          BY <5>1
      <4>3. QED
        BY <2>2, <4>1, <4>2
    <3>3. QED
      BY <1>0, <3>1, <3>2
  <2>3. QED
    BY <1>0, <2>1, <2>2, Writers
<1>7. QED
  BY <1>1, <1>2, <1>3, <1>4, <1>5, <1>6

LEMMA TypeStep ==
    ASSUME Assumed, IInv, [Next]_vars
    PROVE  TypeOK' /\ OneLate'
<1>0. TypeOK /\ OneLate /\ \A r \in Runs : Ingesting(r)
  BY DEF IInv, RunInv
<1>1. CASE UNCHANGED vars
  BY <1>0, <1>1 DEF vars, settings, server, files, process, engine, TypeOK, OneLate
<1>2. ASSUME NEW r \in Runs, RunStep(r) PROVE TypeOK' /\ OneLate'
  <2>1. UNCHANGED <<framework, schema, retention>>
    BY <1>2, Writers DEF settings
  <2>2. /\ framework' \in Frameworks /\ schema' \in Schemas
        /\ retention' \in {"keep", "delete-on-success"}
    BY <1>0, <2>1 DEF TypeOK
  <2>3. QED
    BY <1>0, <1>2, <2>2, Moves, OwnedTypes, LateStep, ProcessTypes, Zenon
       DEF TypeOK, PlacesOfRun, StatusOfRun, Requested
<1>3. ASSUME NEW n \in Owners, NEW role \in Roles, Vanish(n, role) PROVE TypeOK' /\ OneLate'
  <2>1. /\ collection' \in [Owners -> [Roles -> {"absent", "there", "deleting"}]]
        /\ points' \in [Owners -> Copies]
    BY <1>0, <1>3 DEF Vanish, TypeOK, NoCopies, Copies
  <2>2. QED
    BY <1>0, <1>3, <2>1 DEF Vanish, settings, files, process, engine, NoFault, TypeOK, OneLate
<1>4. ASSUME NEW q \in late, Arrive(q) PROVE TypeOK' /\ OneLate'
  <2>0. q.at \in Owners
    BY <1>0, Requests
  <2>1. collection' \in [Owners -> [Roles -> {"absent", "there", "deleting"}]]
    <3>1. \/ collection' = collection
          \/ q.role \in Roles /\ \E c \in {"there", "deleting"} :
                collection' = [collection EXCEPT ![q.at][q.role] = c]
      <4>1. CASE q.op = "delete" \/ q.op = "create"
        BY <1>0, <1>4, <4>1, Requests DEF Arrive, server
      <4>2. CASE ~ (q.op = "delete" \/ q.op = "create")
        BY <1>4, <4>2 DEF Arrive, server
      <4>3. QED
        BY <4>1, <4>2
    <3>2. collection \in [Owners -> [Roles -> {"absent", "there", "deleting"}]]
      BY <1>0 DEF TypeOK
    <3>3. QED
      BY <2>0, <3>1, <3>2
  <2>2. points' \in [Owners -> Copies]
    <3>1. NoCopies \in Copies /\ points \in [Owners -> Copies]
      BY <1>0 DEF NoCopies, Copies, TypeOK
    <3>2. \/ points' = points \/ points' = [points EXCEPT ![q.at] = NoCopies]
          \/ \E S : points' = Stored(q.at, S)
      BY <1>4, Zenon DEF Arrive, server
    <3>3. QED
      BY <2>0, <3>1, <3>2, StoredIs
  <2>3. UNCHANGED <<settings, file, files, status, pc, process, engine, faults>>
        /\ late' \subseteq late
    BY <1>4 DEF Arrive, server, NoFault
  <2>4. OneLate' /\ late' \subseteq Requested
    BY <1>0, <2>3 DEF OneLate, TypeOK, Requested
  <2>5. QED
    BY <1>0, <2>1, <2>2, <2>3, <2>4 DEF settings, files, process, engine, TypeOK, Requested
<1>5. QED
  BY <1>1, <1>2, <1>3, <1>4, Steps

-----------------------------------------------------------------------------
(* What a count tells. *)

\* One of the copies of a batch, and all of them.
OfBatch(p, b) == {b} \X (1 .. p[b])
OfBatches(p, B) == UNION {OfBatch(p, b) : b \in B}

LEMMA InCopies ==
    ASSUME NEW B, NEW p \in [B -> Nat], NEW e
    PROVE  e \in OfBatches(p, B) <=> \E b \in B : \E i \in 1 .. p[b] : e = <<b, i>>
BY DEF OfBatches, OfBatch

LEMMA PairInCopies ==
    ASSUME NEW B, NEW p \in [B -> Nat], NEW b \in B, NEW i
    PROVE  <<b, i>> \in OfBatches(p, B) <=> i \in 1 .. p[b]
BY DEF OfBatches, OfBatch

LEMMA CopiesAreFinite ==
    ASSUME NEW B, IsFiniteSet(B), NEW p \in [B -> Nat]
    PROVE  IsFiniteSet(OfBatches(p, B))
<1> DEFINE S == {OfBatch(p, b) : b \in B}
           f == [b \in B |-> OfBatch(p, b)]
<1>1. f \in Surjection(B, S)
  BY DEF Surjection
<1>2. IsFiniteSet(S)
  BY <1>1, FS_Surjection
<1>3. ASSUME NEW T \in S PROVE IsFiniteSet(T)
  <2>1. PICK b \in B : T = {b} \X (1 .. p[b])
    BY DEF OfBatch
  <2>2. p[b] \in Nat
    OBVIOUS
  <2>3. IsFiniteSet(1 .. p[b])
    <3>1. 1 \in Int /\ p[b] \in Int
      BY <2>2
    <3>2. QED
      BY <3>1, FS_Interval, Zenon
  <2>4. IsFiniteSet({b})
    BY FS_Singleton, Zenon
  <2>5. QED
    BY <2>1, <2>3, <2>4, FS_Product, Zenon
<1>4. QED
  BY <1>2, <1>3, FS_UNION DEF OfBatches

\* The copies in p and in the records A, and what is known of the first k of m.
CopiesOf(p, A, b) == p[b] + (IF b \in A THEN 1 ELSE 0)
AtLeastOnce(p, A, k, m) == \A b \in 1 .. m : b <= k => CopiesOf(p, A, b) >= 1
AtMostOnce(p, A, k, m) ==
    \A b \in 1 .. m : CopiesOf(p, A, b) <= (IF b <= k THEN 1 ELSE 0)
JustOnce(p, A, k, m) == \A b \in 1 .. m : CopiesOf(p, A, b) = (IF b <= k THEN 1 ELSE 0)

\* The copies of the first k batches in p and in the records A are as many as
\* these batches, and they are all there, or there is none but one of each: then
\* there is one of each, and no other.
LEMMA CopiesCounted ==
    ASSUME NEW m \in Nat, NEW p \in [1 .. m -> Nat], NEW A \in SUBSET (1 .. m),
           NEW k \in Nat, k <= m,
           Cardinality(OfBatches(p, 1 .. m)) + Cardinality(A) = k,
           AtLeastOnce(p, A, k, m) \/ AtMostOnce(p, A, k, m)
    PROVE  JustOnce(p, A, k, m)
<1> DEFINE P == OfBatches(p, 1 .. m)
           Z == {<<b, 0>> : b \in A}
           rep(b) == IF b \in A THEN <<b, 0>> ELSE <<b, 1>>
           R == {rep(b) : b \in 1 .. k}
           E == P \cup Z
<1>1. IsFiniteSet(1 .. m) /\ IsFiniteSet(A)
  <2>1. 1 \in Int /\ m \in Int
    OBVIOUS
  <2>2. IsFiniteSet(1 .. m)
    BY <2>1, FS_Interval, Zenon
  <2>3. QED
    BY <2>2, FS_Subset, Zenon
<1>2. IsFiniteSet(P)
  BY <1>1, CopiesAreFinite
<1>3. IsFiniteSet(Z) /\ Cardinality(Z) = Cardinality(A)
  <2> DEFINE f == [b \in A |-> <<b, 0>>]
  <2>1. f \in Surjection(A, Z) /\ f \in Injection(A, Z)
    BY DEF Surjection, Injection, IsInjective
  <2>2. QED
    BY <1>1, <2>1, FS_Surjection
<1>4. IsFiniteSet(E) /\ Cardinality(E) = k
  <2>1. P \cap Z = {}
    BY InCopies
  <2>2. Cardinality(P) \in Nat /\ Cardinality(Z) \in Nat
    BY <1>2, <1>3, FS_CardinalityType
  <2>3. /\ IsFiniteSet(E)
        /\ Cardinality(E) = Cardinality(P) + Cardinality(Z) - Cardinality(P \cap Z)
    BY <1>2, <1>3, FS_Union
  <2>4. Cardinality(P \cap Z) = 0
    BY <2>1, FS_EmptySet, Zenon
  <2>5. Cardinality(P) + Cardinality(A) = k
    OBVIOUS
  <2> HIDE DEF P, Z
  <2>6. QED
    BY <1>3, <2>2, <2>3, <2>4, <2>5
<1>5. IsFiniteSet(R) /\ Cardinality(R) = k
  <2> DEFINE f == [b \in 1 .. k |-> rep(b)]
  <2>1. f \in Surjection(1 .. k, R) /\ f \in Injection(1 .. k, R)
    BY DEF Surjection, Injection, IsInjective
  <2>2. IsFiniteSet(1 .. k) /\ Cardinality(1 .. k) = k
    BY FS_Interval
  <2> HIDE DEF R, f
  <2>3. QED
    BY <2>1, <2>2, FS_Surjection
<1>6. ASSUME NEW b \in 1 .. m, NEW i \in Nat
      PROVE  <<b, i>> \in E <=> (i = 0 /\ b \in A) \/ (1 <= i /\ i <= p[b])
  <2>1. p[b] \in Nat
    OBVIOUS
  <2>2. <<b, i>> \in P <=> i \in 1 .. p[b]
    <3>1. b \in 1 .. m /\ p \in [1 .. m -> Nat]
      OBVIOUS
    <3>2. QED
      BY ONLY <3>1, PairInCopies
  <2>3. <<b, i>> \in Z <=> i = 0 /\ b \in A
    OBVIOUS
  <2> HIDE DEF P, Z
  <2>4. QED
    BY <2>1, <2>2, <2>3
<1>7. E = R
  <2>1. CASE AtLeastOnce(p, A, k, m)
    <3>1. ASSUME NEW b \in 1 .. k PROVE rep(b) \in E
      <4>1. b \in 1 .. m /\ b <= k /\ p[b] \in Nat
        OBVIOUS
      <4>2. p[b] + (IF b \in A THEN 1 ELSE 0) >= 1
        BY <2>1, <4>1 DEF AtLeastOnce, CopiesOf
      <4> HIDE DEF E
      <4>3. CASE b \in A
        BY <1>6, <4>1, <4>3
      <4>4. CASE b \notin A
        BY <1>6, <4>1, <4>2, <4>4
      <4>5. QED
        BY <4>3, <4>4
    <3>2. R \subseteq E
      BY <3>1
    <3> HIDE DEF E, R
    <3>3. QED
      BY <1>4, <1>5, <3>2, FS_Subset
  <2>2. CASE AtMostOnce(p, A, k, m)
    <3>1. Z \subseteq R
      <4>1. ASSUME NEW b \in A PROVE <<b, 0>> \in R
        <5>1. b \in 1 .. m /\ p[b] \in Nat
          OBVIOUS
        <5>2. b \in 1 .. k /\ rep(b) = <<b, 0>>
          BY <2>2, <4>1, <5>1 DEF AtMostOnce, CopiesOf
        <5>3. QED
          BY <5>2, Zenon
      <4>2. QED
        BY <4>1
    <3>2. P \subseteq R
      <4>1. SUFFICES ASSUME NEW e \in P PROVE e \in R
        OBVIOUS
      <4>2. PICK b \in 1 .. m : \E i \in 1 .. p[b] : e = <<b, i>>
        BY InCopies
      <4>3. PICK i \in 1 .. p[b] : e = <<b, i>>
        BY <4>2
      <4>4. i = 1 /\ b \notin A /\ b \in 1 .. k
        BY <2>2 DEF AtMostOnce, CopiesOf
      <4>5. QED
        BY <4>3, <4>4
    <3>3. E \subseteq R
      BY <3>1, <3>2
    <3> HIDE DEF E, R
    <3>4. QED
      BY <1>4, <1>5, <3>3, FS_Subset
  <2>3. QED
    BY <2>1, <2>2
<1>8. ASSUME NEW b \in 1 .. m, NEW i \in Nat
      PROVE  <<b, i>> \in R <=> /\ b <= k
                               /\ i = (IF b \in A THEN 0 ELSE 1)
  <2>1. ASSUME b <= k, i = (IF b \in A THEN 0 ELSE 1) PROVE <<b, i>> \in R
    <3>1. b \in 1 .. k /\ rep(b) = <<b, i>>
      BY <2>1
    <3>2. QED
      BY <3>1, Zenon
  <2>2. ASSUME <<b, i>> \in R PROVE b <= k /\ i = (IF b \in A THEN 0 ELSE 1)
    <3>1. PICK c \in 1 .. k : rep(c) = <<b, i>>
      BY <2>2, Zenon
    <3>2. QED
      BY <3>1
  <2>3. QED
    BY <2>1, <2>2
<1>9. SUFFICES ASSUME NEW b \in 1 .. m
               PROVE  p[b] + (IF b \in A THEN 1 ELSE 0) = (IF b <= k THEN 1 ELSE 0)
  BY DEF JustOnce, CopiesOf
<1>10. \A i \in Nat : (i = 0 /\ b \in A) \/ (1 <= i /\ i <= p[b])
                         <=> b <= k /\ i = (IF b \in A THEN 0 ELSE 1)
  BY <1>6, <1>7, <1>8
<1>11. p[b] \in Nat
  OBVIOUS
<1>12. /\ b \in A <=> b <= k /\ 0 = (IF b \in A THEN 0 ELSE 1)
       /\ 1 <= p[b] <=> b <= k /\ 1 = (IF b \in A THEN 0 ELSE 1)
       /\ 2 <= p[b] <=> b <= k /\ 2 = (IF b \in A THEN 0 ELSE 1)
  BY <1>10
<1>13. QED
  BY <1>11, <1>12

\* A count that agrees with what was reported finds every batch once.
LEMMA Counted ==
    ASSUME Assumed, TypeOK, NEW r \in Runs,
           added[r] = batch[r] - 1,
           Count(At(r)) + Cardinality(active[r]) = added[r],
           Lossless(r) \/ Unrepeated(r)
    PROVE  \A b \in Batches : Held(r, b) = (IF b < batch[r] THEN 1 ELSE 0)
<1> DEFINE p == points[At(r)]
           A == active[r]
           k == batch[r] - 1
<1>1. /\ Batches = 1 .. LastBatch /\ LastBatch \in Nat
      /\ p \in [1 .. LastBatch -> Nat] /\ A \in SUBSET (1 .. LastBatch)
      /\ k \in Nat /\ k <= LastBatch /\ batch[r] = k + 1
  <2>1. /\ Batches = 1 .. LastBatch /\ LastBatch \in Nat
        /\ batch \in [Runs -> 1 .. LastBatch + 1]
        /\ active \in [Runs -> SUBSET Batches]
        /\ points \in [Owners -> Copies] /\ At(r) \in Owners
    BY Constants, Basics DEF TypeOK, Batches
  <2>2. batch[r] \in 1 .. LastBatch + 1 /\ active[r] \in SUBSET Batches
        /\ points[At(r)] \in [Batches -> Nat]
    BY <2>1 DEF Copies
  <2>3. QED
    BY <2>1, <2>2
<1>2. Cardinality(OfBatches(p, 1 .. LastBatch)) + Cardinality(A) = k
  BY <1>1 DEF Count, OfBatches, OfBatch
<1>3. AtLeastOnce(p, A, k, LastBatch) \/ AtMostOnce(p, A, k, LastBatch)
  <2>1. CASE Lossless(r)
    BY <1>1, <2>1 DEF Lossless, Held, AtLeastOnce, CopiesOf
  <2>2. CASE Unrepeated(r)
    BY <1>1, <2>2 DEF Unrepeated, Held, AtMostOnce, CopiesOf
  <2>3. QED
    BY <2>1, <2>2
<1>4. JustOnce(p, A, k, LastBatch)
  <2> HIDE DEF p, A, k
  <2>1. QED
    BY <1>1, <1>2, <1>3, CopiesCounted
<1>5. QED
  BY <1>1, <1>4 DEF Held, JustOnce, CopiesOf

-----------------------------------------------------------------------------
(* What a step does not disturb. *)

SameRun(r) ==
    /\ pc'[r] = pc[r] /\ todo'[r] = todo[r] /\ unit'[r] = unit[r]
    /\ question'[r] = question[r] /\ batch'[r] = batch[r]
    /\ active'[r] = active[r] /\ added'[r] = added[r]
SameUnit(o) ==
    /\ collection'[o] = collection[o] /\ points'[o] = points[o] /\ file'[o] = file[o]
    /\ checkpoint'[o] = checkpoint[o] /\ answer'[o] = answer[o]
    /\ retained'[o] = retained[o]
    /\ \A q \in late' : q \in late \/ q.at # o

LEMMA KeepsRun ==
    ASSUME Assumed, TypeOK, NEW r \in Runs, RunInv(r), SameRun(r), SameUnit(At(r)),
           \A u \in Units : checkpoint'[<<r, u>>] = checkpoint[<<r, u>>],
           UNCHANGED <<framework, retention>>
    PROVE  RunInv(r)'
<1>0. At(r)' = At(r)
  BY DEF At, SameRun
<1>1. \A b : Held(r, b)' = Held(r, b)
  BY <1>0 DEF Held, SameRun, SameUnit
<1>2. /\ NoLate(At(r)) => NoLate(At(r))'
      /\ NoLateCopy(At(r)) => NoLateCopy(At(r))'
      /\ AllThere(At(r)) => AllThere(At(r))'
      /\ Dealt(At(r)) => Dealt(At(r))'
  BY <1>0 DEF NoLate, NoLateCopy, AllThere, Dealt, Absent, Exists, SameUnit
<1>3. Plan(r)'
  <2>1. Plan(r) /\ todo[r] \subseteq Units
    BY DEF RunInv, TypeOK
  <2>2. QED
    BY <1>0, <2>1 DEF Plan, SameRun, SameUnit
<1>4. Ingesting(r)'
  <2>1. Ingesting(r)
    BY DEF RunInv
  <2>2. /\ Lossless(r) => Lossless(r)'
        /\ Unrepeated(r) => Unrepeated(r)'
    BY <1>0, <1>1, <1>2 DEF Lossless, Unrepeated, SameRun
  <2>3. QED
    BY <1>0, <1>2, <2>1, <2>2 DEF Ingesting, SameRun, SameUnit
<1>5. Asking(r)'
  <2>1. Asking(r)
    BY DEF RunInv
  <2>2. QED
    BY <1>0, <1>1, <1>2, <2>1 DEF Asking, SameRun, SameUnit
<1>6. Quiet(r)'
  <2>1. Quiet(r)
    BY DEF RunInv
  <2>2. QED
    BY <1>2, <2>1 DEF Quiet, SameRun
<1>7. Asked(r)'
  <2>1. Asked(r)
    BY DEF RunInv
  <2>2. QED
    BY <1>0, <2>1 DEF Asked, SameRun, SameUnit
<1>8. Retaining(r)'
  <2>1. Retaining(r)
    BY DEF RunInv
  <2>2. QED
    BY <1>0, <1>2, <2>1 DEF Retaining, SameRun, SameUnit
<1>9. QED
  BY <1>3, <1>4, <1>5, <1>6, <1>7, <1>8 DEF RunInv

LEMMA KeepsUnit ==
    ASSUME NEW o \in Owners, UnitInv(o), SameUnit(o), UNCHANGED retention
    PROVE  UnitInv(o)'
<1>1. /\ NoLate(o) => NoLate(o)'
      /\ Dealt(o) => Dealt(o)'
  BY DEF NoLate, AllThere, Dealt, Absent, Exists, SameUnit
<1>2. QED
  BY <1>1 DEF UnitInv, SameUnit

\* A step of a run is a step at its own unit.
LEMMA Elsewhere ==
    ASSUME Assumed, TypeOK, OneLate, NEW r \in Runs, RunStep(r)
    PROVE  /\ UNCHANGED <<framework, schema, retention>>
           /\ \A o \in Owners : o # At(r) => SameUnit(o)
<1>0. /\ At(r) \in Owners /\ Name(r) = At(r)
      /\ collection \in [Owners -> [Roles -> {"absent", "there", "deleting"}]]
      /\ points \in [Owners -> Copies] /\ file \in [Owners -> BOOLEAN]
      /\ checkpoint \in [Owners -> Progress]
      /\ answer \in [Owners -> [Questions -> Copies]]
      /\ retained \in [Owners -> {"none", "kept", "deleted"}]
  BY Basics DEF TypeOK
<1>1. UNCHANGED <<framework, schema, retention>>
  BY Writers DEF settings
<1>2. SUFFICES ASSUME NEW o \in Owners, o # At(r) PROVE SameUnit(o)
  BY <1>1
<1>3. collection'[o] = collection[o]
  BY <1>0, <1>2, Writers DEF Delete, BuildDmf, BuildMem0, server
<1>4. points'[o] = points[o]
  <2>1. CASE BuildDmf(r) \/ BuildMem0(r)
    BY <1>0, <1>2, <2>1 DEF BuildDmf, BuildMem0, server
  <2>2. CASE AddToDmf(r) \/ AddToMem0(r)
    <3>1. \E S : points' = Stored(At(r), S)
      BY <1>0, <2>2, Zenon DEF AddToDmf, AddToMem0
    <3>2. QED
      BY <1>0, <1>2, <3>1, StoredIs
  <2>3. QED
    BY <2>1, <2>2, Writers
<1>5. file'[o] = file[o]
  <2>1. \/ file' = file \/ file' = [file EXCEPT ![At(r)] = TRUE]
        \/ file' = [file EXCEPT ![At(r)] = FALSE]
    BY <1>0, Writers, Zenon DEF Unlink, UnlinkLocal, BuildDmf, BuildMem0, server
  <2>2. QED
    BY <1>0, <1>2, <2>1
<1>6. checkpoint'[o] = checkpoint[o]
  BY <1>0, <1>2, Writers DEF Reset, Predict, Commit, WriteCheckpoint
<1>7. answer'[o] = answer[o]
  BY <1>0, <1>2, Writers DEF Reset, Ask
<1>8. retained'[o] = retained[o]
  BY <1>0, <1>2, Writers DEF Reset, RecordRetention
<1>9. \A q \in late' : q \in late \/ q.at # o
  BY <1>2, LateStep
<1>10. QED
  BY <1>3, <1>4, <1>5, <1>6, <1>7, <1>8, <1>9 DEF SameUnit

\* So the other runs are where they were, ...
LEMMA OtherRuns ==
    ASSUME Assumed, IInv, NEW r \in Runs, RunStep(r), NEW s \in Runs, s # r
    PROVE  RunInv(s)'
<1>1. TypeOK /\ OneLate /\ RunInv(s) /\ Ingesting(r)
  BY DEF IInv, RunInv
<1>2. /\ At(s) \in Owners /\ At(s) # At(r)
      /\ \A u \in Units : <<s, u>> \in Owners /\ <<s, u>> # At(r)
  BY <1>1, Basics DEF At
<1>3. SameUnit(At(s)) /\ \A u \in Units : SameUnit(<<s, u>>)
  BY <1>1, <1>2, Elsewhere
<1>4. SameRun(s)
  BY <1>1, Moves, ProcessTypes DEF SameRun
<1>5. \A u \in Units : checkpoint'[<<s, u>>] = checkpoint[<<s, u>>]
  BY <1>3 DEF SameUnit
<1>6. UNCHANGED <<framework, retention>>
  BY <1>1, Elsewhere
<1>7. QED
  BY <1>1, <1>3, <1>4, <1>5, <1>6, KeepsRun

-----------------------------------------------------------------------------
(* What a step does to its own run. *)

\* How a run gets to where the invariant says something of it.
LEMMA Goes ==
    ASSUME Assumed, TypeOK, NEW r \in Runs, RunStep(r), ~ RequestStop(r)
    PROVE  /\ pc'[r] \in AtUnit => NextUnit(r) \/ pc[r] \in AtUnit
           /\ pc'[r] = "ingest" =>
                 BuildDmf(r) \/ BuildMem0(r) \/ AddToDmf(r) \/ AddToMem0(r) \/ LoseRecord(r)
           /\ pc'[r] \in Working => Barrier(r) \/ (pc[r] \in Working /\ UNCHANGED late)
           /\ pc'[r] = "predict" => Barrier(r) /\ CountsMatch(r)
           /\ pc'[r] = "verify" => Predict(r)
           /\ pc'[r] = "ask" => Predict(r) \/ Verify(r) \/ Ask(r)
           /\ pc'[r] = "forget" => Gather(r)
           /\ pc'[r] = "forgetting" => Delete(r) /\ pc[r] = "forget"
           /\ pc'[r] = "forgotten" => Gather(r) \/ (Unlink(r) /\ pc[r] = "forgetting")
           /\ pc'[r] = "commit" => RecordRetention(r)
<1> DEFINE Went ==
           /\ pc'[r] \in AtUnit => NextUnit(r) \/ pc[r] \in AtUnit
           /\ pc'[r] = "ingest" =>
                 BuildDmf(r) \/ BuildMem0(r) \/ AddToDmf(r) \/ AddToMem0(r) \/ LoseRecord(r)
           /\ pc'[r] \in Working => Barrier(r) \/ (pc[r] \in Working /\ UNCHANGED late)
           /\ pc'[r] = "predict" => Barrier(r) /\ CountsMatch(r)
           /\ pc'[r] = "verify" => Predict(r)
           /\ pc'[r] = "ask" => Predict(r) \/ Verify(r) \/ Ask(r)
           /\ pc'[r] = "forget" => Gather(r)
           /\ pc'[r] = "forgetting" => Delete(r) /\ pc[r] = "forget"
           /\ pc'[r] = "forgotten" => Gather(r) \/ (Unlink(r) /\ pc[r] = "forgetting")
           /\ pc'[r] = "commit" => RecordRetention(r)
<1>0. pc \in [Runs -> PlacesOfRun]
  BY DEF TypeOK, PlacesOfRun
<1> USE <1>0 DEF AtUnit, Working, Goto
<1>1. ASSUME Start(r) \/ Check(r) \/ End(r) \/ Stop(r) PROVE Went
  BY <1>1 DEF Start, Check, End, Stop
<1>2. ASSUME NextUnit(r) PROVE Went
  BY <1>2 DEF NextUnit
<1>3. ASSUME Delete(r) PROVE Went
  BY <1>3, Polled DEF Delete, Deleting
<1>4. ASSUME Unlink(r) PROVE Went
  BY <1>4, Polled DEF Unlink, Polling
<1>5. ASSUME Recheck(r) \/ GiveUp(r) \/ Reset(r) PROVE Went
  BY <1>5 DEF Recheck, GiveUp, Reset
<1>6. ASSUME AssertAbsent(r) PROVE Went
  BY <1>6 DEF AssertAbsent
<1>7. ASSUME BuildDmf(r) PROVE Went
  BY <1>7 DEF BuildDmf
<1>8. ASSUME BuildMem0(r) PROVE Went
  BY <1>8 DEF BuildMem0
<1>9. ASSUME AddToDmf(r) \/ AddToMem0(r) \/ LoseRecord(r) PROVE Went
  BY <1>9 DEF AddToDmf, AddToMem0, LoseRecord
<1>10. ASSUME AddNowhere(r) \/ FailExtraction(r) PROVE Went
  BY <1>10 DEF AddNowhere, FailExtraction
<1>11. ASSUME Barrier(r) PROVE Went
  BY <1>11 DEF Barrier
<1>12. ASSUME Predict(r) PROVE Went
  BY <1>12 DEF Predict
<1>13. ASSUME Verify(r) PROVE Went
  BY <1>13 DEF Verify
<1>14. ASSUME Ask(r) PROVE Went
  BY <1>14 DEF Ask
<1>15. ASSUME Gather(r) PROVE Went
  BY <1>15 DEF Gather
<1>16. ASSUME RecordRetention(r) \/ Commit(r) PROVE Went
  BY <1>16 DEF RecordRetention, Commit
<1>17. ASSUME Kill(r) PROVE Went
  BY <1>17 DEF Kill
<1>18. ASSUME Fail(r) PROVE Went
  BY <1>18 DEF Fail
<1> HIDE DEF Went
<1>19. Went
  BY <1>1, <1>2, <1>3, <1>4, <1>5, <1>6, <1>7, <1>8, <1>9, <1>10, <1>11, <1>12, <1>13,
     <1>14, <1>15, <1>16, <1>17, <1>18 DEF RunStep, Step, Mishap
<1>20. QED
  BY <1>19 DEF Went

\* Only the choice of a unit moves a run to another one.
LEMMA StaysAt ==
    ASSUME NEW r \in Runs, RunStep(r), ~ NextUnit(r)
    PROVE  At(r)' = At(r)
BY Writers DEF At

LEMMA PlanStep ==
    ASSUME Assumed, IInv, NEW r \in Runs, RunStep(r), ~ RequestStop(r)
    PROVE  Plan(r)'
<1>0. /\ TypeOK /\ Plan(r) /\ At(r) \in Owners
      /\ todo \in [Runs -> SUBSET Units] /\ unit \in [Runs -> Units]
      /\ pc \in [Runs -> PlacesOfRun]
      /\ checkpoint \in [Owners -> Progress]
      /\ \A u \in Units : <<r, u>> \in Owners
  BY Basics DEF IInv, RunInv, TypeOK, PlacesOfRun
<1>1. CASE Start(r)
  BY <1>0, <1>1 DEF Start, Goto, Plan, AtUnit, Working, files
<1>2. CASE NextUnit(r)
  <2>1. First(todo[r]) \in todo[r]
    BY <1>0, <1>2, FirstOf DEF NextUnit
  <2>2. /\ unit'[r] = First(todo[r]) /\ todo'[r] = todo[r] \ {First(todo[r])}
        /\ checkpoint' = checkpoint
    BY <1>0, <1>2 DEF NextUnit, files
  <2>3. QED
    BY <1>0, <2>1, <2>2 DEF Plan, At
<1>3. CASE ~ Start(r) /\ ~ NextUnit(r)
  <2>1. /\ todo' = todo /\ unit' = unit /\ At(r)' = At(r)
        /\ pc'[r] \in AtUnit => pc[r] \in AtUnit
    BY <1>0, <1>3, Writers, Goes, StaysAt
  <2>2. CASE UNCHANGED checkpoint
    BY <1>0, <2>1, <2>2 DEF Plan
  <2>3. CASE Reset(r) \/ Predict(r)
    <3>1. \E c \in {"INGESTING", "PREDICTING"} :
             checkpoint' = [checkpoint EXCEPT ![At(r)] = c]
      BY <2>3 DEF Reset, Predict, WriteCheckpoint
    <3>2. \A u \in Units : checkpoint'[<<r, u>>] = "COMMITTED" =>
             checkpoint[<<r, u>>] = "COMMITTED" /\ <<r, u>> # At(r)
      BY <1>0, <3>1
    <3>3. checkpoint'[At(r)] # "COMMITTED"
      BY <1>0, <3>1
    <3>4. QED
      BY <1>0, <2>1, <3>2, <3>3 DEF Plan
  <2>4. CASE Commit(r)
    <3>1. pc[r] \in AtUnit /\ pc'[r] \notin AtUnit
      BY <1>0, <2>4 DEF Commit, Goto, AtUnit, Working
    <3>2. unit[r] \notin todo[r]
      BY <1>0, <3>1 DEF Plan
    <3>3. \A u \in todo[r] : checkpoint'[<<r, u>>] = checkpoint[<<r, u>>]
      BY <1>0, <2>4, <3>2 DEF Commit, WriteCheckpoint, At
    <3>4. QED
      BY <1>0, <2>1, <3>1, <3>3 DEF Plan
  <2>5. QED
    BY <2>2, <2>3, <2>4, Writers
<1>4. QED
  BY <1>1, <1>2, <1>3

\* An ingestion that starts has lost nothing.
LEMMA BuiltAnew ==
    ASSUME Assumed, TypeOK, NEW r \in Runs, BuildDmf(r) \/ BuildMem0(r), pc'[r] = "ingest"
    PROVE  Ingesting(r)'
<1>0. /\ At(r) \in Owners /\ Name(r) = At(r) /\ At(r)' = At(r)
      /\ collection \in [Owners -> [Roles -> {"absent", "there", "deleting"}]]
      /\ file \in [Owners -> BOOLEAN] /\ pc \in [Runs -> PlacesOfRun]
      /\ batch \in [Runs -> 1 .. LastBatch + 1]
      /\ active \in [Runs -> SUBSET Batches] /\ added \in [Runs -> 0 .. LastBatch]
  BY Basics, StaysAt DEF TypeOK, PlacesOfRun, BuildDmf, BuildMem0, process, At
<1>1. /\ batch' = [batch EXCEPT ![r] = 1] /\ active' = [active EXCEPT ![r] = {}]
      /\ added' = [added EXCEPT ![r] = 0]
      /\ collection' = [collection EXCEPT ![At(r)] = [role \in Roles |-> "there"]]
      /\ file' = [file EXCEPT ![At(r)] = TRUE]
  BY <1>0 DEF BuildDmf, BuildMem0, NewEngine
<1>2. batch'[r] = 1 /\ active'[r] = {} /\ added'[r] = 0
  BY <1>0, <1>1
<1>3. AllThere(At(r))' /\ file'[At(r)]
  BY <1>0, <1>1 DEF AllThere
<1>4. Lossless(r)'
  BY <1>2 DEF Lossless, Batches
<1>5. QED
  BY <1>0, <1>2, <1>3, <1>4 DEF Ingesting

\* What the process can ask grows by the batch that is added, ...
LEMMA AddedOnce ==
    ASSUME Assumed, TypeOK, NEW r \in Runs, Ingesting(r), AddToDmf(r) \/ AddToMem0(r)
    PROVE  /\ \A b \in Batches :
                 Held(r, b)' = Held(r, b) + (IF b = batch[r] THEN 1 ELSE 0)
           /\ active'[r] \subseteq active[r] \cup {batch[r]}
           /\ framework = "mem0" => active'[r] = active[r]
<1>0. /\ At(r) \in Owners /\ Name(r) = At(r) /\ At(r)' = At(r)
      /\ points \in [Owners -> Copies] /\ active \in [Runs -> SUBSET Batches]
      /\ batch[r] \in Nat
  BY Basics DEF TypeOK, AddToDmf, AddToMem0, process, At
<1>1. active[r] \subseteq {b \in Batches : b < batch[r]}
  BY DEF Ingesting, AddToDmf, AddToMem0
<1>2. CASE AddToDmf(r)
  <2> DEFINE records == active[r] \cup {batch[r]}
             G == Archived(records)
  <2>1. /\ points' = Stored(At(r), G) /\ active' = [active EXCEPT ![r] = records \ G]
        /\ framework = "dmf"
    BY <1>0, <1>2 DEF AddToDmf
  <2>2. G \subseteq records
    BY DEF Archived
  <2> HIDE DEF G
  <2>3. active'[r] = records \ G
    BY <1>0, <2>1
  <2>4. \A b \in Batches : points'[At(r)][b] = points[At(r)][b] + (IF b \in G THEN 1 ELSE 0)
    BY <1>0, <2>1, StoredIs
  <2>5. ASSUME NEW b \in Batches
        PROVE  Held(r, b)' = Held(r, b) + (IF b = batch[r] THEN 1 ELSE 0)
    <3>1. points[At(r)][b] \in Nat
      BY <1>0 DEF Copies
    <3>2. batch[r] \notin active[r]
      BY <1>0, <1>1 DEF Batches
    <3>3. QED
      BY <1>0, <2>2, <2>3, <2>4, <3>1, <3>2 DEF Held
  <2>6. QED
    BY <2>1, <2>3, <2>5
<1>3. CASE AddToMem0(r)
  <2>1. points' = Stored(At(r), {batch[r]}) /\ active' = active
    BY <1>0, <1>3 DEF AddToMem0
  <2>2. \A b \in Batches :
           points'[At(r)][b] = points[At(r)][b] + (IF b \in {batch[r]} THEN 1 ELSE 0)
    BY <1>0, <2>1, StoredIs
  <2>3. ASSUME NEW b \in Batches
        PROVE  Held(r, b)' = Held(r, b) + (IF b = batch[r] THEN 1 ELSE 0)
    <3>1. points[At(r)][b] \in Nat
      BY <1>0 DEF Copies
    <3>2. points'[At(r)][b] = points[At(r)][b] + (IF b = batch[r] THEN 1 ELSE 0)
      BY <2>2
    <3>3. /\ Held(r, b)' = points'[At(r)][b] + (IF b \in active[r] THEN 1 ELSE 0)
          /\ Held(r, b) = points[At(r)][b] + (IF b \in active[r] THEN 1 ELSE 0)
      BY <1>0, <2>1 DEF Held
    <3>4. QED
      BY <3>1, <3>2, <3>3
  <2>4. QED
    BY <2>1, <2>3
<1>4. QED
  BY <1>2, <1>3

\* ... or by nothing, or by a record that DMF still has, where a write is lost.
LEMMA LostOnce ==
    ASSUME Assumed, TypeOK, NEW r \in Runs, Ingesting(r), LoseRecord(r)
    PROVE  /\ \A b \in Batches :
                 Held(r, b)' <= Held(r, b) + (IF b = batch[r] THEN 1 ELSE 0)
           /\ active'[r] \subseteq active[r] \cup {batch[r]}
           /\ framework = "mem0" => active'[r] = {}
<1>0. /\ At(r)' = At(r) /\ At(r) \in Owners
      /\ points \in [Owners -> Copies] /\ active \in [Runs -> SUBSET Batches]
      /\ points' = points
  BY Basics DEF TypeOK, LoseRecord, process, server, At
<1>1. /\ active'[r] \subseteq active[r] \cup {batch[r]}
      /\ framework = "mem0" => active'[r] = {}
  <2>1. \/ framework = "dmf"
           /\ active' = [active EXCEPT ![r] =
                    (active[r] \cup {batch[r]}) \ Archived(active[r] \cup {batch[r]})]
        \/ active' = [active EXCEPT ![r] = {}]
    BY <1>0 DEF LoseRecord
  <2>2. QED
    BY <1>0, <2>1
<1>2. ASSUME NEW b \in Batches
      PROVE  Held(r, b)' <= Held(r, b) + (IF b = batch[r] THEN 1 ELSE 0)
  <2>1. points[At(r)][b] \in Nat
    BY <1>0 DEF Copies
  <2>2. QED
    BY <1>0, <1>1, <2>1 DEF Held
<1>3. QED
  BY <1>1, <1>2

\* It stays lossless or unrepeated.
LEMMA IngestingStep ==
    ASSUME Assumed, IInv, NEW r \in Runs, RunStep(r), ~ RequestStop(r)
    PROVE  Ingesting(r)'
<1>0. /\ TypeOK /\ Ingesting(r)
      /\ pc \in [Runs -> PlacesOfRun] /\ At(r) \in Owners /\ Name(r) = At(r)
      /\ LastBatch \in Nat
  BY Basics, Constants DEF IInv, RunInv, TypeOK, PlacesOfRun
<1>1. SUFFICES ASSUME pc'[r] = "ingest" PROVE Ingesting(r)'
  BY DEF Ingesting
<1>2. CASE BuildDmf(r) \/ BuildMem0(r)
  BY <1>0, <1>1, <1>2, BuiltAnew
<1>3. CASE AddToDmf(r) \/ AddToMem0(r) \/ LoseRecord(r)
  <2>1. /\ pc[r] = "ingest" /\ Reported(r) /\ batch[r] <= LastBatch
        /\ UNCHANGED <<framework, collection, file, late, unit>>
    BY <1>3 DEF AddToDmf, AddToMem0, LoseRecord, server, settings, process
  <2>2. /\ At(r)' = At(r) /\ AllThere(At(r))' = AllThere(At(r))
        /\ NoLate(At(r))' = NoLate(At(r)) /\ NoLateCopy(At(r))' = NoLateCopy(At(r))
    BY <2>1 DEF At, AllThere, NoLate, NoLateCopy
  <2>3. /\ added[r] = batch[r] - 1 /\ active[r] \subseteq {b \in Batches : b < batch[r]}
        /\ framework = "mem0" => active[r] = {}
        /\ file[At(r)] /\ (AllThere(At(r)) \/ NoLate(At(r)))
        /\ collection[At(r)]["primary"] = "there" => Lossless(r) \/ Unrepeated(r)
    BY <1>0, <2>1 DEF Ingesting
  <2>4. /\ batch'[r] = batch[r] + 1 /\ added'[r] = added[r] + 1
        /\ batch[r] \in Nat /\ batch[r] \in Batches /\ added[r] \in Nat
    BY <1>0, <2>1 DEF Reported, TypeOK, Batches
  <2>5. /\ active'[r] \subseteq active[r] \cup {batch[r]}
        /\ framework = "mem0" => active'[r] = {}
    BY <1>0, <1>3, <2>3, AddedOnce, LostOnce
  <2>6. active'[r] \subseteq {b \in Batches : b < batch'[r]}
    BY <2>3, <2>4, <2>5 DEF Batches
  <2>7. ASSUME collection[At(r)]["primary"] = "there" PROVE Lossless(r)' \/ Unrepeated(r)'
    <3>0. \A b \in Batches : b \in Nat /\ Held(r, b) \in Nat /\ Held(r, b)' \in Nat
      <4>1. /\ points[At(r)] \in [Batches -> Nat] /\ points'[At(r)] \in [Batches -> Nat]
        BY <1>0, OwnedTypes DEF TypeOK, Copies
      <4>2. \A b \in Batches : b \in Nat
        BY DEF Batches
      <4>3. ASSUME NEW b \in Batches PROVE Held(r, b) \in Nat /\ Held(r, b)' \in Nat
        <5>1. points[At(r)][b] \in Nat /\ points'[At(r)][b] \in Nat
          BY <4>1
        <5>2. QED
          BY <2>2, <5>1 DEF Held
      <4>4. QED
        BY <4>2, <4>3
    <3>1. CASE AddToDmf(r) \/ AddToMem0(r)
      <4>1. \A b \in Batches : Held(r, b)' = Held(r, b) + (IF b = batch[r] THEN 1 ELSE 0)
        BY <1>0, <3>1, AddedOnce
      <4>2. CASE Lossless(r)
        <5>1. ASSUME NEW b \in Batches, b < batch[r] + 1 PROVE Held(r, b)' >= 1
          <6>1. CASE b = batch[r]
            BY <3>0, <4>1, <6>1
          <6>2. CASE b < batch[r]
            BY <3>0, <4>1, <4>2, <6>2 DEF Lossless
          <6>3. QED
            BY <2>4, <3>0, <5>1, <6>1, <6>2
        <5>2. QED
          BY <2>4, <5>1 DEF Lossless
      <4>3. CASE Unrepeated(r)
        BY <2>2, <2>4, <3>0, <4>1, <4>3 DEF Unrepeated
      <4>4. QED
        BY <2>3, <2>7, <4>2, <4>3
    <3>2. CASE LoseRecord(r)
      <4>1. NoLateCopy(At(r)) /\ Count(At(r)) + Cardinality(active[r]) = added[r]
        BY <1>0, <3>2 DEF LoseRecord, NoLateCopy
      <4>2. \A b \in Batches : Held(r, b) = (IF b < batch[r] THEN 1 ELSE 0)
        BY <1>0, <2>3, <2>7, <4>1, Counted
      <4>3. \A b \in Batches : Held(r, b)' <= Held(r, b) + (IF b = batch[r] THEN 1 ELSE 0)
        BY <1>0, <3>2, LostOnce
      <4>4. \A b \in Batches : Held(r, b)' <= (IF b < batch'[r] THEN 1 ELSE 0)
        BY <2>4, <3>0, <4>2, <4>3
      <4>5. QED
        BY <2>2, <4>1, <4>4 DEF Unrepeated
    <3>3. QED
      BY <1>3, <3>1, <3>2
  <2>8. collection'[At(r)]["primary"] = "there" => Lossless(r)' \/ Unrepeated(r)'
    BY <2>1, <2>7
  <2>9. QED
    BY <2>1, <2>2, <2>3, <2>4, <2>5, <2>6, <2>8 DEF Ingesting
<1>4. QED
  BY <1>0, <1>1, <1>2, <1>3, Goes

\* The barrier and the verification let no other memory through than a whole one.
LEMMA CountedWhole ==
    ASSUME Assumed, TypeOK, NEW r \in Runs, Ingesting(r),
           pc[r] = "ingest", batch[r] > LastBatch, CountsMatch(r)
    PROVE  /\ AllThere(At(r)) /\ file[At(r)]
           /\ \A b \in Batches : Held(r, b) = 1
           /\ framework = "mem0" => active[r] = {}
<1>1. /\ Name(r) = At(r) /\ framework \in {"dmf", "mem0"} /\ "primary" \in Roles
      /\ batch[r] = LastBatch + 1 /\ LastBatch \in Nat
  BY Basics, Constants DEF TypeOK
<1>2. /\ added[r] = batch[r] - 1 /\ file[At(r)]
      /\ framework = "mem0" => active[r] = {}
      /\ collection[At(r)]["primary"] = "there" => Lossless(r) \/ Unrepeated(r)
  BY DEF Ingesting
<1>3. AllThere(At(r)) /\ (Lossless(r) \/ Unrepeated(r))
  BY <1>1, <1>2 DEF CountsMatch, AllThere
<1>4. Count(At(r)) + Cardinality(active[r]) = added[r]
  <2>1. CASE framework = "dmf"
    BY <1>1, <2>1 DEF CountsMatch, CountsOfDmf
  <2>2. CASE framework = "mem0"
    <3>1. Count(At(r)) = added[r] /\ Cardinality(active[r]) = 0 /\ added[r] \in Nat
      <4>1. Count(At(r)) = added[r] /\ active[r] = {}
        BY <1>1, <1>2, <2>2 DEF CountsMatch, CountsOfMem0
      <4>2. Cardinality({}) = 0
        BY FS_EmptySet, Zenon
      <4>3. added[r] \in 0 .. LastBatch
        BY DEF TypeOK
      <4>4. QED
        BY <1>1, <4>1, <4>2, <4>3
    <3>2. QED
      BY <3>1
  <2>3. QED
    BY <1>1, <2>1, <2>2
<1>5. \A b \in Batches : Held(r, b) = (IF b < batch[r] THEN 1 ELSE 0)
  BY <1>2, <1>3, <1>4, Counted
<1>6. QED
  BY <1>1, <1>2, <1>3, <1>5 DEF Batches

LEMMA AskingStep ==
    ASSUME Assumed, IInv, NEW r \in Runs, RunStep(r), ~ RequestStop(r)
    PROVE  Asking(r)'
<1>0. /\ TypeOK /\ Ingesting(r) /\ Asking(r)
      /\ At(r) \in Owners /\ Name(r) = At(r)
  BY Basics DEF IInv, RunInv
<1>1. SUFFICES ASSUME pc'[r] \in {"predict", "verify", "ask"} PROVE Asking(r)'
  BY DEF Asking
<1>2. \/ Barrier(r) /\ CountsMatch(r)
      \/ Predict(r) \/ Verify(r) \/ Ask(r)
  BY <1>0, <1>1, Goes
<1>3. UNCHANGED <<framework, collection, points, file, unit, active>>
  BY <1>2 DEF Barrier, Predict, Verify, Ask, settings, server, process, engine
<1>4. /\ At(r)' = At(r) /\ AllThere(At(r))' = AllThere(At(r))
      /\ \A b : Held(r, b)' = Held(r, b)
  BY <1>3 DEF At, AllThere, Held
<1>5. /\ AllThere(At(r)) /\ file[At(r)]
      /\ \A b \in Batches : Held(r, b) = 1
      /\ framework = "mem0" => active[r] = {}
  <2>1. CASE Barrier(r) /\ CountsMatch(r)
    <3>1. pc[r] = "ingest" /\ batch[r] > LastBatch
      BY <2>1 DEF Barrier
    <3>2. QED
      BY <1>0, <2>1, <3>1, CountedWhole
  <2>2. CASE Predict(r) \/ Verify(r) \/ Ask(r)
    <3>1. pc[r] \in {"predict", "verify", "ask"}
      BY <2>2 DEF Predict, Verify, Ask, Goto
    <3>2. QED
      BY <1>0, <3>1 DEF Asking
  <2>3. QED
    BY <1>2, <2>1, <2>2
<1>6. QED
  BY <1>3, <1>4, <1>5 DEF Asking

LEMMA QuietStep ==
    ASSUME Assumed, IInv, NEW r \in Runs, RunStep(r), ~ RequestStop(r)
    PROVE  Quiet(r)'
<1>0. TypeOK /\ Quiet(r) /\ Name(r) = At(r) /\ pc \in [Runs -> PlacesOfRun]
  BY Basics DEF IInv, RunInv, TypeOK, PlacesOfRun
<1>1. SUFFICES ASSUME pc'[r] \in Working PROVE Quiet(r)'
  BY DEF Quiet
<1>2. CASE Barrier(r)
  BY <1>0, <1>2 DEF Barrier, process, At, Quiet, NoLate
<1>3. CASE pc[r] \in Working /\ UNCHANGED late
  <2>1. ~ NextUnit(r)
    BY <1>0, <1>3 DEF NextUnit, Goto, Working
  <2>2. QED
    BY <1>0, <1>3, <2>1, StaysAt DEF Quiet, NoLate
<1>4. QED
  BY <1>0, <1>1, <1>2, <1>3, Goes

LEMMA AskedStep ==
    ASSUME Assumed, IInv, NEW r \in Runs, RunStep(r), ~ RequestStop(r)
    PROVE  Asked(r)'
<1>0. /\ TypeOK /\ Asking(r) /\ Asked(r) /\ At(r) \in Owners /\ Name(r) = At(r)
      /\ pc \in [Runs -> PlacesOfRun] /\ answer \in [Owners -> [Questions -> Copies]]
      /\ question \in [Runs -> 1 .. LastQuestion + 1]
      /\ points \in [Owners -> Copies]
      /\ framework \in {"dmf", "mem0"} /\ LastQuestion \in Nat
  BY Basics, Constants DEF IInv, RunInv, TypeOK, PlacesOfRun
<1>1. CASE Ask(r)
  <2>1. /\ pc[r] = "ask" /\ pc'[r] = "ask" /\ unit' = unit
        /\ question'[r] = question[r] + 1 /\ question[r] \in Questions
    BY <1>0, <1>1 DEF Ask, Questions
  <2>2. At(r)' = At(r) /\ question[r] \in Nat
    BY <2>1 DEF At, Questions
  <2>3. \A b \in Batches : Held(r, b) = 1
    BY <1>0, <2>1 DEF Asking
  <2>4. RetrievedFromDmf(r) = Whole
    BY <1>0, <2>3 DEF RetrievedFromDmf, Whole, Held
  <2>5. framework = "mem0" => RetrievedFromMem0(r) = Whole
    <3>1. SUFFICES ASSUME framework = "mem0" PROVE points[At(r)] = Whole
      BY <1>0 DEF RetrievedFromMem0
    <3>2. points[At(r)] \in [Batches -> Nat] /\ active[r] = {}
      BY <1>0, <2>1, <3>1 DEF Copies, Asking
    <3>3. \A b \in Batches : points[At(r)][b] = 1
      BY <2>3, <3>2 DEF Held
    <3>4. QED
      BY <3>2, <3>3 DEF Whole
  <2>6. answer' = [answer EXCEPT ![At(r)][question[r]] = Whole]
    BY <1>0, <1>1, <2>4, <2>5 DEF Ask
  <2>7. \A q \in Questions : answer'[At(r)][q] =
                               IF q = question[r] THEN Whole ELSE answer[At(r)][q]
    BY <1>0, <2>1, <2>6
  <2>8. ASSUME NEW q \in Questions, q < question[r] + 1 PROVE answer'[At(r)][q] = Whole
    <3>1. q = question[r] \/ q < question[r]
      BY <2>2, <2>8 DEF Questions
    <3>2. QED
      BY <1>0, <2>1, <2>7, <3>1 DEF Asked
  <2>9. QED
    BY <2>1, <2>2, <2>8 DEF Asked
<1>2. CASE Predict(r)
  <2>1. pc'[r] \in {"verify", "ask"} /\ question'[r] = 1
    BY <1>0, <1>2 DEF Predict, Goto
  <2>2. QED
    BY <2>1 DEF Asked, Questions
<1>3. CASE Verify(r)
  <2>1. /\ pc[r] = "verify" /\ pc'[r] \in {"ask", "idle"} /\ question' = question
    BY <1>0, <1>3 DEF Verify, process
  <2>2. QED
    BY <1>0, <2>1 DEF Asked, Questions
<1>4. CASE Gather(r)
  <2>1. /\ pc[r] = "ask" /\ pc'[r] \in {"forget", "forgotten"} /\ answer' = answer
        /\ unit' = unit /\ question[r] > LastQuestion
    BY <1>0, <1>4 DEF Gather, Goto, files, process
  <2>2. \A q \in Questions : q < question[r]
    BY <1>0, <2>1 DEF Questions
  <2>3. QED
    BY <1>0, <2>1, <2>2 DEF Asked, At
<1>5. CASE ~ (Ask(r) \/ Predict(r) \/ Verify(r) \/ Gather(r))
  <2>1. SUFFICES ASSUME pc'[r] \in {"verify", "ask", "forget", "forgetting", "forgotten",
                                    "commit"}
                 PROVE  Asked(r)'
    BY DEF Asked
  <2>2. \/ Delete(r) /\ pc[r] = "forget"
        \/ Unlink(r) /\ pc[r] = "forgetting"
        \/ RecordRetention(r)
    <3>1. CASE pc'[r] \in {"verify", "ask"}
      BY <1>0, <1>5, <3>1, Goes
    <3>2. CASE pc'[r] \in {"forget", "forgetting"}
      BY <1>0, <1>5, <3>2, Goes
    <3>3. CASE pc'[r] \in {"forgotten", "commit"}
      BY <1>0, <1>5, <3>3, Goes
    <3>4. QED
      BY <2>1, <3>1, <3>2, <3>3
  <2>3. /\ pc[r] \in {"forget", "forgetting", "forgotten"}
        /\ pc'[r] \in {"forgetting", "forgotten", "commit"}
        /\ answer' = answer /\ unit' = unit
    BY <1>0, <2>2, Polled DEF Delete, Unlink, RecordRetention, Goto, files, process
  <2>4. QED
    BY <1>0, <2>3 DEF Asked, At
<1>6. QED
  BY <1>1, <1>2, <1>3, <1>4, <1>5

\* No step of its run but the last deletion touches what was dealt with.
LEMMA RetainingStep ==
    ASSUME Assumed, IInv, NEW r \in Runs, RunStep(r), ~ RequestStop(r)
    PROVE  Retaining(r)'
<1>0. /\ TypeOK /\ Asking(r) /\ Retaining(r) /\ At(r) \in Owners /\ Name(r) = At(r)
      /\ pc \in [Runs -> PlacesOfRun] /\ file \in [Owners -> BOOLEAN]
      /\ retained \in [Owners -> {"none", "kept", "deleted"}]
      /\ UNCHANGED retention
  BY Basics, Elsewhere DEF IInv, RunInv, TypeOK, PlacesOfRun
<1>1. SUFFICES ASSUME pc'[r] \in {"forget", "forgetting", "forgotten", "commit"}
               PROVE  Retaining(r)'
  BY DEF Retaining
<1>2. CASE Gather(r)
  <2>1. /\ pc[r] = "ask" /\ pc'[r] = (IF retention = "keep" THEN "forgotten" ELSE "forget")
        /\ UNCHANGED <<collection, file, unit>>
    BY <1>0, <1>2 DEF Gather, Goto, server, process
  <2>2. AllThere(At(r)) /\ file[At(r)]
    BY <1>0, <2>1 DEF Asking
  <2>3. At(r)' = At(r) /\ AllThere(At(r))'
    BY <2>1, <2>2 DEF At, AllThere
  <2>4. QED
    BY <1>0, <2>1, <2>2, <2>3 DEF Retaining, Dealt
<1>3. CASE Delete(r) /\ pc[r] = "forget"
  <2>1. pc'[r] = "forgetting" /\ retention # "keep"
    BY <1>0, <1>3, Polled DEF Delete, Retaining
  <2>2. QED
    BY <1>0, <2>1 DEF Retaining
<1>4. CASE Unlink(r) /\ pc[r] = "forgetting"
  <2>1. /\ pc'[r] = "forgotten" /\ Absent(At(r)) /\ file' = [file EXCEPT ![At(r)] = FALSE]
        /\ UNCHANGED <<collection, unit>>
    BY <1>0, <1>4, Polled DEF Unlink, Gone, UnlinkLocal, process
  <2>2. At(r)' = At(r) /\ Absent(At(r))' /\ ~ file'[At(r)]
    BY <1>0, <2>1 DEF At, Absent, Exists
  <2>3. retention # "keep"
    BY <1>0, <1>4 DEF Retaining
  <2>4. QED
    BY <1>0, <2>1, <2>2, <2>3 DEF Retaining, Dealt
<1>5. CASE RecordRetention(r)
  <2>1. /\ pc[r] = "forgotten" /\ pc'[r] = "commit" /\ UNCHANGED <<collection, file, unit>>
        /\ retained'[At(r)] = IF retention = "keep" THEN "kept" ELSE "deleted"
    BY <1>0, <1>5 DEF RecordRetention, Goto, server, process
  <2>2. Dealt(At(r))
    BY <1>0, <2>1 DEF Retaining
  <2>3. At(r)' = At(r) /\ Dealt(At(r))'
    BY <1>0, <2>1, <2>2 DEF At, Dealt, AllThere, Absent, Exists
  <2>4. QED
    BY <1>0, <2>1, <2>3 DEF Retaining
<1>6. \/ Gather(r) \/ RecordRetention(r)
      \/ Delete(r) /\ pc[r] = "forget"
      \/ Unlink(r) /\ pc[r] = "forgetting"
  <2>1. CASE pc'[r] \in {"forget", "forgetting"}
    BY <1>0, <2>1, Goes
  <2>2. CASE pc'[r] \in {"forgotten", "commit"}
    BY <1>0, <2>2, Goes
  <2>3. QED
    BY <1>1, <2>1, <2>2
<1>7. QED
  BY <1>2, <1>3, <1>4, <1>5, <1>6

LEMMA OwnStep ==
    ASSUME Assumed, IInv, NEW r \in Runs, RunStep(r)
    PROVE  RunInv(r)'
<1>1. CASE RequestStop(r)
  <2>1. /\ TypeOK /\ RunInv(r)
        /\ UNCHANGED <<framework, retention, collection, points, file, late, checkpoint,
                       answer, retained, pc, todo, unit, question, batch, active, added>>
    BY <1>1 DEF IInv, RequestStop, settings, server, files, engine
  <2>2. SameRun(r) /\ SameUnit(At(r))
    BY <2>1 DEF SameRun, SameUnit
  <2>3. QED
    BY <2>1, <2>2, KeepsRun
<1>2. CASE ~ RequestStop(r)
  BY <1>2, PlanStep, IngestingStep, AskingStep, QuietStep, AskedStep, RetainingStep DEF RunInv
<1>3. QED
  BY <1>1, <1>2

-----------------------------------------------------------------------------
(* What a step does to the units that are committed. *)

\* An attempt leaves a committed unit alone, and commits what is done.
LEMMA UnitStep ==
    ASSUME Assumed, IInv, NEW r \in Runs, RunStep(r), NEW o \in Owners
    PROVE  UnitInv(o)'
<1>0. /\ TypeOK /\ OneLate /\ RunInv(r) /\ UnitInv(o) /\ UNCHANGED retention
      /\ At(r) \in Owners /\ Name(r) = At(r)
      /\ pc \in [Runs -> PlacesOfRun] /\ checkpoint \in [Owners -> Progress]
  BY Basics, Elsewhere DEF IInv, TypeOK, PlacesOfRun
<1>1. CASE o # At(r)
  <2>1. SameUnit(o)
    BY <1>0, <1>1, Elsewhere
  <2>2. QED
    BY <1>0, <2>1, KeepsUnit
<1>2. CASE o = At(r) /\ Commit(r)
  <2>1. /\ pc[r] = "commit"
        /\ UNCHANGED <<retention, collection, file, late, answer, retained>>
    BY <1>2 DEF Commit, Goto, settings, server
  <2>2. NoLate(o) /\ Dealt(o)
        /\ retained[o] = (IF retention = "keep" THEN "kept" ELSE "deleted")
        /\ \A q \in Questions : answer[o][q] = Whole
    BY <1>0, <1>2, <2>1 DEF RunInv, Quiet, Retaining, Asked, Working
  <2>3. NoLate(o)' /\ Dealt(o)'
    BY <2>1, <2>2 DEF NoLate, Dealt, AllThere, Absent, Exists
  <2>4. QED
    BY <2>1, <2>2, <2>3 DEF UnitInv
<1>3. CASE o = At(r) /\ ~ Commit(r)
  <2>1. SUFFICES ASSUME checkpoint'[o] = "COMMITTED" PROVE UnitInv(o)'
    BY DEF UnitInv
  <2>2. UNCHANGED checkpoint
    <3>1. CASE Reset(r) \/ Predict(r)
      <4>1. \E c \in {"INGESTING", "PREDICTING"} :
               checkpoint' = [checkpoint EXCEPT ![At(r)] = c]
        BY <3>1 DEF Reset, Predict, WriteCheckpoint
      <4>2. QED
        BY <1>0, <1>3, <2>1, <4>1
    <3>2. QED
      BY <1>3, <3>1, Writers
  <2>3. pc[r] \notin AtUnit
    BY <1>0, <1>3, <2>1, <2>2 DEF RunInv, Plan
  <2>4. UNCHANGED <<collection, points, file, answer, retained>>
    <3>1. /\ UNCHANGED collection
      BY <2>3, Writers DEF AtUnit, Delete, Deleting, BuildDmf, BuildMem0, Goto, Working
    <3>2. UNCHANGED points
      BY <2>3, Writers DEF AtUnit, BuildDmf, BuildMem0, AddToDmf, AddToMem0, Goto
    <3>3. UNCHANGED file
      BY <2>3, Writers DEF AtUnit, BuildDmf, BuildMem0, Unlink, Polling, Goto, Working
    <3>4. UNCHANGED answer
      BY <2>3, Writers DEF AtUnit, Reset, Ask, Goto, Working
    <3>5. UNCHANGED retained
      BY <2>3, Writers DEF AtUnit, Reset, RecordRetention, Goto, Working
    <3>6. QED
      BY <3>1, <3>2, <3>3, <3>4, <3>5
  <2>5. late' \subseteq late
    <3>1. ~ Barrier(r)
      BY <2>3 DEF Barrier, AtUnit
    <3>2. ~ Outlives(r)
      BY <2>3 DEF Outlives, Deleting, AtUnit, Working
    <3>3. QED
      BY <3>1, <3>2, Writers DEF Kill, Fail, LeftBehind
  <2>6. SameUnit(o)
    BY <2>2, <2>4, <2>5 DEF SameUnit
  <2>7. QED
    BY <1>0, <2>6, KeepsUnit
<1>4. QED
  BY <1>1, <1>2, <1>3

-----------------------------------------------------------------------------
(* What the server does. *)

\* The processes and their files are as they were, in every unit.
ServerStep ==
    /\ UNCHANGED <<framework, schema, retention, file, checkpoint, answer, retained>>
    /\ UNCHANGED <<pc, todo, unit, question, batch, active, added>>
    /\ late' \subseteq late

LEMMA ServerKeeps ==
    ASSUME Assumed, IInv, ServerStep, NEW n \in Owners,
           \A o \in Owners : o # n => collection'[o] = collection[o] /\ points'[o] = points[o]
    PROVE  /\ \A r \in Runs : At(r) # n => RunInv(r)'
           /\ \A o \in Owners : o # n => UnitInv(o)'
<1>0. TypeOK /\ (\A r \in Runs : RunInv(r)) /\ (\A o \in Owners : UnitInv(o))
  BY DEF IInv
<1>1. ASSUME NEW o \in Owners, o # n PROVE SameUnit(o)
  BY <1>1 DEF ServerStep, SameUnit
<1>2. ASSUME NEW r \in Runs, At(r) # n PROVE RunInv(r)'
  <2>1. SameRun(r)
    BY DEF ServerStep, SameRun
  <2>2. At(r) \in Owners
    BY <1>0, Basics
  <2>3. SameUnit(At(r))
    BY <1>1, <1>2, <2>2
  <2>4. UNCHANGED <<framework, retention>> /\ UNCHANGED checkpoint
    BY DEF ServerStep
  <2>5. QED
    BY <1>0, <2>1, <2>3, <2>4, KeepsRun
<1>3. ASSUME NEW o \in Owners, o # n PROVE UnitInv(o)'
  <2>1. UNCHANGED retention
    BY DEF ServerStep
  <2>2. QED
    BY <1>0, <1>1, <1>3, <2>1, KeepsUnit
<1>4. QED
  BY <1>2, <1>3

\* At the unit itself what an ingestion holds is what is left to show.
LEMMA ServerDisturbs ==
    ASSUME Assumed, IInv, ServerStep, NEW r \in Runs, pc[r] \notin Working, Ingesting(r)'
    PROVE  RunInv(r)'
<1>1. RunInv(r) /\ UNCHANGED <<pc, todo, unit, checkpoint>> /\ At(r)' = At(r)
  BY DEF IInv, ServerStep, At
<1>2. Plan(r)'
  BY <1>1 DEF RunInv, Plan
<1>3. Asking(r)' /\ Quiet(r)' /\ Asked(r)' /\ Retaining(r)'
  BY <1>1 DEF Working, Asking, Quiet, Asked, Retaining
<1>4. QED
  BY <1>2, <1>3 DEF RunInv

\* A deletion that ends is one of a unit that is neither asked nor dealt with.
LEMMA VanishStep ==
    ASSUME Assumed, IInv, NEW n \in Owners, NEW role \in Roles, Vanish(n, role)
    PROVE  /\ \A r \in Runs : RunInv(r)'
           /\ \A o \in Owners : UnitInv(o)'
<1>0. /\ TypeOK /\ (\A r \in Runs : RunInv(r)) /\ (\A o \in Owners : UnitInv(o))
      /\ collection \in [Owners -> [Roles -> {"absent", "there", "deleting"}]]
      /\ points \in [Owners -> Copies]
  BY DEF IInv, TypeOK
<1>1. /\ ServerStep /\ UNCHANGED late
      /\ collection[n][role] = "deleting"
      /\ collection' = [collection EXCEPT ![n][role] = "absent"]
      /\ points' = IF role = "primary" THEN [points EXCEPT ![n] = NoCopies] ELSE points
  BY DEF Vanish, ServerStep, settings, files, process, engine
<1>2. \A o \in Owners : o # n => collection'[o] = collection[o] /\ points'[o] = points[o]
  BY <1>0, <1>1
<1>3. ~ AllThere(n) /\ ~ Absent(n)
  BY <1>1 DEF AllThere, Absent, Exists
<1>4. ASSUME NEW r \in Runs, At(r) = n PROVE RunInv(r)'
  <2>1. RunInv(r) /\ At(r)' = n /\ UNCHANGED <<pc, retention>>
    BY <1>0, <1>1, <1>4 DEF ServerStep, At
  <2>2. ~ Dealt(n)
    BY <1>3 DEF Dealt
  <2>3. pc[r] \notin {"predict", "verify", "ask", "forgotten", "commit"}
    BY <1>3, <1>4, <2>1, <2>2 DEF RunInv, Asking, Retaining
  <2>4. Ingesting(r)'
    <3>1. SUFFICES ASSUME pc[r] = "ingest" PROVE Ingesting(r)'
      BY <2>1 DEF Ingesting
    <3>2. /\ added[r] = batch[r] - 1 /\ active[r] \subseteq {b \in Batches : b < batch[r]}
          /\ framework = "mem0" => active[r] = {}
          /\ file[n] /\ NoLate(n)
          /\ collection[n]["primary"] = "there" => Lossless(r) \/ Unrepeated(r)
      BY <1>3, <1>4, <2>1, <3>1 DEF RunInv, Ingesting
    <3>3. NoLate(n)'
      BY <1>1, <3>2 DEF NoLate
    <3>4. ASSUME collection'[n]["primary"] = "there"
          PROVE  Lossless(r)' \/ Unrepeated(r)'
      <4>1. /\ role # "primary" /\ points' = points
            /\ collection[n]["primary"] = "there"
        BY <1>0, <1>1, <3>4 DEF Roles
      <4>2. \A b : Held(r, b)' = Held(r, b)
        BY <1>1, <1>4, <2>1, <4>1 DEF Held, ServerStep
      <4>3. /\ Lossless(r) => Lossless(r)'
            /\ Unrepeated(r) => Unrepeated(r)'
        BY <1>1, <1>4, <2>1, <4>2 DEF Lossless, Unrepeated, NoLateCopy, ServerStep
      <4>4. QED
        BY <3>2, <4>1, <4>3
    <3>5. QED
      BY <1>1, <2>1, <3>2, <3>3, <3>4 DEF Ingesting, ServerStep
  <2>5. CASE pc[r] \notin Working
    BY <1>1, <2>4, <2>5, ServerDisturbs
  <2>6. CASE pc[r] \in {"forget", "forgetting"}
    <3>1. Plan(r)' /\ Asked(r)' /\ Quiet(r)'
      BY <1>1, <1>4, <2>1, <2>6 DEF RunInv, Plan, Asked, Quiet, NoLate, ServerStep
    <3>2. Asking(r)' /\ Retaining(r)'
      BY <1>1, <2>1, <2>6 DEF RunInv, Asking, Retaining, ServerStep
    <3>3. QED
      BY <2>4, <3>1, <3>2 DEF RunInv
  <2>7. QED
    BY <2>3, <2>5, <2>6 DEF Working
<1>5. UnitInv(n)'
  BY <1>0, <1>1, <1>3 DEF UnitInv, Dealt, ServerStep
<1>6. QED
  BY <1>1, <1>2, <1>4, <1>5, ServerKeeps

\* A request that arrives late finds its unit in no attempt, or in an ingestion,
\* whose collections are there: it begins to delete one of them, and none is on
\* its way any more, or it adds a copy of a batch to a memory without a loss.
LEMMA ArriveStep ==
    ASSUME Assumed, IInv, NEW q \in late, Arrive(q)
    PROVE  /\ \A r \in Runs : RunInv(r)'
           /\ \A o \in Owners : UnitInv(o)'
<1> DEFINE n == q.at
<1>0. /\ TypeOK /\ OneLate /\ (\A r \in Runs : RunInv(r)) /\ (\A o \in Owners : UnitInv(o))
      /\ collection \in [Owners -> [Roles -> {"absent", "there", "deleting"}]]
      /\ points \in [Owners -> Copies] /\ n \in Owners
      /\ "primary" \in Roles
  BY Requests DEF IInv, TypeOK, Roles
<1>1. /\ ServerStep /\ late' = late \ {q}
      /\ \A r \in Runs : pc[r] \in Working => At(r) # n
  BY NameIs DEF Arrive, ServerStep, server, settings, files, process, engine
<1>2. NoLate(n)' /\ NoLateCopy(n)' /\ ~ NoLate(n)
  BY <1>0, <1>1 DEF OneLate, NoLate, NoLateCopy
<1>3. \/ /\ q.op = "delete" /\ q.role \in Roles /\ Exists(n, q.role)
         /\ collection' = [collection EXCEPT ![n][q.role] = "deleting"]
         /\ points' = points
      \/ /\ q.op = "create" /\ q.role \in Roles /\ ~ Exists(n, q.role)
         /\ collection' = [collection EXCEPT ![n][q.role] = "there"]
         /\ points' = IF q.role = "primary" THEN [points EXCEPT ![n] = NoCopies] ELSE points
      \/ /\ q.op = "add" /\ collection' = collection /\ points' = Stored(n, {q.batch})
      \/ collection' = collection /\ points' = points
  <2>1. q.op \in {"create", "delete"} => q.role \in Roles
    BY <1>0, Requests
  <2>2. QED
    BY <2>1 DEF Arrive, server
<1>4. \A o \in Owners : o # n => collection'[o] = collection[o] /\ points'[o] = points[o]
  BY <1>0, <1>3, StoredIs
<1>5. ASSUME NEW r \in Runs, At(r) = n PROVE RunInv(r)'
  <2>1. RunInv(r) /\ At(r)' = n /\ pc' = pc /\ pc[r] \notin Working
    BY <1>0, <1>1, <1>5 DEF ServerStep, At
  <2>2. Ingesting(r)'
    <3>1. SUFFICES ASSUME pc[r] = "ingest" PROVE Ingesting(r)'
      BY <2>1 DEF Ingesting
    <3>2. /\ added[r] = batch[r] - 1 /\ active[r] \subseteq {b \in Batches : b < batch[r]}
          /\ framework = "mem0" => active[r] = {}
          /\ file[n] /\ AllThere(n)
          /\ Lossless(r) \/ Unrepeated(r)
      BY <1>0, <1>2, <1>5, <2>1, <3>1 DEF RunInv, Ingesting, AllThere
    <3>3. ~ (q.op = "create" /\ q.role \in Roles /\ ~ Exists(n, q.role))
      BY <3>2 DEF AllThere, Exists
    <3>4. CASE points' = points
      <4>1. \A b : Held(r, b)' = Held(r, b)
        BY <1>1, <1>5, <2>1, <3>4 DEF Held, ServerStep
      <4>2. Lossless(r)' \/ Unrepeated(r)'
        BY <1>1, <1>2, <2>1, <3>2, <4>1 DEF Lossless, Unrepeated, ServerStep
      <4>3. QED
        BY <1>1, <1>2, <2>1, <3>2, <4>2 DEF Ingesting, ServerStep
    <3>5. CASE q.op = "add" /\ collection' = collection /\ points' = Stored(n, {q.batch})
      <4>1. Lossless(r)
        BY <1>5, <3>2, <3>5 DEF Unrepeated, NoLateCopy
      <4>2. \A b \in Batches : points'[n][b] >= points[n][b] /\ points'[n][b] \in Nat
                               /\ points[n][b] \in Nat
        <5>1. SUFFICES ASSUME NEW b \in Batches
                       PROVE  points'[n][b] >= points[n][b] /\ points'[n][b] \in Nat
                              /\ points[n][b] \in Nat
          OBVIOUS
        <5>2. points[n][b] \in Nat
          BY <1>0 DEF Copies
        <5>3. points'[n][b] = points[n][b] + (IF b \in {q.batch} THEN 1 ELSE 0)
          BY <1>0, <3>5, StoredIs
        <5>4. QED
          BY <5>2, <5>3
      <4>3. ASSUME NEW b \in Batches, b < batch[r] PROVE Held(r, b)' >= 1
        <5>1. Held(r, b) >= 1
          BY <4>1, <4>3 DEF Lossless
        <5>2. QED
          BY <1>1, <1>5, <2>1, <4>2, <5>1 DEF Held, ServerStep
      <4>4. Lossless(r)'
        BY <1>1, <4>3 DEF Lossless, ServerStep
      <4>5. QED
        BY <1>1, <1>2, <2>1, <3>2, <4>4 DEF Ingesting, ServerStep
    <3>6. QED
      BY <1>3, <3>3, <3>4, <3>5
  <2>3. QED
    BY <1>1, <2>1, <2>2, ServerDisturbs
<1>6. UnitInv(n)'
  BY <1>0, <1>1, <1>2 DEF UnitInv, ServerStep
<1>7. QED
  BY <1>0, <1>1, <1>4, <1>5, <1>6, ServerKeeps

-----------------------------------------------------------------------------
(* The theorems. *)

LEMMA Start0 ==
    ASSUME Assumed, Init
    PROVE  IInv
<1>1. TypeOK
  <2>1. /\ Units = 1 .. LastUnit /\ 1 \in Units /\ NoCopies \in Copies
        /\ 1 \in 1 .. LastBatch + 1 /\ 1 \in 1 .. LastQuestion + 1 /\ 0 \in 0 .. LastBatch
        /\ 0 \in 0 .. MaxFaults
    BY Constants DEF Units, NoCopies, Copies
  <2>2. unit \in [Runs -> Units] /\ batch = [r \in Runs |-> 1] /\ question = [r \in Runs |-> 1]
        /\ active = [r \in Runs |-> {}]
    BY <2>1 DEF Init
  <2>3. /\ framework \in Frameworks /\ schema \in Schemas
        /\ retention \in {"keep", "delete-on-success"}
        /\ collection \in [Owners -> [Roles -> {"absent", "there", "deleting"}]]
        /\ points \in [Owners -> Copies] /\ file \in [Owners -> BOOLEAN]
        /\ late = {}
    BY <2>1 DEF Init
  <2>4. /\ checkpoint \in [Owners -> Progress]
        /\ answer \in [Owners -> [Questions -> Copies]]
        /\ retained \in [Owners -> {"none", "kept", "deleted"}]
    BY <2>1 DEF Init, Progress, Unasked
  <2>5. /\ status \in [Runs -> StatusOfRun] /\ pc \in [Runs -> PlacesOfRun]
        /\ todo \in [Runs -> SUBSET Units]
        /\ batch \in [Runs -> 1 .. LastBatch + 1]
        /\ question \in [Runs -> 1 .. LastQuestion + 1]
        /\ active \in [Runs -> SUBSET Batches] /\ added \in [Runs -> 0 .. LastBatch]
        /\ stopping \in [Runs -> BOOLEAN] /\ faults \in 0 .. MaxFaults
    BY <2>1, <2>2 DEF Init, PlacesOfRun, StatusOfRun
  <2>6. QED
    BY <2>2, <2>3, <2>4, <2>5 DEF TypeOK, PlacesOfRun, StatusOfRun
<1>2. OneLate
  BY DEF Init, OneLate
<1>3. ASSUME NEW r \in Runs PROVE RunInv(r)
  <2>1. pc[r] = "idle" /\ todo[r] = {}
    BY DEF Init
  <2>2. Plan(r)
    BY <2>1 DEF Plan, AtUnit, Working
  <2>3. Ingesting(r) /\ Asking(r) /\ Quiet(r) /\ Asked(r) /\ Retaining(r)
    BY <2>1 DEF Ingesting, Asking, Quiet, Asked, Retaining, Working
  <2>4. QED
    BY <2>2, <2>3 DEF RunInv
<1>4. \A o \in Owners : UnitInv(o)
  BY DEF Init, UnitInv
<1>5. QED
  BY <1>1, <1>2, <1>3, <1>4 DEF IInv

LEMMA Inductive ==
    ASSUME Assumed, IInv, [Next]_vars
    PROVE  IInv'
<1>1. TypeOK' /\ OneLate'
  BY TypeStep
<1>2. (\A r \in Runs : RunInv(r)') /\ (\A o \in Owners : UnitInv(o)')
  <2>1. CASE UNCHANGED vars
    <3>1. /\ ServerStep
          /\ \A o \in Owners : collection'[o] = collection[o] /\ points'[o] = points[o]
      BY <2>1 DEF vars, ServerStep, settings, server, files, process, engine
    <3>2. (\A r \in Runs : RunInv(r)) /\ (\A o \in Owners : UnitInv(o)) /\ TypeOK
      BY DEF IInv
    <3>3. ASSUME NEW o \in Owners PROVE SameUnit(o)
      BY <3>1 DEF ServerStep, SameUnit
    <3>4. ASSUME NEW r \in Runs PROVE RunInv(r)'
      <4>1. SameRun(r) /\ UNCHANGED <<framework, retention>> /\ UNCHANGED checkpoint
        BY <3>1 DEF ServerStep, SameRun
      <4>2. SameUnit(At(r))
        BY <3>2, <3>3, Basics
      <4>3. QED
        BY <3>2, <4>1, <4>2, KeepsRun
    <3>5. ASSUME NEW o \in Owners PROVE UnitInv(o)'
      BY <3>1, <3>2, <3>3, KeepsUnit DEF ServerStep
    <3>6. QED
      BY <3>4, <3>5
  <2>2. CASE \E r \in Runs : RunStep(r)
    <3>1. PICK r \in Runs : RunStep(r)
      BY <2>2
    <3>2. \A s \in Runs : RunInv(s)'
      BY <3>1, OtherRuns, OwnStep
    <3>3. \A o \in Owners : UnitInv(o)'
      BY <3>1, UnitStep
    <3>4. QED
      BY <3>2, <3>3
  <2>3. CASE \E n \in Owners, role \in Roles : Vanish(n, role)
    BY <2>3, VanishStep
  <2>4. CASE \E q \in late : Arrive(q)
    BY <2>4, ArriveStep
  <2>5. QED
    BY <2>1, <2>2, <2>3, <2>4, Steps
<1>3. QED
  BY <1>1, <1>2 DEF IInv

LEMMA Invariant == ASSUME Assumed PROVE Spec => []IInv
<1>1. Init => IInv
  BY Start0
<1>2. IInv /\ [Next]_vars => IInv'
  BY Inductive
<1>3. QED
  BY <1>1, <1>2, PTL DEF Spec

\* The variables keep their types.
THEOREM TypeCorrect == ASSUME Assumed PROVE Spec => []TypeOK
<1>1. IInv => TypeOK
  BY DEF IInv
<1>2. QED
  BY <1>1, Invariant, PTL

\* The answers of a committed unit come from a memory with every batch of the
\* unit just once: what the barriers of both adapters, and the listener to the
\* library's log, are for.
THEOREM WholeMemory == ASSUME Assumed PROVE Spec => []AnsweredFromWholeMemory
<1>1. IInv => AnsweredFromWholeMemory
  BY DEF IInv, UnitInv, AnsweredFromWholeMemory
<1>2. QED
  BY <1>1, Invariant, PTL

\* A unit committed under delete-on-success has left nothing on the server and
\* on the disk, and no request comes late to bring something back.
THEOREM NothingLeft == ASSUME Assumed PROVE Spec => []RetentionHonoured
<1>1. IInv => RetentionHonoured
  BY DEF IInv, UnitInv, Dealt, RetentionHonoured
<1>2. QED
  BY <1>1, Invariant, PTL

\* A unit committed under keep has its collections and its file for good, over
\* the later work of its run and of the other runs on the server.
THEOREM MemoryKept == ASSUME Assumed PROVE Spec => []KeptMemoryStays
<1>1. IInv => KeptMemoryStays
  BY DEF IInv, UnitInv, Dealt, AllThere, KeptMemoryStays
<1>2. QED
  BY <1>1, Invariant, PTL

-----------------------------------------------------------------------------
(* LightMem. *)

LmStages == {"idle", "clean", "adding", "queued", "updated", "prepared"}
LmWorking == {"adding", "queued", "updated", "prepared"}

LmTyped ==
    /\ root \in BOOLEAN /\ stage \in LmStages /\ at \in Nat \ {0}
    /\ DOMAIN index \subseteq LightMem!Ids
    /\ \A id \in DOMAIN index : index[id] \in LightMem!Entries
    /\ \A id \in DOMAIN lineage : lineage[id] \in LightMem!Events
    /\ candidates \subseteq LightMem!Ids /\ DOMAIN actions \subseteq candidates
    /\ asked = Cardinality(DOMAIN actions)

\* What is on disk is in a directory; an attempt starts with none.
LmDirectory ==
    /\ stage \in LmWorking => root
    /\ index # LightMem!None => root
    /\ stage = "clean" => index = LightMem!None /\ lineage = LightMem!None

\* Until the manager decides, an entry reads as it was extracted from its event.
LmAdded ==
    /\ stage \in {"clean", "adding"} => candidates = {} /\ DOMAIN actions = {}
    /\ stage = "adding" =>
          DOMAIN lineage = DOMAIN index /\ \A id \in DOMAIN index : ~ index[id].rewritten

\* From then on only entries that were to be decided on read otherwise.
LmQueued ==
    stage \in {"adding", "queued", "updated"} =>
        /\ DOMAIN index \subseteq DOMAIN lineage
        /\ \A id \in DOMAIN index :
              /\ index[id].event = lineage[id]
              /\ index[id].rewritten => id \in candidates

\* An index that was prepared: its sources are exact, its updates as decided.
Sourced(entries) ==
    \A id \in DOMAIN lineage :
        id \in DOMAIN entries /\ entries[id].event = lineage[id] /\ ~ entries[id].rewritten
Settled(entries) ==
    /\ DOMAIN actions = candidates
    /\ \A id \in candidates :
          /\ id \in DOMAIN entries <=> actions[id] # "delete"
          /\ id \in DOMAIN entries => (entries[id].rewritten <=> actions[id] = "update")

LmPrepared ==
    /\ stage \in {"clean", "adding", "queued", "updated"} => handle = {}
    /\ stage = "prepared" => handle # {}
    /\ \A h \in handle : h.lineage = lineage /\ Sourced(h.digest) /\ Settled(h.digest)

\* Once a query was answered the index stays as it was prepared.
LmRetrieved ==
    /\ retrieved # {} => stage = "prepared" /\ LightMem!Verified
    /\ \A r \in retrieved : /\ r.index = index /\ r.lineage = lineage
                            /\ r.actions = actions /\ r.candidates = candidates

LmInv == LmTyped /\ LmDirectory /\ LmAdded /\ LmQueued /\ LmPrepared /\ LmRetrieved

\* An instance has the library's operators as its own.
LEMMA LmCardinality == \A S : LightMem!Cardinality(S) = Cardinality(S)
BY Zenon DEF LightMem!Cardinality, Cardinality

LEMMA LmConstants ==
    ASSUME EmbeddedAssumption
    PROVE  /\ LightMemEvents \in Nat \ {0} /\ LightMemEntries \in Nat
           /\ LightMem!Events = 1 .. LightMemEvents /\ LightMem!Ids = 1 .. LightMemEntries
BY DEF EmbeddedAssumption, LightMem!BoundAssumption, LightMem!Events, LightMem!Ids

LEMMA NothingThere ==
    DOMAIN LightMem!None = {} /\ Cardinality({}) = 0
BY FS_EmptySet DEF LightMem!None

LEMMA LmFinite == ASSUME EmbeddedAssumption
                  PROVE  /\ IsFiniteSet(LightMem!Ids) /\ Cardinality(LightMem!Ids) = LightMemEntries
                         /\ \A T \in SUBSET LightMem!Ids :
                               IsFiniteSet(T) /\ Cardinality(T) \in Nat
                               /\ Cardinality(T) <= LightMemEntries
<1>1. LightMemEntries \in Nat /\ LightMem!Ids = 1 .. LightMemEntries
  BY LmConstants
<1>2. 1 \in Int /\ LightMemEntries \in Int
  BY <1>1
<1>3. /\ IsFiniteSet(1 .. LightMemEntries)
      /\ Cardinality(1 .. LightMemEntries) =
            (IF 1 > LightMemEntries THEN 0 ELSE LightMemEntries - 1 + 1)
  BY <1>2, FS_Interval, Zenon
<1>4. IsFiniteSet(LightMem!Ids) /\ Cardinality(LightMem!Ids) = LightMemEntries
  BY <1>1, <1>3
<1>5. QED
  BY <1>4, FS_Subset, FS_CardinalityType

LEMMA LmStart == ASSUME EmbeddedAssumption, LightMem!Init PROVE LmInv
<1>1. LmTyped
  <2>1. asked = Cardinality(DOMAIN actions)
    BY NothingThere, Zenon DEF LightMem!Init
  <2>2. QED
    <3>1. root \in BOOLEAN /\ stage \in LmStages /\ at \in Nat \ {0}
      <4>1. root = FALSE /\ stage = "idle" /\ at = 1
        BY Zenon DEF LightMem!Init
      <4>2. root \in BOOLEAN
        BY <4>1, Zenon
      <4>3. stage \in LmStages /\ at \in Nat \ {0}
        BY <4>1 DEF LmStages
      <4>4. QED
        BY <4>2, <4>3
    <3>2. DOMAIN index = {} /\ DOMAIN lineage = {} /\ candidates = {} /\ DOMAIN actions = {}
      BY NothingThere, Zenon DEF LightMem!Init
    <3>3. QED
      BY <2>1, <3>1, <3>2 DEF LmTyped
<1>2. LmDirectory /\ LmAdded /\ LmQueued /\ LmPrepared /\ LmRetrieved
  BY NothingThere DEF LightMem!Init, LmDirectory, LmAdded, LmQueued, LmPrepared, LmRetrieved,
                      LmWorking
<1>3. QED
  BY <1>1, <1>2 DEF LmInv

\* A cleaned up unit, whatever was there.
LEMMA LmCleaned ==
    ASSUME LmInv, LightMem!Cleanup, retrieved' = retrieved, retrieved = {},
           stage' \in {"idle", "clean"}
    PROVE  LmInv'
<1>1. /\ root' = FALSE /\ index' = LightMem!None /\ handle' = {} /\ at' = 1
      /\ lineage' = LightMem!None /\ candidates' = {} /\ actions' = LightMem!None /\ asked' = 0
  BY DEF LightMem!Cleanup
<1>2. LmTyped'
  <2>1. asked' = Cardinality(DOMAIN actions')
    BY <1>1, NothingThere, Zenon
  <2>2. QED
    <3>1. root' \in BOOLEAN /\ stage' \in LmStages /\ at' \in Nat \ {0}
      <4>1. root' \in BOOLEAN
        BY <1>1, Zenon
      <4>2. stage' \in LmStages /\ at' \in Nat \ {0}
        BY <1>1 DEF LmStages
      <4>3. QED
        BY <4>1, <4>2
    <3>2. DOMAIN index' = {} /\ DOMAIN lineage' = {} /\ candidates' = {} /\ DOMAIN actions' = {}
      BY <1>1, NothingThere, Zenon
    <3>3. QED
      BY <2>1, <3>1, <3>2 DEF LmTyped
<1>3. LmDirectory' /\ LmAdded' /\ LmQueued' /\ LmPrepared' /\ LmRetrieved'
  BY <1>1, NothingThere DEF LmDirectory, LmAdded, LmQueued, LmPrepared, LmRetrieved, LmWorking
<1>4. QED
  BY <1>2, <1>3 DEF LmInv

LEMMA LmBegin == ASSUME LmInv, LightMem!Begin PROVE LmInv'
<1>1. /\ stage = "clean" /\ stage' = "adding" /\ root' = TRUE
      /\ UNCHANGED <<index, manifest, at, lineage, candidates, actions, asked, handle, retrieved>>
  BY DEF LightMem!Begin, LightMem!Goto, LightMem!engine
<1>2. index = LightMem!None /\ lineage = LightMem!None /\ retrieved = {}
  BY <1>1 DEF LmInv, LmDirectory, LmRetrieved
<1>3. LmTyped'
  BY <1>1 DEF LmInv, LmTyped, LmStages
<1>4. LmDirectory' /\ LmAdded' /\ LmQueued' /\ LmPrepared' /\ LmRetrieved'
  BY <1>1, <1>2, NothingThere
     DEF LmInv, LmDirectory, LmAdded, LmQueued, LmPrepared, LmRetrieved, LmWorking
<1>5. QED
  BY <1>3, <1>4 DEF LmInv

LEMMA LmAddEvent == ASSUME EmbeddedAssumption, LmInv, LightMem!AddEvent PROVE LmInv'
<1>1. /\ stage = "adding" /\ stage' = stage /\ at \in LightMem!Events /\ at' = at + 1
      /\ UNCHANGED <<root, candidates, actions, asked, handle, retrieved>>
  BY DEF LightMem!AddEvent
<1> DEFINE last == LightMem!Cardinality(DOMAIN index)
<1>2. PICK n \in 0 .. 2, stamped \in BOOLEAN :
        LET new == (last + 1) .. (last + n)
            extracted == [id \in new |-> [event |-> at, rewritten |-> FALSE,
                                          stamped |-> stamped]]
            stored == LightMem!Stamped(extracted)
        IN  /\ last + n <= LightMemEntries
            /\ index' = [id \in DOMAIN index \cup new |->
                            IF id \in new THEN stored[id] ELSE index[id]]
            /\ lineage' = [id \in DOMAIN lineage \cup new |->
                              IF id \in new THEN at ELSE lineage[id]]
  BY Zenon DEF LightMem!AddEvent
<1> DEFINE new == (last + 1) .. (last + n)
           extracted == [id \in new |-> [event |-> at, rewritten |-> FALSE, stamped |-> stamped]]
           stored == LightMem!Stamped(extracted)
<1>3. \A id \in new : /\ stored[id] \in LightMem!Entries
                      /\ stored[id].event = at /\ stored[id].rewritten = FALSE
  <2>1. \A id \in new : /\ extracted[id] \in LightMem!Entries
                        /\ extracted[id].event = at /\ extracted[id].rewritten = FALSE
    BY <1>1 DEF LightMem!Entries
  <2>2. \A id \in new : stored[id] = [extracted[id] EXCEPT !.stamped = TRUE]
    BY DEF LightMem!Stamped
  <2> HIDE DEF extracted, stored
  <2>3. QED
    BY <2>1, <2>2 DEF LightMem!Entries
<1>4. /\ last + n <= LightMemEntries
      /\ DOMAIN index' = DOMAIN index \cup new
      /\ \A id \in DOMAIN index \cup new :
            index'[id] = IF id \in new THEN stored[id] ELSE index[id]
      /\ DOMAIN lineage' = DOMAIN lineage \cup new
      /\ \A id \in DOMAIN lineage \cup new :
            lineage'[id] = IF id \in new THEN at ELSE lineage[id]
  <2> HIDE DEF last
  <2>1. QED
    BY <1>2
<1>5. last \in Nat
  <2>1. IsFiniteSet(DOMAIN index)
    BY LmFinite DEF LmInv, LmTyped
  <2>2. QED
    BY <2>1, FS_CardinalityType, LmCardinality
<1> HIDE DEF stored, extracted, last
<1>6. new \subseteq LightMem!Ids
  BY <1>4, <1>5, LmConstants
<1> HIDE DEF new
<1>7. LmTyped'
  BY <1>1, <1>3, <1>4, <1>6 DEF LmInv, LmTyped
<1>8. LmAdded' /\ LmQueued'
  BY <1>1, <1>3, <1>4 DEF LmInv, LmAdded, LmQueued
<1>9. LmDirectory' /\ LmPrepared'
  BY <1>1 DEF LmInv, LmDirectory, LmPrepared, LmWorking
<1>10. LmRetrieved'
  BY <1>1 DEF LmInv, LmRetrieved
<1>11. QED
  BY <1>7, <1>8, <1>9, <1>10 DEF LmInv

LEMMA LmBuildQueue == ASSUME LmInv, LightMem!BuildQueue PROVE LmInv'
<1>1. /\ stage = "adding" /\ stage' = "queued" /\ candidates' \in SUBSET DOMAIN index
      /\ UNCHANGED <<root, index, manifest, at, lineage, actions, asked, handle, retrieved>>
  BY DEF LightMem!BuildQueue, LightMem!Goto, LightMem!disk
<1>2. LmTyped'
  BY <1>1 DEF LmInv, LmTyped, LmAdded, LmStages
<1>3. LmDirectory' /\ LmAdded' /\ LmQueued' /\ LmPrepared' /\ LmRetrieved'
  BY <1>1 DEF LmInv, LmDirectory, LmAdded, LmQueued, LmPrepared, LmRetrieved, LmWorking
<1>4. QED
  BY <1>2, <1>3 DEF LmInv

\* Whatever the library did for a decision, only this entry may read otherwise.
LEMMA AppliedIs ==
    ASSUME NEW id, NEW action
    PROVE  LET after == LightMem!Applied(id, action) IN
               /\ DOMAIN after \subseteq DOMAIN index
               /\ \A x \in DOMAIN after :
                     /\ x # id => after[x] = index[x]
                     /\ index[x] \in LightMem!Entries =>
                           after[x] \in LightMem!Entries /\ after[x].event = index[x].event
<1>1. CASE action = "delete"
  BY <1>1 DEF LightMem!Applied, LightMem!Drop
<1>2. CASE action = "update"
  <2>1. LightMem!Applied(id, action) = [index EXCEPT ![id].rewritten = TRUE]
    BY <1>2 DEF LightMem!Applied
  <2> DEFINE after == [index EXCEPT ![id].rewritten = TRUE]
  <2>2. DOMAIN after = DOMAIN index /\ \A x \in DOMAIN index : x # id => after[x] = index[x]
    OBVIOUS
  <2>3. id \in DOMAIN index => after[id] = [index[id] EXCEPT !.rewritten = TRUE]
    OBVIOUS
  <2> HIDE DEF after
  <2>4. ASSUME NEW entry \in LightMem!Entries
        PROVE  LET made == [entry EXCEPT !.rewritten = TRUE] IN
                   made \in LightMem!Entries /\ made.event = entry.event
    BY DEF LightMem!Entries
  <2>5. QED
    BY <2>1, <2>2, <2>3, <2>4 DEF after
<1>3. CASE action \notin {"delete", "update"}
  BY <1>3 DEF LightMem!Applied
<1>4. QED
  BY <1>1, <1>2, <1>3

LEMMA LmUpdate ==
    ASSUME EmbeddedAssumption, LmInv, NEW id \in LightMem!Ids, LightMem!Update(id)
    PROVE  LmInv'
<1>1. /\ stage = "queued" /\ stage' = stage /\ id \in candidates \ DOMAIN actions
      /\ asked' = asked + 1
      /\ UNCHANGED <<root, at, lineage, candidates, handle, retrieved>>
  BY DEF LightMem!Update
<1>2. PICK action \in LightMem!Actions : index' = LightMem!Applied(id, action)
  BY DEF LightMem!Update
<1>3. DOMAIN actions' = DOMAIN actions \cup {id}
  BY DEF LightMem!Update
<1>4. /\ DOMAIN index' \subseteq DOMAIN index
      /\ \A x \in DOMAIN index' :
            /\ x # id => index'[x] = index[x]
            /\ index[x] \in LightMem!Entries =>
                  index'[x] \in LightMem!Entries /\ index'[x].event = index[x].event
  BY <1>2, AppliedIs
<1>5. LmTyped'
  <2>1. IsFiniteSet(DOMAIN actions)
    BY LmFinite DEF LmInv, LmTyped
  <2>2. Cardinality(DOMAIN actions \cup {id}) = Cardinality(DOMAIN actions) + 1
    BY <1>1, <2>1, FS_AddElement
  <2>3. QED
    BY <1>1, <1>3, <1>4, <2>2 DEF LmInv, LmTyped
<1>6. LmQueued'
  BY <1>1, <1>4 DEF LmInv, LmTyped, LmQueued
<1>7. LmDirectory' /\ LmAdded' /\ LmPrepared' /\ LmRetrieved'
  BY <1>1 DEF LmInv, LmDirectory, LmAdded, LmPrepared, LmRetrieved, LmWorking
<1>8. QED
  BY <1>5, <1>6, <1>7 DEF LmInv

LEMMA LmEndUpdates == ASSUME LmInv, LightMem!EndUpdates PROVE LmInv'
<1>1. /\ stage = "queued" /\ stage' = "updated"
      /\ UNCHANGED <<root, index, manifest, at, lineage, candidates, actions, asked, handle,
                     retrieved>>
  BY DEF LightMem!EndUpdates, LightMem!Goto, LightMem!disk, LightMem!engine
<1>2. LmTyped'
  BY <1>1 DEF LmInv, LmTyped, LmStages
<1>3. LmDirectory' /\ LmAdded' /\ LmQueued' /\ LmPrepared' /\ LmRetrieved'
  BY <1>1 DEF LmInv, LmDirectory, LmAdded, LmQueued, LmPrepared, LmRetrieved, LmWorking
<1>4. QED
  BY <1>2, <1>3 DEF LmInv

LEMMA LmCommit == ASSUME LmInv, LightMem!Commit PROVE LmInv'
<1>1. /\ stage = "updated" /\ stage' = "prepared" /\ LightMem!AllCommitted
      /\ lineage' = LightMem!Exact /\ handle' = LightMem!Evidence(lineage', index)
      /\ manifest' = handle'
      /\ UNCHANGED <<root, index, at, candidates, actions, asked, retrieved>>
  BY DEF LightMem!Commit, LightMem!Goto
<1>2. /\ DOMAIN lineage' \subseteq DOMAIN lineage \cap DOMAIN index
      /\ \A id \in DOMAIN lineage' :
            lineage'[id] = lineage[id] /\ ~ (id \in candidates /\ index[id].rewritten)
  BY <1>1 DEF LightMem!Exact
<1>3. handle' # {} /\ \A h \in handle' : h.lineage = lineage' /\ h.digest = index
  BY <1>1 DEF LightMem!Evidence
<1>4. LmTyped'
  BY <1>1, <1>2 DEF LmInv, LmTyped, LmStages
<1>5. Sourced(index)'
  BY <1>1, <1>2 DEF LmInv, LmQueued, Sourced
<1>6. Settled(index)'
  <2>1. DOMAIN actions = candidates
    BY <1>1 DEF LightMem!AllCommitted
  <2>2. ASSUME NEW id \in candidates
        PROVE  /\ id \in DOMAIN index <=> actions[id] # "delete"
               /\ id \in DOMAIN index => (index[id].rewritten <=> actions[id] = "update")
    <3>1. CASE actions[id] = "delete"
      BY <1>1, <3>1 DEF LightMem!AllCommitted
    <3>2. CASE actions[id] # "delete"
      BY <1>1, <3>2 DEF LightMem!AllCommitted
    <3>3. QED
      BY <3>1, <3>2
  <2>3. QED
    BY <1>1, <2>1, <2>2 DEF Settled
<1>7. LmPrepared'
  BY <1>1, <1>3, <1>5, <1>6 DEF LmPrepared
<1>8. LmDirectory' /\ LmAdded' /\ LmQueued' /\ LmRetrieved'
  BY <1>1 DEF LmInv, LmDirectory, LmAdded, LmQueued, LmRetrieved, LmWorking
<1>9. QED
  BY <1>4, <1>7, <1>8 DEF LmInv

LEMMA LmRetrieve == ASSUME LmInv, LightMem!Retrieve PROVE LmInv'
<1>1. /\ stage = "prepared" /\ stage' = stage /\ LightMem!Verified
      /\ retrieved' = {[index |-> index, lineage |-> lineage, actions |-> actions,
                        candidates |-> candidates]}
      /\ UNCHANGED <<root, index, manifest, at, lineage, candidates, actions, asked, handle>>
  BY DEF LightMem!Retrieve, LightMem!disk, LightMem!engine
<1>2. LmTyped' /\ LmDirectory'
  BY <1>1 DEF LmInv, LmTyped, LmDirectory
<1>3. LmAdded' /\ LmQueued'
  BY <1>1 DEF LmInv, LmAdded, LmQueued
<1>4. LmPrepared'
  BY <1>1 DEF LmInv, LmPrepared, Sourced, Settled
<1>5. LmRetrieved'
  BY <1>1 DEF LmRetrieved, LightMem!Verified
<1>6. QED
  BY <1>2, <1>3, <1>4, <1>5 DEF LmInv

\* The process is gone or starts again: the directory and what it holds stay.
LEMMA LmStopped ==
    ASSUME LmInv, stage' = "idle", retrieved = {}, retrieved' = retrieved,
           UNCHANGED <<root, index>>,
           \/ UNCHANGED <<at, lineage, candidates, actions, asked, handle>>
           \/ /\ at' = 1 /\ lineage' = LightMem!None /\ candidates' = {}
              /\ actions' = LightMem!None /\ asked' = 0 /\ handle' = {}
    PROVE  LmInv'
<1>1. LmTyped'
  BY NothingThere DEF LmInv, LmTyped, LmStages
<1>2. LmDirectory' /\ LmAdded' /\ LmQueued' /\ LmRetrieved'
  BY DEF LmInv, LmDirectory, LmAdded, LmQueued, LmRetrieved, LmWorking
<1>3. LmPrepared'
  BY DEF LmInv, LmPrepared, Sourced, Settled
<1>4. QED
  BY <1>1, <1>2, <1>3 DEF LmInv

LEMMA LmDamage == ASSUME LmInv, LightMem!Damage PROVE LmInv'
<1>1. /\ stage = "prepared" /\ stage' = stage /\ retrieved = {} /\ retrieved' = retrieved
      /\ UNCHANGED <<root, at, lineage, candidates, actions, asked, handle>>
  BY DEF LightMem!Damage, LightMem!engine
<1>2. /\ DOMAIN index' \subseteq DOMAIN index
      /\ \A id \in DOMAIN index' : index'[id] \in LightMem!Entries
  <2>1. CASE index' = index
    BY <2>1 DEF LmInv, LmTyped
  <2>2. ASSUME NEW id \in DOMAIN index,
               index' \in {LightMem!Drop(index, {id}),
                           [index EXCEPT ![id].rewritten = ~ index[id].rewritten]}
        PROVE  <1>2!1 /\ <1>2!2
    <3>1. \A k \in DOMAIN index : index[k] \in LightMem!Entries
      BY DEF LmInv, LmTyped
    <3>2. CASE index' = LightMem!Drop(index, {id})
      BY ONLY <3>1, <3>2 DEF LightMem!Drop
    <3>3. CASE index' = [index EXCEPT ![id].rewritten = ~ index[id].rewritten]
      <4>1. /\ DOMAIN index' = DOMAIN index
            /\ index'[id] = [index[id] EXCEPT !.rewritten = ~ index[id].rewritten]
            /\ \A k \in DOMAIN index : k # id => index'[k] = index[k]
        BY <2>2, <3>3
      <4>2. index'[id] \in LightMem!Entries
        BY <2>2, <3>1, <4>1 DEF LightMem!Entries
      <4>3. QED
        BY ONLY <3>1, <4>1, <4>2
    <3>4. QED
      BY <2>2, <3>2, <3>3
  <2>3. QED
    BY <2>1, <2>2 DEF LightMem!Damage
<1>3. LmTyped'
  BY <1>1, <1>2 DEF LmInv, LmTyped
<1>4. LmDirectory' /\ LmAdded' /\ LmQueued' /\ LmRetrieved'
  BY <1>1 DEF LmInv, LmDirectory, LmAdded, LmQueued, LmRetrieved, LmWorking
<1>5. LmPrepared'
  BY <1>1 DEF LmInv, LmPrepared, Sourced, Settled
<1>6. QED
  BY <1>3, <1>4, <1>5 DEF LmInv

LEMMA LmStep == ASSUME EmbeddedAssumption, LmInv, LightMem!Next PROVE LmInv'
<1>1. CASE LightMem!Clean
  <2>1. stage = "idle" /\ stage' = "clean" /\ retrieved' = retrieved /\ LightMem!Cleanup
    BY <1>1 DEF LightMem!Clean, LightMem!Goto
  <2>2. retrieved = {}
    BY <2>1 DEF LmInv, LmRetrieved
  <2>3. QED
    BY <2>1, <2>2, LmCleaned
<1>2. CASE LightMem!Refuse \/ LightMem!Fail
  <2>1. /\ stage # "prepared" /\ stage' = "idle" /\ retrieved' = retrieved /\ LightMem!Cleanup
    BY <1>2 DEF LightMem!Refuse, LightMem!Fail
  <2>2. retrieved = {}
    BY <2>1 DEF LmInv, LmRetrieved
  <2>3. QED
    BY <2>1, <2>2, LmCleaned
<1>3. CASE LightMem!RefuseQuery
  <2>1. /\ stage' = "idle" /\ retrieved' = retrieved /\ ~ LightMem!Verified
        /\ UNCHANGED <<root, index, at, lineage, candidates, actions, asked, handle>>
    BY <1>3 DEF LightMem!RefuseQuery, LightMem!Goto, LightMem!disk, LightMem!engine
  <2>2. retrieved = {}
    BY <2>1 DEF LmInv, LmRetrieved
  <2>3. QED
    BY <2>1, <2>2, LmStopped
<1>4. CASE LightMem!Kill
  BY <1>4, LmStopped DEF LightMem!Kill, LightMem!disk
<1>5. CASE LightMem!Begin \/ LightMem!BuildQueue \/ LightMem!EndUpdates
  BY <1>5, LmBegin, LmBuildQueue, LmEndUpdates
<1>6. CASE LightMem!AddEvent \/ \E id \in LightMem!Ids : LightMem!Update(id)
  BY <1>6, LmAddEvent, LmUpdate
<1>7. CASE LightMem!Commit \/ LightMem!Retrieve \/ LightMem!Damage
  BY <1>7, LmCommit, LmRetrieve, LmDamage
<1>8. QED
  BY <1>1, <1>2, <1>3, <1>4, <1>5, <1>6, <1>7 DEF LightMem!Next, LightMem!Step

LEMMA LmSame == ASSUME LmInv, UNCHANGED unitVars PROVE LmInv'
BY DEF LmInv, LmTyped, LmDirectory, LmAdded, LmQueued, LmPrepared, LmRetrieved, Sourced, Settled,
       LightMem!Verified, unitVars, embeddedVars, lightMemVars

LEMMA LmOrigins ==
    ASSUME EmbeddedAssumption, LmInv
    PROVE  /\ LightMem!TypeOK /\ LightMem!UpdatesTookEffect
           /\ LightMem!AnsweredAsPrepared /\ LightMem!LineageIsExact
<1>1. LightMem!TypeOK
  <2>1. asked \in 0 .. LightMemEntries
    <3>1. DOMAIN actions \subseteq LightMem!Ids
      BY DEF LmInv, LmTyped
    <3>2. /\ Cardinality(DOMAIN actions) \in Nat
          /\ Cardinality(DOMAIN actions) <= LightMemEntries
      BY <3>1, LmFinite
    <3>3. QED
      BY <3>2, LmConstants DEF LmInv, LmTyped
  <2>2. \A h \in handle : DOMAIN h.lineage \subseteq DOMAIN h.digest
    BY DEF LmInv, LmPrepared, Sourced
  <2>3. QED
    BY <2>1, <2>2 DEF LmInv, LmTyped, LmDirectory, LmStages, LightMem!TypeOK
<1>2. ASSUME NEW r \in retrieved
      PROVE  /\ r.index = index /\ r.lineage = lineage
             /\ r.actions = actions /\ r.candidates = candidates
             /\ Sourced(index) /\ Settled(index) /\ \E h \in handle : index = h.digest
  <2>1. /\ r.index = index /\ r.lineage = lineage
        /\ r.actions = actions /\ r.candidates = candidates
        /\ stage = "prepared" /\ LightMem!Verified
    BY DEF LmInv, LmRetrieved
  <2>2. PICK h \in handle : h.digest = index
    BY <2>1 DEF LmInv, LmPrepared, LightMem!Verified
  <2>3. Sourced(index) /\ Settled(index)
    BY <2>2 DEF LmInv, LmPrepared
  <2>4. QED
    BY <2>1, <2>2, <2>3
<1>3. LightMem!LineageIsExact
  BY <1>2 DEF Sourced, LightMem!LineageIsExact
<1>4. LightMem!AnsweredAsPrepared
  BY <1>2 DEF LightMem!AnsweredAsPrepared
<1>5. LightMem!UpdatesTookEffect
  <2>1. ASSUME NEW r \in retrieved
        PROVE  /\ DOMAIN r.actions = r.candidates
               /\ \A id \in r.candidates :
                     /\ id \in DOMAIN r.index <=> r.actions[id] # "delete"
                     /\ id \in DOMAIN r.index =>
                           (r.index[id].rewritten <=> r.actions[id] = "update")
    BY <1>2 DEF Settled
  <2>2. QED
    <3>1. ASSUME NEW r \in retrieved, NEW id \in r.candidates
          PROVE  (id \in DOMAIN r.index) = (r.actions[id] # "delete")
      BY <2>1
    <3>2. ASSUME NEW r \in retrieved, NEW id \in r.candidates \cap DOMAIN r.index
          PROVE  r.index[id].rewritten = (r.actions[id] = "update")
      <4>1. r.index[id].rewritten \in BOOLEAN
        BY <1>2, LmInv DEF LmInv, LmTyped, LightMem!Entries
      <4>2. r.index[id].rewritten <=> r.actions[id] = "update"
        BY <2>1
      <4>3. QED
        BY <4>1, <4>2, Zenon
    <3>3. QED
      BY <2>1, <3>1, <3>2, Zenon DEF LightMem!UpdatesTookEffect
<1>6. QED
  BY <1>1, <1>3, <1>4, <1>5

-----------------------------------------------------------------------------
(* A sequence of sequences laid out as one. *)

IsFlat(seqs, n, f) == f = [i \in 1 .. n |-> IF i = 1 THEN seqs[i] ELSE f[i - 1] \o seqs[i]]

LEMMA FlatExists ==
    ASSUME NEW seqs, NEW n \in Nat
    PROVE  \E f : IsFlat(seqs, n, f)
<1> DEFINE without == {m \in Nat : ~ \E f : IsFlat(seqs, m, f)}
<1>1. 0 \notin without
  <2>1. [i \in 1 .. 0 |-> 0] = [i \in 1 .. 0 |-> IF i = 1 THEN seqs[i]
                                               ELSE [j \in 1 .. 0 |-> 0][i - 1] \o seqs[i]]
    OBVIOUS
  <2>2. IsFlat(seqs, 0, [i \in 1 .. 0 |-> 0])
    BY <2>1, Zenon DEF IsFlat
  <2>3. QED
    BY <2>2
<1>2. SUFFICES ASSUME without # {} PROVE FALSE
  OBVIOUS
<1>3. PICK m \in without : \A l \in without : m <= l
  BY <1>2, Smallest, without \in SUBSET Nat
<1>4. m # 0 /\ m \in Nat /\ m - 1 \in Nat /\ m - 1 \notin without
  BY <1>1, <1>3
<1>5. PICK f : IsFlat(seqs, m - 1, f)
  BY <1>4
<1> DEFINE g == [i \in 1 .. m |-> IF i = 1 THEN seqs[i] ELSE f[i - 1] \o seqs[i]]
<1>6. \A i \in 1 .. m - 1 : g[i] = f[i]
  <2>1. \A i \in 1 .. m - 1 : i \in 1 .. m
    BY <1>4
  <2>2. \A i \in 1 .. m - 1 : f[i] = IF i = 1 THEN seqs[i] ELSE f[i - 1] \o seqs[i]
    BY <1>5 DEF IsFlat
  <2>3. QED
    BY <2>1, <2>2
<1>7. g = [i \in 1 .. m |-> IF i = 1 THEN seqs[i] ELSE g[i - 1] \o seqs[i]]
  <2>1. \A i \in 1 .. m : i # 1 => i - 1 \in 1 .. m - 1
    BY <1>4
  <2>2. \A i \in 1 .. m : i # 1 => g[i - 1] = f[i - 1]
    BY <1>6, <2>1
  <2> DEFINE rule(h) == [i \in 1 .. m |-> IF i = 1 THEN seqs[i] ELSE h[i - 1] \o seqs[i]]
  <2>3. rule(f) = rule(g)
    <3> HIDE DEF g
    <3>1. QED
      BY <2>2
  <2>4. QED
    BY <2>3
<1>8. IsFlat(seqs, m, g)
  BY <1>7 DEF IsFlat
<1>9. QED
  BY <1>3, <1>8

\* What is in it comes from one of them.
LEMMA FlatIs ==
    ASSUME NEW X, NEW seqs \in Seq(Seq(X))
    PROVE  /\ AMem!FlattenSeq(seqs) \in Seq(X)
           /\ \A k \in 1 .. Len(AMem!FlattenSeq(seqs)) : \E i \in 1 .. Len(seqs) :
                 \E j \in 1 .. Len(seqs[i]) : AMem!FlattenSeq(seqs)[k] = seqs[i][j]
<1> DEFINE n == Len(seqs)
           From(s) == \A k \in 1 .. Len(s) : \E i \in 1 .. Len(seqs) :
                          \E j \in 1 .. Len(seqs[i]) : s[k] = seqs[i][j]
           f == CHOOSE h : IsFlat(seqs, n, h)
<1>1. n \in Nat /\ \A i \in 1 .. n : seqs[i] \in Seq(X)
  OBVIOUS
<1>2. CASE n = 0
  <2>1. AMem!FlattenSeq(seqs) = seqs /\ seqs = <<>>
    BY <1>2 DEF AMem!FlattenSeq
  <2>2. QED
    BY <2>1
<1>3. CASE n # 0
  <2>1. AMem!FlattenSeq(seqs) = f[n]
    BY <1>3, Zenon DEF AMem!FlattenSeq, IsFlat
  <2>2. IsFlat(seqs, n, f)
    BY <1>1, FlatExists
  <2> HIDE DEF f, n
  <2>3. \A i \in 1 .. n : f[i] = IF i = 1 THEN seqs[i] ELSE f[i - 1] \o seqs[i]
    BY <2>2 DEF IsFlat
  <2> DEFINE bad == {i \in 1 .. n : ~ (f[i] \in Seq(X) /\ From(f[i]))}
  <2>4. bad = {}
    <3>1. SUFFICES ASSUME bad # {} PROVE FALSE
      OBVIOUS
    <3>2. PICK i \in bad : \A j \in bad : i <= j
      BY <1>1, <3>1, Smallest, bad \in SUBSET Nat
    <3>3. i \in 1 .. n /\ i \in Nat
      BY <1>1
    <3>4. \A j \in 1 .. Len(seqs[i]) : \E l \in 1 .. Len(seqs) : \E k \in 1 .. Len(seqs[l]) :
             seqs[i][j] = seqs[l][k]
      BY <3>3 DEF n
    <3>5. CASE i = 1
      <4>1. f[i] = seqs[i] /\ seqs[i] \in Seq(X)
        BY <1>1, <2>3, <3>3, <3>5
      <4>2. From(f[i])
        BY <3>4, <4>1
      <4>3. QED
        BY <3>2, <4>1, <4>2
    <3>6. CASE i # 1
      <4>1. i - 1 \in 1 .. n /\ i - 1 \notin bad
        <5>1. i - 1 \in 1 .. n /\ ~ (i <= i - 1)
          BY <1>1, <3>3, <3>6
        <5>2. QED
          BY <3>2, <5>1
      <4>2. f[i - 1] \in Seq(X) /\ From(f[i - 1]) /\ seqs[i] \in Seq(X)
        BY <1>1, <3>3, <4>1
      <4>3. f[i] = f[i - 1] \o seqs[i]
        BY <2>3, <3>3, <3>6
      <4>4. f[i] \in Seq(X)
        BY <4>2, <4>3
      <4>5. From(f[i])
        <5>1. ASSUME NEW k \in 1 .. Len(f[i])
              PROVE  \E l \in 1 .. Len(seqs) : \E j \in 1 .. Len(seqs[l]) : f[i][k] = seqs[l][j]
          <6>1. Len(f[i - 1]) \in Nat /\ Len(seqs[i]) \in Nat
                /\ Len(f[i]) = Len(f[i - 1]) + Len(seqs[i])
            BY <4>2, <4>3
          <6>2. CASE k <= Len(f[i - 1])
            <7>1. k \in 1 .. Len(f[i - 1]) /\ f[i][k] = f[i - 1][k]
              BY <4>2, <4>3, <6>1, <6>2
            <7>2. QED
              <8>1. From(f[i - 1])
                BY <4>2
              <8>2. \E l \in 1 .. Len(seqs) : \E j \in 1 .. Len(seqs[l]) : f[i - 1][k] = seqs[l][j]
                BY <7>1, <8>1, Zenon
              <8>3. QED
                BY <7>1, <8>2, Zenon
          <6>3. CASE ~ (k <= Len(f[i - 1]))
            <7>1. /\ k - Len(f[i - 1]) \in 1 .. Len(seqs[i])
                  /\ f[i][k] = seqs[i][k - Len(f[i - 1])]
              <8> DEFINE a == f[i - 1]
                         b == seqs[i]
              <8>1. a \in Seq(X) /\ b \in Seq(X) /\ f[i] = a \o b
                BY <4>2, <4>3
              <8>2. k \in 1 .. Len(a \o b) /\ ~ (k <= Len(a))
                BY <6>3, <8>1
              <8> HIDE DEF a, b
              <8>3. k - Len(a) \in 1 .. Len(b) /\ (a \o b)[k] = b[k - Len(a)]
                BY <8>1, <8>2
              <8>4. QED
                BY <8>1, <8>3 DEF a, b
            <7>2. \E l \in 1 .. Len(seqs) : \E j \in 1 .. Len(seqs[l]) :
                     seqs[i][k - Len(f[i - 1])] = seqs[l][j]
              BY <3>4, <7>1
            <7>3. QED
              BY <7>1, <7>2
          <6>4. QED
            BY <6>2, <6>3
        <5>2. QED
          BY <5>1
      <4>6. QED
        BY <3>2, <4>4, <4>5
    <3>7. QED
      BY <3>5, <3>6
  <2>5. n \in 1 .. n
    BY <1>1, <1>3
  <2>6. f[n] \in Seq(X) /\ From(f[n])
    <3> HIDE DEF From
    <3>1. \A i \in 1 .. n : f[i] \in Seq(X) /\ From(f[i])
      BY ONLY <2>4, Zenon
    <3>2. QED
      BY ONLY <2>5, <3>1, Zenon
  <2>7. QED
    <3> DEFINE s == AMem!FlattenSeq(seqs)
    <3>1. s = f[n]
      BY <2>1
    <3> HIDE DEF s, From
    <3>2. s \in Seq(X) /\ From(s)
      BY ONLY <2>6, <3>1, Zenon
    <3>3. QED
      BY ONLY <3>2, Zenon DEF s, From
<1>4. QED
  BY <1>2, <1>3

-----------------------------------------------------------------------------
(* A-MEM: the ranking of an answer. *)

LEMMA AmConstants ==
    ASSUME EmbeddedAssumption
    PROVE  /\ AMemEvents \in Nat /\ AMem!Ids = 1 .. AMemEvents
           /\ DirectResults \in Nat \ {0} /\ LinkedResults \in Nat \ {0} /\ MaxResults \in Nat \ {0}
BY DEF EmbeddedAssumption, AMem!BoundAssumption, AMem!Ids

LEMMA AmCardinality == \A S : AMem!Cardinality(S) = Cardinality(S)
BY Zenon DEF AMem!Cardinality, Cardinality

LEMMA AmFinite ==
    ASSUME EmbeddedAssumption, NEW T \in SUBSET AMem!Ids
    PROVE  IsFiniteSet(T) /\ Cardinality(T) \in Nat
<1>1. 1 \in Int /\ AMemEvents \in Int
  BY AmConstants
<1>2. IsFiniteSet(1 .. AMemEvents)
  BY <1>1, FS_Interval, Zenon
<1>3. QED
  BY <1>2, AmConstants, FS_Subset, FS_CardinalityType

\* An answer that is not full takes a link to a note it does not have yet.
Takes(s, link, direct) ==
    ~ (AMem!Full(s, direct) \/ link \notin lineage \/ AMem!Contains(s, link))

IsRanking(found, links, n, r) ==
    r = [k \in 0 .. n |->
            IF k = 0 THEN found
            ELSE IF \/ AMem!Full(r[k - 1], Len(found))
                    \/ links[k] \notin lineage \/ AMem!Contains(r[k - 1], links[k])
            THEN r[k - 1] ELSE Append(r[k - 1], links[k])]

LEMMA RankingIs ==
    ASSUME NEW found, NEW links, NEW n \in Nat, NEW r, IsRanking(found, links, n, r)
    PROVE  /\ r[0] = found
           /\ \A k \in 1 .. n :
                 r[k] = IF Takes(r[k - 1], links[k], Len(found))
                        THEN Append(r[k - 1], links[k]) ELSE r[k - 1]
<1>1. 0 \in 0 .. n
  OBVIOUS
<1>2. r[0] = found
  BY <1>1 DEF IsRanking
<1>3. ASSUME NEW k \in 1 .. n
      PROVE  r[k] = IF Takes(r[k - 1], links[k], Len(found))
                    THEN Append(r[k - 1], links[k]) ELSE r[k - 1]
  <2>1. k \in 0 .. n /\ k # 0
    OBVIOUS
  <2>2. r[k] = IF \/ AMem!Full(r[k - 1], Len(found))
                  \/ links[k] \notin lineage \/ AMem!Contains(r[k - 1], links[k])
               THEN r[k - 1] ELSE Append(r[k - 1], links[k])
    BY <2>1 DEF IsRanking
  <2>3. QED
    BY <2>2 DEF Takes
<1>4. QED
  BY <1>2, <1>3

LEMMA RankingExists ==
    ASSUME NEW found, NEW links, NEW n \in Nat
    PROVE  \E r : IsRanking(found, links, n, r)
<1> DEFINE without == {m \in Nat : ~ \E r : IsRanking(found, links, m, r)}
           next(r, k) ==
               IF k = 0 THEN found
               ELSE IF \/ AMem!Full(r[k - 1], Len(found))
                       \/ links[k] \notin lineage \/ AMem!Contains(r[k - 1], links[k])
               THEN r[k - 1] ELSE Append(r[k - 1], links[k])
<1>1. \A m, r : IsRanking(found, links, m, r) <=> r = [k \in 0 .. m |-> next(r, k)]
  BY DEF IsRanking
<1>2. \A k, r, q : r[k - 1] = q[k - 1] => next(r, k) = next(q, k)
  OBVIOUS
<1>3. \A r, q : next(r, 0) = next(q, 0)
  OBVIOUS
<1> HIDE DEF next
<1>4. 0 \notin without
  <2> DEFINE r == [k \in 0 .. 0 |-> next(<<>>, k)]
  <2>1. \A k \in 0 .. 0 : k = 0
    OBVIOUS
  <2>2. \A k \in 0 .. 0 : next(<<>>, k) = next(r, k)
    <3> HIDE DEF r
    <3>1. QED
      BY <1>3, <2>1
  <2>3. r = [k \in 0 .. 0 |-> next(r, k)]
    <3> DEFINE rule(h) == [k \in 0 .. 0 |-> next(h, k)]
    <3>1. rule(<<>>) = rule(r)
      <4> HIDE DEF r
      <4>1. QED
        BY <2>2
    <3>2. QED
      BY <3>1
  <2>4. QED
    BY <1>1, <2>3
<1>5. SUFFICES ASSUME without # {} PROVE FALSE
  OBVIOUS
<1>6. PICK m \in without : \A l \in without : m <= l
  BY <1>5, Smallest, without \in SUBSET Nat
<1>7. m # 0 /\ m \in Nat /\ m - 1 \in Nat /\ m - 1 \notin without
  BY <1>4, <1>6
<1>8. PICK r : r = [k \in 0 .. m - 1 |-> next(r, k)]
  BY <1>1, <1>7
<1> DEFINE q == [k \in 0 .. m |-> next(r, k)]
<1>9. \A k \in 0 .. m - 1 : q[k] = r[k]
  <2>1. \A k \in 0 .. m - 1 : k \in 0 .. m
    BY <1>7
  <2>2. \A k \in 0 .. m - 1 : r[k] = next(r, k)
    BY <1>8
  <2>3. QED
    BY <2>1, <2>2
<1>10. \A k \in 0 .. m : next(r, k) = next(q, k)
  <2> HIDE DEF q
  <2>1. ASSUME NEW k \in 0 .. m, k # 0 PROVE k - 1 \in 0 .. m - 1
    BY <1>7, <2>1
  <2>2. QED
    BY <1>2, <1>3, <1>9, <2>1
<1>11. q = [k \in 0 .. m |-> next(q, k)]
  <2> DEFINE rule(h) == [k \in 0 .. m |-> next(h, k)]
  <2>1. rule(r) = rule(q)
    <3> HIDE DEF q
    <3>1. QED
      BY <1>10
  <2>2. QED
    BY <2>1
<1>12. QED
  BY <1>1, <1>6, <1>11

\* An answer: the notes found, then notes they link to, none twice, within bounds.
Answer(found, s) ==
    /\ s \in Seq(lineage) /\ Len(found) <= Len(s)
    /\ \A i \in 1 .. Len(found) : s[i] = found[i]
    /\ \A i, j \in 1 .. Len(s) : s[i] = s[j] => i = j
    /\ Len(s) <= MaxResults /\ Len(s) <= Len(found) + LinkedResults
    /\ \A k \in Len(found) + 1 .. Len(s) :
          \E i \in 1 .. Len(found) : AMem!Contains(notes[found[i]].links, s[k])

LEMMA AnswerTakes ==
    ASSUME EmbeddedAssumption, NEW found, Len(found) \in Nat, NEW s, Answer(found, s), NEW link,
           Takes(s, link, Len(found)),
           \E i \in 1 .. Len(found) : AMem!Contains(notes[found[i]].links, link)
    PROVE  Answer(found, Append(s, link))
<1> DEFINE t == Append(s, link)
<1>1. /\ link \in lineage /\ ~ AMem!Contains(s, link)
      /\ ~ (Len(s) >= MaxResults) /\ ~ (Len(s) - Len(found) >= LinkedResults)
  BY DEF Takes, AMem!Full
<1>2. s \in Seq(lineage) /\ Len(s) \in Nat /\ Len(found) <= Len(s)
  BY DEF Answer
<1>3. /\ t \in Seq(lineage) /\ Len(t) = Len(s) + 1 /\ t[Len(s) + 1] = link
      /\ \A i \in 1 .. Len(s) : t[i] = s[i]
  BY <1>1, <1>2
<1>4. \A i \in 1 .. Len(s) : s[i] # link
  BY <1>1 DEF AMem!Contains
<1> HIDE DEF t
<1>5. \A i \in 1 .. Len(t) : i \in 1 .. Len(s) \/ i = Len(s) + 1
  BY <1>2, <1>3
<1>6. \A i, j \in 1 .. Len(t) : t[i] = t[j] => i = j
  <2>1. \A i, j \in 1 .. Len(s) : s[i] = s[j] => i = j
    BY DEF Answer
  <2>2. QED
    BY <1>3, <1>4, <1>5, <2>1
<1>7. Len(t) <= MaxResults /\ Len(t) <= Len(found) + LinkedResults
  BY <1>1, <1>2, <1>3, AmConstants
<1>8. ASSUME NEW k \in Len(found) + 1 .. Len(t)
      PROVE  \E i \in 1 .. Len(found) : AMem!Contains(notes[found[i]].links, t[k])
  <2>1. CASE k = Len(s) + 1
    BY <1>3, <2>1
  <2>2. CASE k # Len(s) + 1
    <3>1. k \in Len(found) + 1 .. Len(s) /\ k \in 1 .. Len(s)
      BY <1>2, <1>3, <2>2
    <3>2. \E i \in 1 .. Len(found) : AMem!Contains(notes[found[i]].links, s[k])
      BY <3>1 DEF Answer
    <3>3. QED
      BY <1>3, <3>1, <3>2
  <2>3. QED
    BY <2>1, <2>2
<1>9. \A i \in 1 .. Len(found) : t[i] = found[i]
  <2>1. \A i \in 1 .. Len(found) : i \in 1 .. Len(s) /\ s[i] = found[i]
    BY <1>2 DEF Answer
  <2>2. QED
    BY <1>3, <2>1
<1>10. Len(found) <= Len(t)
  BY <1>2, <1>3
<1>11. QED
  BY <1>3, <1>6, <1>7, <1>8, <1>9, <1>10 DEF Answer, t

LEMMA RankedIs ==
    ASSUME EmbeddedAssumption, lineage \subseteq AMem!Ids,
           NEW X, \A id \in lineage : notes[id].links \in Seq(X),
           NEW found \in AMem!Searches
    PROVE  Len(found) \in Nat /\ Answer(found, AMem!Ranked(found))
<1> DEFINE count == AMem!Least(AMem!Least(DirectResults, MaxResults), Cardinality(lineage))
           seqs == [i \in DOMAIN found |-> notes[found[i]].links]
           links == AMem!FlattenSeq(seqs)
           n == Len(links)
           r == CHOOSE q : IsRanking(found, links, n, q)
<1>1. count \in Nat /\ count <= MaxResults
  BY AmConstants, AmFinite DEF AMem!Least
<1>2. /\ found \in [1 .. count -> lineage]
      /\ \A i, j \in 1 .. count : found[i] = found[j] => i = j
  BY AmCardinality DEF AMem!Searches
<1> HIDE DEF count
<1>3. /\ found \in Seq(lineage) /\ Len(found) = count /\ DOMAIN found = 1 .. count
      /\ \A i \in 1 .. count : found[i] \in lineage
  BY <1>1, <1>2
<1>4. /\ seqs \in Seq(Seq(X)) /\ Len(seqs) = count
      /\ \A i \in 1 .. count : seqs[i] = notes[found[i]].links
  <2>1. seqs \in [1 .. count -> Seq(X)]
    BY <1>3
  <2>2. \A i \in 1 .. count : seqs[i] = notes[found[i]].links
    BY <1>3
  <2> HIDE DEF seqs
  <2>3. QED
    BY <1>1, <2>1, <2>2
<1> HIDE DEF seqs
<1>5. /\ links \in Seq(X)
      /\ \A k \in 1 .. n : \E i \in 1 .. count : \E j \in 1 .. Len(seqs[i]) : links[k] = seqs[i][j]
  <2>1. /\ links \in Seq(X)
        /\ \A k \in 1 .. n : \E i \in 1 .. Len(seqs) :
              \E j \in 1 .. Len(seqs[i]) : links[k] = seqs[i][j]
    BY <1>4, FlatIs, Zenon
  <2>2. Len(seqs) = count
    BY <1>4
  <2>3. QED
    BY ONLY <2>1, <2>2, Zenon
<1>6. ASSUME NEW k \in 1 .. n
      PROVE  \E i \in 1 .. Len(found) : AMem!Contains(notes[found[i]].links, links[k])
  <2>1. PICK i \in 1 .. count : \E j \in 1 .. Len(seqs[i]) : links[k] = seqs[i][j]
    BY <1>5
  <2>2. seqs[i] = notes[found[i]].links /\ i \in 1 .. Len(found)
    BY <1>3, <1>4
  <2>3. AMem!Contains(seqs[i], links[k])
    BY <2>1 DEF AMem!Contains
  <2>4. QED
    BY <2>2, <2>3
<1>7. AMem!Ranked(found) = r[n]
  BY Zenon DEF AMem!Ranked, IsRanking, seqs
<1> HIDE DEF links
<1>8. n \in Nat
  BY <1>5
<1>9. IsRanking(found, links, n, r)
  BY <1>8, RankingExists
<1> HIDE DEF n, r
<1>10. /\ r[0] = found
       /\ \A k \in 1 .. n :
             r[k] = IF Takes(r[k - 1], links[k], Len(found))
                    THEN Append(r[k - 1], links[k]) ELSE r[k - 1]
  BY <1>8, <1>9, RankingIs
<1>11. Answer(found, found)
  BY <1>1, <1>2, <1>3, AmConstants DEF Answer
<1> DEFINE bad == {k \in 0 .. n : ~ Answer(found, r[k])}
<1>12. bad = {}
  <2>1. SUFFICES ASSUME bad # {} PROVE FALSE
    OBVIOUS
  <2>2. PICK k \in bad : \A j \in bad : k <= j
    BY <1>8, <2>1, Smallest, bad \in SUBSET Nat
  <2>3. k # 0 /\ k \in 1 .. n
    BY <1>8, <1>10, <1>11
  <2>4. k - 1 \in 0 .. n /\ ~ (k <= k - 1)
    BY <1>8, <2>3
  <2>5. Answer(found, r[k - 1])
    BY <2>2, <2>4
  <2>6. CASE Takes(r[k - 1], links[k], Len(found))
    <3>1. r[k] = Append(r[k - 1], links[k])
      BY <1>10, <2>3, <2>6
    <3>2. \E i \in 1 .. Len(found) : AMem!Contains(notes[found[i]].links, links[k])
      BY <1>6, <2>3
    <3>3. Len(found) \in Nat
      BY <1>1, <1>3
    <3>4. Answer(found, Append(r[k - 1], links[k]))
      BY <2>5, <2>6, <3>2, <3>3, AnswerTakes
    <3>5. QED
      BY <2>2, <3>1, <3>4
  <2>7. CASE ~ Takes(r[k - 1], links[k], Len(found))
    BY <1>10, <2>2, <2>3, <2>5, <2>7
  <2>8. QED
    BY <2>6, <2>7
<1>13. n \in 0 .. n
  BY <1>8
<1>14. QED
  BY <1>1, <1>3, <1>7, <1>12, <1>13

-----------------------------------------------------------------------------
(* A-MEM: the links that stay. *)

LEMMA BoundedIs ==
    ASSUME NEW S, NEW s
    PROVE  s \in AMem!BoundedSeq(S, 2) <=> s \in Seq(S) /\ Len(s) <= 2
<1>1. s \in AMem!BoundedSeq(S, 2) <=> \E m \in 0 .. 2 : s \in [1 .. m -> S]
  BY Zenon DEF AMem!BoundedSeq, AMem!SeqOf
<1>2. \A m \in 0 .. 2 : s \in [1 .. m -> S] => s \in Seq(S) /\ Len(s) = m
  OBVIOUS
<1>3. s \in Seq(S) => Len(s) \in Nat /\ s \in [1 .. Len(s) -> S]
  OBVIOUS
<1>4. ASSUME s \in AMem!BoundedSeq(S, 2) PROVE s \in Seq(S) /\ Len(s) <= 2
  <2>1. PICK m \in 0 .. 2 : s \in [1 .. m -> S]
    BY <1>1, <1>4
  <2>2. QED
    BY <1>2, <2>1
<1>5. ASSUME s \in Seq(S), Len(s) <= 2 PROVE s \in AMem!BoundedSeq(S, 2)
  <2>1. Len(s) \in 0 .. 2 /\ s \in [1 .. Len(s) -> S]
    BY <1>3, <1>5
  <2>2. QED
    BY <1>1, <2>1
<1>6. QED
  BY <1>4, <1>5

\* The links left of a note name other notes, each once.
Leads(links, id) ==
    /\ links \in Seq(lineage \ {id}) /\ Len(links) <= 2
    /\ \A i, j \in 1 .. Len(links) : links[i] = links[j] => i = j

LEMMA ValidLinksLead ==
    ASSUME NEW id, notes[id].links \in AMem!BoundedSeq(AMem!Ids \cup {0}, 2)
    PROVE  Leads(AMem!ValidLinks(id), id)
<1> DEFINE all == notes[id].links
           first(i) == \A j \in 1 .. i - 1 : all[j] # all[i]
           kept == {i \in DOMAIN all : all[i] \in lineage \ {id} /\ first(i)}
           m == Cardinality(kept)
           place(k) == CHOOSE i \in kept : Cardinality({j \in kept : j <= i}) = k
           valid == [k \in 1 .. m |-> all[place(k)]]
<1>1. AMem!ValidLinks(id) = valid
  BY Zenon DEF AMem!ValidLinks, AMem!Cardinality, Cardinality
<1>2. Len(all) \in 0 .. 2 /\ DOMAIN all = 1 .. Len(all)
  <2>1. all \in Seq(AMem!Ids \cup {0}) /\ Len(all) <= 2
    BY BoundedIs
  <2> DEFINE X == AMem!Ids \cup {0}
  <2>2. all \in Seq(X) /\ Len(all) <= 2
    BY <2>1
  <2> HIDE DEF all, X
  <2>3. Len(all) \in Nat /\ DOMAIN all = 1 .. Len(all)
    BY <2>2
  <2>4. QED
    BY <2>2, <2>3
<1>3. kept \subseteq 1 .. Len(all) /\ kept \in SUBSET Nat
  BY <1>2
<1>4. IsFiniteSet(kept) /\ m \in 0 .. 2
  <2> DEFINE n == Len(all)
  <2>1. 1 \in Int /\ n \in Int
    BY <1>2
  <2> HIDE DEF n
  <2>2. IsFiniteSet(1 .. n) /\ Cardinality(1 .. n) = IF 1 > n THEN 0 ELSE n - 1 + 1
    BY <2>1, FS_Interval, Zenon
  <2>3. IsFiniteSet(1 .. Len(all)) /\ Cardinality(1 .. Len(all)) = Len(all)
    BY <1>2, <2>2 DEF n
  <2> HIDE DEF kept
  <2>4. IsFiniteSet(kept) /\ Cardinality(kept) <= Len(all)
    BY <1>3, <2>3, FS_Subset
  <2>5. Cardinality(kept) \in Nat
    BY <2>4, FS_CardinalityType
  <2>6. m \in Nat /\ m <= Len(all)
    BY <2>4, <2>5
  <2> HIDE DEF m, all
  <2>7. QED
    BY <1>2, <2>4, <2>6
<1>5. \A k \in 1 .. m : place(k) \in kept /\ Cardinality(Upto(kept, place(k))) = k
  <2>1. ASSUME NEW k \in 1 .. m
        PROVE  \E i \in kept : Cardinality({j \in kept : j <= i}) = k
    <3> HIDE DEF kept
    <3>1. QED
      BY <1>3, <1>4, InOrder DEF Upto
  <2>2. QED
    <3> HIDE DEF kept
    <3>1. QED
      BY <2>1 DEF Upto
<1>6. \A i \in kept : all[i] \in lineage \ {id} /\ first(i)
  OBVIOUS
<1>7. \A i, j \in kept : all[i] = all[j] => i = j
  <2>1. ASSUME NEW i \in kept, NEW j \in kept, i < j PROVE all[j] # all[i]
    <3>1. i \in 1 .. j - 1
      BY <1>3, <2>1
    <3>2. QED
      BY <1>6, <3>1
  <2>2. \A i, j \in kept : i < j \/ j < i \/ i = j
    <3> HIDE DEF kept
    <3>1. QED
      BY <1>3
  <2>3. QED
    BY <2>1, <2>2, Zenon
<1> HIDE DEF place, kept, all, m
<1>8. valid \in Seq(lineage \ {id}) /\ Len(valid) = m
  BY <1>4, <1>5, <1>6
<1>9. \A i, j \in 1 .. m : valid[i] = valid[j] => i = j
  <2>1. SUFFICES ASSUME NEW i \in 1 .. m, NEW j \in 1 .. m, valid[i] = valid[j] PROVE i = j
    OBVIOUS
  <2>2. all[place(i)] = all[place(j)]
    BY <2>1
  <2>3. place(i) = place(j)
    BY <1>5, <1>7, <2>2
  <2>4. QED
    BY <1>5, <2>3
<1>10. QED
  BY <1>1, <1>4, <1>8, <1>9 DEF Leads

-----------------------------------------------------------------------------
(* A-MEM: the invariant. *)

AmStages == {"idle", "clean", "adding", "prepared"}
Note == [text : Nat, links : AMem!BoundedSeq(AMem!Ids \cup {0}, 2)]

AmTyped ==
    /\ root \in BOOLEAN /\ swallowed \in BOOLEAN
    /\ stage \in AmStages /\ at \in 1 .. AMemEvents + 1
    /\ lineage \subseteq AMem!Ids /\ DOMAIN index \subseteq AMem!Ids
    /\ notes \in [lineage -> Note]
    /\ evolved \subseteq decided /\ decided \subseteq lineage

\* What is on disk is in a directory.
AmDirectory ==
    /\ stage \in {"adding", "prepared"} => root
    /\ index # AMem!None => root

\* A memory is prepared once everything decided was done, with its links left.
AmPrepared ==
    /\ stage \in {"clean", "adding"} => handle = {}
    /\ stage = "prepared" => handle # {} /\ decided = evolved /\ ~ swallowed
    /\ \A h \in handle :
          /\ h.lineage = lineage /\ h.digest = notes
          /\ \A id \in lineage : Leads(notes[id].links, id)

\* Once a query was answered the index stays as it was prepared.
AmRetrieved ==
    /\ retrieved # {} => stage = "prepared" /\ AMem!Verified
    /\ \A r \in retrieved : r.direct \in Seq(lineage) /\ Answer(r.direct, r.ranked)

AmInv == AmTyped /\ AmDirectory /\ AmPrepared /\ AmRetrieved

\* With nothing added yet, or everything removed.
AmEmpty ==
    /\ root = FALSE /\ index = AMem!None /\ at = 1 /\ notes = AMem!None /\ lineage = {}
    /\ decided = {} /\ evolved = {} /\ swallowed = FALSE /\ handle = {}

LEMMA AmNothing ==
    ASSUME EmbeddedAssumption, at = 1, notes = AMem!None, lineage = {},
           decided = {}, evolved = {}, swallowed = FALSE
    PROVE  /\ swallowed \in BOOLEAN /\ at \in 1 .. AMemEvents + 1 /\ lineage \subseteq AMem!Ids
           /\ notes \in [lineage -> Note] /\ evolved \subseteq decided /\ decided \subseteq lineage
<1>1. swallowed \in BOOLEAN
  BY Zenon
<1>2. at \in 1 .. AMemEvents + 1
  BY AmConstants
<1>3. notes \in [lineage -> Note]
  BY DEF AMem!None
<1>4. QED
  BY <1>1, <1>2, <1>3

LEMMA AmStart ==
    ASSUME EmbeddedAssumption, AmEmpty, stage \in {"idle", "clean"}, retrieved = {}
    PROVE  AmInv
<1>1. AmTyped
  <2>1. root \in BOOLEAN
    BY Zenon DEF AmEmpty
  <2>2. stage \in AmStages /\ DOMAIN index \subseteq AMem!Ids
    BY DEF AmEmpty, AmStages, AMem!None
  <2>3. QED
    BY <2>1, <2>2, AmNothing DEF AmEmpty, AmTyped
<1>2. AmDirectory /\ AmPrepared /\ AmRetrieved
  BY DEF AmEmpty, AmDirectory, AmPrepared, AmRetrieved
<1>3. QED
  BY <1>1, <1>2 DEF AmInv

LEMMA AmNothingThen ==
    ASSUME EmbeddedAssumption, at' = 1, notes' = AMem!None, lineage' = {},
           decided' = {}, evolved' = {}, swallowed' = FALSE
    PROVE  /\ swallowed' \in BOOLEAN /\ at' \in 1 .. AMemEvents + 1 /\ lineage' \subseteq AMem!Ids
           /\ notes' \in [lineage' -> Note] /\ evolved' \subseteq decided'
           /\ decided' \subseteq lineage'
<1>1. swallowed' \in BOOLEAN
  BY Zenon
<1>2. at' \in 1 .. AMemEvents + 1
  BY AmConstants
<1>3. notes' \in [lineage' -> Note]
  BY DEF AMem!None
<1>4. QED
  BY <1>1, <1>2, <1>3

LEMMA AmCleaned ==
    ASSUME EmbeddedAssumption, AMem!Cleanup, retrieved' = retrieved, retrieved = {},
           stage' \in {"idle", "clean"}
    PROVE  AmInv'
<1>1. AmEmpty'
  BY Zenon DEF AMem!Cleanup, AmEmpty
<1>2. AmTyped'
  <2>1. root' \in BOOLEAN
    BY <1>1, Zenon DEF AmEmpty
  <2>2. stage' \in AmStages /\ DOMAIN index' \subseteq AMem!Ids
    BY <1>1 DEF AmEmpty, AmStages, AMem!None
  <2>3. QED
    BY <1>1, <2>1, <2>2, AmNothingThen DEF AmEmpty, AmTyped
<1>3. AmDirectory' /\ AmPrepared' /\ AmRetrieved'
  BY <1>1 DEF AmEmpty, AmDirectory, AmPrepared, AmRetrieved
<1>4. QED
  BY <1>2, <1>3 DEF AmInv

LEMMA AmBegin == ASSUME AmInv, AMem!Begin PROVE AmInv'
<1>1. /\ stage = "clean" /\ stage' = "adding" /\ root' = TRUE
      /\ UNCHANGED <<index, at, notes, lineage, decided, evolved, swallowed, handle, retrieved>>
  BY DEF AMem!Begin, AMem!Goto, AMem!engine
<1>2. retrieved = {}
  BY <1>1 DEF AmInv, AmRetrieved
<1>3. AmTyped'
  <2>1. root' \in BOOLEAN
    BY <1>1, Zenon
  <2>2. QED
    BY <1>1, <2>1 DEF AmInv, AmTyped, AmStages
<1>4. AmDirectory' /\ AmPrepared' /\ AmRetrieved'
  BY <1>1, <1>2 DEF AmInv, AmDirectory, AmPrepared, AmRetrieved
<1>5. QED
  BY <1>3, <1>4 DEF AmInv

\* The notes are notes after a note more, whatever it rewrote.
LEMMA EvolvedIs ==
    ASSUME notes \in [lineage -> Note], NEW id, NEW links \in AMem!BoundedSeq(AMem!Ids \cup {0}, 2),
           NEW other
    PROVE  AMem!Evolved(id, links, other) \in [lineage \cup {id} -> Note]
<1> DEFINE after(n) ==
        IF n = id THEN [text |-> 0, links |-> links]
        ELSE [notes[n] EXCEPT !.text = IF n = other THEN @ + 1 ELSE @]
<1>1. DOMAIN notes = lineage
  OBVIOUS
<1>2. AMem!Evolved(id, links, other) = [n \in DOMAIN notes \cup {id} |-> after(n)]
  BY Zenon DEF AMem!Evolved
<1>3. ASSUME NEW n \in lineage \cup {id} PROVE after(n) \in Note
  <2>1. CASE n = id
    <3>1. after(n) = [text |-> 0, links |-> links]
      BY <2>1
    <3> HIDE DEF after
    <3>2. QED
      BY <3>1 DEF Note
  <2>2. CASE n # id
    <3>1. notes[n] \in Note
      BY <1>3, <2>2
    <3>2. \A note \in Note : /\ [note EXCEPT !.text = note.text + 1] \in Note
                             /\ [note EXCEPT !.text = note.text] \in Note
      BY DEF Note
    <3>3. \/ after(n) = [notes[n] EXCEPT !.text = notes[n].text + 1]
          \/ after(n) = [notes[n] EXCEPT !.text = notes[n].text]
      BY <2>2
    <3> HIDE DEF after
    <3>4. QED
      BY <3>1, <3>2, <3>3
  <2>3. QED
    BY <2>1, <2>2
<1> HIDE DEF after
<1>4. QED
  BY <1>1, <1>2, <1>3

LEMMA AmAddNote == ASSUME EmbeddedAssumption, AmInv, AMem!AddNote PROVE AmInv'
<1>1. /\ stage = "adding" /\ stage' = stage /\ at \in AMem!Ids /\ at' = at + 1
      /\ lineage' = lineage \cup {at} /\ ~ AMem!NotDone
      /\ UNCHANGED <<root, handle, retrieved>>
  BY DEF AMem!AddNote
<1>2. PICK yes \in BOOLEAN, links \in AMem!BoundedSeq(AMem!Ids \cup {0}, 2),
           other \in AMem!Ids \cup {0} :
        /\ decided' = AMem!Decided(yes)
        /\ \/ /\ notes' = AMem!Evolved(at, links, other)
              /\ evolved' = decided'
              /\ UNCHANGED swallowed
           \/ /\ notes' = AMem!Evolved(at, <<>>, 0)
              /\ swallowed' \in {TRUE, ~ yes} /\ UNCHANGED evolved
  BY Zenon DEF AMem!AddNote
<1>3. /\ retrieved = {} /\ handle = {} /\ root
      /\ notes \in [lineage -> Note] /\ decided \subseteq lineage /\ evolved \subseteq decided
  BY <1>1 DEF AmInv, AmTyped, AmDirectory, AmPrepared, AmRetrieved
<1>4. notes' \in [lineage' -> Note]
  <2> DEFINE X == AMem!Ids \cup {0}
  <2>1. <<>> \in AMem!BoundedSeq(X, 2)
    <3> HIDE DEF X
    <3>1. <<>> \in Seq(X) /\ Len(<<>>) <= 2
      OBVIOUS
    <3>2. QED
      BY <3>1, BoundedIs
  <2>2. /\ AMem!Evolved(at, links, other) \in [lineage \cup {at} -> Note]
        /\ AMem!Evolved(at, <<>>, 0) \in [lineage \cup {at} -> Note]
    BY <1>3, <2>1, EvolvedIs
  <2>3. QED
    BY <1>1, <1>2, <2>2
<1>5. evolved' \subseteq decided' /\ decided' \subseteq lineage'
  BY <1>1, <1>2, <1>3 DEF AMem!Decided
<1>6. swallowed' \in BOOLEAN
  <2>1. swallowed \in BOOLEAN
    BY DEF AmInv, AmTyped
  <2>2. swallowed' = swallowed \/ swallowed' = TRUE \/ swallowed' = ~ yes
    BY <1>2, Zenon
  <2>3. QED
    BY <2>1, <2>2, Zenon
<1>7. DOMAIN index' \subseteq AMem!Ids
  <2>1. DOMAIN index' = DOMAIN index \cup {at}
    BY DEF AMem!AddNote, AMem!Stored
  <2>2. QED
    BY <1>1, <2>1 DEF AmInv, AmTyped
<1>8. AmTyped'
  <2>1. at' \in 1 .. AMemEvents + 1 /\ lineage' \subseteq AMem!Ids
    BY <1>1, AmConstants DEF AmInv, AmTyped
  <2>2. root' \in BOOLEAN /\ stage' \in AmStages
    BY <1>1 DEF AmInv, AmTyped
  <2>3. QED
    BY <1>4, <1>5, <1>6, <1>7, <2>1, <2>2 DEF AmTyped
<1>9. AmDirectory' /\ AmPrepared' /\ AmRetrieved'
  BY <1>1, <1>3 DEF AmDirectory, AmPrepared, AmRetrieved
<1>10. QED
  BY <1>8, <1>9 DEF AmInv

LEMMA AmFinish == ASSUME AmInv, AMem!Finish PROVE AmInv'
<1>1. /\ stage = "adding" /\ stage' = "prepared" /\ ~ AMem!NotDone
      /\ UNCHANGED <<root, at, lineage, decided, evolved, swallowed, retrieved>>
  BY DEF AMem!Finish, AMem!Goto
<1>2. /\ notes' = [id \in DOMAIN notes |-> [notes[id] EXCEPT !.links = AMem!ValidLinks(id)]]
      /\ index' = notes'
      /\ handle' = {[lineage |-> lineage, digest |-> notes']}
  BY DEF AMem!Finish, AMem!Consolidated, AMem!Evidence
<1>3. /\ notes \in [lineage -> Note] /\ DOMAIN notes = lineage /\ lineage \subseteq AMem!Ids
      /\ retrieved = {} /\ root
  BY <1>1 DEF AmInv, AmTyped, AmDirectory, AmRetrieved
<1>4. ASSUME NEW id \in lineage
      PROVE  notes'[id] \in Note /\ Leads(notes'[id].links, id)
  <2>1. notes[id] \in Note /\ notes'[id] = [notes[id] EXCEPT !.links = AMem!ValidLinks(id)]
    BY <1>2, <1>3
  <2>2. Leads(AMem!ValidLinks(id), id)
    <3>1. notes[id].links \in AMem!BoundedSeq(AMem!Ids \cup {0}, 2)
      BY <2>1 DEF Note
    <3>2. QED
      BY <3>1, ValidLinksLead
  <2>3. AMem!ValidLinks(id) \in AMem!BoundedSeq(AMem!Ids \cup {0}, 2)
    <3> DEFINE v == AMem!ValidLinks(id)
    <3>1. v \in Seq(lineage \ {id}) /\ Len(v) <= 2
      BY <2>2 DEF Leads
    <3>2. lineage \ {id} \subseteq AMem!Ids \cup {0}
      BY <1>3
    <3> HIDE DEF v
    <3>3. v \in Seq(AMem!Ids \cup {0})
      BY <3>1, <3>2
    <3>4. QED
      BY <3>1, <3>3, BoundedIs DEF v
  <2>4. \A note \in Note, links \in AMem!BoundedSeq(AMem!Ids \cup {0}, 2) :
           [note EXCEPT !.links = links] \in Note /\ [note EXCEPT !.links = links].links = links
    BY DEF Note
  <2>5. notes'[id] \in Note /\ notes'[id].links = AMem!ValidLinks(id)
    BY <2>1, <2>3, <2>4
  <2>6. QED
    BY <2>2, <2>5
<1>5. DOMAIN notes' = lineage /\ notes' \in [lineage -> Note]
  <2>1. DOMAIN notes' = lineage /\ notes' = [id \in lineage |-> notes'[id]]
    BY <1>2, <1>3
  <2>2. QED
    BY <1>4, <2>1
<1>6. AmTyped'
  <2>1. DOMAIN index' \subseteq AMem!Ids
    BY <1>2, <1>3, <1>5
  <2>2. QED
    BY <1>1, <1>5, <2>1 DEF AmInv, AmTyped, AmStages
<1>7. AmDirectory' /\ AmRetrieved'
  BY <1>1, <1>3 DEF AmDirectory, AmRetrieved
<1>8. AmPrepared'
  <2>1. \A id \in lineage' : Leads(notes[id].links, id)'
    BY <1>1, <1>4 DEF Leads
  <2>2. decided = evolved /\ ~ swallowed
    BY <1>1 DEF AMem!NotDone
  <2>3. handle' # {} /\ \A h \in handle' : h.lineage = lineage' /\ h.digest = notes'
    BY <1>1, <1>2
  <2>4. stage' \notin {"clean", "adding"}
    BY <1>1
  <2>5. decided' = evolved' /\ ~ swallowed'
    BY <1>1, <2>2, Zenon
  <2>6. QED
    BY <1>1, <2>1, <2>3, <2>4, <2>5 DEF AmPrepared
<1>9. QED
  BY <1>6, <1>7, <1>8 DEF AmInv

LEMMA AmRetrieve == ASSUME EmbeddedAssumption, AmInv, AMem!Retrieve PROVE AmInv'
<1>1. /\ stage = "prepared" /\ stage' = stage /\ AMem!Verified
      /\ UNCHANGED <<root, index, manifest, at, notes, lineage, decided, evolved, swallowed, handle>>
  BY DEF AMem!Retrieve, AMem!disk, AMem!engine
<1>2. PICK found \in AMem!Searches :
        retrieved' = {[direct |-> found, ranked |-> AMem!Ranked(found)]}
  BY DEF AMem!Retrieve
<1>3. found \in Seq(lineage) /\ Answer(found, AMem!Ranked(found))
  <2> DEFINE X == AMem!Ids \cup {0}
  <2>1. lineage \subseteq AMem!Ids
    BY DEF AmInv, AmTyped
  <2>2. ASSUME NEW id \in lineage PROVE notes[id].links \in Seq(X)
    <3>1. notes[id] \in Note
      BY DEF AmInv, AmTyped
    <3>2. notes[id].links \in AMem!BoundedSeq(X, 2)
      BY <3>1 DEF Note
    <3> HIDE DEF X
    <3>3. QED
      BY <3>2, BoundedIs
  <2> HIDE DEF X
  <2>3. Answer(found, AMem!Ranked(found))
    BY <2>1, <2>2, RankedIs
  <2>4. found \in Seq(lineage)
    <3> DEFINE count == AMem!Least(AMem!Least(DirectResults, MaxResults), Cardinality(lineage))
    <3>1. count \in Nat
      BY <2>1, AmConstants, AmFinite DEF AMem!Least
    <3>2. found \in [1 .. count -> lineage]
      BY AmCardinality DEF AMem!Searches
    <3> HIDE DEF count
    <3>3. QED
      BY <3>1, <3>2
  <2>5. QED
    BY <2>3, <2>4
<1>4. AmTyped' /\ AmDirectory'
  BY <1>1 DEF AmInv, AmTyped, AmDirectory
<1>5. AmPrepared'
  BY <1>1 DEF AmInv, AmPrepared, Leads
<1>6. AmRetrieved'
  <2>1. PICK ranked : ranked = AMem!Ranked(found)
    OBVIOUS
  <2>2. retrieved' = {[direct |-> found, ranked |-> ranked]}
    BY <1>2, <2>1
  <2>3. found \in Seq(lineage') /\ Answer(found, ranked)'
    BY <1>1, <1>3, <2>1 DEF Answer
  <2>4. AMem!Verified' /\ stage' = "prepared"
    BY <1>1 DEF AMem!Verified
  <2>5. ASSUME NEW r \in retrieved' PROVE r.direct \in Seq(lineage') /\ Answer(r.direct, r.ranked)'
    <3>1. r.direct = found /\ r.ranked = ranked
      BY <2>2
    <3>2. QED
      BY <2>3, <3>1
  <2>6. QED
    BY <2>4, <2>5 DEF AmRetrieved
<1>7. QED
  BY <1>4, <1>5, <1>6 DEF AmInv

\* The process is gone or starts again: the directory and what it holds stay.
LEMMA AmStopped ==
    ASSUME EmbeddedAssumption, AmInv, stage' = "idle", retrieved = {}, retrieved' = retrieved,
           UNCHANGED <<root, index>>,
           \/ UNCHANGED <<at, notes, lineage, decided, evolved, swallowed, handle>>
           \/ /\ at' = 1 /\ notes' = AMem!None /\ lineage' = {} /\ decided' = {} /\ evolved' = {}
              /\ swallowed' = FALSE /\ handle' = {}
    PROVE  AmInv'
<1>1. root' \in BOOLEAN /\ stage' \in AmStages /\ DOMAIN index' \subseteq AMem!Ids
  BY DEF AmInv, AmTyped, AmStages
<1>2. AmDirectory' /\ AmRetrieved'
  BY DEF AmInv, AmDirectory, AmRetrieved
<1>3. CASE UNCHANGED <<at, notes, lineage, decided, evolved, swallowed, handle>>
  <2>1. AmTyped'
    BY <1>1, <1>3 DEF AmInv, AmTyped
  <2>2. AmPrepared'
    BY <1>3 DEF AmInv, AmPrepared, Leads
  <2>3. QED
    BY <1>2, <2>1, <2>2 DEF AmInv
<1>4. CASE /\ at' = 1 /\ notes' = AMem!None /\ lineage' = {} /\ decided' = {} /\ evolved' = {}
           /\ swallowed' = FALSE /\ handle' = {}
  <2>1. AmTyped'
    BY <1>1, <1>4, AmNothingThen DEF AmTyped
  <2>2. AmPrepared'
    BY <1>4 DEF AmPrepared
  <2>3. QED
    BY <1>2, <2>1, <2>2 DEF AmInv
<1>5. QED
  BY <1>3, <1>4

LEMMA AmDamage == ASSUME AmInv, AMem!Damage PROVE AmInv'
<1>1. /\ stage = "prepared" /\ stage' = stage /\ retrieved = {} /\ retrieved' = retrieved
      /\ UNCHANGED <<root, at, notes, lineage, decided, evolved, swallowed, handle>>
  BY DEF AMem!Damage, AMem!engine
<1>2. DOMAIN index' \subseteq DOMAIN index
  BY DEF AMem!Damage
<1>3. AmTyped'
  BY <1>1, <1>2 DEF AmInv, AmTyped
<1>4. AmDirectory' /\ AmPrepared' /\ AmRetrieved'
  BY <1>1 DEF AmInv, AmDirectory, AmPrepared, AmRetrieved, Leads
<1>5. QED
  BY <1>3, <1>4 DEF AmInv

LEMMA AmStep == ASSUME EmbeddedAssumption, AmInv, AMem!Next PROVE AmInv'
<1>1. CASE AMem!Clean \/ AMem!Refuse \/ AMem!Fail
  <2>1. /\ stage # "prepared" /\ stage' \in {"idle", "clean"} /\ retrieved' = retrieved
        /\ AMem!Cleanup
    BY <1>1 DEF AMem!Clean, AMem!Refuse, AMem!Fail, AMem!Goto
  <2>2. retrieved = {}
    BY <2>1 DEF AmInv, AmRetrieved
  <2>3. QED
    BY <2>1, <2>2, AmCleaned
<1>2. CASE AMem!RefuseQuery
  <2>1. /\ stage' = "idle" /\ retrieved' = retrieved /\ ~ AMem!Verified
        /\ UNCHANGED <<root, index, at, notes, lineage, decided, evolved, swallowed, handle>>
    BY <1>2 DEF AMem!RefuseQuery, AMem!Goto, AMem!disk, AMem!engine
  <2>2. retrieved = {}
    BY <2>1 DEF AmInv, AmRetrieved
  <2>3. QED
    BY <2>1, <2>2, AmStopped
<1>3. CASE AMem!Kill
  BY <1>3, AmStopped DEF AMem!Kill, AMem!disk
<1>4. CASE AMem!Begin \/ AMem!AddNote \/ AMem!Finish
  BY <1>4, AmBegin, AmAddNote, AmFinish
<1>5. CASE AMem!Retrieve \/ AMem!Damage
  BY <1>5, AmRetrieve, AmDamage
<1>6. QED
  BY <1>1, <1>2, <1>3, <1>4, <1>5 DEF AMem!Next, AMem!Step

LEMMA AmSame == ASSUME AmInv, UNCHANGED unitVars PROVE AmInv'
<1>1. UNCHANGED <<stage, root, index, manifest, at, lineage, handle, retrieved, notes, decided,
                  evolved, swallowed>>
  BY DEF unitVars, embeddedVars, aMemVars
<1>2. AmTyped' /\ AmDirectory' /\ AmPrepared'
  BY <1>1 DEF AmInv, AmTyped, AmDirectory, AmPrepared, Leads
<1>3. AmRetrieved'
  BY <1>1 DEF AmInv, AmRetrieved, Answer, AMem!Verified
<1>4. QED
  BY <1>2, <1>3 DEF AmInv

LEMMA AmOrigins ==
    ASSUME EmbeddedAssumption, AmInv
    PROVE  /\ AMem!TypeOK /\ AMem!EvolutionCarriedOut
           /\ AMem!SearchedAsEvolved /\ AMem!LinksLead /\ AMem!RankedOnce
<1>1. AMem!TypeOK
  <2>1. \A id \in lineage : /\ notes[id].text \in Nat
                            /\ notes[id].links \in AMem!BoundedSeq(AMem!Ids \cup {0}, 2)
    BY DEF AmInv, AmTyped, Note
  <2>2. ASSUME NEW h \in handle, NEW id \in h.lineage
        PROVE  AMem!ToSet(h.digest[id].links) \subseteq AMem!Ids
    <3>1. id \in lineage /\ h.digest = notes /\ Leads(notes[id].links, id)
      BY DEF AmInv, AmPrepared
    <3>2. lineage \subseteq AMem!Ids
      BY DEF AmInv, AmTyped
    <3>3. \A s \in Seq(lineage \ {id}) : AMem!ToSet(s) \subseteq lineage
      BY DEF AMem!ToSet
    <3>4. AMem!ToSet(notes[id].links) \subseteq lineage
      BY <3>1, <3>3 DEF Leads
    <3>5. QED
      BY <3>1, <3>2, <3>4
  <2>3. DOMAIN notes = lineage
    BY DEF AmInv, AmTyped
  <2>4. QED
    BY <2>1, <2>2, <2>3 DEF AmInv, AmTyped, AmDirectory, AmStages, AMem!TypeOK
<1>2. AMem!EvolutionCarriedOut
  BY DEF AmInv, AmPrepared, AmRetrieved, AMem!EvolutionCarriedOut
<1>3. AMem!SearchedAsEvolved
  BY DEF AmInv, AmPrepared, AmRetrieved, AMem!Verified, AMem!SearchedAsEvolved
<1>4. AMem!LinksLead
  <2>1. ASSUME retrieved # {}, NEW id \in lineage PROVE Leads(notes[id].links, id)
    BY <2>1 DEF AmInv, AmPrepared, AmRetrieved
  <2>2. ASSUME NEW links, NEW id, Leads(links, id)
        PROVE  AMem!IsInjective(links) /\ \A i \in DOMAIN links : links[i] \in lineage \ {id}
    BY <2>2 DEF Leads, AMem!IsInjective
  <2>3. QED
    BY <2>1, <2>2 DEF AMem!LinksLead
<1>5. AMem!RankedOnce
  <2>1. ASSUME NEW r \in retrieved
        PROVE  /\ AMem!IsInjective(r.ranked)
               /\ SubSeq(r.ranked, 1, Len(r.direct)) = r.direct
               /\ Len(r.ranked) <= MaxResults /\ Len(r.ranked) - Len(r.direct) <= LinkedResults
               /\ \A k \in Len(r.direct) + 1 .. Len(r.ranked) :
                     \E i \in 1 .. Len(r.direct) :
                        AMem!Contains(notes[r.direct[i]].links, r.ranked[k])
    <3> DEFINE d == r.direct
               s == r.ranked
    <3>1. d \in Seq(lineage) /\ Answer(d, s)
      BY DEF AmInv, AmRetrieved
    <3> HIDE DEF d, s
    <3>2. s \in Seq(lineage) /\ Len(d) <= Len(s) /\ Len(s) \in Nat /\ Len(d) \in Nat
      BY <3>1 DEF Answer
    <3>3. AMem!IsInjective(s)
      BY <3>1, <3>2 DEF Answer, AMem!IsInjective
    <3>4. SubSeq(s, 1, Len(d)) = d
      <4>1. \A i \in 1 .. Len(d) : s[i] = d[i]
        BY <3>1 DEF Answer
      <4>2. QED
        BY <3>1, <3>2, <4>1
    <3>5. Len(s) <= MaxResults /\ Len(s) - Len(d) <= LinkedResults
      BY <3>1, <3>2, AmConstants DEF Answer
    <3>6. \A k \in Len(d) + 1 .. Len(s) :
             \E i \in 1 .. Len(d) : AMem!Contains(notes[d[i]].links, s[k])
      BY <3>1 DEF Answer
    <3>7. QED
      BY <3>3, <3>4, <3>5, <3>6 DEF d, s
  <2>2. QED
    BY <2>1, Zenon DEF AMem!RankedOnce
<1>6. QED
  BY <1>1, <1>2, <1>3, <1>4, <1>5

-----------------------------------------------------------------------------
(* Both of them. *)

EmbeddedInv == (part = "lightmem" => LmInv) /\ (part = "amem" => AmInv)

LEMMA EmbeddedStarts == ASSUME EmbeddedAssumption, EmbeddedInit PROVE EmbeddedInv
<1>1. part = "lightmem" => LightMem!Init
  BY DEF EmbeddedInit
<1>2. part = "amem" => AMem!Init
  BY DEF EmbeddedInit
<1>3. ASSUME AMem!Init PROVE AmEmpty /\ stage \in {"idle", "clean"} /\ retrieved = {}
  <2>1. stage = "idle" /\ retrieved = {}
    BY <1>3, Zenon DEF AMem!Init
  <2>2. AmEmpty
    BY <1>3, Zenon DEF AMem!Init, AmEmpty
  <2>3. QED
    BY <2>1, <2>2
<1>4. QED
  BY <1>1, <1>2, <1>3, LmStart, AmStart DEF EmbeddedInv

LEMMA EmbeddedInductive ==
    ASSUME EmbeddedAssumption, EmbeddedInv, [EmbeddedNext]_unitVars PROVE EmbeddedInv'
<1>1. CASE InLightMem(LightMem!Next)
  <2>1. part = "lightmem" /\ part' = part /\ LightMem!Next
    BY <1>1 DEF InLightMem
  <2>2. LmInv'
    BY <2>1, LmStep DEF EmbeddedInv
  <2>3. QED
    BY <2>1, <2>2 DEF EmbeddedInv
<1>2. CASE InAMem(AMem!Next)
  <2>1. part = "amem" /\ part' = part /\ AMem!Next
    BY <1>2 DEF InAMem
  <2>2. AmInv'
    BY <2>1, AmStep DEF EmbeddedInv
  <2>3. QED
    BY <2>1, <2>2 DEF EmbeddedInv
<1>3. CASE UNCHANGED unitVars
  <2>1. part' = part
    BY <1>3 DEF unitVars
  <2>2. QED
    BY <1>3, <2>1, LmSame, AmSame DEF EmbeddedInv
<1>4. QED
  BY <1>1, <1>2, <1>3 DEF EmbeddedNext

\* With every number of events, entries, notes, results and faults, LightMem and
\* A-MEM answer from the memory as it was made, every update and evolution that
\* was decided has been carried out, and what they say of its origin is so: the
\* event named is the one the entry still reads as, and links lead to notes.
THEOREM Origins == ASSUME EmbeddedAssumption PROVE EmbeddedSpec => []OriginsAreExact
<1>1. EmbeddedInit => EmbeddedInv
  BY EmbeddedStarts
<1>2. EmbeddedInv /\ [EmbeddedNext]_unitVars => EmbeddedInv'
  BY EmbeddedInductive
<1>3. EmbeddedInv => OriginsAreExact
  BY LmOrigins, AmOrigins DEF EmbeddedInv, OriginsAreExact
<1>4. QED
  BY <1>1, <1>2, <1>3, PTL DEF EmbeddedSpec
=============================================================================
