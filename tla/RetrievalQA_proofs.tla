-------------------------- MODULE RetrievalQA_proofs --------------------------
(***************************************************************************)
(* What a committed unit of a schema 3 run refers to was all made from one *)
(* ingestion, its memory has been dealt with as the retention policy says, *)
(* and PARTIAL says that every unit is so: for any number of units, of     *)
(* queries, of attempts and of faults, and for every kind of framework.    *)
(* At the end, the packing of a query's context: it is within its budget,  *)
(* and a memory cut for it is cut at a place after which it does not fit,  *)
(* for every retrieval, every budget and every tokenizer.                  *)
(***************************************************************************)
EXTENDS RetrievalQA, PackedContext, WellFoundedInduction, TLAPS

Assumed == SizeAssumption /\ KindsAssumption /\ FaultsAssumption

\* Where the process holds a unit, and how far it has come with it.
AtWork == {"restore", "clean", "cleaning", "wipe", "declare", "ingest",
           "ingesting", "barrier", "ingested", "predict", "ask", "record",
           "mark", "gather", "retain", "retaining", "commit"}
Mine == {"cleaning", "wipe", "declare"}
Cleared == {"declare", "ingest", "ingesting", "barrier", "ingested"}
Declared == {"ingest", "ingesting", "barrier", "ingested", "predict", "ask",
             "record", "mark", "gather", "retain", "retaining", "commit"}
Checked == {"ingested", "predict", "ask", "record", "mark", "gather", "retain",
            "retaining", "commit"}
Held == Checked \cup {"barrier"}
Remembered == Held \ {"retaining", "commit"}
Predicting == {"ask", "record", "mark", "gather", "retain", "retaining", "commit"}
Gathered == {"retain", "retaining", "commit"}
UnderWay == Predicting \cup Cleared
Places == AtWork \cup {"idle", "open", "next", "count", "end", "close"}

Checkpoints ==
    [is : Progress, refs : {Nothing}] \cup
    [is : {"COMMITTED"}, refs : {"absent", "declared", "other"} \X Contents
        \X Contents \X Contents \X AnswerSets \X AnswerSets
        \X (AnswerSets \cup {Nothing})]

\* What the checkpoint of a unit refers to that was done from an ingestion.
Good(r) ==
    /\ r[1] = "declared" /\ r[2] \in Ingestions /\ r[3] = r[2]
    /\ r[5] \in AnswerSets /\ r[7] = r[5]
    /\ \A q \in Queries : r[5][q] # NoAnswer /\ r[5][q][1] = r[2]
    /\ IF beam THEN r[4] = r[2] /\ r[6] = r[5] ELSE r[4] = Absent /\ r[6] = NoAnswers

TypedFiles ==
    /\ memory \in [Units -> [from : Contents, whole : BOOLEAN]]
    /\ owned \in [Units -> {"absent", "declared", "other"}]
    /\ prepared \in [Units -> Contents] /\ barrier \in [Units -> Contents]
    /\ ingested \in [Units -> Contents]
    /\ answer \in [Units -> AnswerSets] /\ mark \in [Units -> AnswerSets]
    /\ aggregate \in [Units -> AnswerSets \cup {Nothing}]
    /\ checkpoint \in [Units -> Checkpoints]
TypedProcess ==
    /\ attempt \in 0 .. MaxAttempts
    /\ pc # "idle" => attempt \in Ingestions
    /\ todo \subseteq Units /\ unit \in Units /\ done \subseteq Units
    /\ query \in 1 .. LastQuery + 1
    /\ handle \in Contents /\ faults \in 0 .. MaxFaults
    /\ pc \in Places
TypedRest ==
    /\ kind \in Kinds /\ beam \in BOOLEAN
    /\ retention \in {"keep", "delete-on-success"}
    /\ phase = Nothing \/ DOMAIN phase = Units
    /\ status \in [is : {"none", "RUNNING", "PARTIAL", "FAILED_RUNNING",
                         "INTERRUPTED"}, units : SUBSET Units]
    /\ stopping \in BOOLEAN
Typed == TypedFiles /\ TypedProcess /\ TypedRest

\* What is committed refers to good files, and only damage makes them otherwise:
\* a file that is missing or damaged is none of them.
GoodRefs == \A u \in Units : checkpoint[u].is = "COMMITTED" => Good(checkpoint[u].refs)
\* Only a BEAM run records ingestions and answers; a stateless one has no memory.
Plain ==
    /\ ~ beam => \A u \in Units : ingested[u] = Absent /\ mark[u] = NoAnswers
    /\ ~ StoresMemory => \A u \in Units : memory[u] = Empty
\* The recorded answers of a unit are of its recorded ingestion.
Marks ==
    \A u \in Units : \A q \in Queries :
        mark[u][q] # NoAnswer => ingested[u] \in {mark[u][q][1], Damaged}

\* The units of an attempt: those it has done are committed, those it has to do
\* and the one in hand are not.
Plan ==
    /\ pc # "idle" => /\ \A u \in todo : ~ Committed(u)
                      /\ \A u \in done : Committed(u)
    /\ pc \in {"open", "next"} => Units = done \cup todo
    /\ pc \in AtWork \cup {"count"} => Units = done \cup todo \cup {unit} /\ unit \notin todo
    /\ pc \in AtWork => ~ Committed(unit)
    /\ pc = "count" => Committed(unit)
    /\ pc \in {"end", "close"} => done = Units
    /\ pc = "close" => phase = checkpoint

\* The unit in hand is the run's own, and empty when its ingestion begins.
Ownership ==
    /\ pc \in Mine => owned[unit] # "other"
    /\ pc \in Declared => owned[unit] = "declared"
    /\ pc \in Cleared => mark[unit] = NoAnswers
    /\ pc \in UnderWay => checkpoint[unit].is # "COMMITTED"

\* The ingestion in hand is the one the unit's files describe.
Holding ==
    /\ pc \in Held => handle = prepared[unit] /\ handle \in Ingestions
    /\ pc \in Checked => barrier[unit] = handle
    /\ pc = "ingested" => beam
    /\ pc \in Checked \ {"ingested"} /\ beam => ingested[unit] = handle

\* The memory of the unit in hand.
Remembering ==
    /\ pc = "ingesting" /\ StoresMemory => memory[unit] = [from |-> attempt, whole |-> FALSE]
    /\ pc \in Remembered /\ StoresMemory => memory[unit] = [from |-> handle, whole |-> TRUE]
    /\ pc = "commit" => memory[unit] = IF retention = "keep" /\ StoresMemory
                                       THEN [from |-> handle, whole |-> TRUE] ELSE Empty

\* The answers given so far are of the ingestion in hand; a BEAM run has recorded
\* each as it is.
Answered(q) ==
    /\ answer[unit][q] # NoAnswer /\ answer[unit][q][1] = handle
    /\ beam => mark[unit][q] = answer[unit][q]
Answering ==
    /\ pc \in {"record", "mark"} => query \in Queries
    /\ pc = "mark" => beam /\ answer[unit][query] = <<handle, attempt>>
    /\ pc \in {"ask", "record", "mark"} => \A q \in Queries : q < query => Answered(q)
    /\ pc \in {"gather"} \cup Gathered => \A q \in Queries : Answered(q)
    /\ pc \in Gathered => aggregate[unit] = answer[unit]
    /\ pc \in {"retain", "retaining"} => retention # "keep"

\* An attempt says RUNNING before it does anything else.
Closing ==
    status.is = "PARTIAL" => pc \in {"idle", "open"}

\* The inductive invariant.
IInv ==
    /\ Typed /\ GoodRefs /\ Plain /\ Marks /\ Plan /\ Ownership /\ Holding
    /\ Remembering /\ Answering /\ RetentionHonoured
    /\ Closing /\ PartialMeansPredicted

-----------------------------------------------------------------------------
(* What the constants and the sets of values are. *)

LEMMA Constants ==
    ASSUME Assumed
    PROVE  /\ LastUnit \in Nat /\ LastUnit > 0 /\ LastQuery \in Nat /\ LastQuery > 0
           /\ MaxFaults \in Nat /\ MaxAttempts \in Nat /\ MaxAttempts = MaxFaults + 1
           /\ Kinds \subseteq {"index", "stateless", "external"}
           /\ 1 \in Units /\ 1 \in Queries /\ Units \subseteq Nat /\ Queries \subseteq Nat
BY DEF Assumed, SizeAssumption, KindsAssumption, FaultsAssumption, MaxAttempts,
       Units, Queries

LEMMA Values ==
    ASSUME Assumed
    PROVE  /\ Absent \in Contents /\ Damaged \in Contents /\ Ingestions \subseteq Contents
           /\ Absent \notin Ingestions /\ Damaged \notin Ingestions /\ Absent # Damaged
           /\ NoAnswer \in Answers /\ <<Damaged, Damaged>> \in Answers
           /\ \A i, j \in Ingestions : <<i, j>> \in Answers /\ <<i, j>> # NoAnswer
           /\ \A i, j \in Ingestions : <<i, j>>[1] = i
           /\ NoAnswers \in AnswerSets
           /\ \A q \in Queries : NoAnswers[q] = NoAnswer
           /\ \A a \in AnswerSets : \A q \in Queries : a[q] \in Answers
           /\ Nothing \notin AnswerSets
           /\ Empty \in [from : Contents, whole : BOOLEAN]
<1>1. /\ Absent \in Contents /\ Damaged \in Contents /\ Ingestions \subseteq Contents
      /\ Absent \notin Ingestions /\ Damaged \notin Ingestions /\ Absent # Damaged
  BY Constants DEF Absent, Damaged, Contents, Ingestions
<1>2. /\ NoAnswer \in Answers /\ <<Damaged, Damaged>> \in Answers
      /\ \A i, j \in Ingestions : <<i, j>> \in Answers /\ <<i, j>> # NoAnswer
      /\ \A i, j \in Ingestions : <<i, j>>[1] = i
  BY <1>1 DEF Answers, NoAnswer
<1>3. /\ NoAnswers \in AnswerSets
      /\ \A q \in Queries : NoAnswers[q] = NoAnswer
      /\ \A a \in AnswerSets : \A q \in Queries : a[q] \in Answers
  BY <1>2 DEF AnswerSets, NoAnswers
<1>4. Nothing \notin AnswerSets
  <2>1. SUFFICES ASSUME <<>> \in [Queries -> Answers] PROVE FALSE
    BY DEF AnswerSets, Nothing
  <2>2. DOMAIN <<>> = Queries
    BY <2>1
  <2>3. DOMAIN <<>> = 1 .. 0
    OBVIOUS
  <2>4. QED
    BY <2>2, <2>3, Constants
<1>5. Empty \in [from : Contents, whole : BOOLEAN]
  BY <1>1 DEF Empty
<1>6. QED
  BY <1>1, <1>2, <1>3, <1>4, <1>5

\* The first of the units to do is one of them, since "less than" is well founded.
Less == {ss \in Nat \X Nat : ss[1] < ss[2]}

LEMMA LessWellFounded == IsWellFoundedOn(Less, Nat)
<1>1. Less = OpToRel(<, Nat)
  BY Zenon DEF OpToRel, Less
<1>2. QED
  BY <1>1, NatLessThanWellFounded, Zenon

LEMMA FirstIs ==
    ASSUME Assumed, NEW S, S \subseteq Units, S # {}
    PROVE  First(S) \in S
<1>1. S \subseteq Nat
  BY Constants
<1>2. PICK u \in S : \A v \in S : ~ (<<v, u>> \in Less)
  BY <1>1, LessWellFounded, WFMin, Zenon
<1>3. \A v \in S : u <= v
  <2>1. SUFFICES ASSUME NEW v \in S PROVE u <= v
    OBVIOUS
  <2>2. u \in Nat /\ v \in Nat
    BY <1>1
  <2>3. ~ (v < u)
    BY <1>2, <2>2 DEF Less
  <2>4. QED
    BY <2>2, <2>3
<1>4. \E x \in S : \A v \in S : x <= v
  BY <1>3
<1>5. QED
  BY <1>4 DEF First

-----------------------------------------------------------------------------
(* The steps, and what they leave alone. *)

Quiet == Start \/ Open \/ NextUnit \/ RestoreIngested \/ Ask \/ Count \/ End \/ Close
         \/ Refuse \/ Stop \/ Fail \/ RequestStop \/ Kill
Files == <<settings, memory, records, checkpoint>>

LEMMA Steps ==
    ASSUME [Next]_vars
    PROVE  \/ UNCHANGED vars \/ Quiet
           \/ Clean \/ Cleaned \/ Wipe \/ KillInWipe
           \/ Declare \/ Ingest \/ Prepare \/ Barrier \/ Ingested
           \/ BeginPredicting \/ Record \/ Mark
           \/ Gather \/ Retain \/ Retained \/ Commit \/ Damage
BY DEF Next, Step, Quiet

LEMMA QuietSteps ==
    ASSUME Quiet
    PROVE  UNCHANGED Files
BY DEF Quiet, Files, Start, Open, NextUnit, RestoreIngested, Ask, Count, End, Close,
       Refuse, Stop, Fail, Failed, RequestStop, Kill, Goto

LEMMA SettingsStay ==
    ASSUME [Next]_vars
    PROVE  UNCHANGED settings
<1>1. ASSUME Quiet PROVE UNCHANGED settings
  BY <1>1, QuietSteps DEF Files
<1>2. QED
  BY <1>1, Steps DEF vars, Clean, Cleaned, Wipe, KillInWipe, Declare, Ingest, Prepare,
     Barrier, Ingested, BeginPredicting, Record, Mark, Gather, Retain, Retained,
     Commit, Damage

LEMMA WorkingTypes ==
    \A s \in Progress : Working(s) \in Checkpoints
BY DEF Working, Checkpoints

-----------------------------------------------------------------------------
(* An update of one field, or of one entry, of the value at one place, and  *)
(* the steps that make one.                                                 *)

LEMMA RecordUpdate ==
    ASSUME NEW D, NEW C, NEW f \in [D -> [from : C, whole : BOOLEAN]],
           NEW d \in D, NEW b \in BOOLEAN
    PROVE  /\ [f EXCEPT ![d].whole = b] \in [D -> [from : C, whole : BOOLEAN]]
           /\ [f EXCEPT ![d].whole = b][d] = [from |-> f[d].from, whole |-> b]
           /\ \A e \in D \ {d} : [f EXCEPT ![d].whole = b][e] = f[e]
<1> DEFINE g == [f EXCEPT ![d].whole = b]
<1>1. g = [e \in D |-> IF e = d THEN [f[e] EXCEPT !.whole = b] ELSE f[e]]
  BY Zenon
<1>2. [f[d] EXCEPT !.whole = b] = [from |-> f[d].from, whole |-> b]
  <2>1. f[d] \in [from : C, whole : BOOLEAN]
    OBVIOUS
  <2>2. ASSUME NEW r \in [from : C, whole : BOOLEAN]
        PROVE [r EXCEPT !.whole = b] = [from |-> r.from, whole |-> b]
    OBVIOUS
  <2>3. QED
    BY <2>1, <2>2
<1>3. f[d].from \in C
  OBVIOUS
<1> HIDE DEF g
<1>4. /\ g \in [D -> [from : C, whole : BOOLEAN]]
      /\ g[d] = [from |-> f[d].from, whole |-> b]
      /\ \A e \in D \ {d} : g[e] = f[e]
  BY <1>1, <1>2, <1>3
<1>5. QED
  BY <1>4 DEF g

LEMMA EntryUpdate ==
    ASSUME NEW D, NEW E, NEW C, NEW f \in [D -> [E -> C]],
           NEW d \in D, NEW e \in E, NEW c \in C
    PROVE  /\ [f EXCEPT ![d][e] = c] \in [D -> [E -> C]]
           /\ [f EXCEPT ![d][e] = c][d] = [f[d] EXCEPT ![e] = c]
           /\ \A x \in D \ {d} : [f EXCEPT ![d][e] = c][x] = f[x]
<1> DEFINE g == [f EXCEPT ![d][e] = c]
<1>1. g = [x \in D |-> IF x = d THEN [f[x] EXCEPT ![e] = c] ELSE f[x]]
  BY Zenon
<1>3. [f[d] EXCEPT ![e] = c] \in [E -> C]
  OBVIOUS
<1> HIDE DEF g
<1>4. /\ g \in [D -> [E -> C]]
      /\ g[d] = [f[d] EXCEPT ![e] = c]
      /\ \A x \in D \ {d} : g[x] = f[x]
  BY <1>1, <1>3
<1>5. QED
  BY <1>4 DEF g

LEMMA WholeSteps ==
    ASSUME Typed, NEW b \in BOOLEAN, memory' = [memory EXCEPT ![unit].whole = b]
    PROVE  /\ memory' \in [Units -> [from : Contents, whole : BOOLEAN]]
           /\ memory'[unit] = [from |-> memory[unit].from, whole |-> b]
           /\ \A u \in Units \ {unit} : memory'[u] = memory[u]
<1>1. memory \in [Units -> [from : Contents, whole : BOOLEAN]] /\ unit \in Units
  BY DEF Typed, TypedFiles, TypedProcess
<1> DEFINE g == [memory EXCEPT ![unit].whole = b]
<1>2. /\ g \in [Units -> [from : Contents, whole : BOOLEAN]]
      /\ g[unit] = [from |-> memory[unit].from, whole |-> b]
      /\ \A u \in Units \ {unit} : g[u] = memory[u]
  BY <1>1, RecordUpdate
<1>3. memory' = g
  OBVIOUS
<1> HIDE DEF g
<1>4. QED
  BY <1>2, <1>3

LEMMA RecordIs ==
    ASSUME Assumed, Typed, Record, query \in Queries, handle \in Ingestions
    PROVE  /\ answer' \in [Units -> AnswerSets]
           /\ answer'[unit] = [answer[unit] EXCEPT ![query] = <<handle, attempt>>]
           /\ \A u \in Units \ {unit} : answer'[u] = answer[u]
<1>1. answer \in [Units -> [Queries -> Answers]] /\ unit \in Units
  BY DEF Typed, TypedFiles, TypedProcess, AnswerSets
<1>2. <<handle, attempt>> \in Answers
  BY Values DEF Typed, TypedProcess, Record
<1>3. answer' = [answer EXCEPT ![unit][query] = <<handle, attempt>>]
  BY Zenon DEF Record
<1>4. QED
  BY <1>1, <1>2, <1>3, EntryUpdate, Zenon DEF AnswerSets

LEMMA MarkIs ==
    ASSUME Assumed, Typed, Mark, query \in Queries
    PROVE  /\ mark' \in [Units -> AnswerSets]
           /\ mark'[unit] = [mark[unit] EXCEPT ![query] = answer[unit][query]]
           /\ \A u \in Units \ {unit} : mark'[u] = mark[u]
<1>1. mark \in [Units -> [Queries -> Answers]] /\ unit \in Units
      /\ answer[unit] \in AnswerSets
  BY DEF Typed, TypedFiles, TypedProcess, AnswerSets
<1>2. answer[unit][query] \in Answers
  BY <1>1, Values
<1>3. mark' = [mark EXCEPT ![unit][query] = answer[unit][query]]
  BY Zenon DEF Mark
<1>4. QED
  BY <1>1, <1>2, <1>3, EntryUpdate, Zenon DEF AnswerSets

\* What a removal leaves of the unit's files.
Kept(f, none) == f'[unit] \in {f[unit], none} /\ \A u \in Units \ {unit} : f'[u] = f[u]

LEMMA RemovalIs ==
    ASSUME Assumed, Typed, NEW names, NEW asked, RemoveFiles(names, asked)
    PROVE  /\ Kept(owned, "absent") /\ Kept(prepared, Absent) /\ Kept(barrier, Absent)
           /\ Kept(ingested, Absent) /\ Kept(checkpoint, Working("none"))
           /\ Kept(aggregate, Nothing)
           /\ \A u \in Units \ {unit} : answer'[u] = answer[u]
           /\ \A q \in Queries : answer'[unit][q] \in {answer[unit][q], NoAnswer}
           /\ owned' \in [Units -> {"absent", "declared", "other"}]
           /\ prepared' \in [Units -> Contents] /\ barrier' \in [Units -> Contents]
           /\ ingested' \in [Units -> Contents]
           /\ aggregate' \in [Units -> AnswerSets \cup {Nothing}]
           /\ checkpoint' \in [Units -> Checkpoints]
           /\ answer' \in [Units -> AnswerSets]
<1>1. /\ TypedFiles /\ unit \in Units
  BY DEF Typed, TypedProcess
<1>2. /\ Kept(owned, "absent") /\ owned' \in [Units -> {"absent", "declared", "other"}]
  BY <1>1 DEF TypedFiles, RemoveFiles, Keep, Kept
<1>3. /\ Kept(prepared, Absent) /\ Kept(barrier, Absent) /\ Kept(ingested, Absent)
      /\ prepared' \in [Units -> Contents] /\ barrier' \in [Units -> Contents]
      /\ ingested' \in [Units -> Contents]
  BY <1>1, Values DEF TypedFiles, RemoveFiles, Keep, Kept
<1>4. Kept(checkpoint, Working("none")) /\ checkpoint' \in [Units -> Checkpoints]
  BY <1>1, WorkingTypes DEF TypedFiles, RemoveFiles, Keep, Kept, Progress
<1>5. Kept(aggregate, Nothing) /\ aggregate' \in [Units -> AnswerSets \cup {Nothing}]
  BY <1>1 DEF TypedFiles, RemoveFiles, Keep, Kept
<1>6. /\ \A u \in Units \ {unit} : answer'[u] = answer[u]
      /\ \A q \in Queries : answer'[unit][q] \in {answer[unit][q], NoAnswer}
      /\ answer' \in [Units -> AnswerSets]
  <2> DEFINE left == [q \in Queries |-> IF q \in asked THEN answer[unit][q] ELSE NoAnswer]
  <2>1. answer' = [answer EXCEPT ![unit] = left]
    BY DEF RemoveFiles
  <2>2. left \in AnswerSets
    <3>1. \A q \in Queries : answer[unit][q] \in Answers
      BY <1>1, Values DEF TypedFiles
    <3>2. QED
      BY <3>1, Values DEF AnswerSets
  <2>3. \A q \in Queries : left[q] \in {answer[unit][q], NoAnswer}
    OBVIOUS
  <2> HIDE DEF left
  <2>4. QED
    BY <1>1, <2>1, <2>2, <2>3 DEF TypedFiles
<1>7. QED
  BY <1>2, <1>3, <1>4, <1>5, <1>6

\* The marks go with the unit's checkpoints.
LEMMA MarksGo ==
    ASSUME Assumed, Typed, Wipe \/ KillInWipe
    PROVE  /\ \E names, asked : RemoveFiles(names, asked)
           /\ mark' \in [Units -> AnswerSets]
           /\ \A u \in Units \ {unit} : mark'[u] = mark[u]
           /\ \A q \in Queries : mark'[unit][q] \in {mark[unit][q], NoAnswer}
           /\ ingested'[unit] = ingested[unit] \/ mark'[unit] = NoAnswers
<1>1. TypedFiles /\ unit \in Units
  BY DEF Typed, TypedProcess
<1>2. ASSUME NEW names, NEW asked, RemoveFiles(names, asked),
             mark' = [mark EXCEPT ![unit] = NoAnswers]
      PROVE  /\ mark' \in [Units -> AnswerSets]
             /\ \A u \in Units \ {unit} : mark'[u] = mark[u]
             /\ \A q \in Queries : mark'[unit][q] \in {mark[unit][q], NoAnswer}
             /\ mark'[unit] = NoAnswers
  BY <1>1, <1>2, Values DEF TypedFiles
<1>3. ASSUME NEW names \in SUBSET UnitFiles, NEW asked, NEW marked,
             RemoveFiles(names \cup UnitCheckpoints, asked),
             mark' = [mark EXCEPT ![unit] =
                         [q \in Queries |-> IF q \in marked THEN mark[unit][q] ELSE NoAnswer]]
      PROVE  /\ mark' \in [Units -> AnswerSets]
             /\ \A u \in Units \ {unit} : mark'[u] = mark[u]
             /\ \A q \in Queries : mark'[unit][q] \in {mark[unit][q], NoAnswer}
             /\ ingested'[unit] = ingested[unit]
  <2> DEFINE left == [q \in Queries |-> IF q \in marked THEN mark[unit][q] ELSE NoAnswer]
  <2>1. left \in AnswerSets
    <3>1. \A q \in Queries : mark[unit][q] \in Answers
      BY <1>1, Values DEF TypedFiles
    <3>2. QED
      BY <3>1, Values DEF AnswerSets
  <2>2. \A q \in Queries : left[q] \in {mark[unit][q], NoAnswer}
    OBVIOUS
  <2>3. mark' = [mark EXCEPT ![unit] = left]
    BY <1>3
  <2> HIDE DEF left
  <2>4. ingested' = [ingested EXCEPT ![unit] = @]
    BY <1>3 DEF RemoveFiles, Keep, UnitCheckpoints
  <2>5. QED
    BY <1>1, <2>1, <2>2, <2>3, <2>4 DEF TypedFiles
<1>4. CASE Wipe
  BY <1>2, <1>4 DEF Wipe
<1>5. CASE KillInWipe
  <2>1. \/ \E names \in SUBSET UnitFiles, asked, marked \in SUBSET Queries :
             /\ RemoveFiles(names \cup UnitCheckpoints, asked)
             /\ mark' = [mark EXCEPT ![unit] =
                   [q \in Queries |-> IF q \in marked THEN mark[unit][q] ELSE NoAnswer]]
        \/ \E names : RemoveFiles(names, {}) /\ mark' = [mark EXCEPT ![unit] = NoAnswers]
    BY <1>5, Zenon DEF KillInWipe
  <2>2. CASE \E names : RemoveFiles(names, {}) /\ mark' = [mark EXCEPT ![unit] = NoAnswers]
    BY <1>2, <2>2, Zenon
  <2>3. CASE \E names \in SUBSET UnitFiles, asked, marked \in SUBSET Queries :
             /\ RemoveFiles(names \cup UnitCheckpoints, asked)
             /\ mark' = [mark EXCEPT ![unit] =
                   [q \in Queries |-> IF q \in marked THEN mark[unit][q] ELSE NoAnswer]]
    BY <1>3, <2>3, Zenon
  <2>4. QED
    BY <2>1, <2>2, <2>3
<1>6. QED
  BY <1>4, <1>5

-----------------------------------------------------------------------------
(* Types. *)

LEMMA CommittedTypes ==
    ASSUME TypedFiles, NEW u \in Units
    PROVE  [is |-> "COMMITTED", refs |-> Snapshot(u)] \in Checkpoints
<1>1. /\ owned[u] \in {"absent", "declared", "other"} /\ prepared[u] \in Contents
      /\ barrier[u] \in Contents /\ ingested[u] \in Contents
      /\ answer[u] \in AnswerSets /\ mark[u] \in AnswerSets
      /\ aggregate[u] \in AnswerSets \cup {Nothing}
  BY DEF TypedFiles
<1>2. QED
  BY <1>1 DEF Snapshot, Checkpoints

LEMMA TypedFilesStep ==
    ASSUME Assumed, IInv, [Next]_vars
    PROVE  TypedFiles'
<1>0. Typed /\ Holding /\ Answering
  BY DEF IInv
<1> USE <1>0, Constants, Values, WorkingTypes, CommittedTypes
        DEF Typed, TypedFiles, TypedProcess, Goto
<1>1. ASSUME UNCHANGED Files PROVE TypedFiles'
  BY <1>1 DEF Files, records
<1>2. CASE Clean \/ Retain
  <2>1. memory' = [memory EXCEPT ![unit].whole = FALSE] /\ UNCHANGED records
        /\ UNCHANGED checkpoint
    BY <1>2, Zenon DEF Clean, Retain
  <2>2. memory' \in [Units -> [from : Contents, whole : BOOLEAN]]
    BY <2>1, WholeSteps
  <2>3. QED
    BY <2>1, <2>2 DEF records
<1>3. CASE Cleaned \/ Retained
  BY <1>3 DEF Cleaned, Retained, records
<1>4. CASE Wipe \/ KillInWipe
  <2>1. PICK names, asked : RemoveFiles(names, asked)
    BY <1>4, MarksGo
  <2>2. UNCHANGED memory
    BY <1>4 DEF Wipe, KillInWipe
  <2>3. QED
    BY <1>4, <2>1, <2>2, MarksGo, RemovalIs
<1>6. CASE Declare
  BY <1>6 DEF Declare, WriteCheckpoint, Progress
<1>7. CASE Ingest
  BY <1>7 DEF Ingest, records
<1>8. CASE Prepare
  <2>1. memory' \in [Units -> [from : Contents, whole : BOOLEAN]]
    BY <1>8, WholeSteps DEF Prepare
  <2>2. QED
    BY <1>8, <2>1 DEF Prepare
<1>9. CASE Barrier
  BY <1>9 DEF Barrier
<1>10. CASE Ingested
  BY <1>10 DEF Ingested, WriteCheckpoint, Progress
<1>11. CASE BeginPredicting
  BY <1>11 DEF BeginPredicting, records, WriteCheckpoint, Progress
<1>12. CASE Mark
  BY <1>12, MarkIs DEF Mark, Answering
<1>13. CASE Gather
  BY <1>13 DEF Gather
<1>14. CASE Record
  <2>1. query \in Queries /\ handle \in Ingestions
    BY <1>14 DEF Record, Answering, Holding, Held, Checked
  <2>2. QED
    BY <1>14, <2>1, RecordIs DEF Record
<1>15. CASE Commit
  BY <1>15 DEF Commit, records
<1>16. CASE Damage
  <2>1. PICK u \in Units :
          \/ DamageRecord(u) /\ UNCHANGED memory
          \/ /\ memory[u] # Empty /\ UNCHANGED records
             /\ memory' = [memory EXCEPT ![u] = [from |-> Damaged, whole |-> FALSE]]
    BY <1>16 DEF Damage
  <2>2. UNCHANGED checkpoint
    BY <1>16 DEF Damage
  <2>3. CASE UNCHANGED records
             /\ memory' = [memory EXCEPT ![u] = [from |-> Damaged, whole |-> FALSE]]
    BY <2>2, <2>3 DEF records
  <2>4. CASE DamageRecord(u) /\ UNCHANGED memory
    <3>1. ASSUME NEW q \in Queries,
                 answer' = [answer EXCEPT ![u][q] = <<Damaged, Damaged>>]
          PROVE  answer' \in [Units -> AnswerSets]
      <4>1. answer \in [Units -> [Queries -> Answers]]
        BY DEF AnswerSets
      <4>2. QED
        BY <3>1, <4>1, EntryUpdate, Zenon DEF AnswerSets
    <3>2. \/ DamageIf(owned, u, owned[u] = "declared", "other")
          \/ owned' = owned
      BY <2>4 DEF DamageRecord
    <3>3. owned' \in [Units -> {"absent", "declared", "other"}]
      BY <3>2 DEF DamageIf
    <3>4. /\ prepared' \in [Units -> Contents] /\ barrier' \in [Units -> Contents]
          /\ ingested' \in [Units -> Contents]
      <4>1. /\ prepared' = prepared \/ prepared' = [prepared EXCEPT ![u] = Damaged]
            /\ barrier' = barrier \/ barrier' = [barrier EXCEPT ![u] = Damaged]
            /\ ingested' = ingested \/ ingested' = [ingested EXCEPT ![u] = Damaged]
        BY <2>4, Zenon DEF DamageRecord, DamageIf
      <4>2. /\ [prepared EXCEPT ![u] = Damaged] \in [Units -> Contents]
            /\ [barrier EXCEPT ![u] = Damaged] \in [Units -> Contents]
            /\ [ingested EXCEPT ![u] = Damaged] \in [Units -> Contents]
        OBVIOUS
      <4>3. /\ prepared \in [Units -> Contents] /\ barrier \in [Units -> Contents]
            /\ ingested \in [Units -> Contents]
        OBVIOUS
      <4>4. prepared' \in [Units -> Contents]
        BY ONLY <4>1, <4>2, <4>3, Zenon
      <4>5. barrier' \in [Units -> Contents]
        BY ONLY <4>1, <4>2, <4>3, Zenon
      <4>6. ingested' \in [Units -> Contents]
        BY ONLY <4>1, <4>2, <4>3, Zenon
      <4>7. QED
        BY ONLY <4>4, <4>5, <4>6
    <3>5. aggregate' \in [Units -> AnswerSets \cup {Nothing}]
      BY <2>4 DEF DamageRecord, DamageIf
    <3>6. answer' \in [Units -> AnswerSets] /\ mark' = mark
      BY <2>4, <3>1 DEF DamageRecord
    <3>7. QED
      BY <2>2, <2>4, <3>3, <3>4, <3>5, <3>6
  <2>5. QED
    BY <2>1, <2>3, <2>4
<1>17. QED
  BY <1>1, <1>2, <1>3, <1>4, <1>6, <1>7, <1>8, <1>9, <1>10, <1>11, <1>12, <1>13,
     <1>14, <1>15, <1>16, Steps, QuietSteps DEF vars, Files

LEMMA TypedProcessStep ==
    ASSUME Assumed, IInv, [Next]_vars
    PROVE  TypedProcess'
<1>0. TypedFiles /\ TypedProcess /\ Answering /\ IInv
  BY DEF IInv, Typed
<1> USE Constants DEF TypedProcess, Goto, process, NoFault
<1>1. CASE UNCHANGED vars
  BY <1>0, <1>1 DEF vars
<1>2. ASSUME process' = process, pc' \in Places, pc # "idle" \/ pc' = pc,
             faults' \in 0 .. MaxFaults
      PROVE  TypedProcess'
  BY <1>0, <1>2
<1>3. ASSUME Fault PROVE faults' \in 0 .. MaxFaults
  BY <1>0, <1>3 DEF Fault
<1>4. CASE Start
  <2>1. attempt' \in Ingestions /\ attempt' \in 0 .. MaxAttempts
    BY <1>0, <1>4 DEF Start, Ingestions
  <2>2. QED
    BY <1>0, <1>4, <2>1, Values DEF Start, Places
<1>5. CASE NextUnit
  <2>1. todo # {} => First(todo) \in Units
    BY <1>0, FirstIs
  <2>2. /\ pc' \in {"end", "restore"} /\ pc = "next"
        /\ unit' \in Units /\ todo' \subseteq Units
        /\ UNCHANGED <<attempt, done, query, handle, faults>>
    BY <1>0, <1>5, <2>1 DEF NextUnit
  <2>3. QED
    BY <1>0, <2>2 DEF Places, AtWork
<1>6. CASE RestoreIngested
  BY <1>0, <1>6, Values DEF RestoreIngested, TypedFiles, Places, AtWork
<1>7. CASE Open \/ Clean \/ Cleaned \/ Wipe \/ Declare \/ Ingest
  BY <1>0, <1>2, <1>7 DEF Open, Clean, Cleaned, Wipe, Declare, Ingest, Places, AtWork
<1>8. CASE Prepare
  BY <1>0, <1>8, Values DEF Prepare, Places, AtWork
<1>9. CASE Barrier \/ Ingested
  BY <1>0, <1>2, <1>9 DEF Barrier, Ingested, Places, AtWork
<1>10. CASE BeginPredicting
  BY <1>0, <1>10 DEF BeginPredicting, Places, AtWork
<1>11. CASE Ask
  BY <1>0, <1>11 DEF Ask, Places, AtWork
<1>12. CASE Record \/ Mark
  <2>1. query \in Queries
    BY <1>0, <1>12 DEF Answering, Record, Mark
  <2>2. query' \in 1 .. LastQuery + 1
    BY <1>0, <1>12, <2>1 DEF Record, Mark, Queries
  <2>3. QED
    BY <1>0, <1>12, <2>2 DEF Record, Mark, Places, AtWork
<1>13. CASE Gather \/ Retain \/ Retained \/ Commit \/ End \/ Close
  BY <1>0, <1>2, <1>13 DEF Gather, Retain, Retained, Commit, End, Close, Places, AtWork
<1>14. CASE Count
  BY <1>0, <1>14 DEF Count, Places
<1>15. CASE Refuse \/ Stop
  BY <1>0, <1>2, <1>15 DEF Refuse, Stop, Failed, Places
<1>16. CASE Fail \/ Kill \/ KillInWipe
  BY <1>0, <1>2, <1>3, <1>16 DEF Fail, Failed, Kill, KillInWipe, Places
<1>17. CASE RequestStop
  BY <1>0, <1>3, <1>17 DEF RequestStop
<1>18. CASE Damage
  BY <1>0, <1>2, <1>3, <1>18 DEF Damage
<1>19. QED
  BY <1>1, <1>4, <1>5, <1>6, <1>7, <1>8, <1>9, <1>10, <1>11, <1>12, <1>13, <1>14, <1>15,
     <1>16, <1>17, <1>18, Steps DEF Quiet

LEMMA TypedRestStep ==
    ASSUME Assumed, IInv, [Next]_vars
    PROVE  TypedRest'
<1>0. TypedRest /\ TypedFiles /\ TypedProcess
  BY DEF IInv, Typed
<1>1. UNCHANGED settings
  BY SettingsStay
<1>2. stopping' \in BOOLEAN
  <2>1. stopping' = stopping \/ stopping' \in BOOLEAN
    BY Zenon DEF Next, Step, vars, process, Start, Open, NextUnit, RestoreIngested, Ask, Count,
       End, Close, Refuse, Stop, Fail, Failed, RequestStop, Kill, Clean, Cleaned, Wipe,
       KillInWipe, Declare, Ingest, Prepare, Barrier, Ingested, BeginPredicting,
       Record, Mark, Gather, Retain, Retained, Commit, Damage
  <2>2. QED
    BY <1>0, <2>1, Zenon DEF TypedRest
<1>3. phase' = phase \/ phase' = checkpoint
  BY DEF Next, Step, vars, shown, Start, Open, NextUnit, RestoreIngested, Ask, Count,
     End, Close, Refuse, Stop, Fail, Failed, RequestStop, Kill, Clean, Cleaned, Wipe,
     KillInWipe, Declare, Ingest, Prepare, Barrier, Ingested, BeginPredicting,
     Record, Mark, Gather, Retain, Retained, Commit, Damage
<1>4. \/ status' = status
      \/ \E s \in {"RUNNING", "PARTIAL", "FAILED_RUNNING"} :
            WriteStatus(s, done) \/ WriteStatus(s, done')
  BY DEF Next, Step, vars, shown, Start, Open, NextUnit, RestoreIngested, Ask, Count,
     End, Close, Refuse, Stop, Fail, Failed, RequestStop, Kill, Clean, Cleaned, Wipe,
     KillInWipe, Declare, Ingest, Prepare, Barrier, Ingested, BeginPredicting,
     Record, Mark, Gather, Retain, Retained, Commit, Damage
<1>5. done' \subseteq Units
  BY TypedProcessStep DEF TypedProcess
<1>6. phase' = Nothing \/ DOMAIN phase' = Units
  BY <1>0, <1>3 DEF TypedRest, TypedFiles
<1>7. status' \in [is : {"none", "RUNNING", "PARTIAL", "FAILED_RUNNING",
                         "INTERRUPTED"}, units : SUBSET Units]
  BY <1>0, <1>4, <1>5 DEF TypedRest, TypedProcess, WriteStatus
<1>8. QED
  <2>1. kind' \in Kinds /\ beam' \in BOOLEAN /\ retention' \in {"keep", "delete-on-success"}
    BY <1>0, <1>1, Zenon DEF TypedRest, settings
  <2>2. QED
    BY <1>2, <1>6, <1>7, <2>1, Zenon DEF TypedRest

-----------------------------------------------------------------------------
(* Whose files a step touches, and what that does to "committed". *)

Same(u) ==
    /\ owned'[u] = owned[u] /\ prepared'[u] = prepared[u] /\ barrier'[u] = barrier[u]
    /\ ingested'[u] = ingested[u] /\ answer'[u] = answer[u] /\ mark'[u] = mark[u]
    /\ aggregate'[u] = aggregate[u] /\ checkpoint'[u] = checkpoint[u]

LEMMA SameCommitted ==
    ASSUME NEW u \in Units, Same(u)
    PROVE  Committed(u)' <=> Committed(u)
<1>1. Snapshot(u)' = Snapshot(u)
  BY DEF Same, Snapshot
<1>2. checkpoint'[u] = checkpoint[u]
  BY DEF Same
<1>3. QED
  BY <1>1, <1>2 DEF Committed

\* A running attempt touches the unit it is at, and no other.
LEMMA OnlyItsUnit ==
    ASSUME Assumed, IInv, [Next]_vars, pc # "idle", NEW u \in Units,
           pc \notin AtWork \/ u # unit
    PROVE  Same(u) /\ memory'[u] = memory[u]
<1>0. TypedFiles /\ unit \in Units /\ Typed /\ Holding /\ Answering
  BY DEF IInv, Typed, TypedProcess
<1> USE <1>0 DEF Same, TypedFiles, Goto, records, AtWork
<1>1. ASSUME UNCHANGED Files PROVE Same(u) /\ memory'[u] = memory[u]
  BY <1>1 DEF Files
<1>2. CASE Clean \/ Retain
  <2>1. UNCHANGED <<records, checkpoint>> /\ u # unit
    BY <1>2 DEF Clean, Retain
  <2>2. memory'[u] = memory[u]
    BY <1>2, <2>1, WholeSteps, Zenon DEF Clean, Retain
  <2>3. QED
    BY <2>1, <2>2
<1>3. CASE Cleaned \/ Retained \/ Ingest
  BY <1>3 DEF Cleaned, Retained, Ingest
<1>4. CASE Wipe \/ KillInWipe
  <2>1. PICK names, asked : RemoveFiles(names, asked)
    BY <1>4, MarksGo
  <2>2. UNCHANGED memory /\ u # unit
    BY <1>4 DEF Wipe, KillInWipe
  <2>3. QED
    BY <1>4, <2>1, <2>2, MarksGo, RemovalIs DEF Kept
<1>5. CASE Declare
  BY <1>5 DEF Declare, WriteCheckpoint
<1>6. CASE Prepare
  <2>1. u # unit /\ memory'[u] = memory[u]
    BY <1>6, WholeSteps DEF Prepare
  <2>2. /\ prepared'[u] = prepared[u]
        /\ UNCHANGED <<owned, barrier, ingested, answer, mark, aggregate, checkpoint>>
    BY <1>6, <2>1 DEF Prepare
  <2>3. QED
    BY <2>1, <2>2
<1>7. CASE Barrier
  BY <1>7 DEF Barrier
<1>8. CASE Ingested \/ BeginPredicting
  BY <1>8 DEF Ingested, BeginPredicting, WriteCheckpoint
<1>9. CASE Record
  <2>1. query \in Queries /\ handle \in Ingestions /\ u # unit
    BY <1>9 DEF Record, Answering, Holding, Held, Checked
  <2>2. UNCHANGED <<memory, owned, prepared, barrier, ingested, mark, aggregate,
                    checkpoint>>
    BY <1>9 DEF Record
  <2>3. QED
    BY <1>9, <2>1, <2>2, RecordIs
<1>10. CASE Mark
  <2>1. query \in Queries /\ u # unit
    BY <1>10 DEF Mark, Answering
  <2>2. UNCHANGED <<memory, owned, prepared, barrier, ingested, answer, aggregate,
                    checkpoint>>
    BY <1>10 DEF Mark
  <2>3. QED
    BY <1>10, <2>1, <2>2, MarkIs
<1>11. CASE Gather \/ Commit
  BY <1>11 DEF Gather, Commit
<1>12. CASE Damage
  BY <1>12 DEF Damage
<1>13. QED
  BY <1>1, <1>2, <1>3, <1>4, <1>5, <1>6, <1>7, <1>8, <1>9, <1>10, <1>11, <1>12,
     Steps, QuietSteps DEF vars, Files

\* No file that is missing or damaged is among those a checkpoint refers to.
LEMMA GoodSnapshot ==
    ASSUME Assumed, Typed, GoodRefs, NEW u \in Units, Committed(u)
    PROVE  /\ owned[u] = "declared" /\ prepared[u] \in Ingestions
           /\ barrier[u] = prepared[u]
           /\ answer[u] \in AnswerSets /\ aggregate[u] = answer[u]
           /\ \A q \in Queries : answer[u][q] # NoAnswer /\ answer[u][q][1] = prepared[u]
           /\ IF beam THEN ingested[u] = prepared[u] /\ mark[u] = answer[u]
                      ELSE ingested[u] = Absent /\ mark[u] = NoAnswers
<1>1. Good(Snapshot(u))
  BY DEF GoodRefs, Committed
<1>2. /\ Snapshot(u)[1] = owned[u] /\ Snapshot(u)[2] = prepared[u]
      /\ Snapshot(u)[3] = barrier[u] /\ Snapshot(u)[4] = ingested[u]
      /\ Snapshot(u)[5] = answer[u] /\ Snapshot(u)[6] = mark[u]
      /\ Snapshot(u)[7] = aggregate[u]
  BY DEF Snapshot
<1>3. QED
  BY <1>1, <1>2 DEF Good

\* What is damaged is committed no more.
LEMMA DamageUncommits ==
    ASSUME Assumed, IInv, Damage, NEW u \in Units, Committed(u)'
    PROVE  Same(u) /\ Committed(u)
<1>0. TypedFiles /\ Typed /\ GoodRefs /\ Plain
  BY DEF IInv, Typed
<1>1. UNCHANGED <<settings, checkpoint, mark>>
  BY DEF Damage, DamageRecord, records
<1>2. /\ checkpoint[u].is = "COMMITTED" /\ checkpoint[u].refs = Snapshot(u)'
  BY <1>1 DEF Committed
<1>3. Good(Snapshot(u)')
  BY <1>0, <1>2 DEF GoodRefs
<1>4. /\ Snapshot(u)'[1] = owned'[u] /\ Snapshot(u)'[2] = prepared'[u]
      /\ Snapshot(u)'[3] = barrier'[u] /\ Snapshot(u)'[4] = ingested'[u]
      /\ Snapshot(u)'[5] = answer'[u] /\ Snapshot(u)'[6] = mark'[u]
      /\ Snapshot(u)'[7] = aggregate'[u]
  BY DEF Snapshot
<1>5. /\ owned'[u] = "declared" /\ prepared'[u] \in Ingestions
      /\ barrier'[u] = prepared'[u]
      /\ answer'[u] \in AnswerSets /\ aggregate'[u] = answer'[u]
      /\ \A q \in Queries : answer'[u][q][1] = prepared'[u]
      /\ ingested'[u] \in {prepared'[u], Absent}
      /\ ~ beam => ingested'[u] = Absent
      /\ beam => ingested'[u] = prepared'[u]
  BY <1>3, <1>4 DEF Good
<1>6. Same(u)
  <2>1. PICK v \in Units :
          \/ DamageRecord(v) /\ UNCHANGED memory
          \/ /\ memory[v] # Empty /\ UNCHANGED records
             /\ memory' = [memory EXCEPT ![v] = [from |-> Damaged, whole |-> FALSE]]
    BY DEF Damage
  <2>2. CASE UNCHANGED records
    BY <1>1, <2>2 DEF records, Same
  <2>3. CASE DamageRecord(v)
    <3>1. owned'[u] = owned[u]
      <4>1. \/ owned' = owned
            \/ owned' = [owned EXCEPT ![v] = "other"]
        BY <2>3, Zenon DEF DamageRecord, DamageIf
      <4>2. QED
        BY <1>0, <1>5, <4>1 DEF TypedFiles
    <3>2. /\ prepared'[u] = prepared[u] /\ barrier'[u] = barrier[u]
      <4>1. /\ prepared' = prepared \/ prepared' = [prepared EXCEPT ![v] = Damaged]
            /\ barrier' = barrier \/ barrier' = [barrier EXCEPT ![v] = Damaged]
        BY <2>3, Zenon DEF DamageRecord, DamageIf
      <4>2. QED
        BY <1>0, <1>5, <4>1, Values DEF TypedFiles
    <3>3. ingested'[u] = ingested[u]
      <4>1. \/ ingested' = ingested
            \/ ingested[v] # Absent /\ ingested' = [ingested EXCEPT ![v] = Damaged]
        BY <2>3, Zenon DEF DamageRecord, DamageIf
      <4>2. QED
        BY <1>0, <1>5, <4>1, Values DEF TypedFiles
    <3>4. aggregate'[u] = aggregate[u]
      <4>1. \/ aggregate' = aggregate
            \/ aggregate' = [aggregate EXCEPT ![v] = Nothing]
        BY <2>3, Zenon DEF DamageRecord, DamageIf
      <4>2. QED
        BY <1>0, <1>5, <4>1, Values DEF TypedFiles
    <3>5. answer'[u] = answer[u]
      <4>1. ASSUME NEW q \in Queries,
                   answer' = [answer EXCEPT ![v][q] = <<Damaged, Damaged>>]
            PROVE  answer'[u] = answer[u]
        <5>1. answer \in [Units -> [Queries -> Answers]]
          BY <1>0 DEF TypedFiles, AnswerSets
        <5>2. /\ answer'[v] = [answer[v] EXCEPT ![q] = <<Damaged, Damaged>>]
              /\ \A x \in Units \ {v} : answer'[x] = answer[x]
          BY <4>1, <5>1, EntryUpdate, Values, Zenon
        <5>3. answer'[v][q] = <<Damaged, Damaged>>
          BY <5>1, <5>2
        <5>4. <<Damaged, Damaged>>[1] = Damaged
          OBVIOUS
        <5>5. u # v
          BY <1>5, <5>3, <5>4, Values
        <5>6. QED
          BY <5>2, <5>5
      <4>2. answer' = answer \/
              \E q \in Queries : answer' = [answer EXCEPT ![v][q] = <<Damaged, Damaged>>]
        BY <2>3, Zenon DEF DamageRecord
      <4>3. QED
        BY <4>1, <4>2, Zenon
    <3>6. QED
      BY <1>1, <3>1, <3>2, <3>3, <3>4, <3>5 DEF Same
  <2>4. QED
    BY <2>1, <2>2, <2>3
<1>7. QED
  BY <1>6, SameCommitted

\* A removal does not make a unit committed: what it removes is referred to.
LEMMA RemovalUncommits ==
    ASSUME Assumed, IInv, Wipe \/ KillInWipe, NEW u \in Units, u = unit, Committed(u)'
    PROVE  Same(u)
<1>0. TypedFiles /\ Typed /\ GoodRefs /\ Plain
  BY DEF IInv, Typed
<1>1. PICK names, asked : RemoveFiles(names, asked)
  BY MarksGo, <1>0
<1>2. checkpoint'[u].is = "COMMITTED" /\ checkpoint'[u].refs = Snapshot(u)'
  BY DEF Committed
<1>3. Working("none").is # "COMMITTED"
  BY DEF Working
<1>4. checkpoint'[u] = checkpoint[u]
  BY <1>0, <1>1, <1>2, <1>3, RemovalIs DEF Kept
<1>5. Good(Snapshot(u)')
  BY <1>0, <1>2, <1>4 DEF GoodRefs
<1>6. /\ Snapshot(u)'[1] = owned'[u] /\ Snapshot(u)'[2] = prepared'[u]
      /\ Snapshot(u)'[3] = barrier'[u] /\ Snapshot(u)'[4] = ingested'[u]
      /\ Snapshot(u)'[5] = answer'[u] /\ Snapshot(u)'[6] = mark'[u]
      /\ Snapshot(u)'[7] = aggregate'[u]
  BY DEF Snapshot
<1>7. /\ owned'[u] = "declared" /\ prepared'[u] \in Ingestions
      /\ barrier'[u] = prepared'[u]
      /\ answer'[u] \in AnswerSets /\ aggregate'[u] = answer'[u]
      /\ \A q \in Queries : answer'[u][q] # NoAnswer
      /\ IF beam THEN ingested'[u] = prepared'[u] /\ mark'[u] = answer'[u]
                 ELSE ingested'[u] = Absent /\ mark'[u] = NoAnswers
  BY <1>5, <1>6 DEF Good
<1>8. /\ owned'[u] = owned[u] /\ prepared'[u] = prepared[u] /\ barrier'[u] = barrier[u]
      /\ aggregate'[u] = aggregate[u]
  BY <1>0, <1>1, <1>7, RemovalIs, Values DEF Kept
<1>9. ingested'[u] = ingested[u]
  BY <1>0, <1>1, <1>7, RemovalIs, Values DEF Kept, Plain
<1>10. ASSUME NEW f, NEW g, f \in AnswerSets, g \in AnswerSets,
              \A q \in Queries : f[q] = g[q]
       PROVE  f = g
  BY <1>10 DEF AnswerSets
<1>11. /\ answer[u] \in AnswerSets /\ mark[u] \in AnswerSets
  BY <1>0 DEF TypedFiles
<1>12. \A q \in Queries : answer'[u][q] = answer[u][q]
  BY <1>0, <1>1, <1>7, RemovalIs
<1>13. answer'[u] = answer[u]
  BY <1>7, <1>10, <1>11, <1>12
<1>14. mark'[u] = mark[u]
  <2>1. CASE beam
    <3>1. \A q \in Queries : mark'[u][q] = mark[u][q]
      BY <1>0, <1>7, <2>1, MarksGo
    <3>2. QED
      BY <1>7, <1>10, <1>11, <2>1, <3>1
  <2>2. CASE ~ beam
    BY <1>0, <1>7, <2>2 DEF Plain
  <2>3. QED
    BY <2>1, <2>2
<1>15. QED
  BY <1>4, <1>8, <1>9, <1>13, <1>14 DEF Same

\* While a unit is being worked at it is not committed; its commit makes it so.
LEMMA WorkUncommitted ==
    ASSUME Assumed, IInv, [Next]_vars, pc \in AtWork, ~ Commit, NEW u \in Units, u = unit
    PROVE  ~ Committed(u)'
<1>0. /\ TypedFiles /\ Typed /\ Plan /\ GoodRefs /\ Ownership /\ Holding /\ Answering
  BY DEF IInv, Typed
<1>1. ~ Committed(u)
  BY <1>0 DEF Plan
<1>2. ASSUME Same(u) PROVE ~ Committed(u)'
  BY <1>1, <1>2, SameCommitted
<1>3. ASSUME checkpoint'[u].is # "COMMITTED" PROVE ~ Committed(u)'
  BY <1>3 DEF Committed
<1>4. ASSUME UNCHANGED <<records, checkpoint>> PROVE ~ Committed(u)'
  BY <1>2, <1>4 DEF records, Same
<1>5. ASSUME UNCHANGED Files PROVE ~ Committed(u)'
  BY <1>4, <1>5 DEF Files
<1>6. CASE Clean \/ Retain \/ Cleaned \/ Retained \/ Ingest
  BY <1>4, <1>6 DEF Clean, Retain, Cleaned, Retained, Ingest
<1>7. CASE Wipe \/ KillInWipe
  BY <1>2, <1>7, RemovalUncommits
<1>8. \A s \in Progress : Working(s).is # "COMMITTED"
  BY DEF Working, Progress
<1>9. CASE Declare \/ Ingested \/ BeginPredicting
  <2>1. \E s \in Progress : WriteCheckpoint(s)
    BY <1>9 DEF Declare, Ingested, BeginPredicting, Progress
  <2>2. \E s \in Progress : checkpoint'[u] = Working(s)
    BY <1>0, <2>1 DEF WriteCheckpoint, TypedFiles
  <2>3. QED
    BY <1>3, <1>8, <2>2
<1>10. CASE Prepare \/ Barrier \/ Record \/ Mark \/ Gather
  <2>1. UNCHANGED checkpoint
    BY <1>10 DEF Prepare, Barrier, Record, Mark, Gather
  <2>2. checkpoint[u].is # "COMMITTED"
    BY <1>0, <1>10 DEF Ownership, UnderWay, Predicting, Cleared, Prepare, Barrier, Record,
       Mark, Gather, Goto
  <2>3. QED
    BY <1>3, <2>1, <2>2
<1>11. CASE Damage
  BY <1>11 DEF Damage, AtWork
<1>12. QED
  BY <1>5, <1>6, <1>7, <1>9, <1>10, <1>11, Steps, QuietSteps DEF vars, Files

-----------------------------------------------------------------------------
(* The invariant, part by part. *)

LEMMA GoodIs ==
    ASSUME NEW a, NEW b, NEW c, NEW d, NEW e, NEW f, NEW g
    PROVE  Good(<<a, b, c, d, e, f, g>>) <=>
              /\ a = "declared" /\ b \in Ingestions /\ c = b
              /\ e \in AnswerSets /\ g = e
              /\ \A q \in Queries : e[q] # NoAnswer /\ e[q][1] = b
              /\ IF beam THEN d = b /\ f = e ELSE d = Absent /\ f = NoAnswers
BY DEF Good

LEMMA CheckpointSteps ==
    ASSUME Assumed, IInv, [Next]_vars, NEW u \in Units
    PROVE  \/ checkpoint'[u] = checkpoint[u]
           \/ checkpoint'[u].is # "COMMITTED"
           \/ Commit /\ u = unit
<1>0. TypedFiles /\ Typed /\ unit \in Units
  BY DEF IInv, Typed, TypedProcess
<1>1. ASSUME UNCHANGED checkpoint PROVE checkpoint'[u] = checkpoint[u]
  BY <1>1
<1>2. CASE pc = "idle"
  BY <1>1, <1>2, Steps, QuietSteps DEF Files, vars, Clean, Cleaned, Wipe, KillInWipe, Declare,
     Ingest, Prepare, Barrier, Ingested, BeginPredicting, Record, Mark, Gather, Retain,
     Retained, Commit, Damage, Goto
<1>3. CASE pc # "idle" /\ (pc \notin AtWork \/ u # unit)
  BY <1>3, OnlyItsUnit DEF Same
<1>4. CASE u = unit /\ (Wipe \/ KillInWipe)
  <2>1. PICK names, asked : RemoveFiles(names, asked)
    BY MarksGo, <1>0, <1>4
  <2>2. QED
    BY <1>0, <1>4, <2>1, RemovalIs DEF Kept, Working
<1>5. CASE u = unit /\ (Declare \/ Ingested \/ BeginPredicting)
  <2>1. \E s \in Progress : checkpoint'[u] = Working(s)
    BY <1>0, <1>5 DEF Declare, Ingested, BeginPredicting, Progress, WriteCheckpoint, TypedFiles
  <2>2. QED
    BY <2>1 DEF Working, Progress
<1>6. CASE Clean \/ Cleaned \/ Ingest \/ Prepare \/ Barrier \/ Record \/ Mark
           \/ Gather \/ Retain \/ Retained \/ Damage \/ Quiet \/ UNCHANGED vars
  BY <1>1, <1>6, QuietSteps DEF Clean, Cleaned, Ingest, Prepare, Barrier, Record, Mark,
     Gather, Retain, Retained, Damage, Files, vars
<1>7. QED
  BY <1>2, <1>3, <1>4, <1>5, <1>6, Steps

LEMMA GoodRefsStep ==
    ASSUME Assumed, IInv, [Next]_vars
    PROVE  GoodRefs'
<1>0. /\ TypedFiles /\ Typed /\ unit \in Units /\ GoodRefs /\ Plain /\ Holding /\ Answering
      /\ Ownership
  BY DEF IInv, Typed, TypedProcess
<1>1. beam' = beam
  BY SettingsStay DEF settings
<1>2. SUFFICES ASSUME NEW u \in Units, checkpoint'[u].is = "COMMITTED"
               PROVE  Good(checkpoint'[u].refs)
  BY <1>1 DEF GoodRefs, Good
<1>4. CASE checkpoint'[u] = checkpoint[u]
  BY <1>0, <1>2, <1>4 DEF GoodRefs
<1>5. CASE Commit /\ u = unit
  <2>1. checkpoint'[u].refs = Snapshot(u)
    BY <1>0, <1>5 DEF Commit, TypedFiles
  <2>2. pc = "commit"
    BY <1>5 DEF Commit, Goto
  <2>3. /\ owned[u] = "declared" /\ prepared[u] \in Ingestions /\ barrier[u] = prepared[u]
        /\ beam => ingested[u] = prepared[u]
    BY <1>0, <1>5, <2>2 DEF Ownership, Holding, Declared, Held, Checked
  <2>4. /\ answer[u] \in AnswerSets /\ mark[u] \in AnswerSets /\ aggregate[u] = answer[u]
        /\ \A q \in Queries : Answered(q)
    BY <1>0, <1>5, <2>2 DEF Answering, Gathered, TypedFiles
  <2>5. \A q \in Queries : answer[u][q] # NoAnswer /\ answer[u][q][1] = prepared[u]
    BY <1>0, <1>5, <2>2, <2>4 DEF Answered, Holding, Held, Checked
  <2>6. IF beam THEN mark[u] = answer[u] ELSE mark[u] = NoAnswers /\ ingested[u] = Absent
    <3>1. CASE beam
      BY <1>5, <2>4, <3>1 DEF Answered, AnswerSets
    <3>2. CASE ~ beam
      BY <1>0, <3>2 DEF Plain
    <3>3. QED
      BY <3>1, <3>2
  <2>7. Good(Snapshot(u))
    BY <2>3, <2>4, <2>5, <2>6, GoodIs DEF Snapshot
  <2>8. QED
    BY <2>1, <2>7
<1>6. QED
  BY <1>2, <1>4, <1>5, CheckpointSteps

LEMMA PlainStep ==
    ASSUME Assumed, IInv, [Next]_vars
    PROVE  Plain' /\ Marks'
<1>0. /\ TypedFiles /\ Typed /\ unit \in Units /\ Plain /\ Marks /\ Holding /\ Answering
      /\ Ownership
  BY DEF IInv, Typed, TypedProcess
<1>1. kind' = kind /\ beam' = beam
  BY SettingsStay DEF settings
<1>2. ASSUME ~ StoresMemory, NEW u \in Units PROVE memory'[u] = Empty
  <2>1. memory[u] = Empty
    BY <1>0, <1>2 DEF Plain
  <2>2. CASE UNCHANGED memory
    BY <2>1, <2>2
  <2>3. CASE Clean \/ Retain
    <3>1. u # unit => memory'[u] = memory[u]
      BY <1>0, <2>3, WholeSteps DEF Clean, Retain
    <3>2. memory'[unit] = [from |-> memory[unit].from, whole |-> FALSE]
      BY <1>0, <2>3, WholeSteps DEF Clean, Retain
    <3>3. memory[unit] = Empty
      BY <1>0, <1>2 DEF Plain
    <3>4. QED
      BY <2>1, <3>1, <3>2, <3>3 DEF Empty
  <2>4. CASE Cleaned \/ Retained
    BY <1>0, <2>1, <2>4 DEF Cleaned, Retained, TypedFiles
  <2>5. CASE Ingest \/ Prepare
    BY <1>2, <2>1, <2>5 DEF Ingest, Prepare
  <2>6. CASE Damage
    BY <1>0, <1>2, <2>1, <2>6 DEF Damage, Plain
  <2>7. CASE Wipe \/ KillInWipe \/ Declare \/ Barrier \/ Ingested \/ BeginPredicting
             \/ Record \/ Mark \/ Gather \/ Commit \/ Quiet \/ UNCHANGED vars
    BY <2>2, <2>7, QuietSteps DEF Wipe, KillInWipe, Declare, Barrier, Ingested,
       BeginPredicting, Record, Mark, Gather, Commit, Files, vars
  <2>8. QED
    BY <2>3, <2>4, <2>5, <2>6, <2>7, Steps
<1>3. ASSUME NEW u \in Units
      PROVE  /\ ~ beam => ingested'[u] = Absent /\ mark'[u] = NoAnswers
             /\ \A q \in Queries :
                   mark'[u][q] # NoAnswer => ingested'[u] \in {mark'[u][q][1], Damaged}
  <2> DEFINE Fine == /\ ~ beam => ingested'[u] = Absent /\ mark'[u] = NoAnswers
                     /\ \A q \in Queries :
                          mark'[u][q] # NoAnswer => ingested'[u] \in {mark'[u][q][1], Damaged}
  <2>1. /\ ~ beam => ingested[u] = Absent /\ mark[u] = NoAnswers
        /\ \A q \in Queries :
              mark[u][q] # NoAnswer => ingested[u] \in {mark[u][q][1], Damaged}
    BY <1>0 DEF Plain, Marks
  <2>2. ASSUME ingested'[u] = ingested[u], mark'[u] = mark[u] PROVE Fine
    BY <2>1, <2>2
  <2>3. CASE pc # "idle" /\ (pc \notin AtWork \/ u # unit)
    BY <2>2, <2>3, OnlyItsUnit DEF Same
  <2>4. CASE u = unit /\ (Wipe \/ KillInWipe)
    <3>1. PICK names, asked : RemoveFiles(names, asked)
      BY MarksGo, <1>0, <2>4
    <3>2. /\ ingested'[u] \in {ingested[u], Absent}
          /\ mark'[u] \in AnswerSets
          /\ \A q \in Queries : mark'[u][q] \in {mark[u][q], NoAnswer}
          /\ ingested'[u] = ingested[u] \/ mark'[u] = NoAnswers
      BY <1>0, <2>4, <3>1, MarksGo, RemovalIs DEF Kept
    <3>3. \A q \in Queries :
              mark'[u][q] # NoAnswer => ingested'[u] \in {mark'[u][q][1], Damaged}
      BY <2>1, <3>2, Values
    <3>4. ASSUME ~ beam PROVE mark'[u] = NoAnswers /\ ingested'[u] = Absent
      <4>1. \A q \in Queries : mark'[u][q] = NoAnswer
        BY <2>1, <3>2, <3>4, Values
      <4>2. QED
        BY <2>1, <3>2, <3>4, <4>1 DEF AnswerSets, NoAnswers
    <3>5. QED
      BY <3>3, <3>4
  <2>5. CASE u = unit /\ Ingested
    <3>1. mark'[u] = NoAnswers /\ beam
      BY <1>0, <2>5 DEF Ingested, Ownership, Cleared, Holding, Goto
    <3>2. QED
      BY <3>1, Values
  <2>6. CASE u = unit /\ Mark
    <3>1. /\ beam /\ query \in Queries /\ answer[u][query] = <<handle, attempt>>
          /\ ingested[u] = handle
      BY <1>0, <2>6 DEF Mark, Goto, Answering, Holding, Checked
    <3>2. ingested'[u] = ingested[u] /\ mark'[u] = [mark[u] EXCEPT ![query] = <<handle, attempt>>]
      BY <1>0, <2>6, <3>1, MarkIs DEF Mark
    <3>3. mark[u] \in [Queries -> Answers]
      BY <1>0 DEF TypedFiles, AnswerSets
    <3>4. <<handle, attempt>>[1] = handle
      OBVIOUS
    <3>5. QED
      BY <2>1, <3>1, <3>2, <3>3, <3>4
  <2>7. CASE Damage
    <3>1. mark' = mark
      BY <2>7 DEF Damage, DamageRecord, records
    <3>2. \/ ingested' = ingested
          \/ \E v \in Units : ingested[v] # Absent /\ ingested' = [ingested EXCEPT ![v] = Damaged]
      BY <2>7, Zenon DEF Damage, DamageRecord, DamageIf, records
    <3>3. ingested'[u] = ingested[u] \/ (ingested[u] # Absent /\ ingested'[u] = Damaged)
      BY <1>0, <3>2 DEF TypedFiles
    <3>4. QED
      BY <2>1, <3>1, <3>3
  <2>8. CASE Clean \/ Cleaned \/ Declare \/ Ingest \/ Prepare \/ Barrier \/ BeginPredicting
             \/ Record \/ Gather \/ Retain \/ Retained \/ Commit \/ Quiet \/ UNCHANGED vars
    BY <2>2, <2>8, QuietSteps DEF Clean, Cleaned, Declare, Ingest, Prepare, Barrier,
       BeginPredicting, Record, Gather, Retain, Retained, Commit, Files, records, vars
  <2>9. CASE pc = "idle" /\ (Wipe \/ KillInWipe \/ Ingested \/ Mark)
    BY <2>9 DEF Wipe, KillInWipe, Ingested, Mark, Goto
  <2>10. QED
    BY <2>3, <2>4, <2>5, <2>6, <2>7, <2>8, <2>9, Steps
<1>4. QED
  BY <1>1, <1>2, <1>3 DEF Plain, Marks, StoresMemory

\* A unit in hand stays in hand until it is committed, or the attempt is over.
LEMMA InHand ==
    ASSUME [Next]_vars, pc \in AtWork
    PROVE  /\ UNCHANGED <<todo, unit, done, attempt>>
           /\ pc' = "idle" \/ pc' \in AtWork \/ (Commit /\ pc' = "count")
<1> USE DEF Goto, process, AtWork
<1>1. CASE Clean \/ Cleaned \/ Wipe \/ KillInWipe \/ Declare \/ Ingest \/ Prepare
  BY <1>1 DEF Clean, Cleaned, Wipe, KillInWipe, Declare, Ingest, Prepare
<1>2. CASE Barrier \/ Ingested \/ BeginPredicting \/ Record \/ Mark \/ Gather
  BY <1>2 DEF Barrier, Ingested, BeginPredicting, Record, Mark, Gather
<1>3. CASE Retain \/ Retained \/ Commit \/ Damage \/ UNCHANGED vars
  BY <1>3 DEF Retain, Retained, Commit, Damage, vars
<1>4. CASE Start \/ Open \/ NextUnit \/ Count \/ End \/ Close
  BY <1>4 DEF Start, Open, NextUnit, Count, End, Close
<1>5. CASE RestoreIngested \/ Ask \/ Refuse \/ Stop \/ Fail \/ RequestStop \/ Kill
  BY <1>5 DEF RestoreIngested, Ask, Refuse, Stop, Fail, Failed, RequestStop, Kill
<1>6. QED
  BY <1>1, <1>2, <1>3, <1>4, <1>5, Steps DEF Quiet

\* A process with no unit in hand takes one, counts one, or closes the attempt.
LEMMA NoneInHand ==
    ASSUME [Next]_vars, pc \notin AtWork, pc # "idle", pc' # "idle"
    PROVE  \/ Open \/ NextUnit \/ Count \/ End
           \/ UNCHANGED <<pc, todo, unit, done, phase, checkpoint, attempt>>
<1> USE DEF Goto, process, AtWork
<1>1. CASE Clean \/ Cleaned \/ Wipe \/ KillInWipe \/ Declare \/ Ingest \/ Prepare
  BY <1>1 DEF Clean, Cleaned, Wipe, KillInWipe, Declare, Ingest, Prepare
<1>2. CASE Barrier \/ Ingested \/ BeginPredicting \/ Record \/ Mark \/ Gather
  BY <1>2 DEF Barrier, Ingested, BeginPredicting, Record, Mark, Gather
<1>3. CASE Retain \/ Retained \/ Commit \/ Damage \/ UNCHANGED vars
  BY <1>3 DEF Retain, Retained, Commit, Damage, vars, shown
<1>4. CASE Start \/ Open \/ NextUnit \/ Count \/ End \/ Close
  BY <1>4 DEF Start, Close
<1>5. CASE RestoreIngested \/ Ask \/ Refuse \/ Stop \/ Fail \/ RequestStop \/ Kill
  BY <1>5 DEF RestoreIngested, Ask, Refuse, Stop, Fail, Failed, RequestStop, Kill, shown
<1>6. QED
  BY <1>1, <1>2, <1>3, <1>4, <1>5, Steps DEF Quiet

\* From "idle" a step begins an attempt or damages something.
LEMMA FromIdle ==
    ASSUME [Next]_vars, pc = "idle"
    PROVE  Start \/ Damage \/ UNCHANGED vars
<1> USE DEF Goto
<1>1. CASE Clean \/ Cleaned \/ Wipe \/ KillInWipe \/ Declare \/ Ingest \/ Prepare
  BY <1>1 DEF Clean, Cleaned, Wipe, KillInWipe, Declare, Ingest, Prepare
<1>2. CASE Barrier \/ Ingested \/ BeginPredicting \/ Record \/ Mark \/ Gather
  BY <1>2 DEF Barrier, Ingested, BeginPredicting, Record, Mark, Gather
<1>3. CASE Retain \/ Retained \/ Commit
  BY <1>3 DEF Retain, Retained, Commit
<1>4. CASE Open \/ NextUnit \/ Count \/ End \/ Close
  BY <1>4 DEF Open, NextUnit, Count, End, Close
<1>5. CASE RestoreIngested \/ Ask \/ Refuse \/ Stop \/ Fail \/ RequestStop \/ Kill
  BY <1>5 DEF RestoreIngested, Ask, Refuse, Stop, Fail, Failed, RequestStop, Kill
<1>6. QED
  BY <1>1, <1>2, <1>3, <1>4, <1>5, Steps DEF Quiet

LEMMA PlanStep ==
    ASSUME Assumed, IInv, [Next]_vars
    PROVE  Plan'
<1>0. /\ TypedFiles /\ TypedProcess /\ Typed /\ unit \in Units /\ Plan
  BY DEF IInv, Typed, TypedProcess
<1>1. CASE pc' = "idle"
  BY <1>1 DEF Plan, AtWork
<1>2. CASE Start
  <2>1. UNCHANGED Files /\ pc' = "open"
    BY <1>2, QuietSteps DEF Quiet, Start, Goto
  <2>2. \A u \in Units : Committed(u)' <=> Committed(u)
    BY <2>1, SameCommitted DEF Files, records, Same
  <2>3. /\ todo' = {u \in Units : ~ Committed(u)} /\ done' = Units \ todo'
    BY <1>2 DEF Start
  <2>4. \A u \in todo' : u \in Units /\ ~ Committed(u)'
    BY <2>2, <2>3
  <2>5. \A u \in done' : u \in Units /\ Committed(u)'
    BY <2>2, <2>3
  <2>6. Units = done' \cup todo'
    BY <2>3
  <2>7. QED
    BY <2>1, <2>4, <2>5, <2>6 DEF Plan, AtWork
<1>3. CASE pc \in AtWork /\ pc' # "idle"
  <2>1. UNCHANGED <<todo, unit, done>> /\ (pc' \in AtWork \/ (Commit /\ pc' = "count"))
    BY <1>3, InHand
  <2>2. /\ Units = done \cup todo \cup {unit} /\ unit \notin todo /\ ~ Committed(unit)
        /\ \A u \in todo : ~ Committed(u)
        /\ \A u \in done : Committed(u)
    BY <1>0, <1>3 DEF Plan, AtWork
  <2>3. \A u \in Units : u # unit => (Committed(u)' <=> Committed(u))
    BY <1>3, OnlyItsUnit, SameCommitted DEF AtWork
  <2>4. \A u \in todo' : ~ Committed(u)'
    BY <2>1, <2>2, <2>3
  <2>5. \A u \in done' : Committed(u)'
    BY <2>1, <2>2, <2>3
  <2>6. \/ pc' \in AtWork /\ \A u \in Units : u = unit' => ~ Committed(u)'
        \/ pc' = "count" /\ \A u \in Units : u = unit' => Committed(u)'
    <3>1. CASE Commit
      <4>1. ASSUME NEW u \in Units, u = unit
            PROVE  Committed(u)'
        <5>1. /\ checkpoint'[u].is = "COMMITTED" /\ checkpoint'[u].refs = Snapshot(u)
          BY <1>0, <3>1, <4>1 DEF Commit, TypedFiles
        <5>2. Snapshot(u)' = Snapshot(u)
          BY <3>1 DEF Commit, Snapshot, records
        <5>3. QED
          BY <5>1, <5>2 DEF Committed
      <4>2. pc' = "count"
        BY <3>1 DEF Commit, Goto
      <4>3. QED
        BY <2>1, <4>1, <4>2
    <3>2. CASE ~ Commit
      BY <1>3, <2>1, <3>2, WorkUncommitted
    <3>3. QED
      BY <3>1, <3>2
  <2>7. unit' \in Units
    BY <1>0, <2>1
  <2>8. /\ pc' \in AtWork => ~ Committed(unit)'
        /\ pc' = "count" => Committed(unit)'
    <3>1. \A u \in Units : u = unit' => (Committed(u)' <=> Committed(unit)')
      BY DEF Committed, Snapshot
    <3>2. QED
      BY <2>6, <2>7, <3>1 DEF AtWork
  <2>9. pc' \in AtWork \cup {"count"}
    BY <2>1
  <2>10. QED
    BY <2>1, <2>2, <2>4, <2>5, <2>8, <2>9 DEF Plan, AtWork
<1>4. CASE pc \notin AtWork /\ pc # "idle" /\ pc' # "idle"
  <2>1. \A u \in Units : Same(u)
    BY <1>4, OnlyItsUnit
  <2>2. \A u \in Units : Committed(u)' <=> Committed(u)
    BY <2>1, SameCommitted
  <2>3. \A u \in todo : u \in Units /\ ~ Committed(u)'
    BY <1>0, <1>4, <2>2 DEF Plan, TypedProcess
  <2>4. \A u \in done : u \in Units /\ Committed(u)'
    BY <1>0, <1>4, <2>2 DEF Plan, TypedProcess
  <2>5. \A u \in Units : u = unit' => (Committed(u)' <=> Committed(unit)')
    BY DEF Committed, Snapshot
  <2>6. CASE Open
    <3>1. pc = "open" /\ pc' = "next" /\ UNCHANGED <<todo, done>>
      BY <2>6 DEF Open, Goto, process
    <3>2. QED
      BY <1>0, <2>3, <2>4, <3>1 DEF Plan, AtWork
  <2>7. CASE NextUnit
    <3>1. pc = "next" /\ done' = done
      BY <2>7 DEF NextUnit
    <3>2. Units = done \cup todo
      BY <1>0, <3>1 DEF Plan
    <3>3. CASE todo = {}
      <4>1. pc' = "end" /\ todo' = todo
        BY <2>7, <3>3 DEF NextUnit
      <4>2. QED
        BY <2>4, <3>1, <3>2, <3>3, <4>1 DEF Plan, AtWork
    <3>4. CASE todo # {}
      <4>1. pc' = "restore" /\ unit' = First(todo) /\ todo' = todo \ {unit'}
        BY <2>7, <3>4 DEF NextUnit
      <4>2. unit' \in todo /\ unit' \in Units
        BY <1>0, <3>4, <4>1, FirstIs DEF TypedProcess
      <4>3. ~ Committed(unit)'
        BY <2>3, <2>5, <4>2
      <4>4. Units = done' \cup todo' \cup {unit'} /\ unit' \notin todo'
        BY <3>1, <3>2, <4>1, <4>2
      <4>5. (\A u \in todo' : ~ Committed(u)') /\ (\A u \in done' : Committed(u)')
        BY <2>3, <2>4, <3>1, <4>1
      <4>6. QED
        BY <4>1, <4>3, <4>4, <4>5 DEF Plan, AtWork
    <3>5. QED
      BY <3>3, <3>4
  <2>8. CASE Count
    <3>1. pc = "count" /\ pc' = "next" /\ done' = done \cup {unit} /\ UNCHANGED <<todo, unit>>
      BY <2>8 DEF Count, Goto
    <3>2. Units = done \cup todo \cup {unit} /\ Committed(unit)
      BY <1>0, <3>1 DEF Plan
    <3>3. \A u \in done' : Committed(u)'
      BY <1>0, <2>2, <2>4, <3>1, <3>2
    <3>4. QED
      BY <2>3, <3>1, <3>2, <3>3 DEF Plan, AtWork
  <2>9. CASE End
    <3>1. pc = "end" /\ pc' = "close" /\ UNCHANGED <<todo, done>> /\ phase' = checkpoint'
      BY <2>9 DEF End, Goto, process
    <3>2. QED
      BY <1>0, <2>3, <2>4, <3>1 DEF Plan, AtWork
  <2>10. CASE UNCHANGED <<pc, todo, unit, done, phase, checkpoint>>
    <3>1. pc = "count" => Committed(unit)'
      BY <1>0, <2>2, <2>5, <2>10 DEF Plan
    <3>2. QED
      BY <1>0, <1>4, <2>3, <2>4, <2>10, <3>1 DEF Plan
  <2>11. QED
    BY <1>4, <2>6, <2>7, <2>8, <2>9, <2>10, NoneInHand
<1>5. CASE pc = "idle" /\ pc' # "idle"
  BY <1>2, <1>5, FromIdle DEF Damage, vars
<1>6. QED
  BY <1>1, <1>3, <1>4, <1>5

\* The steps after which the process has a unit of its own to vouch for.
Engaged == Mine \cup Declared

LEMMA EngagedSteps ==
    ASSUME [Next]_vars, pc' \in Engaged
    PROVE  \/ RestoreIngested \/ Clean \/ Cleaned \/ Wipe \/ Declare \/ Ingest \/ Prepare
           \/ Barrier \/ Ingested \/ BeginPredicting \/ Ask \/ Record \/ Mark
           \/ Gather \/ Retain \/ Retained
           \/ UNCHANGED <<settings, memory, records, checkpoint, pc, attempt, unit,
                          query, handle>>
<1> USE DEF Goto, process, Engaged, Mine, Declared
<1>1. CASE KillInWipe \/ Commit \/ Damage \/ UNCHANGED vars
  BY <1>1 DEF KillInWipe, Commit, Damage, vars
<1>2. CASE Start \/ Open \/ NextUnit \/ Count \/ End \/ Close
  BY <1>2 DEF Start, Open, NextUnit, Count, End, Close
<1>3. CASE Refuse \/ Stop \/ Fail \/ RequestStop \/ Kill
  BY <1>3 DEF Refuse, Stop, Fail, Failed, RequestStop, Kill
<1>4. QED
  BY <1>1, <1>2, <1>3, Steps DEF Quiet

LEMMA WorkParts ==
    ASSUME [Next]_vars, pc' \notin Engaged
    PROVE  Ownership' /\ Holding' /\ Remembering' /\ Answering'
BY DEF Engaged, Mine, Declared, Ownership, Holding, Remembering, Answering, Cleared, UnderWay,
       Predicting, Held, Checked, Remembered, Gathered

LEMMA OwnershipStep ==
    ASSUME Assumed, IInv, [Next]_vars
    PROVE  Ownership'
<1>0. /\ TypedFiles /\ Typed /\ unit \in Units /\ Ownership /\ Answering
  BY DEF IInv, Typed, TypedProcess
<1> USE <1>0 DEF Ownership, Mine, Cleared, Declared, UnderWay, Predicting, Goto, records,
                 process
<1>1. CASE RestoreIngested
  BY <1>1 DEF RestoreIngested, Restorable
<1>2. CASE Clean \/ Cleaned
  BY <1>2 DEF Clean, Cleaned
<1>3. CASE Wipe
  <2>1. /\ owned' = [owned EXCEPT ![unit] = IF "owned" \in {} THEN @ ELSE "absent"]
        /\ checkpoint' = [checkpoint EXCEPT ![unit] =
                            IF "checkpoint" \in {} THEN @ ELSE Working("none")]
        /\ mark' = [mark EXCEPT ![unit] = NoAnswers]
        /\ pc' = "declare" /\ unit' = unit
    BY <1>3 DEF Wipe, RemoveFiles, Keep
  <2>2. /\ owned'[unit] = "absent" /\ mark'[unit] = NoAnswers
        /\ checkpoint'[unit] = Working("none")
    BY <2>1 DEF TypedFiles
  <2>3. QED
    BY <2>1, <2>2 DEF Working
<1>4. CASE Declare
  BY <1>4 DEF Declare, WriteCheckpoint, Working, TypedFiles
<1>5. CASE Ingest
  BY <1>5 DEF Ingest
<1>6. CASE Prepare \/ Barrier
  BY <1>6 DEF Prepare, Barrier
<1>7. CASE Ingested \/ BeginPredicting
  BY <1>7 DEF Ingested, BeginPredicting, WriteCheckpoint, Working, TypedFiles
<1>8. CASE Ask
  BY <1>8 DEF Ask
<1>9. CASE Record
  BY <1>9 DEF Record
<1>10. CASE Mark
  BY <1>10 DEF Mark
<1>11. CASE Gather \/ Retain \/ Retained
  BY <1>11 DEF Gather, Retain, Retained
<1>12. CASE UNCHANGED <<settings, memory, records, checkpoint, pc, attempt, unit,
                        query, handle>>
  BY <1>12
<1>13. QED
  BY <1>1, <1>2, <1>3, <1>4, <1>5, <1>6, <1>7, <1>8, <1>9, <1>10, <1>11, <1>12,
     EngagedSteps, WorkParts

LEMMA HoldingStep ==
    ASSUME Assumed, IInv, [Next]_vars
    PROVE  Holding'
<1>0. /\ TypedFiles /\ Typed /\ unit \in Units /\ Holding
      /\ pc # "idle" => attempt \in Ingestions
  BY DEF IInv, Typed, TypedProcess
<1> USE <1>0 DEF Holding, Held, Checked, Goto, records, process
<1>1. CASE RestoreIngested
  <2>1. CASE Restorable
    <3>1. /\ pc' = "predict" /\ handle' = prepared[unit] /\ UNCHANGED <<records, unit>>
      BY <1>1, <2>1 DEF RestoreIngested
    <3>2. /\ ingested[unit] \in Ingestions /\ prepared[unit] = ingested[unit]
          /\ barrier[unit] = ingested[unit]
      BY <2>1 DEF Restorable
    <3>3. QED
      BY <3>1, <3>2
  <2>2. CASE ~ Restorable
    BY <1>1, <2>2 DEF RestoreIngested
  <2>3. QED
    BY <2>1, <2>2
<1>2. CASE Clean \/ Cleaned \/ Wipe \/ Declare \/ Ingest
  BY <1>2 DEF Clean, Cleaned, Wipe, Declare, Ingest
<1>3. CASE Prepare
  BY <1>3 DEF Prepare, TypedFiles
<1>4. CASE Barrier
  <2>1. barrier'[unit] = handle
    BY <1>4 DEF Barrier, TypedFiles
  <2>2. UNCHANGED <<prepared, handle, unit, beam>>
    BY <1>4 DEF Barrier, settings
  <2>3. pc' = IF beam THEN "ingested" ELSE "predict"
    BY <1>4 DEF Barrier
  <2>4. handle = prepared[unit] /\ handle \in Ingestions
    BY <1>4 DEF Barrier
  <2>5. CASE beam
    BY <2>1, <2>2, <2>3, <2>4, <2>5
  <2>6. CASE ~ beam
    BY <2>1, <2>2, <2>3, <2>4, <2>6
  <2>7. QED
    BY <2>5, <2>6
<1>5. CASE Ingested
  BY <1>5 DEF Ingested, TypedFiles
<1>6. CASE BeginPredicting
  BY <1>6, SettingsStay DEF BeginPredicting, settings
<1>7. CASE Ask
  BY <1>7, SettingsStay DEF Ask, settings
<1>8. CASE Record \/ Mark
  BY <1>8, SettingsStay DEF Record, Mark, settings
<1>9. CASE Gather \/ Retain \/ Retained
  BY <1>9, SettingsStay DEF Gather, Retain, Retained, settings
<1>10. CASE UNCHANGED <<settings, memory, records, checkpoint, pc, attempt, unit,
                        query, handle>>
  BY <1>10 DEF settings
<1>11. QED
  BY <1>1, <1>2, <1>3, <1>4, <1>5, <1>6, <1>7, <1>8, <1>9, <1>10,
     EngagedSteps, WorkParts

LEMMA RememberingStep ==
    ASSUME Assumed, IInv, [Next]_vars
    PROVE  Remembering'
<1>0. /\ TypedFiles /\ Typed /\ unit \in Units /\ Holding /\ Remembering /\ Plain /\ Answering
      /\ kind \in {"index", "stateless", "external"}
      /\ retention \in {"keep", "delete-on-success"}
  BY Constants DEF IInv, Typed, TypedProcess, TypedRest
<1>s. kind' = kind /\ retention' = retention /\ (StoresMemory' <=> StoresMemory)
  BY SettingsStay DEF settings, StoresMemory
<1> USE <1>0, <1>s DEF Remembering, Remembered, Held, Checked, Goto, process
<1>1. CASE RestoreIngested
  <2>1. CASE Restorable
    <3>1. /\ pc' = "predict" /\ handle' = prepared[unit] /\ UNCHANGED <<memory, unit>>
      BY <1>1, <2>1 DEF RestoreIngested
    <3>2. /\ prepared[unit] = ingested[unit]
          /\ StoresMemory => memory[unit] = [from |-> ingested[unit], whole |-> TRUE]
      BY <2>1 DEF Restorable, StoresMemory
    <3>3. QED
      BY <3>1, <3>2
  <2>2. CASE ~ Restorable
    BY <1>1, <2>2 DEF RestoreIngested
  <2>3. QED
    BY <2>1, <2>2
<1>2. CASE Clean \/ Cleaned \/ Wipe \/ Declare
  BY <1>2 DEF Clean, Cleaned, Wipe, Declare
<1>3. CASE Ingest
  BY <1>3 DEF Ingest, TypedFiles
<1>4. CASE Prepare
  <2>1. pc = "ingesting" /\ pc' = "barrier" /\ handle' = attempt /\ unit' = unit
    BY <1>4 DEF Prepare
  <2>2. ASSUME StoresMemory PROVE memory'[unit] = [from |-> attempt, whole |-> TRUE]
    <3>1. memory[unit] = [from |-> attempt, whole |-> FALSE]
      BY <2>1, <2>2
    <3>2. memory'[unit] = [from |-> memory[unit].from, whole |-> TRUE]
      BY <1>4, <2>2, WholeSteps DEF Prepare
    <3>3. QED
      BY <3>1, <3>2
  <2>3. QED
    BY <2>1, <2>2
<1>5. CASE Barrier \/ Ingested \/ BeginPredicting \/ Record \/ Mark
  BY <1>5 DEF Barrier, Ingested, BeginPredicting, Record, Mark
<1>6. CASE Ask
  BY <1>6 DEF Ask
<1>7. CASE Gather
  BY <1>7 DEF Gather, Plain
<1>8. CASE Retain
  BY <1>8 DEF Retain
<1>9. CASE Retained
  <2>1. memory'[unit] = Empty /\ pc' = "commit" /\ unit' = unit /\ retention # "keep"
    BY <1>9 DEF Retained, TypedFiles, Answering
  <2>2. QED
    BY <2>1
<1>10. CASE UNCHANGED <<settings, memory, records, checkpoint, pc, attempt, unit,
                        query, handle>>
  BY <1>10
<1>11. QED
  BY <1>1, <1>2, <1>3, <1>4, <1>5, <1>6, <1>7, <1>8, <1>9, <1>10,
     EngagedSteps, WorkParts

LEMMA AnsweringStep ==
    ASSUME Assumed, IInv, [Next]_vars
    PROVE  Answering'
<1>0. /\ TypedFiles /\ Typed /\ unit \in Units /\ Holding /\ Answering /\ Marks
      /\ query \in 1 .. LastQuery + 1 /\ attempt \in 0 .. MaxAttempts
      /\ pc # "idle" => attempt \in Ingestions
  BY DEF IInv, Typed, TypedProcess
<1>s. beam' = beam /\ retention' = retention
  BY SettingsStay DEF settings
<1> USE <1>0, <1>s, Constants DEF Answering, Gathered, Goto, process, records
<1>1. CASE RestoreIngested \/ Clean \/ Cleaned \/ Wipe \/ Declare \/ Ingest \/ Prepare
           \/ Barrier \/ Ingested
  BY <1>1 DEF RestoreIngested, Clean, Cleaned, Wipe, Declare, Ingest, Prepare, Barrier, Ingested
<1>2. CASE BeginPredicting
  BY <1>2 DEF BeginPredicting, Queries
<1>3. CASE Ask
  <2>1. /\ pc = "ask" /\ UNCHANGED <<records, handle, unit>>
    BY <1>3 DEF Ask
  <2>2. \A q \in Queries : Answered(q)' <=> Answered(q)
    BY <2>1 DEF Answered
  <2>3. CASE query > LastQuery
    <3>1. pc' = "gather"
      BY <1>3, <2>3 DEF Ask
    <3>2. \A q \in Queries : Answered(q)
      BY <2>1, <2>3 DEF Queries
    <3>3. QED
      BY <2>2, <3>1, <3>2
  <2>4. CASE query <= LastQuery /\ CachedPrediction
    <3>1. pc' = "ask" /\ query' = query + 1 /\ query \in Queries
      BY <1>3, <2>1, <2>4 DEF Ask, Queries
    <3>2. Answered(query)
      BY <2>1, <2>4, <3>1, Values
         DEF CachedPrediction, Marks, Answered, Holding, Held, Checked
    <3>3. \A q \in Queries : q < query' => q < query \/ q = query
      BY <3>1 DEF Queries
    <3>4. QED
      BY <2>1, <2>2, <3>1, <3>2, <3>3
  <2>5. CASE query <= LastQuery /\ ~ CachedPrediction
    <3>1. pc' = "record" /\ query' = query /\ query \in Queries
      BY <1>3, <2>5 DEF Ask, Queries
    <3>2. QED
      BY <2>1, <2>2, <3>1
  <2>6. QED
    BY <2>3, <2>4, <2>5
<1>4. CASE Record
  <2>1. /\ pc = "record" /\ UNCHANGED <<mark, handle, unit, attempt>>
        /\ pc' = IF beam THEN "mark" ELSE "ask"
        /\ query' = IF beam THEN query ELSE query + 1
    BY <1>4 DEF Record
  <2>2. query \in Queries /\ handle \in Ingestions /\ attempt \in Ingestions
    BY <2>1 DEF Holding, Held, Checked
  <2>3. answer'[unit] = [answer[unit] EXCEPT ![query] = <<handle, attempt>>]
    BY <1>4, <2>2, RecordIs
  <2>4. answer[unit] \in [Queries -> Answers]
    BY DEF TypedFiles, AnswerSets
  <2>5. /\ answer'[unit][query] = <<handle, attempt>>
        /\ \A q \in Queries : q # query => answer'[unit][q] = answer[unit][q]
    BY <2>2, <2>3, <2>4
  <2>6. \A q \in Queries : q < query => Answered(q)'
    BY <2>1, <2>2, <2>5 DEF Answered
  <2>7. CASE beam
    BY <2>1, <2>2, <2>5, <2>6, <2>7
  <2>8. CASE ~ beam
    <3>1. \A q \in Queries : q = query => Answered(q)'
      BY <2>1, <2>2, <2>5, <2>8, Values DEF Answered
    <3>2. \A q \in Queries : q < query' => q < query \/ q = query
      BY <2>1, <2>2, <2>8 DEF Queries
    <3>3. QED
      BY <2>1, <2>6, <2>8, <3>1, <3>2
  <2>9. QED
    BY <2>7, <2>8
<1>5. CASE Mark
  <2>1. /\ pc = "mark" /\ UNCHANGED <<answer, handle, unit>>
        /\ pc' = "ask" /\ query' = query + 1
    BY <1>5 DEF Mark
  <2>2. /\ query \in Queries /\ handle \in Ingestions /\ attempt \in Ingestions
        /\ answer[unit][query] = <<handle, attempt>>
    BY <2>1 DEF Holding, Held, Checked
  <2>3. mark'[unit] = [mark[unit] EXCEPT ![query] = answer[unit][query]]
    BY <1>5, <2>2, MarkIs
  <2>4. mark[unit] \in [Queries -> Answers]
    BY DEF TypedFiles, AnswerSets
  <2>5. /\ mark'[unit][query] = answer[unit][query]
        /\ \A q \in Queries : q # query => mark'[unit][q] = mark[unit][q]
    BY <2>2, <2>3, <2>4
  <2>6. \A q \in Queries : q < query => Answered(q)'
    BY <2>1, <2>2, <2>5 DEF Answered
  <2>7. \A q \in Queries : q = query => Answered(q)'
    BY <2>1, <2>2, <2>5, Values DEF Answered
  <2>8. \A q \in Queries : q < query' => q < query \/ q = query
    BY <2>1, <2>2 DEF Queries
  <2>9. QED
    BY <2>1, <2>6, <2>7, <2>8
<1>6. CASE Gather
  <2>1. /\ pc = "gather" /\ UNCHANGED <<answer, mark, handle, unit>>
        /\ pc' = IF retention = "keep" THEN "commit" ELSE "retain"
    BY <1>6 DEF Gather
  <2>2. aggregate'[unit] = answer[unit]
    BY <1>6 DEF Gather, TypedFiles
  <2>3. \A q \in Queries : Answered(q)'
    BY <2>1 DEF Answered
  <2>4. QED
    BY <2>1, <2>2, <2>3
<1>7. CASE Retain \/ Retained
  <2>1. /\ UNCHANGED <<records, handle, unit>> /\ pc \in {"retain", "retaining"}
        /\ pc' \in {"retaining", "commit"}
    BY <1>7 DEF Retain, Retained
  <2>2. \A q \in Queries : Answered(q)'
    BY <2>1 DEF Answered
  <2>3. QED
    BY <2>1, <2>2
<1>8. CASE UNCHANGED <<settings, memory, records, checkpoint, pc, attempt, unit,
                        query, handle>>
  <2>1. \A q \in Queries : Answered(q)' <=> Answered(q)
    BY <1>8 DEF Answered
  <2>2. QED
    BY <1>8, <2>1
<1>9. QED
  BY <1>1, <1>2, <1>3, <1>4, <1>5, <1>6, <1>7, <1>8, EngagedSteps, WorkParts

\* What becomes of the memory of a committed unit is decided before it is one.
LEMMA RetentionStep ==
    ASSUME Assumed, IInv, [Next]_vars
    PROVE  RetentionHonoured'
<1>0. /\ TypedFiles /\ Typed /\ unit \in Units /\ Plan /\ RetentionHonoured /\ GoodRefs
      /\ Remembering /\ Holding
  BY DEF IInv, Typed, TypedProcess
<1>1. kind' = kind /\ retention' = retention /\ (StoresMemory' <=> StoresMemory)
  BY SettingsStay DEF settings, StoresMemory
<1> DEFINE Due(m, p) ==
        IF retention = "keep" /\ StoresMemory
        THEN m \in {[from |-> p, whole |-> TRUE], [from |-> Damaged, whole |-> FALSE]}
        ELSE m = Empty
<1>2. SUFFICES ASSUME NEW u \in Units, Committed(u)' PROVE Due(memory'[u], prepared'[u])
  BY <1>1 DEF RetentionHonoured
<1>3. ASSUME Same(u) PROVE Due(memory[u], prepared'[u])
  <2>1. Committed(u)
    BY <1>2, <1>3, SameCommitted
  <2>2. prepared'[u] = prepared[u]
    BY <1>3 DEF Same
  <2>3. QED
    BY <1>0, <2>1, <2>2 DEF RetentionHonoured
<1>4. CASE pc # "idle" /\ (pc \notin AtWork \/ u # unit)
  BY <1>3, <1>4, OnlyItsUnit
<1>5. CASE pc \in AtWork /\ u = unit
  <2>1. Commit
    BY <1>2, <1>5, WorkUncommitted
  <2>2. pc = "commit" /\ UNCHANGED <<memory, prepared>>
    BY <2>1 DEF Commit, Goto, records
  <2>3. handle = prepared[u]
    BY <1>0, <1>5, <2>2 DEF Holding, Held, Checked
  <2>4. memory[u] = IF retention = "keep" /\ StoresMemory
                    THEN [from |-> handle, whole |-> TRUE] ELSE Empty
    BY <1>0, <1>5, <2>2 DEF Remembering
  <2>5. QED
    BY <2>2, <2>3, <2>4
<1>6. CASE pc = "idle"
  <2>1. CASE Damage
    <3>1. Same(u) /\ Committed(u)
      BY <1>2, <2>1, DamageUncommits
    <3>2. Due(memory[u], prepared'[u])
      BY <1>3, <3>1
    <3>3. \/ memory'[u] = memory[u]
          \/ memory[u] # Empty /\ memory'[u] = [from |-> Damaged, whole |-> FALSE]
      BY <1>0, <2>1 DEF Damage, TypedFiles
    <3>4. QED
      BY <3>2, <3>3
  <2>2. CASE Start \/ UNCHANGED vars
    <3>1. UNCHANGED Files
      BY <2>2, QuietSteps DEF Quiet, vars, Files
    <3>2. Same(u) /\ memory'[u] = memory[u]
      BY <3>1 DEF Same, Files, records
    <3>3. QED
      BY <1>3, <3>2
  <2>3. QED
    BY <1>6, <2>1, <2>2, FromIdle
<1>7. QED
  BY <1>4, <1>5, <1>6

\* PARTIAL is written over what the checkpoint of the run binds, and gives way
\* to RUNNING before anything is bound or committed again.
LEMMA PartialStep ==
    ASSUME Assumed, IInv, [Next]_vars
    PROVE  Closing' /\ PartialMeansPredicted'
<1>0. /\ TypedFiles /\ TypedProcess /\ Plan /\ Closing /\ PartialMeansPredicted
  BY DEF IInv, Typed
<1>1. CASE Close
  <2>1. pc = "close" /\ pc' = "idle" /\ UNCHANGED <<phase, checkpoint>>
        /\ status'.is = "PARTIAL" /\ status'.units = done
    BY <1>1 DEF Close, Goto, WriteStatus
  <2>2. done = Units /\ phase = checkpoint /\ \A u \in done : Committed(u)
    BY <1>0, <2>1 DEF Plan
  <2>3. QED
    BY <2>1, <2>2 DEF Closing, PartialMeansPredicted, Committed
<1>2. ASSUME UNCHANGED <<status, phase, checkpoint>>, pc' \in {pc, "idle", "open"}
      PROVE  Closing' /\ PartialMeansPredicted'
  BY <1>0, <1>2 DEF Closing, PartialMeansPredicted
<1>3. ASSUME status'.is # "PARTIAL" PROVE Closing' /\ PartialMeansPredicted'
  BY <1>3 DEF Closing, PartialMeansPredicted
<1>4. ASSUME UNCHANGED status, pc \notin {"idle", "open"}
      PROVE  Closing' /\ PartialMeansPredicted'
  BY <1>0, <1>4 DEF Closing, PartialMeansPredicted
<1> USE DEF Goto, shown, process
<1>5. CASE Open \/ Count \/ Refuse \/ Stop \/ Fail
  BY <1>3, <1>5 DEF Open, Count, Refuse, Stop, Fail, Failed, WriteStatus
<1>6. CASE Start \/ Damage \/ Kill \/ RequestStop \/ UNCHANGED vars
  BY <1>2, <1>6 DEF Start, Damage, Kill, RequestStop, vars
<1>7. CASE NextUnit \/ RestoreIngested \/ Clean \/ Cleaned \/ Wipe \/ KillInWipe
  BY <1>4, <1>7 DEF NextUnit, RestoreIngested, Clean, Cleaned, Wipe, KillInWipe
<1>8. CASE Declare \/ Ingest \/ Prepare \/ Barrier \/ Ingested \/ BeginPredicting \/ Ask
  BY <1>4, <1>8 DEF Declare, Ingest, Prepare, Barrier, Ingested, BeginPredicting, Ask
<1>9. CASE Record \/ Mark \/ Gather \/ Retain \/ Retained \/ Commit \/ End
  BY <1>4, <1>9 DEF Record, Mark, Gather, Retain, Retained, Commit, End
<1>10. QED
  BY <1>1, <1>5, <1>6, <1>7, <1>8, <1>9, Steps DEF Quiet

-----------------------------------------------------------------------------
LEMMA Initial ==
    ASSUME Assumed, Init
    PROVE  IInv
<1>1. /\ pc = "idle" /\ attempt = 0 /\ todo = {} /\ done = {} /\ handle = Absent
      /\ unit = 1 /\ query = 1 /\ faults = 0 /\ stopping = FALSE
      /\ phase = Nothing /\ status = [is |-> "none", units |-> {}]
  BY DEF Init
<1>2. /\ memory = [u \in Units |-> Empty] /\ owned = [u \in Units |-> "absent"]
      /\ prepared = [u \in Units |-> Absent] /\ barrier = [u \in Units |-> Absent]
      /\ ingested = [u \in Units |-> Absent]
      /\ answer = [u \in Units |-> NoAnswers] /\ mark = [u \in Units |-> NoAnswers]
      /\ aggregate = [u \in Units |-> Nothing]
      /\ checkpoint = [u \in Units |-> Working("none")]
  BY DEF Init
<1>3. TypedFiles
  BY <1>2, Values, WorkingTypes DEF TypedFiles, Progress
<1>4. TypedProcess
  BY <1>1, Constants, Values DEF TypedProcess, Places
<1>5. TypedRest
  <2>1. phase = Nothing
        /\ status \in [is : {"none", "RUNNING", "PARTIAL", "FAILED_RUNNING",
                             "INTERRUPTED"}, units : SUBSET Units]
    BY <1>1
  <2>2. stopping \in BOOLEAN
    BY <1>1, Zenon
  <2>3. kind \in Kinds /\ beam \in BOOLEAN /\ retention \in {"keep", "delete-on-success"}
    BY Zenon DEF Init
  <2>4. QED
    BY <2>1, <2>2, <2>3, Zenon DEF TypedRest
<1>6. \A u \in Units : checkpoint[u].is # "COMMITTED"
  BY <1>2 DEF Working
<1>7. GoodRefs /\ RetentionHonoured
  BY <1>6 DEF GoodRefs, RetentionHonoured, Committed
<1>8. Plain /\ Marks
  BY <1>2, Values DEF Plain, Marks
<1>9. Plan /\ Ownership /\ Holding /\ Remembering /\ Answering
  BY <1>1 DEF Plan, Ownership, Holding, Remembering, Answering, AtWork, Mine, Declared,
     Cleared, UnderWay, Predicting, Held, Checked, Remembered, Gathered
<1>10. Closing /\ PartialMeansPredicted
  BY <1>1 DEF Closing, PartialMeansPredicted
<1>11. QED
  BY <1>3, <1>4, <1>5, <1>7, <1>8, <1>9, <1>10 DEF IInv, Typed

LEMMA Invariance ==
    ASSUME Assumed, IInv, [Next]_vars
    PROVE  IInv'
BY TypedFilesStep, TypedProcessStep, TypedRestStep, GoodRefsStep, PlainStep, PlanStep,
   OwnershipStep, HoldingStep, RememberingStep, AnsweringStep, RetentionStep, PartialStep
   DEF IInv, Typed

LEMMA Invariant ==
    ASSUME Assumed
    PROVE  Spec => []IInv
<1>1. Init => IInv
  BY Initial
<1>2. IInv /\ [Next]_vars => IInv'
  BY Invariance
<1>3. QED
  BY <1>1, <1>2, PTL DEF Spec

-----------------------------------------------------------------------------
\* Every file, every memory and every place of the process is one of those the
\* runner knows: its files carry an ingestion of one of its attempts.
THEOREM TypeCorrect ==
    ASSUME Assumed
    PROVE  Spec => []TypeOK
<1>1. IInv => TypeOK
  <2>1. SUFFICES ASSUME IInv PROVE TypeOK
    OBVIOUS
  <2>2. TypedFiles /\ TypedProcess /\ TypedRest
    BY <2>1 DEF IInv, Typed
  <2>3. \A u \in Units :
          \/ checkpoint[u].is \in Progress /\ checkpoint[u].refs = Nothing
          \/ /\ checkpoint[u].is = "COMMITTED"
             /\ checkpoint[u].refs \in
                   {"absent", "declared", "other"} \X Contents \X Contents
                   \X Contents \X AnswerSets \X AnswerSets
                   \X (AnswerSets \cup {Nothing})
    <3>1. ASSUME NEW u \in Units PROVE checkpoint[u] \in Checkpoints
      BY <2>2 DEF TypedFiles
    <3>2. QED
      BY <3>1 DEF Checkpoints
  <2>4. pc \in {"idle", "open", "next", "restore", "clean", "cleaning", "wipe",
               "declare", "ingest", "ingesting", "barrier", "ingested",
               "predict", "ask", "record", "mark", "gather", "retain",
               "retaining", "commit", "count", "end", "close"}
    BY <2>2 DEF TypedProcess, Places, AtWork
  <2>5. QED
    BY <2>2, <2>3, <2>4, Zenon DEF TypeOK, TypedFiles, TypedProcess, TypedRest
<1>2. QED
  BY <1>1, Invariant, PTL

\* What a committed unit refers to was made from one ingestion, that its barrier
\* verified, whatever was reused from how many attempts (_restore_ingested and
\* _cached_prediction), killed and damaged wherever they were.  No query is asked
\* of a memory that is not wholly the one the unit's files describe; its memory
\* is kept or deleted as the retention policy says, which is applied before the
\* commit and which no later attempt undoes; and a PARTIAL status is of a run all
\* of whose units are the very checkpoints that the RUNNING checkpoint binds.
THEOREM OneIngestion ==
    ASSUME Assumed
    PROVE  Spec => []CommittedFromOneIngestion
<1>1. IInv => AnswersOfOneIngestion
  BY GoodSnapshot DEF IInv, AnswersOfOneIngestion
<1>2. IInv => AskedOfWholeMemory
  BY DEF IInv, AskedOfWholeMemory, Holding, Remembering, Held, Checked, Remembered
<1>3. IInv => RetentionHonoured /\ PartialMeansPredicted
  BY DEF IInv
<1>4. IInv => CommittedFromOneIngestion
  BY <1>1, <1>2, <1>3 DEF CommittedFromOneIngestion
<1>5. QED
  BY <1>4, Invariant, PTL

\* No attempt touches a committed unit, nor one whose manifest declares the
\* resources of another run (the plan, and the check before the cleanup).
THEOREM CommittedUnitsStay ==
    ASSUME Assumed
    PROVE  Spec => CommittedStay
<1>1. IInv /\ [Next]_vars => KeepsDone
  <2>1. SUFFICES ASSUME IInv, [Next]_vars PROVE KeepsDone
    OBVIOUS
  <2>2. Plan /\ Ownership /\ unit \in Units
    BY <2>1 DEF IInv, Typed, TypedProcess
  <2>3. ASSUME NEW u \in Units, Committed(u), pc # "idle"
        PROVE  Committed(u)' /\ memory'[u] = memory[u]
    <3>1. pc \notin AtWork \/ u # unit
      BY <2>2, <2>3 DEF Plan
    <3>2. QED
      BY <2>1, <2>3, <3>1, OnlyItsUnit, SameCommitted
  <2>4. ASSUME NEW u \in Units, owned[u] = "other", pc # "idle"
        PROVE  /\ memory'[u] = memory[u] /\ owned'[u] = "other"
               /\ prepared'[u] = prepared[u] /\ answer'[u] = answer[u]
    <3>1. CASE pc \notin AtWork \/ u # unit
      BY <2>1, <2>4, <3>1, OnlyItsUnit DEF Same
    <3>2. CASE pc \in AtWork /\ u = unit
      <4>1. pc \in {"restore", "clean"}
        BY <2>2, <2>4, <3>2 DEF Ownership, AtWork, Mine, Declared
      <4>2. UNCHANGED Files
        <5> USE <2>4, <3>2, <4>1 DEF Goto
        <5>1. CASE Clean \/ Cleaned \/ Wipe \/ KillInWipe \/ Declare \/ Ingest \/ Prepare
          BY <5>1 DEF Clean, Cleaned, Wipe, KillInWipe, Declare, Ingest, Prepare
        <5>2. CASE Barrier \/ Ingested \/ BeginPredicting \/ Record \/ Mark \/ Gather
          BY <5>2 DEF Barrier, Ingested, BeginPredicting, Record, Mark, Gather
        <5>3. CASE Retain \/ Retained \/ Commit \/ Damage \/ UNCHANGED vars
          BY <5>3 DEF Retain, Retained, Commit, Damage, vars, Files
        <5>4. QED
          BY <2>1, <5>1, <5>2, <5>3, Steps, QuietSteps
      <4>3. QED
        BY <2>4, <4>2 DEF Files, records
    <3>3. QED
      BY <3>1, <3>2
  <2>5. LeavesCommitted
    BY <2>3 DEF LeavesCommitted
  <2>6. LeavesOthers
    BY <2>4 DEF LeavesOthers
  <2>7. QED
    BY <2>5, <2>6 DEF KeepsDone
<1>2. QED
  BY <1>1, Invariant, PTL DEF Spec, CommittedStay

-----------------------------------------------------------------------------
(* The packing of a context. *)


\* What the search keeps: the place it holds fits, and the one after its last
\* candidate does not, because all of the memory did not.
Inputs ==
    /\ items \in Retrievals /\ budget \in Budgets

Bracket ==
    /\ packing = "pack" => ~cut /\ (included = 0 => text = 0)
    /\ packing = "search" =>
          /\ ~cut /\ included = 0 /\ text = 0 /\ Len(items.joined) > 0
          /\ items.cuts[low] <= budget
          /\ items.cuts[Len(items.cuts)] > budget
          /\ high < Len(items.cuts) => items.cuts[high + 1] > budget
    /\ cut => /\ low < Len(items.cuts) /\ items.cuts[low + 1] > budget
    /\ text <= budget
    /\ packing = "failed" => items.cuts[1] > budget

\* What the loop over the memories keeps: the text is of the memories included.
Prefix == packing = "pack" /\ included > 0 => text = items.joined[included]

PackInv == Inputs /\ PackTypeOK /\ Bracket /\ Prefix /\ BestFirst

\* What the assumption says of one retrieval and one budget.
LEMMA InputTypes ==
    ASSUME Inputs
    PROVE  /\ budget \in Nat
           /\ items.joined \in Seq(Nat) /\ items.cuts \in Seq(Nat)
           /\ Len(items.cuts) \in Nat /\ Len(items.cuts) > 0
           /\ Len(items.joined) \in Nat
           /\ Len(items.joined) > 0 => items.joined[1] = items.cuts[Len(items.cuts)]
           /\ \A i \in 1 .. Len(items.cuts) : items.cuts[i] \in Nat
           /\ \A i \in 1 .. Len(items.joined) : items.joined[i] \in Nat
<1>1. /\ budget \in Nat /\ items.joined \in Seq(Nat) /\ items.cuts \in Seq(Nat)
      /\ Len(items.cuts) > 0
      /\ Len(items.joined) > 0 => items.joined[1] = items.cuts[Len(items.cuts)]
  BY RetrievalAssumption DEF Inputs
<1>2. ASSUME NEW s \in Seq(Nat)
      PROVE  Len(s) \in Nat /\ \A i \in 1 .. Len(s) : s[i] \in Nat
  OBVIOUS
<1>3. QED
  BY ONLY <1>1, <1>2

LEMMA PackStart == PackInit => PackInv
<1>1. SUFFICES ASSUME PackInit PROVE PackInv
  OBVIOUS
<1>2. Inputs
  BY <1>1 DEF PackInit, Inputs
<1>3. budget \in Nat /\ Len(items.cuts) \in Nat /\ Len(items.cuts) > 0
      /\ Len(items.joined) \in Nat
  BY <1>2, InputTypes
<1>4. PackTypeOK
  <2>1. /\ packing = "pack" /\ included = 0 /\ text = 0 /\ low = 1 /\ high = 1
    BY <1>1 DEF PackInit
  <2>2. cut \in BOOLEAN
    BY <1>1, Zenon DEF PackInit
  <2>3. /\ included \in 0 .. Len(items.joined) /\ low \in 1 .. Len(items.cuts)
        /\ high \in low .. Len(items.cuts) /\ text \in Nat
    BY <1>3, <2>1
  <2>4. QED
    BY <2>1, <2>2, <2>3 DEF PackTypeOK
<1>5. Bracket
  <2>1. packing = "pack" /\ included = 0 /\ text = 0 /\ text <= budget
    BY <1>1, <1>3 DEF PackInit
  <2>2. ~cut
    BY <1>1, Zenon DEF PackInit
  <2>3. QED
    BY <2>1, <2>2 DEF Bracket
<1>6. Prefix /\ BestFirst
  BY <1>1 DEF PackInit, Prefix, BestFirst
<1>7. QED
  BY <1>2, <1>4, <1>5, <1>6 DEF PackInv

\* Half of a range, rounded up, is in the range and not its first place.
LEMMA Middle ==
    ASSUME NEW l \in Nat, NEW h \in Nat, l < h
    PROVE  LET m == (l + h + 1) \div 2 IN m \in Nat /\ l < m /\ m <= h
  BY SMT

\* What is in the context is the best of it, at the end as on the way.
LEMMA BestStep ==
    ASSUME PackInv, [PackNext]_packVars
    PROVE  Prefix' /\ BestFirst'
<1>1. Inputs /\ PackTypeOK /\ Bracket /\ Prefix /\ BestFirst
  BY DEF PackInv
<1>2. /\ Len(items.joined) \in Nat /\ included \in Nat /\ included <= Len(items.joined)
      /\ budget \in Nat
  BY <1>1, InputTypes DEF PackTypeOK
<1>3. CASE Include
  BY <1>2, <1>3 DEF Include, input, Prefix, BestFirst
<1>4. CASE StopPacking
  <2>1. /\ packing = "pack" /\ packing' = "done" /\ UNCHANGED <<items, budget, included, text, cut>>
        /\ More => included > 0 /\ ~NextFits
    BY <1>4 DEF StopPacking, input
  <2>2. Prefix'
    BY <2>1 DEF Prefix
  <2>3. Len(items.joined) > 0 => included >= 1
    BY <1>2, <2>1 DEF More
  <2>4. included > 0 => text = items.joined[included]
    BY <1>1, <2>1 DEF Prefix
  <2>5. QED
    BY <2>1, <2>2, <2>3, <2>4 DEF BestFirst, More, NextFits
<1>5. CASE EndSearch
  <2>1. /\ UNCHANGED <<items, budget>> /\ packing' # "pack"
        /\ packing' = "done" => included' = 1
    BY <1>5 DEF EndSearch, input
  <2>2. packing' = "done" => cut'
    BY <1>5, Zenon DEF EndSearch
  <2>3. QED
    BY <2>1, <2>2 DEF Prefix, BestFirst
<1>6. CASE Truncate \/ Search
  BY <1>6 DEF Truncate, Search, Prefix, BestFirst
<1>7. CASE UNCHANGED packVars
  BY <1>1, <1>7 DEF packVars, input, Prefix, BestFirst, More, NextFits
<1>8. QED
  BY <1>3, <1>4, <1>5, <1>6, <1>7 DEF PackNext

LEMMA PackInductive == PackInv /\ [PackNext]_packVars => PackInv'
<1>1. SUFFICES ASSUME PackInv, [PackNext]_packVars PROVE PackInv'
  OBVIOUS
<1>2. Inputs /\ PackTypeOK /\ Bracket
  BY <1>1 DEF PackInv
<1>0. Prefix' /\ BestFirst'
  BY <1>1, BestStep
<1>3. Inputs'
  BY <1>1, <1>2 DEF Inputs, PackNext, packVars, input, Include, StopPacking, Truncate, Search, EndSearch
<1>4. /\ budget \in Nat
      /\ Len(items.cuts) \in Nat /\ Len(items.cuts) > 0 /\ Len(items.joined) \in Nat
      /\ Len(items.joined) > 0 => items.joined[1] = items.cuts[Len(items.cuts)]
      /\ \A i \in 1 .. Len(items.cuts) : items.cuts[i] \in Nat
      /\ \A i \in 1 .. Len(items.joined) : items.joined[i] \in Nat
  BY <1>2, InputTypes
<1>5. CASE Include
  <2>0. included \in Nat /\ included < Len(items.joined)
    BY <1>2, <1>5 DEF Include, More, PackTypeOK
  <2>3. included + 1 \in 1 .. Len(items.joined)
    BY <1>4, <2>0
  <2>1. items.joined[included + 1] \in Nat /\ included + 1 \in 0 .. Len(items.joined)
    BY <1>4, <2>3
  <2>2. QED
    BY <1>0, <1>2, <1>3, <1>4, <1>5, <2>1 DEF PackInv, Include, More, NextFits, PackTypeOK, Bracket, input
<1>6. CASE StopPacking
  BY <1>0, <1>2, <1>3, <1>4, <1>6 DEF PackInv, StopPacking, PackTypeOK, Bracket, input
<1>7. CASE Truncate
  <2>1. /\ packing' \in {"search", "failed"} /\ low' = 1 /\ high' = Len(items.cuts)
        /\ UNCHANGED <<items, budget, included, text, cut>>
        /\ included = 0 /\ text = 0 /\ ~cut /\ Len(items.joined) > 0
        /\ items.cuts[Len(items.cuts)] > budget
        /\ packing' = "search" => items.cuts[1] <= budget
        /\ packing' = "failed" => items.cuts[1] > budget
    BY <1>2, <1>4, <1>7 DEF Truncate, More, NextFits, PackTypeOK, Bracket, input
  <2>2. PackTypeOK'
    BY <1>2, <1>4, <2>1 DEF PackTypeOK
  <2>3. Bracket'
    BY <1>2, <1>4, <2>1 DEF Bracket
  <2>4. QED
    BY <1>0, <1>3, <2>2, <2>3 DEF PackInv
<1>8. CASE Search
  <2> DEFINE middle == (low + high + 1) \div 2
  <2>1. middle \in Nat /\ low < middle /\ middle <= high /\ low \in Nat /\ high \in Nat
        /\ high <= Len(items.cuts) /\ 1 <= low
    BY <1>2, <1>4, <1>8, Middle DEF Search, PackTypeOK
  <2>2. UNCHANGED <<items, budget, packing, included, text, cut>> /\ packing = "search"
    BY <1>8 DEF Search, input
  <2>3. \/ items.cuts[middle] <= budget /\ low' = middle /\ high' = high
        \/ items.cuts[middle] > budget /\ high' = middle - 1 /\ low' = low
    <3>1. items.cuts[middle] \in Nat
      BY <1>4, <2>1
    <3>2. QED
      BY <1>4, <1>8, <3>1 DEF Search
  <2> HIDE DEF middle
  <2>4. PackTypeOK'
    BY <1>2, <1>4, <2>1, <2>2, <2>3 DEF PackTypeOK
  <2>5. Bracket'
    <3>1. CASE items.cuts[middle] <= budget /\ low' = middle /\ high' = high
      BY <1>2, <1>4, <2>1, <2>2, <3>1 DEF Bracket
    <3>2. CASE items.cuts[middle] > budget /\ high' = middle - 1 /\ low' = low
      BY <1>2, <1>4, <2>1, <2>2, <3>2 DEF Bracket
    <3>3. QED
      BY <2>3, <3>1, <3>2
  <2>6. QED
    BY <1>0, <1>3, <2>4, <2>5 DEF PackInv
<1>9. CASE EndSearch
  <2>1. /\ packing = "search" /\ low = high /\ items.cuts[low] <= budget
        /\ items.cuts[Len(items.cuts)] > budget /\ Len(items.joined) > 0
        /\ low \in 1 .. Len(items.cuts)
        /\ high < Len(items.cuts) => items.cuts[high + 1] > budget
    BY <1>2, <1>9 DEF EndSearch, PackTypeOK, Bracket
  <2>2. low < Len(items.cuts) /\ items.cuts[low + 1] > budget /\ items.cuts[low] \in Nat
    BY <1>4, <2>1
  <2>3. /\ packing' = "done" /\ included' = 1 /\ text' = items.cuts[low] /\ cut' = TRUE
        /\ UNCHANGED <<items, budget, low, high>>
    BY <1>9, <2>1 DEF EndSearch, input
  <2>4. PackTypeOK'
    BY <1>2, <1>4, <2>1, <2>2, <2>3 DEF PackTypeOK
  <2>5. Bracket'
    BY <1>2, <1>4, <2>1, <2>2, <2>3 DEF Bracket
  <2>6. QED
    BY <1>0, <1>3, <2>4, <2>5 DEF PackInv
<1>10. CASE UNCHANGED packVars
  BY <1>0, <1>2, <1>3, <1>10 DEF PackInv, PackTypeOK, Bracket, packVars, input
<1>11. QED
  BY <1>1, <1>5, <1>6, <1>7, <1>8, <1>9, <1>10 DEF PackNext

LEMMA PackInvariant == PackSpec => []PackInv
  BY PackStart, PackInductive, PTL DEF PackSpec

\* The variables keep their types: the search never leaves the places where the
\* memory may be cut.
THEOREM PackingTypes == PackSpec => []PackTypeOK
<1>1. PackInv => PackTypeOK
  BY DEF PackInv
<1>2. QED
  BY <1>1, PackInvariant, PTL DEF PackSpec

\* No context has more tokens than its budget, and packing fails only where the
\* labels of the first memory do not fit: the check after the search never does.
THEOREM ContextFits == PackSpec => []BudgetHeld
<1>1. PackInv => BudgetHeld
  BY DEF PackInv, Bracket, BudgetHeld
<1>2. QED
  BY <1>1, PackInvariant, PTL DEF PackSpec

\* The context is as much as fits: a memory is cut at a place after which it does
\* not fit, and at the last where it does if longer texts have no fewer tokens;
\* and without a cut the first memory that is left out would not have fitted.
THEOREM CutAtTheLargest == PackSpec => []LargestPrefix
<1>1. PackInv => CutAtLargest
  <2>1. SUFFICES ASSUME PackInv, cut PROVE
            /\ low < Len(items.cuts) /\ items.cuts[low + 1] > budget
            /\ Monotone => \A i \in low + 1 .. Len(items.cuts) : items.cuts[i] > budget
    BY DEF CutAtLargest
  <2>2. low < Len(items.cuts) /\ items.cuts[low + 1] > budget
    BY <2>1 DEF PackInv, Bracket
  <2>3. ASSUME Monotone, NEW i \in low + 1 .. Len(items.cuts) PROVE items.cuts[i] > budget
    <3>1. /\ budget \in Nat /\ low \in Nat /\ 1 <= low
          /\ \A j \in 1 .. Len(items.cuts) : items.cuts[j] \in Nat
          /\ Len(items.cuts) \in Nat
      <4>1. Inputs /\ PackTypeOK
        BY <2>1 DEF PackInv
      <4>2. Len(items.cuts) \in Nat /\ low \in 1 .. Len(items.cuts)
        BY <4>1, InputTypes DEF PackTypeOK
      <4>3. QED
        BY <4>1, <4>2, InputTypes
    <3>2. items.cuts[low + 1] <= items.cuts[i]
      BY <2>2, <2>3, <3>1 DEF Monotone
    <3>3. QED
      BY <2>2, <2>3, <3>1, <3>2
  <2>4. QED
    BY <2>2, <2>3
<1>2. PackInv => LargestPrefix
  BY <1>1 DEF PackInv, LargestPrefix
<1>3. QED
  BY <1>2, PackInvariant, PTL DEF PackSpec
=============================================================================
