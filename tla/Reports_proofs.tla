---------------------------- MODULE Reports_proofs ----------------------------
(***************************************************************************)
(* From the data to what is said of the results.  A run reads what its     *)
(* configuration names, what its manifest describes and what every run of  *)
(* the same sample reads: for any number of processes, samplings and       *)
(* directories, whatever fails and is damaged.  Its reports add up to what *)
(* was spent and done, and its rows are what the analysis accepts.  And    *)
(* what the analysis says of several runs: its comparisons are of the      *)
(* judgments that were published, and what it calls dominated is so by a   *)
(* run on the frontier.                                                    *)
(***************************************************************************)
EXTENDS DatasetCache, ScoreReports, Analysis, Sums, TLAPS

Assumed == RequestAssumption

-----------------------------------------------------------------------------
(* The inductive invariant. *)

\* What a file holds that is as it was declared.
Right(r) == [of |-> samplingOf[r], from |-> "right"]
WholeFile(r) ==
    IF samplingOf[r] = "all" THEN source[Dir(r)] = {"right"}
    ELSE sampled[Dir(r)] = {Right(r)}

\* A process goes on from a source it has found or published to be right.
Sourced(r) ==
    /\ doing[r] \in {"sample", "hash", "record"} => seen[r] = {"right"}
    /\ doing[r] = "sample" => samplingOf[r] # "all"

\* Only a run reads, and only a run that is done has its manifest.
Running(r) ==
    /\ doing[r] \in {"load", "read", "copy"} => r \in Runs
    /\ copied[r] # {} => doing[r] = "done" /\ r \in Runs

\* The configuration names the file as it was declared, and so it was whenever
\* it was hashed or read.
Named(r) ==
    /\ config[r] \in {{}, {Right(r)}}
    /\ doing[r] \in {"hash", "read"} => WholeFile(r)
    /\ doing[r] \in {"record", "read", "copy"} => config[r] = {Right(r)}
Read(r) ==
    /\ data[r] # {} => data[r] = {Right(r)} /\ config[r] = {Right(r)}
    /\ doing[r] = "copy" \/ copied[r] # {} => data[r] = {Right(r)}

\* The manifest of a directory that is named for a sampling.
Described(s) ==
    [sampling |-> s, source |-> {"right"}, materialized |-> {[of |-> s, from |-> "right"]}]
Recorded ==
    ~ byHand =>
        /\ \A s \in Samplings : \A m \in recorded[s] : m = Described(s)
        /\ \A r \in Requests : \A m \in copied[r] : m = Described(samplingOf[r])

RunInv(r) == Sourced(r) /\ Running(r) /\ (Undisturbed(r) => Named(r) /\ Read(r))

IInv ==
    /\ TypeOK /\ SourceIsWhole /\ Recorded
    /\ \A r \in Requests : RunInv(r)

-----------------------------------------------------------------------------
(* Types. *)

LEMMA OneIs ==
    ASSUME NEW S
    PROVE  {} \in OneOf(S) /\ \A x \in S : {x} \in OneOf(S)
BY DEF OneOf

LEMMA OneOfIs ==
    ASSUME NEW S, NEW T \in OneOf(S), T # {}
    PROVE  \E x \in S : T = {x}
BY DEF OneOf

LEMMA Directories ==
    ASSUME Assumed, TypeOK, NEW r \in Requests
    PROVE  Dir(r) \in Dirs /\ samplingOf[r] \in Samplings
BY DEF Assumed, RequestAssumption, TypeOK, Dir, CacheKey, Dirs

LEMMA Contents ==
    ASSUME Assumed, TypeOK, NEW r \in Requests
    PROVE  Right(r) \in Files /\ Right(r).of = samplingOf[r] /\ Right(r).from = "right"
BY Directories DEF Right, Files, Sources

LEMMA SourceFile ==
    ASSUME Assumed, TypeOK, NEW r \in Requests, NEW s \in Sources, samplingOf[r] = "all",
           source[Dir(r)] = {s}
    PROVE  File(r) = {[of |-> "all", from |-> s]}
<1>1. File(r) = {[of |-> "all", from |-> x] : x \in {s}}
  BY DEF File
<1>2. {[of |-> "all", from |-> x] : x \in {s}} = {[of |-> "all", from |-> s]}
  BY Zenon
<1>3. QED
  BY <1>1, <1>2

LEMMA FileTypes ==
    ASSUME Assumed, TypeOK, NEW r \in Requests
    PROVE  /\ File(r) \in OneOf(Files)
           /\ WholeFile(r) => File(r) = {Right(r)}
           /\ File(r) = {Right(r)} => WholeFile(r)
<1>1. Dir(r) \in Dirs
  BY Directories
<1>2. CASE samplingOf[r] = "all"
  <2>1. source[Dir(r)] \in OneOf(Sources)
    BY <1>1 DEF TypeOK
  <2>2. CASE source[Dir(r)] = {}
    <3>1. File(r) = {}
      BY <1>2, <2>2 DEF File
    <3>2. QED
      BY <1>2, <2>2, <3>1, OneIs DEF WholeFile
  <2>3. CASE source[Dir(r)] # {}
    <3>1. PICK s \in Sources : source[Dir(r)] = {s}
      BY <2>1, <2>3, OneOfIs
    <3>2. File(r) = {[of |-> "all", from |-> s]}
      BY <1>2, <3>1, SourceFile
    <3>3. [of |-> "all", from |-> s] \in Files
      BY Assumed DEF Files, Assumed, RequestAssumption
    <3>4. File(r) = {Right(r)} <=> s = "right"
      <4>1. [of |-> "all", from |-> s] = Right(r) <=> s = "right"
        BY <1>2 DEF Right
      <4>2. QED
        BY <3>2, <4>1
    <3>5. WholeFile(r) <=> s = "right"
      BY <1>2, <3>1 DEF WholeFile
    <3>6. QED
      BY <3>2, <3>3, <3>4, <3>5, OneIs
  <2>4. QED
    BY <2>2, <2>3
<1>3. CASE samplingOf[r] # "all"
  BY <1>1, <1>3 DEF File, WholeFile, TypeOK
<1>4. QED
  BY <1>2, <1>3

\* Who does a step.
Act(r) == Process(r) \/ DownloadFails(r) \/ Kill(r)

LEMMA Steps ==
    ASSUME [Next]_vars
    PROVE  \/ UNCHANGED vars
           \/ \E r \in Requests : Act(r)
           \/ \E d \in Dirs : RemoveSource(d)
           \/ \E d \in Dirs : Damage(d)
BY DEF Next, Act

LEMMA SettingsStay ==
    ASSUME [Next]_vars
    PROVE  /\ UNCHANGED settings
           /\ \A r : Dir(r)' = Dir(r) /\ Right(r)' = Right(r)
                     /\ Undisturbed(r)' = Undisturbed(r)
<1>1. UNCHANGED settings
  <2>1. ASSUME NEW r \in Requests, Act(r) PROVE UNCHANGED settings
    BY <2>1 DEF Act, Process, DownloadFails, Kill, Ensure, Download, Publish, DrawSample,
          Hash, Record, Validate, Check, Load, Copy, Again, PrepareAgain
  <2>2. ASSUME NEW d \in Dirs, RemoveSource(d) \/ Damage(d) PROVE UNCHANGED settings
    BY <2>2 DEF RemoveSource, Damage
  <2>3. CASE UNCHANGED vars
    BY <2>3 DEF vars
  <2>4. QED
    BY <2>1, <2>2, <2>3, Steps
<1>2. UNCHANGED <<samplingOf, byHand>>
  BY <1>1 DEF settings
<1>3. \A r : Dir(r)' = Dir(r) /\ Right(r)' = Right(r)
  BY <1>2 DEF Dir, CacheKey, Right
<1>4. \A r : Undisturbed(r)' = Undisturbed(r)
  BY <1>2, <1>3 DEF Undisturbed
<1>5. QED
  BY <1>1, <1>3, <1>4

-----------------------------------------------------------------------------
(* What an action of one process leaves alone. *)

LEMMA Writers ==
    ASSUME NEW q \in Requests, Act(q)
    PROVE  /\ UNCHANGED <<source, damaged>> \/ Publish(q)
           /\ UNCHANGED sampled \/ DrawSample(q)
           /\ UNCHANGED recorded \/ Record(q)
           /\ UNCHANGED seen \/ Ensure(q) \/ Publish(q)
           /\ UNCHANGED config \/ Hash(q)
           /\ UNCHANGED data \/ Load(q) \/ Again(q)
           /\ UNCHANGED copied \/ Copy(q) \/ Again(q)
<1>1. CASE Process(q)
  BY <1>1 DEF Process, Ensure, Download, Publish, DrawSample, Hash, Record, Validate, Check,
        Load, Copy, Again, PrepareAgain, files, request
<1>2. CASE DownloadFails(q) \/ Kill(q)
  BY <1>2 DEF DownloadFails, Kill, files, request
<1>3. QED
  BY <1>1, <1>2 DEF Act

LEMMA OthersStay ==
    ASSUME Assumed, TypeOK, NEW q \in Requests, Act(q), NEW r \in Requests, r # q
    PROVE  /\ doing'[r] = doing[r] /\ seen'[r] = seen[r] /\ config'[r] = config[r]
           /\ data'[r] = data[r] /\ copied'[r] = copied[r]
<1>1. doing'[r] = doing[r]
  BY DEF Act, Process, Goto, DownloadFails, Kill, Ensure, Download, Publish, DrawSample,
        Hash, Record, Validate, Check, Load, Copy, Again, PrepareAgain, TypeOK
<1>2. seen'[r] = seen[r]
  BY Writers DEF Ensure, Publish, TypeOK
<1>3. config'[r] = config[r]
  BY Writers DEF Hash, TypeOK
<1>4. data'[r] = data[r]
  BY Writers DEF Load, Again, TypeOK
<1>5. copied'[r] = copied[r]
  BY Writers DEF Copy, Again, TypeOK
<1>6. QED
  BY <1>1, <1>2, <1>3, <1>4, <1>5

-----------------------------------------------------------------------------
(* Types are kept. *)

LEMMA ManifestType ==
    ASSUME Assumed, TypeOK, NEW r \in Requests
    PROVE  Manifest(r) \in Manifests
BY Directories DEF Manifest, Manifests, TypeOK

LEMMA TypeStep ==
    ASSUME Assumed, TypeOK, [Next]_vars
    PROVE  TypeOK'
<1>1. CASE UNCHANGED vars
  BY <1>1 DEF vars, settings, files, request, TypeOK
<1>2. ASSUME NEW d \in Dirs, RemoveSource(d)
      PROVE  TypeOK'
  <2>1. {} \in OneOf(Sources)
    BY OneIs
  <2>2. QED
    BY <1>2, <2>1 DEF RemoveSource, settings, request, TypeOK
<1>3. ASSUME NEW d \in Dirs, Damage(d)
      PROVE  TypeOK'
  <2>1. {"cut"} \in OneOf(Sources)
    BY OneIs DEF Sources
  <2>2. sampled[d] # {} => {[s EXCEPT !.from = "cut"] : s \in sampled[d]} \in OneOf(Files)
    <3>1. SUFFICES ASSUME sampled[d] # {}
                   PROVE  {[s EXCEPT !.from = "cut"] : s \in sampled[d]} \in OneOf(Files)
      OBVIOUS
    <3>2. PICK f \in Files : sampled[d] = {f}
      BY <3>1, OneOfIs DEF TypeOK
    <3>3. {[s EXCEPT !.from = "cut"] : s \in {f}} = {[f EXCEPT !.from = "cut"]}
      BY Zenon
    <3>4. [f EXCEPT !.from = "cut"] \in Files
      BY DEF Files, Sources
    <3>5. QED
      BY <3>2, <3>3, <3>4, OneIs
  <2>3. faults' \in 0 .. MaxFaults
    BY <1>3 DEF Damage, Fault, Assumed, RequestAssumption, TypeOK
  <2>4. UNCHANGED <<samplingOf, byHand, recorded, doing, temp, seen, config, data, copied>>
    BY <1>3 DEF Damage, settings, request
  <2>5. /\ source' \in [Dirs -> OneOf(Sources)] /\ sampled' \in [Dirs -> OneOf(Files)]
        /\ damaged' \subseteq Dirs
    BY <1>3, <2>1, <2>2 DEF Damage, TypeOK
  <2>6. QED
    BY <2>3, <2>4, <2>5 DEF TypeOK
<1>4. ASSUME NEW q \in Requests, Act(q)
      PROVE  TypeOK'
  <2>1. Dir(q) \in Dirs /\ {} \in OneOf(Sources) /\ {} \in OneOf(Files) /\ {} \in OneOf(Manifests)
        /\ {"right"} \in OneOf(Sources) /\ {"cut"} \in OneOf(Sources)
    BY Directories, OneIs DEF Sources
  <2>2. samplingOf' \in Declarations /\ byHand' \in BOOLEAN
    BY SettingsStay, <1>4 DEF settings, TypeOK, Next, Act
  <2>3. source' \in [Dirs -> OneOf(Sources)] /\ damaged' \subseteq Dirs
    BY <1>4, <2>1, Writers DEF Publish, TypeOK
  <2>4. sampled' \in [Dirs -> OneOf(Files)]
    <3>1. CASE UNCHANGED sampled
      BY <3>1 DEF TypeOK
    <3>2. CASE DrawSample(q)
      <4>1. {[of |-> samplingOf[q], from |-> "right"]} \in OneOf(Files)
        BY Contents, OneIs DEF Right
      <4>2. QED
        BY <2>1, <3>2, <4>1 DEF DrawSample, TypeOK
    <3>3. QED
      BY <1>4, <3>1, <3>2, Writers
  <2>5. recorded' \in [Dirs -> OneOf(Manifests)]
    <3>1. {Manifest(q)} \in OneOf(Manifests)
      BY ManifestType, OneIs
    <3>2. QED
      BY <1>4, <2>1, <3>1, Writers DEF Record, TypeOK
  <2>6. doing' \in [Requests -> {"start", "download", "publish", "sample", "hash", "record",
                       "resolved", "load", "read", "copy", "done", "failed"}]
    BY <1>4 DEF Act, Process, Goto, DownloadFails, Kill, Ensure, Download, Publish, DrawSample,
          Hash, Record, Validate, Check, Load, Copy, Again, PrepareAgain, WithSource, TypeOK
  <2>7. temp' \in [Requests -> OneOf(Sources)]
    BY <1>4, <2>1 DEF Act, Process, DownloadFails, Kill, Ensure, Download, Publish, DrawSample,
          Hash, Record, Validate, Check, Load, Copy, Again, PrepareAgain, request, TypeOK
  <2>8. seen' \in [Requests -> OneOf(Sources)]
    BY <1>4, <2>1, Writers DEF Ensure, Publish, TypeOK
  <2>9. config' \in [Requests -> OneOf(Files)] /\ data' \in [Requests -> OneOf(Files)]
    BY <1>4, <2>1, Writers, FileTypes DEF Hash, Load, Again, TypeOK
  <2>10. copied' \in [Requests -> OneOf(Manifests)]
    BY <1>4, <2>1, Writers DEF Copy, Again, TypeOK
  <2>11. faults' \in 0 .. MaxFaults
    BY <1>4 DEF Act, Process, Fault, DownloadFails, Kill, Ensure, Download, Publish, DrawSample,
          Hash, Record, Validate, Check, Load, Copy, Again, PrepareAgain, Assumed,
          RequestAssumption, TypeOK
  <2>12. QED
    BY <2>2, <2>3, <2>4, <2>5, <2>6, <2>7, <2>8, <2>9, <2>10, <2>11 DEF TypeOK
<1>5. QED
  BY <1>1, <1>2, <1>3, <1>4, Steps

-----------------------------------------------------------------------------
(* The files. *)

LEMMA SourceStep ==
    ASSUME Assumed, TypeOK, SourceIsWhole, [Next]_vars
    PROVE  SourceIsWhole'
<1>1. CASE UNCHANGED vars
  BY <1>1 DEF vars, files, SourceIsWhole
<1>2. ASSUME NEW d \in Dirs, RemoveSource(d)
      PROVE  SourceIsWhole'
  BY <1>2 DEF RemoveSource, SourceIsWhole, TypeOK
<1>3. ASSUME NEW d \in Dirs, Damage(d)
      PROVE  SourceIsWhole'
  BY <1>3 DEF Damage, SourceIsWhole, TypeOK
<1>4. ASSUME NEW q \in Requests, Act(q)
      PROVE  SourceIsWhole'
  <2>1. CASE UNCHANGED <<source, damaged>>
    BY <2>1 DEF SourceIsWhole
  <2>2. CASE Publish(q)
    BY <2>2, Directories DEF Publish, SourceIsWhole, TypeOK
  <2>3. QED
    BY <1>4, <2>1, <2>2, Writers
<1>5. QED
  BY <1>1, <1>2, <1>3, <1>4, Steps

\* Whoever publishes or samples puts there what is there, and what is about to be
\* hashed or read is not damaged.
LEMMA WholeFileStays ==
    ASSUME Assumed, IInv, [Next]_vars, NEW r \in Requests, Undisturbed(r), WholeFile(r),
           doing[r] \in {"hash", "read"}
    PROVE  WholeFile(r)'
<1>1. UNCHANGED <<samplingOf, byHand>> /\ Dir(r)' = Dir(r) /\ Right(r)' = Right(r)
  BY SettingsStay DEF settings
<1>2. TypeOK /\ Dir(r) \in Dirs
  BY Directories DEF IInv
<1>3. CASE UNCHANGED vars
  BY <1>1, <1>3 DEF vars, files, WholeFile
<1>4. ASSUME NEW q \in Requests, Act(q)
      PROVE  WholeFile(r)'
  <2>1. CASE samplingOf[r] = "all"
    <3>1. UNCHANGED source \/ Publish(q)
      BY <1>4, Writers
    <3>2. source[Dir(r)] = {"right"}
      BY <2>1 DEF WholeFile
    <3>3. source'[Dir(r)] = {"right"}
      BY <1>2, <3>1, <3>2 DEF Publish, TypeOK
    <3>4. QED
      BY <1>1, <2>1, <3>3 DEF WholeFile
  <2>2. CASE samplingOf[r] # "all"
    <3>1. sampled[Dir(r)] = {Right(r)}
      BY <2>2 DEF WholeFile
    <3>2. CASE UNCHANGED sampled
      BY <1>1, <2>2, <3>1, <3>2 DEF WholeFile
    <3>3. CASE DrawSample(q)
      <4>1. samplingOf[q] # "all"
        BY <3>3 DEF DrawSample, Goto, IInv, RunInv, Sourced
      <4>2. Dir(q) = Dir(r) => samplingOf[q] = samplingOf[r]
        BY <2>2, <4>1 DEF Undisturbed
      <4>3. Dir(q) = Dir(r) => [of |-> samplingOf[q], from |-> "right"] = Right(r)
        BY <4>2 DEF Right
      <4>4. sampled'[Dir(r)] = {Right(r)}
        BY <1>2, <3>1, <3>3, <4>3 DEF DrawSample, TypeOK
      <4>5. QED
        BY <1>1, <2>2, <4>4 DEF WholeFile
    <3>4. QED
      BY <1>4, <3>2, <3>3, Writers
  <2>3. QED
    BY <2>1, <2>2
<1>5. ASSUME NEW d \in Dirs, RemoveSource(d)
      PROVE  WholeFile(r)'
  <2>1. samplingOf[r] = "all" => d # Dir(r)
    BY <1>5 DEF RemoveSource, WholeFile
  <2>2. QED
    BY <1>1, <1>2, <1>5, <2>1 DEF RemoveSource, WholeFile, TypeOK
<1>6. ASSUME NEW d \in Dirs, Damage(d)
      PROVE  WholeFile(r)'
  <2>1. d # Dir(r)
    BY <1>6 DEF Damage
  <2>2. source'[Dir(r)] = source[Dir(r)] /\ sampled'[Dir(r)] = sampled[Dir(r)]
    BY <1>2, <1>6, <2>1 DEF Damage, TypeOK
  <2>3. QED
    BY <1>1, <2>2 DEF WholeFile
<1>7. QED
  BY <1>3, <1>4, <1>5, <1>6, Steps

-----------------------------------------------------------------------------
(* The processes. *)

\* A step of another process, of the operator or of chance.
LEMMA OtherRuns ==
    ASSUME Assumed, IInv, [Next]_vars, NEW r \in Requests,
           doing'[r] = doing[r], seen'[r] = seen[r], config'[r] = config[r],
           data'[r] = data[r], copied'[r] = copied[r]
    PROVE  RunInv(r)'
<1>1. RunInv(r) /\ UNCHANGED <<samplingOf, byHand>> /\ Right(r)' = Right(r)
      /\ Undisturbed(r)' = Undisturbed(r)
  BY SettingsStay DEF IInv, settings
<1>2. Sourced(r)' /\ Running(r)'
  BY <1>1 DEF RunInv, Sourced, Running
<1>3. ASSUME Undisturbed(r) PROVE Named(r)' /\ Read(r)'
  <2>1. Named(r) /\ Read(r)
    BY <1>1, <1>3 DEF RunInv
  <2>2. doing[r] \in {"hash", "read"} => WholeFile(r)'
    BY <1>3, <2>1, WholeFileStays DEF Named
  <2>3. QED
    BY <1>1, <2>1, <2>2 DEF Named, Read
<1>4. QED
  BY <1>1, <1>2, <1>3 DEF RunInv

\* With a source that is right, a request without a sampling has its file.
LEMMA WithSourceIs ==
    ASSUME NEW r \in Requests, source[Dir(r)] = {"right"}
    PROVE  /\ samplingOf[r] = "all" => WholeFile(r)
           /\ \/ WithSource(r) = "hash" /\ samplingOf[r] = "all"
              \/ WithSource(r) = "sample" /\ samplingOf[r] # "all"
BY DEF WholeFile, WithSource

\* A step of a process with its own state.
LEMMA OwnStep ==
    ASSUME Assumed, IInv, [Next]_vars, NEW r \in Requests, Act(r)
    PROVE  RunInv(r)'
<1>1. /\ RunInv(r) /\ TypeOK /\ UNCHANGED <<samplingOf, byHand>> /\ Right(r)' = Right(r)
      /\ Undisturbed(r)' = Undisturbed(r) /\ Dir(r)' = Dir(r)
  BY SettingsStay DEF IInv, settings
<1>2. Dir(r) \in Dirs
  BY <1>1, Directories
<1>3. CASE Ensure(r)
  <2>1. /\ seen'[r] = source[Dir(r)] /\ UNCHANGED <<source, sampled, config, data, copied>>
        /\ \/ doing'[r] = WithSource(r) /\ source[Dir(r)] = {"right"}
           \/ doing'[r] \in {"download", "failed"}
        /\ doing[r] = "start"
    BY <1>1, <1>3 DEF Ensure, files, TypeOK
  <2>2. CASE doing'[r] \in {"download", "failed"}
    BY <1>1, <2>1, <2>2 DEF RunInv, Sourced, Running, Named, Read
  <2>3. CASE doing'[r] = WithSource(r) /\ source[Dir(r)] = {"right"}
    <3>1. \/ doing'[r] = "hash" /\ samplingOf[r] = "all" /\ WholeFile(r)
          \/ doing'[r] = "sample" /\ samplingOf[r] # "all"
      BY <2>3, WithSourceIs
    <3>2. WholeFile(r)' = WholeFile(r)
      BY <1>1, <2>1 DEF WholeFile
    <3>3. Sourced(r)' /\ Running(r)'
      BY <1>1, <2>1, <2>3, <3>1 DEF RunInv, Sourced, Running
    <3>4. Undisturbed(r) => Named(r)' /\ Read(r)'
      BY <1>1, <2>1, <3>1, <3>2 DEF RunInv, Running, Named, Read
    <3>5. QED
      BY <1>1, <3>3, <3>4 DEF RunInv
  <2>4. QED
    BY <2>1, <2>2, <2>3
<1>4. CASE Publish(r)
  <2>1. /\ UNCHANGED <<sampled, config, data, copied>> /\ doing[r] = "publish"
        /\ \/ /\ doing'[r] = WithSource(r) /\ seen'[r] = {"right"}
              /\ source'[Dir(r)] = {"right"}
           \/ doing'[r] = "failed"
    BY <1>1, <1>2, <1>4 DEF Publish, TypeOK
  <2>2. CASE doing'[r] = "failed"
    BY <1>1, <2>1, <2>2 DEF RunInv, Sourced, Running, Named, Read
  <2>3. CASE doing'[r] = WithSource(r) /\ seen'[r] = {"right"} /\ source'[Dir(r)] = {"right"}
    <3>1. \/ doing'[r] = "hash" /\ samplingOf[r] = "all"
          \/ doing'[r] = "sample" /\ samplingOf[r] # "all"
      BY <2>3 DEF WithSource
    <3>2. samplingOf[r] = "all" => WholeFile(r)'
      BY <1>1, <2>3 DEF WholeFile
    <3>3. Sourced(r)' /\ Running(r)'
      BY <1>1, <2>1, <2>3, <3>1 DEF RunInv, Sourced, Running
    <3>4. Undisturbed(r) => Named(r)' /\ Read(r)'
      BY <1>1, <2>1, <3>1, <3>2 DEF RunInv, Running, Named, Read
    <3>5. QED
      BY <1>1, <3>3, <3>4 DEF RunInv
  <2>4. QED
    BY <2>1, <2>2, <2>3
<1>5. CASE DrawSample(r)
  <2>1. /\ UNCHANGED <<source, seen, config, data, copied>> /\ doing[r] = "sample"
        /\ \/ /\ doing'[r] = "hash"
              /\ sampled'[Dir(r)] = {[of |-> samplingOf[r], from |-> "right"]}
           \/ doing'[r] = "failed"
    BY <1>1, <1>2, <1>5 DEF DrawSample, Goto, request, TypeOK
  <2>2. doing'[r] = "hash" => WholeFile(r)'
    BY <1>1, <2>1 DEF WholeFile, Right, RunInv, Sourced
  <2>3. Sourced(r)' /\ Running(r)'
    BY <1>1, <2>1 DEF RunInv, Sourced, Running
  <2>4. Undisturbed(r) => Named(r)' /\ Read(r)'
    BY <1>1, <2>1, <2>2 DEF RunInv, Running, Named, Read
  <2>5. QED
    BY <1>1, <2>3, <2>4 DEF RunInv
<1>6. CASE Hash(r)
  <2>1. /\ UNCHANGED <<seen, data, copied>> /\ doing[r] = "hash" /\ config'[r] = File(r)
        /\ doing'[r] \in {"failed", "record"}
    BY <1>1, <1>6 DEF Hash, Goto, TypeOK
  <2>2. Sourced(r)' /\ Running(r)'
    BY <1>1, <2>1 DEF RunInv, Sourced, Running
  <2>3. ASSUME Undisturbed(r) PROVE Named(r)' /\ Read(r)'
    <3>1. File(r) = {Right(r)}
      BY <1>1, <2>1, <2>3, FileTypes DEF RunInv, Named
    <3>2. QED
      BY <1>1, <2>1, <2>3, <3>1 DEF RunInv, Running, Named, Read
  <2>4. QED
    BY <1>1, <2>2, <2>3 DEF RunInv
<1>7. CASE Check(r)
  <2>1. /\ UNCHANGED <<source, sampled, seen, config, data, copied>> /\ doing[r] = "load"
        /\ \/ doing'[r] = "failed"
           \/ doing'[r] = "read" /\ File(r) # {} /\ File(r) = config[r]
    BY <1>1, <1>7 DEF Check, Goto, Verified, files, request, TypeOK
  <2>2. Sourced(r)' /\ Running(r)'
    BY <1>1, <2>1 DEF RunInv, Sourced, Running
  <2>3. ASSUME Undisturbed(r) PROVE Named(r)' /\ Read(r)'
    <3>1. doing'[r] = "read" => config[r] = {Right(r)} /\ WholeFile(r)
      BY <1>1, <2>1, <2>3, FileTypes DEF RunInv, Named
    <3>2. WholeFile(r)' = WholeFile(r)
      BY <1>1, <2>1 DEF WholeFile
    <3>3. QED
      BY <1>1, <2>1, <2>3, <3>1, <3>2 DEF RunInv, Running, Named, Read
  <2>4. QED
    BY <1>1, <2>2, <2>3 DEF RunInv
<1>8. CASE Load(r)
  <2>1. /\ UNCHANGED <<seen, config, copied>> /\ doing[r] = "read" /\ data'[r] = File(r)
        /\ doing'[r] \in {"failed", "copy"}
    BY <1>1, <1>8 DEF Load, Goto, request, TypeOK
  <2>2. Sourced(r)' /\ Running(r)'
    BY <1>1, <2>1 DEF RunInv, Sourced, Running
  <2>3. ASSUME Undisturbed(r) PROVE Named(r)' /\ Read(r)'
    <3>1. File(r) = {Right(r)} /\ config[r] = {Right(r)}
      BY <1>1, <2>1, <2>3, FileTypes DEF RunInv, Named
    <3>2. QED
      BY <1>1, <2>1, <2>3, <3>1 DEF RunInv, Running, Named, Read
  <2>4. QED
    BY <1>1, <2>2, <2>3 DEF RunInv
<1>9. CASE Copy(r)
  <2>1. /\ UNCHANGED <<seen, config, data>> /\ doing[r] = "copy"
        /\ \/ doing'[r] = "failed" /\ copied'[r] = {}
           \/ doing'[r] = "done"
    BY <1>1, <1>9 DEF Copy, Goto, request, TypeOK
  <2>2. Sourced(r)' /\ Running(r)'
    BY <1>1, <2>1 DEF RunInv, Sourced, Running
  <2>3. Undisturbed(r) => Named(r)' /\ Read(r)'
    BY <1>1, <2>1 DEF RunInv, Running, Named, Read
  <2>4. QED
    BY <1>1, <2>2, <2>3 DEF RunInv
<1>10. CASE Again(r)
  <2>1. /\ UNCHANGED <<seen, config>> /\ doing'[r] \in {"resolved", "start"}
        /\ data'[r] = {} /\ copied'[r] = {}
    BY <1>1, <1>10 DEF Again, Goto, request, TypeOK
  <2>2. QED
    BY <1>1, <2>1 DEF RunInv, Sourced, Running, Named, Read
<1>11. CASE Record(r)
  <2>1. /\ UNCHANGED <<seen, config, data, copied>> /\ doing[r] = "record"
        /\ doing'[r] = "resolved"
    BY <1>1, <1>11 DEF Record, Goto, request, TypeOK
  <2>2. QED
    BY <1>1, <2>1 DEF RunInv, Sourced, Running, Named, Read
<1>12. CASE Validate(r)
  <2>1. /\ UNCHANGED <<seen, config, data, copied>> /\ doing[r] = "resolved"
        /\ \/ doing'[r] \in {"done", "failed"}
           \/ doing'[r] = "load" /\ r \in Runs
    BY <1>1, <1>12 DEF Validate, Goto, request, TypeOK
  <2>2. QED
    BY <1>1, <2>1 DEF RunInv, Sourced, Running, Named, Read
<1>13. CASE Download(r) \/ DownloadFails(r) \/ PrepareAgain(r) \/ Kill(r)
  <2>1. /\ UNCHANGED <<seen, config, data, copied>>
        /\ doing'[r] \in {"publish", "failed", "start"}
        /\ doing[r] # "done" \/ r \notin Runs
    BY <1>1, <1>13 DEF Download, DownloadFails, PrepareAgain, Kill, Goto, request, TypeOK
  <2>2. QED
    BY <1>1, <2>1 DEF RunInv, Sourced, Running, Named, Read
<1>14. QED
  BY <1>3, <1>4, <1>5, <1>6, <1>7, <1>8, <1>9, <1>10, <1>11, <1>12, <1>13 DEF Act, Process

LEMMA RunsStep ==
    ASSUME Assumed, IInv, [Next]_vars, NEW r \in Requests
    PROVE  RunInv(r)'
<1>1. CASE UNCHANGED vars
  BY <1>1, OtherRuns DEF vars, request
<1>2. ASSUME NEW d \in Dirs, RemoveSource(d) \/ Damage(d)
      PROVE  RunInv(r)'
  BY <1>2, OtherRuns DEF RemoveSource, Damage, request
<1>3. ASSUME NEW q \in Requests, Act(q)
      PROVE  RunInv(r)'
  <2>1. CASE q = r
    BY <1>3, <2>1, OwnStep
  <2>2. CASE q # r
    BY <1>3, <2>2, OthersStay, OtherRuns DEF IInv
  <2>3. QED
    BY <2>1, <2>2
<1>4. QED
  BY <1>1, <1>2, <1>3, Steps

\* A directory named for a sampling is used for that only.
LEMMA OwnDirectory ==
    ASSUME ~ byHand, NEW r \in Requests
    PROVE  Dir(r) = samplingOf[r] /\ Undisturbed(r)
BY DEF Dir, CacheKey, Undisturbed

LEMMA RecordedStep ==
    ASSUME Assumed, IInv, [Next]_vars
    PROVE  Recorded'
<1>1. SUFFICES ASSUME ~ byHand
               PROVE  /\ \A s \in Samplings : \A m \in recorded'[s] : m = Described(s)
                      /\ \A r \in Requests : \A m \in copied'[r] : m = Described(samplingOf[r])
  BY SettingsStay DEF Recorded, settings, Described
<1>2. /\ TypeOK /\ Samplings \subseteq Dirs
      /\ \A s \in Samplings : \A m \in recorded[s] : m = Described(s)
      /\ \A r \in Requests : \A m \in copied[r] : m = Described(samplingOf[r])
  BY <1>1 DEF IInv, Recorded, Dirs
<1>3. CASE UNCHANGED <<recorded, copied>>
  BY <1>2, <1>3
<1>4. ASSUME NEW q \in Requests, Record(q)
      PROVE  /\ \A s \in Samplings : \A m \in recorded'[s] : m = Described(s)
             /\ UNCHANGED copied
  <2>1. /\ doing[q] = "record" /\ recorded' = [recorded EXCEPT ![Dir(q)] = {Manifest(q)}]
        /\ UNCHANGED copied
    BY <1>4 DEF Record, Goto
  <2>2. seen[q] = {"right"} /\ config[q] = {Right(q)} /\ Dir(q) = samplingOf[q]
    BY <1>1, <2>1, OwnDirectory DEF IInv, RunInv, Sourced, Named
  <2>3. Manifest(q) = Described(samplingOf[q])
    BY <2>2 DEF Manifest, Described, Right
  <2>4. \A s \in Samplings : \/ recorded'[s] = recorded[s]
                             \/ recorded'[s] = {Described(s)}
    BY <1>2, <2>1, <2>2, <2>3 DEF TypeOK
  <2>5. QED
    BY <1>2, <2>1, <2>4
<1>5. ASSUME NEW q \in Requests, Copy(q) \/ Again(q)
      PROVE  /\ \A r \in Requests : \A m \in copied'[r] : m = Described(samplingOf[r])
             /\ UNCHANGED recorded
  <2>1. UNCHANGED recorded /\ copied'[q] \in {{}, recorded[Dir(q)]}
        /\ \A r \in Requests \ {q} : copied'[r] = copied[r]
    BY <1>2, <1>5 DEF Copy, Again, files, TypeOK
  <2>2. Dir(q) = samplingOf[q] /\ samplingOf[q] \in Samplings
    BY <1>1, <1>2, OwnDirectory, Directories
  <2>3. QED
    BY <1>2, <2>1, <2>2
<1>6. CASE \E q \in Requests : Act(q)
  BY <1>2, <1>3, <1>4, <1>5, <1>6, Writers
<1>7. CASE ~ \E q \in Requests : Act(q)
  <2>1. UNCHANGED <<recorded, copied>>
    BY <1>7, Steps DEF vars, files, RemoveSource, Damage
  <2>2. QED
    BY <1>3, <2>1
<1>8. QED
  BY <1>6, <1>7

-----------------------------------------------------------------------------
(* The invariant and what it implies. *)

LEMMA Initial ==
    ASSUME Assumed, Init
    PROVE  IInv
<1>1. /\ source = [d \in Dirs |-> {}] /\ sampled = [d \in Dirs |-> {}]
      /\ recorded = [d \in Dirs |-> {}] /\ doing = [r \in Requests |-> "start"]
      /\ temp = [r \in Requests |-> {}] /\ seen = [r \in Requests |-> {}]
      /\ config = [r \in Requests |-> {}] /\ data = [r \in Requests |-> {}]
      /\ copied = [r \in Requests |-> {}] /\ damaged = {} /\ faults = 0
      /\ samplingOf \in Declarations /\ byHand \in BOOLEAN
  BY DEF Init
<1>2. TypeOK
  BY <1>1, OneIs DEF TypeOK, Assumed, RequestAssumption
<1>3. SourceIsWhole
  BY <1>1 DEF SourceIsWhole
<1>4. Recorded
  BY <1>1 DEF Recorded, Dirs
<1>5. \A r \in Requests : RunInv(r)
  BY <1>1 DEF RunInv, Sourced, Running, Named, Read
<1>6. QED
  BY <1>2, <1>3, <1>4, <1>5 DEF IInv

LEMMA Invariant ==
    ASSUME Assumed
    PROVE  Spec => []IInv
<1>1. Init => IInv
  BY Initial
<1>2. IInv /\ [Next]_vars => IInv'
  BY TypeStep, SourceStep, RecordedStep, RunsStep DEF IInv
<1>3. QED
  BY <1>1, <1>2, PTL DEF Spec

\* The variables of the cache keep their types; of a file or a manifest there is
\* at most one in each place.
THEOREM TypeCorrect == ASSUME Assumed PROVE Spec => []TypeOK
<1>1. IInv => TypeOK
  BY DEF IInv
<1>2. QED
  BY <1>1, Invariant, PTL

\* What a run reads is what its configuration names, its manifest describes it,
\* runs of one sample read the same, and a source that was not damaged is whole:
\* materialize_dataset_record and the loaders of the benchmarks, run by any number
\* of processes at once.
THEOREM ReadAsNamed == ASSUME Assumed PROVE Spec => []ReadsWhatItNames
<1>1. ASSUME IInv PROVE ReadsWhatItNames
  <2>1. \A r \in Requests : Sourced(r) /\ Running(r) /\ (Undisturbed(r) => Named(r) /\ Read(r))
    BY <1>1 DEF IInv, RunInv
  <2>2. Runs \subseteq Requests
    BY DEF Assumed, RequestAssumption
  <2>3. SourceIsWhole
    BY <1>1 DEF IInv
  <2>4. DataIsAsNamed
    BY <2>1, <2>2 DEF DataIsAsNamed, Read
  <2>5. SameSampleSameData
    <3>1. ASSUME NEW q \in Runs, NEW r \in Runs, Undisturbed(q), Undisturbed(r),
                 data[q] # {}, data[r] # {}, samplingOf[q] = samplingOf[r]
          PROVE  data[q] = data[r]
      BY <2>1, <2>2, <3>1 DEF Read, Right
    <3>2. QED
      BY <3>1 DEF SameSampleSameData
  <2>6. ManifestDescribesData
    <3>1. ASSUME NEW r \in Runs, NEW m \in copied[r], ~ byHand
          PROVE  /\ m.sampling = samplingOf[r] /\ m.materialized = data[r]
                 /\ \A f \in data[r] : f.of = m.sampling /\ m.source = {f.from}
      <4>1. m = Described(samplingOf[r])
        BY <1>1, <2>2, <3>1 DEF IInv, Recorded
      <4>2. data[r] = {Right(r)}
        BY <2>1, <2>2, <3>1, OwnDirectory DEF Read
      <4>3. /\ m.sampling = samplingOf[r] /\ m.source = {"right"}
            /\ m.materialized = {Right(r)}
        BY <4>1 DEF Described, Right
      <4>4. Right(r).of = samplingOf[r] /\ Right(r).from = "right"
        BY DEF Right
      <4>5. QED
        BY <4>2, <4>3, <4>4
    <3>2. QED
      BY <3>1 DEF ManifestDescribesData
  <2>7. QED
    BY <2>3, <2>4, <2>5, <2>6 DEF ReadsWhatItNames
<1>2. QED
  BY <1>1, Invariant, PTL

-----------------------------------------------------------------------------
(* The reports of a run. *)

LEMMA Shares ==
    ASSUME NEW m \in Nat, NEW d \in Nat \ {0}
    PROVE  /\ m \div d \in Nat /\ m % d \in Nat /\ m % d < d
           /\ m = d * (m \div d) + (m % d)
  OBVIOUS

\* How many tokens the first of a unit's questions are given.
Given(tokens, questions, number) ==
    number * (tokens \div questions)
        + (IF number <= tokens % questions THEN number ELSE tokens % questions)

LEMMA GivenSoFar ==
    ASSUME NEW t \in Nat, NEW n \in Nat \ {0}, NEW a \in Nat
    PROVE  /\ Given(t, n, a) \in Nat /\ Given(t, n, 0) = 0 /\ Given(t, n, n) = t
           /\ Share(t, n, a + 1) \in Nat
           /\ Given(t, n, a + 1) = Given(t, n, a) + Share(t, n, a + 1)
<1> DEFINE q == t \div n
           r == t % n
<1>1. q \in Nat /\ r \in Nat /\ r < n /\ t = n * q + r
  BY Shares
<1>2. a * q \in Nat /\ (a + 1) * q = a * q + q /\ 0 * q = 0 /\ n * q \in Nat
  BY <1>1
<1>3. /\ Given(t, n, a) = a * q + (IF a <= r THEN a ELSE r)
      /\ Given(t, n, a + 1) = (a + 1) * q + (IF a + 1 <= r THEN a + 1 ELSE r)
      /\ Given(t, n, 0) = 0 * q + (IF 0 <= r THEN 0 ELSE r)
      /\ Given(t, n, n) = n * q + (IF n <= r THEN n ELSE r)
      /\ Share(t, n, a + 1) = q + (IF a + 1 <= r THEN 1 ELSE 0)
  BY DEF Given, Share
<1> HIDE DEF q, r
<1>4. QED
  BY <1>1, <1>2, <1>3

-----------------------------------------------------------------------------
\* What is taken of a sequence's elements grows with the sequence.
Mapped(f, s) == [k \in DOMAIN s |-> f[s[k]]]
Maps(f, X, Y) == f \in [X -> Y]       \* named, for the lemma to be instantiated

LEMMA MappedOfGrown ==
    ASSUME NEW f, NEW X, NEW Y, Maps(f, X, Y), NEW s \in Seq(X), NEW x \in X
    PROVE  Mapped(f, s) \in Seq(Y) /\ Mapped(f, Append(s, x)) = Append(Mapped(f, s), f[x])
<1> DEFINE g == [k \in DOMAIN s |-> f[s[k]]]
           h == [k \in DOMAIN Append(s, x) |-> f[Append(s, x)[k]]]
<1>1. Len(s) \in Nat /\ DOMAIN s = 1 .. Len(s) /\ \A k \in DOMAIN s : s[k] \in X
  OBVIOUS
<1>2. g \in [1 .. Len(s) -> Y]
  BY <1>1 DEF Maps
<1>3. g \in Seq(Y) /\ Len(g) = Len(s)
  BY <1>1, <1>2
<1>4. /\ DOMAIN Append(s, x) = 1 .. Len(s) + 1 /\ Append(s, x)[Len(s) + 1] = x
      /\ \A k \in 1 .. Len(s) : Append(s, x)[k] = s[k]
  BY <1>1
<1>5. f[x] \in Y
  BY DEF Maps
<1>6. /\ DOMAIN Append(g, f[x]) = 1 .. Len(s) + 1 /\ Append(g, f[x])[Len(s) + 1] = f[x]
      /\ \A k \in 1 .. Len(s) : Append(g, f[x])[k] = f[s[k]]
      /\ Append(g, f[x]) = [k \in 1 .. Len(s) + 1 |-> Append(g, f[x])[k]]
  <2>1. \A k \in 1 .. Len(s) : g[k] = f[s[k]]
    BY <1>1
  <2> HIDE DEF g
  <2>2. QED
    BY <1>1, <1>3, <1>5, <2>1
<1>7. h = [k \in 1 .. Len(s) + 1 |-> f[Append(s, x)[k]]]
  BY <1>4
<1>8. \A k \in 1 .. Len(s) + 1 : f[Append(s, x)[k]] = Append(g, f[x])[k]
  <2>1. \A k \in 1 .. Len(s) + 1 : k \in 1 .. Len(s) \/ k = Len(s) + 1
    BY <1>1
  <2> HIDE DEF g
  <2>2. QED
    BY <1>4, <1>6, <2>1
<1>9. h = Append(g, f[x])
  <2> HIDE DEF g, h
  <2>1. QED
    BY <1>6, <1>7, <1>8
<1>10. QED
  BY <1>3, <1>9 DEF Mapped

\* And so does the sum of the numbers taken.
Taken(f, s) == SumFunction(Mapped(f, s))

LEMMA TakenOfGrown ==
    ASSUME NEW X, NEW s \in Seq(X), NEW x \in X, NEW f \in [X -> Int]
    PROVE  Taken(f, s) \in Int /\ Taken(f, Append(s, x)) = Taken(f, s) + f[x]
<1>1. Mapped(f, s) \in Seq(Int) /\ Mapped(f, Append(s, x)) = Append(Mapped(f, s), f[x])
  <2>1. Maps(f, X, Int)
    BY DEF Maps
  <2>2. QED
    BY <2>1, MappedOfGrown
<1>2. f[x] \in Int
  OBVIOUS
<1>3. /\ SumFunction(Mapped(f, s)) \in Int
      /\ SumFunction(Append(Mapped(f, s), f[x])) = SumFunction(Mapped(f, s)) + f[x]
  BY <1>1, <1>2, SumOfAppended
<1>4. QED
  BY <1>1, <1>3 DEF Taken

-----------------------------------------------------------------------------
Fits(replies) == \A reply \in replies : reply \subseteq Usages /\ \A u, v \in reply : u = v

LEMMA TokensAre ==
    ASSUME NEW replies, Fits(replies), NEW reply \in replies
    PROVE  Tokens(reply) \in Nat /\ Silence(reply) \in Nat
<1>1. Silence(reply) \in Nat
  BY DEF Silence
<1>2. CASE reply = {}
  BY <1>1, <1>2 DEF Tokens
<1>3. CASE reply # {}
  <2> DEFINE given == CHOOSE u \in reply : TRUE
  <2>1. given \in Usages
    BY <1>3 DEF Fits
  <2>2. given.total \in Nat /\ given.prompt + given.completion \in Nat
    BY <2>1 DEF Usages
  <2>3. QED
    BY <1>1, <1>3, <2>2 DEF Tokens
<1>4. QED
  BY <1>2, <1>3

\* A reply more is its tokens, or one more that said nothing.
LEMMA AggregateOfGrown ==
    ASSUME NEW replies, Fits(replies), NEW s \in Seq(replies), NEW reply \in replies
    PROVE  LET one == Aggregate(s)  two == Aggregate(Append(s, reply)) IN
           /\ one.tokens \in Int /\ one.missing \in Int
           /\ two.tokens = one.tokens + Tokens(reply)
           /\ two.missing = one.missing + Silence(reply)
<1> DEFINE f == [r \in replies |-> Tokens(r)]
           g == [r \in replies |-> Silence(r)]
           more == Append(s, reply)
<1>1. f \in [replies -> Int] /\ g \in [replies -> Int]
  BY TokensAre
<1>2. more \in Seq(replies)
  OBVIOUS
<1>3. ASSUME NEW t \in Seq(replies)
      PROVE  /\ Aggregate(t).tokens = Taken(f, t)
             /\ Aggregate(t).missing = Taken(g, t)
  <2>1. \A k \in DOMAIN t : t[k] \in replies
    OBVIOUS
  <2>2. /\ [k \in DOMAIN t |-> f[t[k]]] = [k \in DOMAIN t |-> Tokens(t[k])]
        /\ [k \in DOMAIN t |-> g[t[k]]] = [k \in DOMAIN t |-> Silence(t[k])]
    BY <2>1
  <2> HIDE DEF f, g
  <2>3. QED
    BY <2>2 DEF Aggregate, Taken, Mapped
<1>4. f[reply] = Tokens(reply) /\ g[reply] = Silence(reply)
  OBVIOUS
<1> HIDE DEF f, g
<1>5. /\ Taken(f, s) \in Int /\ Taken(f, more) = Taken(f, s) + f[reply]
      /\ Taken(g, s) \in Int /\ Taken(g, more) = Taken(g, s) + g[reply]
  BY <1>1, TakenOfGrown
<1>6. QED
  BY <1>2, <1>3, <1>4, <1>5

LEMMA AggregateOfNone == Aggregate(<<>>).tokens = 0 /\ Aggregate(<<>>).missing = 0
<1>1. \A f : DOMAIN f = {} => SumFunction(f) = 0
  BY SumOfDomain, SumOfNone
<1>2. DOMAIN <<>> = {}
  OBVIOUS
<1>3. QED
  BY <1>1, <1>2 DEF Aggregate

\* Of a sequence of verdicts: the tokens of their replies, and the silent ones.
TokensOf(X) == [v \in Seq(X) |-> Aggregate([j \in DOMAIN v |-> v[j].usage]).tokens]
MissingOf(X) == [v \in Seq(X) |-> Aggregate([j \in DOMAIN v |-> v[j].usage]).missing]

LEMMA AggregateType ==
    ASSUME NEW replies, Fits(replies), NEW s \in Seq(replies)
    PROVE  Aggregate(s).tokens \in Int /\ Aggregate(s).missing \in Int
<1>1. CASE s = <<>>
  BY <1>1, AggregateOfNone
<1>2. CASE s # <<>>
  <2>1. s[1] \in replies
    BY <1>2
  <2>2. QED
    BY <2>1, AggregateOfGrown
<1>3. QED
  BY <1>1, <1>2

\* What is a verdict's is one of the replies.
Draws(X, replies) == Fits(replies) /\ \A x \in X : x.usage \in replies

\* A verdict more is the tokens of its reply, or one more that said nothing.
Additive(X) ==
    /\ TokensOf(X) \in [Seq(X) -> Int] /\ MissingOf(X) \in [Seq(X) -> Int]
    /\ TokensOf(X)[<<>>] = 0 /\ MissingOf(X)[<<>>] = 0
    /\ \A v \in Seq(X), x \in X :
          /\ TokensOf(X)[Append(v, x)] = TokensOf(X)[v] + Tokens(x.usage)
          /\ MissingOf(X)[Append(v, x)] = MissingOf(X)[v] + Silence(x.usage)

LEMMA OfVerdicts == ASSUME NEW replies, NEW X, Draws(X, replies) PROVE Additive(X)
<1> DEFINE f == [x \in X |-> x.usage]
           usages(v) == [j \in DOMAIN v |-> v[j].usage]
<1>1. f \in [X -> replies] /\ Fits(replies)
  BY DEF Draws
<1>2. ASSUME NEW v \in Seq(X)
      PROVE  /\ usages(v) = [j \in DOMAIN v |-> f[v[j]]]
             /\ TokensOf(X)[v] = Aggregate(usages(v)).tokens
             /\ MissingOf(X)[v] = Aggregate(usages(v)).missing
  BY DEF TokensOf, MissingOf
<1>3. \A v \in Seq(X) : usages(v) \in Seq(replies)
  <2>1. SUFFICES ASSUME NEW v \in Seq(X) PROVE usages(v) \in Seq(replies)
    BY Zenon
  <2>2. Len(v) \in Nat /\ DOMAIN v = 1 .. Len(v) /\ \A j \in DOMAIN v : v[j] \in X
    OBVIOUS
  <2>3. usages(v) \in [1 .. Len(v) -> replies]
    BY <2>2 DEF Draws
  <2> HIDE DEF usages
  <2>4. QED
    BY <2>2, <2>3
<1>4. ASSUME NEW v \in Seq(X), NEW x \in X
      PROVE  usages(Append(v, x)) = Append(usages(v), x.usage)
  <2>1. Append(v, x) \in Seq(X) /\ f[x] = x.usage
    OBVIOUS
  <2>2. usages(v) = Mapped(f, v) /\ usages(Append(v, x)) = Mapped(f, Append(v, x))
    BY <1>2, <2>1 DEF Mapped
  <2> HIDE DEF f, usages
  <2>3. Mapped(f, Append(v, x)) = Append(Mapped(f, v), f[x])
    <3>1. Maps(f, X, replies)
      BY <1>1 DEF Maps
    <3>2. QED
      BY <3>1, MappedOfGrown
  <2>4. QED
    BY <2>1, <2>2, <2>3
<1>5. \A v \in Seq(X) : TokensOf(X)[v] \in Int /\ MissingOf(X)[v] \in Int
  <2> HIDE DEF usages
  <2>1. QED
    BY <1>1, <1>2, <1>3, AggregateType
<1>6. TokensOf(X) \in [Seq(X) -> Int] /\ MissingOf(X) \in [Seq(X) -> Int]
  BY <1>5 DEF TokensOf, MissingOf
<1>7. TokensOf(X)[<<>>] = 0 /\ MissingOf(X)[<<>>] = 0
  <2>1. <<>> \in Seq(X) /\ usages(<<>>) = <<>>
    OBVIOUS
  <2>2. QED
    BY <1>2, <2>1, AggregateOfNone
<1>8. ASSUME NEW v \in Seq(X), NEW x \in X
      PROVE  /\ TokensOf(X)[Append(v, x)] = TokensOf(X)[v] + Tokens(x.usage)
             /\ MissingOf(X)[Append(v, x)] = MissingOf(X)[v] + Silence(x.usage)
  <2>1. Append(v, x) \in Seq(X) /\ x.usage \in replies /\ usages(v) \in Seq(replies)
    BY <1>3 DEF Draws
  <2> HIDE DEF usages
  <2>2. /\ Aggregate(Append(usages(v), x.usage)).tokens
              = Aggregate(usages(v)).tokens + Tokens(x.usage)
        /\ Aggregate(Append(usages(v), x.usage)).missing
              = Aggregate(usages(v)).missing + Silence(x.usage)
    BY <1>1, <2>1, AggregateOfGrown
  <2>3. QED
    BY <1>2, <1>4, <2>1, <2>2
<1>9. QED
  BY <1>6, <1>7, <1>8 DEF Additive

\* Of the verdicts on all questions.
Summed(X, vs) ==
    [tokens |-> Taken(TokensOf(X), vs), missing |-> Taken(MissingOf(X), vs)]

LEMMA JudgeUsageIs ==
    ASSUME verdicts \in Seq(Seq(Verdicts)), verdicts' \in Seq(Seq(Verdicts))
    PROVE  JudgeUsage = Summed(Verdicts, verdicts) /\ JudgeUsage' = Summed(Verdicts, verdicts')
<1>1. ASSUME NEW vs \in Seq(Seq(Verdicts))
      PROVE  /\ [k \in DOMAIN vs |-> Aggregate([j \in DOMAIN vs[k] |-> vs[k][j].usage]).tokens]
                    = [k \in DOMAIN vs |-> TokensOf(Verdicts)[vs[k]]]
             /\ [k \in DOMAIN vs |-> Aggregate([j \in DOMAIN vs[k] |-> vs[k][j].usage]).missing]
                    = [k \in DOMAIN vs |-> MissingOf(Verdicts)[vs[k]]]
  <2>1. \A k \in DOMAIN vs : vs[k] \in Seq(Verdicts)
    OBVIOUS
  <2>2. QED
    BY <2>1 DEF TokensOf, MissingOf
<1>2. JudgeUsage = Summed(Verdicts, verdicts)
  BY <1>1 DEF JudgeUsage, RepliesTo, Summed, Taken, Mapped
<1>3. JudgeUsage' = Summed(Verdicts, verdicts')
  BY <1>1 DEF JudgeUsage, RepliesTo, Summed, Taken, Mapped
<1>4. QED
  BY <1>2, <1>3

\* A question more that no judge has had.
LEMMA SummedOfNext ==
    ASSUME NEW replies, NEW X, Draws(X, replies),
           NEW vs \in Seq(Seq(X))
    PROVE  /\ Summed(X, Append(vs, <<>>)) = Summed(X, vs)
           /\ Summed(X, vs).tokens \in Int /\ Summed(X, vs).missing \in Int
<1>1. /\ TokensOf(X) \in [Seq(X) -> Int] /\ MissingOf(X) \in [Seq(X) -> Int]
      /\ TokensOf(X)[<<>>] = 0 /\ MissingOf(X)[<<>>] = 0
  BY OfVerdicts DEF Additive
<1>2. <<>> \in Seq(X)
  OBVIOUS
<1>3. ASSUME NEW f \in [Seq(X) -> Int], f[<<>>] = 0
      PROVE  Taken(f, vs) \in Int /\ Taken(f, Append(vs, <<>>)) = Taken(f, vs)
  <2> DEFINE Z == Seq(X)
  <2>1. <<>> \in Z /\ f \in [Z -> Int] /\ vs \in Seq(Z)
    BY <1>2
  <2> HIDE DEF Z
  <2>2. Taken(f, vs) \in Int /\ Taken(f, Append(vs, <<>>)) = Taken(f, vs) + f[<<>>]
    BY ONLY <2>1, TakenOfGrown
  <2>3. QED
    BY <1>3, <2>2
<1>4. QED
  BY <1>1, <1>3 DEF Summed

\* A verdict more on the last question.
JudgedOn(X, vs, K, x, more) ==          \* x is appended to the verdicts on K
    /\ vs \in Seq(Seq(X)) /\ K \in DOMAIN vs /\ x \in X
    /\ more \in Seq(Seq(X)) /\ DOMAIN more = DOMAIN vs /\ more[K] = Append(vs[K], x)
    /\ \A k \in DOMAIN vs : k # K => more[k] = vs[k]

LEMMA SummedOfJudged ==
    ASSUME NEW replies, NEW X, Draws(X, replies), NEW vs, NEW K, NEW x, NEW more,
           JudgedOn(X, vs, K, x, more)
    PROVE  /\ Summed(X, more).tokens = Summed(X, vs).tokens + Tokens(x.usage)
           /\ Summed(X, more).missing = Summed(X, vs).missing + Silence(x.usage)
<1> USE DEF JudgedOn
<1>1. /\ TokensOf(X) \in [Seq(X) -> Int] /\ MissingOf(X) \in [Seq(X) -> Int]
      /\ TokensOf(X)[Append(vs[K], x)] = TokensOf(X)[vs[K]] + Tokens(x.usage)
      /\ MissingOf(X)[Append(vs[K], x)] = MissingOf(X)[vs[K]] + Silence(x.usage)
  <2>1. vs[K] \in Seq(X)
    OBVIOUS
  <2>2. Additive(X)
    BY OfVerdicts
  <2>3. QED
    BY <2>1, <2>2, Zenon DEF Additive
<1>2. ASSUME NEW f \in [Seq(X) -> Int], NEW n, f[Append(vs[K], x)] = f[vs[K]] + n, n \in Nat
      PROVE  Taken(f, more) = Taken(f, vs) + n
  <2> DEFINE s == [k \in DOMAIN vs |-> f[vs[k]]]
             t == [k \in DOMAIN more |-> f[more[k]]]
  <2>1. Len(vs) \in Nat /\ DOMAIN vs = 1 .. Len(vs) /\ \A k \in DOMAIN vs : vs[k] \in Seq(X)
    OBVIOUS
  <2>2. \A k \in DOMAIN vs : more[k] \in Seq(X)
    OBVIOUS
  <2>3. s \in [1 .. Len(vs) -> Int] /\ t \in [1 .. Len(vs) -> Int]
    BY <2>1, <2>2
  <2>4. /\ DOMAIN t = DOMAIN s /\ K \in DOMAIN s
        /\ \A k \in DOMAIN s : k # K => t[k] = s[k]
        /\ t[K] = s[K] + n /\ s[K] \in Int
    BY <1>2, <2>1
  <2>5. s \in Seq(Int) /\ t \in Seq(Int)
    BY <2>1, <2>2
  <2> HIDE DEF s, t
  <2>6. SumFunction(t) = SumFunction(s) + (t[K] - s[K])
    BY <2>4, <2>5, SumOfChanged
  <2>7. t[K] - s[K] = n
    BY <1>2, <2>4
  <2>8. QED
    BY <2>6, <2>7 DEF s, t, Taken, Mapped
<1>3. Tokens(x.usage) \in Nat /\ Silence(x.usage) \in Nat
  BY TokensAre DEF Draws
<1>4. QED
  BY <1>1, <1>2, <1>3 DEF Summed

-----------------------------------------------------------------------------
(* Types, and how far the run is. *)

\* The questions judged so far, of which the last one may not be with every judge.
Judged ==
    /\ progress = "predict" => verdicts = <<>>
    /\ progress # "predict" =>
          /\ verdicts # <<>> /\ UnitIsDone /\ Unit = Len(experiment.units)
          /\ \A k \in DOMAIN verdicts :
                k # Len(verdicts) \/ progress # "judge" => Len(verdicts[k]) = experiment.judges
    /\ progress \in {"evaluate", "report", "done"} => Len(verdicts) = Len(predictions)

\* The questions asked so far, unit by unit.
Asked ==
    /\ ingested = <<>> => asked = 0
    /\ \A k \in DOMAIN predictions : predictions[k].unit \in 1 .. Unit
    /\ \A u \in 1 .. Unit :
          u # Unit \/ asked # 0 => \E k \in DOMAIN predictions : predictions[k].unit = u

Timed ==
    /\ calls.ingestion = Unit /\ calls.qa = Len(predictions)
    /\ progress = "predict" => calls.judge = 0
    /\ experiment.judges = 1 /\ progress = "judge" =>
          calls.judge = Len(verdicts) - 1 + Len(verdicts[Len(verdicts)])
    /\ experiment.judges = 1 /\ progress \in {"evaluate", "report", "done"} =>
          calls.judge = Len(predictions)

Written ==
    /\ progress \in {"report", "done"} /\ experiment.schema = 3 =>
          retrieval = RetrievalReport /\ rows = AnalysisRows /\ scores = MultiJudgeReport
    /\ progress # "done" => usage = {} /\ timing = {}
    /\ progress = "done" => usage = {UsageReport} /\ timing = {TimingReport}

\* Tokens of the unit at work that are still to be given to a question.
Pending ==
    IF ingested = <<>> THEN 0
    ELSE ingested[Unit] - Given(ingested[Unit], experiment.units[Unit], asked)

Balanced ==
    /\ MemoryUsage \in Int /\ MemoryUsage + Pending = spent.memory
    /\ AnswererUsage.tokens = spent.answerer
    /\ JudgeUsage.tokens = spent.judge
    /\ AnswererUsage.missing + JudgeUsage.missing = spent.silent
    /\ AnswererUsage.missing \in Int /\ JudgeUsage.missing \in Int

Accounts == ReportsTypeOK /\ Judged /\ Asked /\ Timed /\ Written /\ Balanced

LEMMA Settings ==
    ASSUME ReportAssumption, ReportsTypeOK
    PROVE  /\ Fits(experiment.replies)
           /\ experiment.units \in Seq(Nat \ {0}) /\ Len(experiment.units) \in Nat \ {0}
           /\ experiment.judges \in Nat \ {0} /\ experiment.ingestions \subseteq Nat
           /\ experiment.primary \in Judges
           /\ Unit \in Nat /\ Len(predictions) \in Nat /\ Len(verdicts) \in Nat
           /\ DOMAIN predictions = 1 .. Len(predictions)
           /\ DOMAIN verdicts = 1 .. Len(verdicts)
           /\ ingested # <<>> => /\ Unit \in 1 .. Len(experiment.units)
                                 /\ experiment.units[Unit] \in Nat \ {0}
                                 /\ ingested[Unit] \in Nat
<1>1. /\ Fits(experiment.replies) /\ experiment.ingestions \subseteq Nat
      /\ experiment.units \in Seq(Nat \ {0}) /\ experiment.units # <<>>
      /\ experiment.judges \in Nat /\ experiment.primary \in 1 .. experiment.judges
  BY DEF ReportAssumption, ReportsTypeOK, Fits
<1>2. Len(experiment.units) \in Nat \ {0} /\ experiment.judges \in Nat \ {0}
  BY <1>1
<1>3. /\ ingested \in Seq(Nat) /\ predictions \in Seq(Replied)
      /\ verdicts \in Seq(Seq(Verdicts)) /\ Unit <= Len(experiment.units)
  BY DEF ReportsTypeOK
<1>4. /\ Unit \in Nat /\ Len(predictions) \in Nat /\ Len(verdicts) \in Nat
      /\ DOMAIN predictions = 1 .. Len(predictions) /\ DOMAIN verdicts = 1 .. Len(verdicts)
      /\ ingested # <<>> => Unit # 0
  BY <1>3 DEF Unit
<1>5. ingested # <<>> => Unit \in 1 .. Len(experiment.units) /\ ingested[Unit] \in Nat
  BY <1>1, <1>3, <1>4 DEF Unit
<1>6. QED
  BY <1>1, <1>2, <1>4, <1>5 DEF Judges

\* Nothing is left to be given where a unit is done.
LEMMA NothingPending ==
    ASSUME ReportAssumption, ReportsTypeOK, UnitIsDone
    PROVE  Pending = 0
<1>1. CASE ingested = <<>>
  BY <1>1 DEF Pending
<1>2. CASE ingested # <<>>
  <2>1. /\ asked = experiment.units[Unit] /\ ingested[Unit] \in Nat
        /\ experiment.units[Unit] \in Nat \ {0}
    BY <1>2, Settings DEF UnitIsDone
  <2>2. Given(ingested[Unit], experiment.units[Unit], asked) = ingested[Unit]
    BY <2>1, GivenSoFar
  <2>3. QED
    BY <1>2, <2>1, <2>2 DEF Pending
<1>3. QED
  BY <1>1, <1>2

LEMMA IngestStep ==
    ASSUME ReportAssumption, Accounts, Ingest
    PROVE  Accounts'
<1>1. /\ ReportsTypeOK /\ Judged /\ Asked /\ Timed /\ Written /\ Balanced
  BY DEF Accounts
<1>2. PICK tokens \in experiment.ingestions :
          /\ ingested' = Append(ingested, tokens) /\ asked' = 0
          /\ spent' = [spent EXCEPT !.memory = @ + tokens]
  BY DEF Ingest
<1>3. /\ progress = "predict" /\ UnitIsDone /\ Unit < Len(experiment.units)
      /\ calls' = [calls EXCEPT !.ingestion = @ + 1]
      /\ experiment' = experiment /\ progress' = progress /\ predictions' = predictions
      /\ verdicts' = verdicts /\ retrieval' = retrieval /\ rows' = rows /\ scores' = scores
      /\ usage' = usage /\ timing' = timing
  BY DEF Ingest, evaluated, reported
<1>4. tokens \in Nat
  BY <1>1, Settings
<1>5. /\ ingested' \in Seq(Nat) /\ ingested' # <<>> /\ Unit' = Unit + 1
      /\ ingested'[Unit + 1] = tokens
  <2>1. ingested \in Seq(Nat) /\ ingested' = Append(ingested, tokens)
    BY <1>1, <1>2 DEF ReportsTypeOK
  <2>2. /\ ingested' \in Seq(Nat) /\ ingested' # <<>> /\ Len(ingested') = Len(ingested) + 1
        /\ ingested'[Len(ingested) + 1] = tokens
    BY ONLY <1>4, <2>1
  <2>3. QED
    BY ONLY <2>2 DEF Unit
<1>6. Unit \in Nat /\ experiment.units[Unit + 1] \in Nat \ {0}
  BY <1>1, <1>3, Settings
<1>7. /\ spent \in [memory : Nat, answerer : Nat, judge : Nat, silent : Nat]
      /\ calls \in [ingestion : Nat, qa : Nat, judge : Nat]
  BY <1>1 DEF ReportsTypeOK
<1>8. /\ spent'.memory = spent.memory + tokens /\ spent'.answerer = spent.answerer
      /\ spent'.judge = spent.judge /\ spent'.silent = spent.silent
      /\ spent' \in [memory : Nat, answerer : Nat, judge : Nat, silent : Nat]
  BY <1>2, <1>4, <1>7
<1>9. /\ calls'.ingestion = calls.ingestion + 1 /\ calls'.qa = calls.qa
      /\ calls'.judge = calls.judge /\ calls' \in [ingestion : Nat, qa : Nat, judge : Nat]
  BY <1>3, <1>7
<1>10. ReportsTypeOK'
  <2>1. Replied' = Replied /\ Verdicts' = Verdicts
    BY <1>3 DEF Replied, Verdicts
  <2>2. asked' \in Nat /\ (asked <= experiment.units[Unit])' /\ Unit' <= Len(experiment.units)
    BY <1>2, <1>3, <1>5, <1>6, <1>1, Settings
  <2>3. QED
    BY <1>1, <1>3, <1>5, <1>8, <1>9, <2>1, <2>2 DEF ReportsTypeOK
<1>11. Judged'
  BY <1>1, <1>3 DEF Judged
<1>12. Asked'
  <2>1. \A k \in DOMAIN predictions : predictions[k].unit \in 1 .. Unit'
    BY <1>1, <1>5, <1>6 DEF Asked
  <2>2. \A u \in 1 .. Unit : \E k \in DOMAIN predictions : predictions[k].unit = u
    <3>1. ingested # <<>> => asked # 0
      BY <1>1, <1>3, Settings DEF UnitIsDone
    <3>2. ingested = <<>> => Unit = 0
      BY DEF Unit
    <3>3. QED
      BY <1>1, <3>1, <3>2 DEF Asked
  <2>3. \A u \in 1 .. Unit' : u \in 1 .. Unit \/ u = Unit'
    BY <1>5, <1>6
  <2>4. QED
    BY <1>2, <1>3, <1>5, <2>1, <2>2, <2>3 DEF Asked
<1>13. Timed'
  BY <1>1, <1>3, <1>5, <1>9 DEF Timed
<1>14. Written'
  BY <1>1, <1>3 DEF Written
<1>15. Balanced'
  <2>1. /\ MemoryUsage' = MemoryUsage /\ AnswererUsage' = AnswererUsage
        /\ JudgeUsage' = JudgeUsage
    BY <1>3 DEF MemoryUsage, AnswererUsage, JudgeUsage, RepliesTo
  <2>2. Pending = 0
    BY <1>1, <1>3, NothingPending
  <2>3. Pending' = tokens - Given(tokens, experiment.units[Unit + 1], 0)
    BY <1>2, <1>3, <1>5 DEF Pending
  <2>4. Pending' = tokens
    <3>1. Given(tokens, experiment.units[Unit + 1], 0) = 0
      BY <1>4, <1>6, GivenSoFar, 0 \in Nat, Zenon
    <3>2. QED
      BY <1>4, <2>3, <3>1
  <2>5. QED
    BY <1>1, <1>4, <1>7, <1>8, <2>1, <2>2, <2>4 DEF Balanced
<1>16. QED
  BY <1>10, <1>11, <1>12, <1>13, <1>14, <1>15 DEF Accounts

LEMMA PredictStep ==
    ASSUME ReportAssumption, Accounts, Predict
    PROVE  Accounts'
<1>1. /\ ReportsTypeOK /\ Judged /\ Asked /\ Timed /\ Written /\ Balanced
  BY DEF Accounts
<1>2. PICK search \in experiment.searches, reply \in experiment.replies :
          /\ predictions' = Append(predictions,
                 [unit |-> Unit, search |-> search, answerer |-> reply,
                  memory |-> MemoryShare])
          /\ spent' = [spent EXCEPT !.answerer = @ + Tokens(reply),
                                    !.silent = @ + Silence(reply)]
  BY DEF Predict
<1>3. /\ progress = "predict" /\ ~ UnitIsDone /\ asked' = asked + 1
      /\ calls' = [calls EXCEPT !.qa = @ + 1]
      /\ experiment' = experiment /\ progress' = progress /\ ingested' = ingested
      /\ verdicts' = verdicts /\ retrieval' = retrieval /\ rows' = rows /\ scores' = scores
      /\ usage' = usage /\ timing' = timing
  BY DEF Predict, evaluated, reported
<1> DEFINE tokens == ingested[Unit]
           questions == experiment.units[Unit]
           prediction == [unit |-> Unit, search |-> search, answerer |-> reply,
                          memory |-> MemoryShare]
<1>4. /\ ingested # <<>> /\ asked \in Nat /\ asked <= questions /\ asked # questions
      /\ Unit' = Unit /\ Unit \in 1 .. Len(experiment.units)
      /\ questions \in Nat \ {0} /\ tokens \in Nat
  BY <1>1, <1>3, Settings DEF UnitIsDone, ReportsTypeOK, Unit
<1>5. /\ MemoryShare \in Nat
      /\ Given(tokens, questions, asked + 1) = Given(tokens, questions, asked) + MemoryShare
      /\ Given(tokens, questions, asked) \in Nat
  BY <1>4, GivenSoFar DEF MemoryShare
<1>6. Tokens(reply) \in Nat /\ Silence(reply) \in Nat
  BY <1>1, Settings, TokensAre
<1>7. predictions \in Seq(Replied) /\ prediction \in Replied
  BY <1>1, <1>4, <1>5 DEF ReportsTypeOK, Replied
<1>8. /\ predictions' = Append(predictions, prediction) /\ predictions' \in Seq(Replied)
      /\ Len(predictions') = Len(predictions) + 1 /\ Len(predictions) \in Nat
      /\ DOMAIN predictions' = DOMAIN predictions \cup {Len(predictions) + 1}
      /\ predictions'[Len(predictions) + 1] = prediction
      /\ \A k \in DOMAIN predictions : predictions'[k] = predictions[k]
  <2>1. predictions' = Append(predictions, prediction)
    BY <1>2
  <2> HIDE DEF prediction
  <2>2. QED
    BY <1>7, <2>1
<1>9. /\ spent \in [memory : Nat, answerer : Nat, judge : Nat, silent : Nat]
      /\ calls \in [ingestion : Nat, qa : Nat, judge : Nat]
  BY <1>1 DEF ReportsTypeOK
<1>10. /\ spent'.memory = spent.memory /\ spent'.answerer = spent.answerer + Tokens(reply)
       /\ spent'.judge = spent.judge /\ spent'.silent = spent.silent + Silence(reply)
       /\ spent' \in [memory : Nat, answerer : Nat, judge : Nat, silent : Nat]
  <2>1. spent' = [spent EXCEPT !.answerer = @ + Tokens(reply), !.silent = @ + Silence(reply)]
    BY <1>2
  <2>2. spent.answerer + Tokens(reply) \in Nat /\ spent.silent + Silence(reply) \in Nat
    BY <1>6, <1>9
  <2>3. QED
    BY <1>9, <2>1, <2>2
<1>11. /\ calls'.ingestion = calls.ingestion /\ calls'.qa = calls.qa + 1
       /\ calls'.judge = calls.judge /\ calls' \in [ingestion : Nat, qa : Nat, judge : Nat]
  BY <1>3, <1>9
<1>12. verdicts = <<>>
  BY <1>1, <1>3 DEF Judged
<1>13. ReportsTypeOK'
  <2>1. Replied' = Replied /\ Verdicts' = Verdicts
    BY <1>3 DEF Replied, Verdicts
  <2>2. asked' \in Nat /\ (asked <= experiment.units[Unit])'
    BY <1>3, <1>4
  <2>3. (Unit <= Len(experiment.units))' /\ (Len(verdicts) <= Len(predictions))'
    BY <1>1, <1>3, <1>4, <1>8, <1>12 DEF ReportsTypeOK
  <2>4. QED
    BY <1>1, <1>3, <1>8, <1>10, <1>11, <2>1, <2>2, <2>3 DEF ReportsTypeOK
<1>14. Judged'
  BY <1>1, <1>3 DEF Judged
<1>15. Asked'
  <2>1. prediction.unit = Unit /\ Unit \in 1 .. Unit
    BY <1>4
  <2> HIDE DEF prediction
  <2>2. QED
    BY <1>1, <1>3, <1>4, <1>8, <2>1 DEF Asked
<1>16. Timed'
  BY <1>1, <1>3, <1>4, <1>8, <1>11 DEF Timed
<1>17. Written'
  BY <1>1, <1>3 DEF Written
<1>18. Balanced'
  <2>1. /\ MemoryUsage \in Int /\ MemoryUsage' = MemoryUsage + MemoryShare
    <3> DEFINE f == [p \in Replied |-> p.memory]
    <3>1. f \in [Replied -> Int] /\ f[prediction] = MemoryShare
      BY <1>7 DEF Replied
    <3>2. /\ Mapped(f, predictions) = [k \in DOMAIN predictions |-> predictions[k].memory]
          /\ Mapped(f, predictions') = [k \in DOMAIN predictions' |-> predictions'[k].memory]
      BY <1>7, <1>8 DEF Mapped
    <3> HIDE DEF f, prediction
    <3>3. /\ Taken(f, predictions) \in Int
          /\ Taken(f, predictions') = Taken(f, predictions) + f[prediction]
      BY <1>7, <1>8, <3>1, TakenOfGrown
    <3>4. QED
      BY <3>1, <3>2, <3>3 DEF MemoryUsage, Taken
  <2>2. /\ AnswererUsage'.tokens = AnswererUsage.tokens + Tokens(reply)
        /\ AnswererUsage'.missing = AnswererUsage.missing + Silence(reply)
        /\ AnswererUsage.tokens \in Int /\ AnswererUsage.missing \in Int
    <3> DEFINE f == [p \in Replied |-> p.answerer]
               answers == Mapped(f, predictions)
    <3>1. f \in [Replied -> experiment.replies] /\ f[prediction] = reply
      BY <1>7 DEF Replied
    <3>2. /\ answers = [k \in DOMAIN predictions |-> predictions[k].answerer]
          /\ Mapped(f, predictions') = [k \in DOMAIN predictions' |-> predictions'[k].answerer]
      BY <1>7, <1>8 DEF Mapped
    <3> HIDE DEF f, prediction
    <3>3. answers \in Seq(experiment.replies) /\ Mapped(f, predictions') = Append(answers, f[prediction])
      <4>1. predictions' = Append(predictions, prediction)
        BY <1>8
      <4>2. /\ Mapped(f, predictions) \in Seq(experiment.replies)
            /\ Mapped(f, Append(predictions, prediction))
                  = Append(Mapped(f, predictions), f[prediction])
        <5>1. Maps(f, Replied, experiment.replies)
          BY <3>1 DEF Maps
        <5>2. QED
          BY ONLY <1>7, <5>1, MappedOfGrown
      <4>3. QED
        BY <4>1, <4>2
    <3>4. /\ AnswererUsage = Aggregate(answers)
          /\ AnswererUsage' = Aggregate(Append(answers, reply))
      BY <3>1, <3>2, <3>3 DEF AnswererUsage
    <3> HIDE DEF answers
    <3>5. QED
      BY <1>1, <3>3, <3>4, Settings, AggregateOfGrown
  <2>3. JudgeUsage' = JudgeUsage
    BY <1>3 DEF JudgeUsage, RepliesTo
  <2>4. /\ Pending = tokens - Given(tokens, questions, asked)
        /\ Pending' = tokens - Given(tokens, questions, asked + 1)
    BY <1>3, <1>4 DEF Pending
  <2>5. /\ MemoryUsage + Pending = spent.memory
        /\ AnswererUsage.tokens = spent.answerer /\ JudgeUsage.tokens = spent.judge
        /\ AnswererUsage.missing + JudgeUsage.missing = spent.silent
        /\ AnswererUsage.missing \in Int /\ JudgeUsage.missing \in Int
    BY <1>1 DEF Balanced
  <2>6. (MemoryUsage + Pending)' = spent'.memory
    <3> DEFINE given == Given(tokens, questions, asked)
    <3>1. Pending = tokens - given /\ Pending' = tokens - (given + MemoryShare)
      BY <1>5, <2>4
    <3>2. tokens \in Int /\ given \in Int /\ MemoryShare \in Int
      BY <1>4, <1>5
    <3>3. /\ MemoryUsage \in Int /\ MemoryUsage' = MemoryUsage + MemoryShare
          /\ MemoryUsage + Pending = spent.memory /\ spent'.memory = spent.memory
      BY <1>10, <2>1, <2>5
    <3> HIDE DEF tokens, given
    <3>4. QED
      BY ONLY <3>1, <3>2, <3>3
  <2>7. (AnswererUsage.missing + JudgeUsage.missing)' = spent'.silent
    BY <1>6, <1>10, <2>2, <2>3, <2>5
  <2>8. MemoryUsage' \in Int
    BY <1>5, <2>1
  <2>9. QED
    BY <1>6, <1>10, <2>2, <2>3, <2>5, <2>6, <2>7, <2>8 DEF Balanced
<1>19. QED
  BY <1>13, <1>14, <1>15, <1>16, <1>17, <1>18 DEF Accounts

LEMMA BeginJudgingStep ==
    ASSUME ReportAssumption, Accounts, BeginJudging
    PROVE  Accounts'
<1>1. /\ ReportsTypeOK /\ Judged /\ Asked /\ Timed /\ Written /\ Balanced
  BY DEF Accounts
<1>2. /\ progress = "predict" /\ UnitIsDone /\ Unit = Len(experiment.units)
      /\ progress' = "judge" /\ verdicts' = <<<<>>>>
      /\ experiment' = experiment /\ ingested' = ingested /\ asked' = asked
      /\ predictions' = predictions /\ retrieval' = retrieval /\ rows' = rows
      /\ scores' = scores /\ usage' = usage /\ timing' = timing /\ spent' = spent
      /\ calls' = calls
  BY DEF BeginJudging, evaluated, reported, ledger
<1>3. verdicts = <<>>
  BY <1>1, <1>2 DEF Judged
<1>4. /\ ingested # <<>> /\ Unit \in 1 .. Unit /\ asked # 0
      /\ Len(predictions) \in Nat /\ DOMAIN predictions = 1 .. Len(predictions)
      /\ Len(experiment.units) \in Nat \ {0} /\ experiment.judges \in Nat \ {0}
  <2>1. Unit \in Nat \ {0}
    BY <1>1, <1>2, Settings
  <2>2. ingested # <<>>
    BY <2>1 DEF Unit
  <2>3. QED
    BY <1>1, <1>2, <2>1, <2>2, Settings DEF UnitIsDone
<1>5. Len(predictions) >= 1
  <2>1. \E k \in DOMAIN predictions : predictions[k].unit = Unit
    BY <1>1, <1>4 DEF Asked
  <2>2. QED
    BY <1>4, <2>1
<1>6. /\ verdicts' = Append(verdicts, <<>>) /\ verdicts' \in Seq(Seq(Verdicts))
      /\ Len(verdicts') = 1 /\ DOMAIN verdicts' = {1} /\ verdicts'[1] = <<>>
      /\ verdicts' # <<>>
  <2>1. <<>> \in Seq(Verdicts)
    OBVIOUS
  <2>2. QED
    BY <1>2, <1>3, <2>1
<1>7. ReportsTypeOK'
  <2>1. Replied' = Replied /\ Verdicts' = Verdicts
    BY <1>2 DEF Replied, Verdicts
  <2>2. Len(<<>>) <= experiment.judges /\ Unit' = Unit
    BY <1>2, <1>4 DEF Unit
  <2>3. QED
    BY <1>1, <1>2, <1>5, <1>6, <2>1, <2>2 DEF ReportsTypeOK
<1>8. Judged'
  BY <1>1, <1>2, <1>6 DEF Judged, Unit, UnitIsDone
<1>9. Asked'
  BY <1>1, <1>2 DEF Asked, Unit
<1>10. Timed'
  <2>1. /\ (Len(verdicts) - 1 + Len(verdicts[Len(verdicts)]))' = 0
        /\ calls.judge = 0
    BY <1>1, <1>2, <1>6 DEF Timed
  <2>2. QED
    BY <1>1, <1>2, <2>1 DEF Timed, Unit
<1>11. Written'
  BY <1>1, <1>2 DEF Written
<1>12. Balanced'
  <2>1. MemoryUsage' = MemoryUsage /\ AnswererUsage' = AnswererUsage /\ Pending' = Pending
    BY <1>2 DEF MemoryUsage, AnswererUsage, Pending, Unit
  <2>2. JudgeUsage' = JudgeUsage
    <3>1. verdicts \in Seq(Seq(Verdicts))
      BY <1>1 DEF ReportsTypeOK
    <3>2. Draws(Verdicts, experiment.replies)
      BY <1>1, Settings DEF Verdicts, Draws
    <3>3. Summed(Verdicts, Append(verdicts, <<>>)) = Summed(Verdicts, verdicts)
      BY <3>1, <3>2, SummedOfNext
    <3>4. QED
      BY <1>6, <3>1, <3>3, JudgeUsageIs
  <2>3. QED
    BY <1>1, <1>2, <2>1, <2>2 DEF Balanced
<1>13. QED
  BY <1>7, <1>8, <1>9, <1>10, <1>11, <1>12 DEF Accounts

LEMMA NextQuestionStep ==
    ASSUME ReportAssumption, Accounts, NextQuestion
    PROVE  Accounts'
<1>1. /\ ReportsTypeOK /\ Judged /\ Asked /\ Timed /\ Written /\ Balanced
  BY DEF Accounts
<1>2. /\ progress = "judge" /\ Len(verdicts[Len(verdicts)]) = experiment.judges
      /\ experiment' = experiment /\ ingested' = ingested /\ asked' = asked
      /\ predictions' = predictions /\ retrieval' = retrieval /\ rows' = rows
      /\ scores' = scores /\ usage' = usage /\ timing' = timing /\ spent' = spent
      /\ calls' = calls
      /\ \/ /\ Len(verdicts) < Len(predictions)
            /\ verdicts' = Append(verdicts, <<>>) /\ progress' = progress
         \/ /\ ~ (Len(verdicts) < Len(predictions))
            /\ progress' = "evaluate" /\ verdicts' = verdicts
  BY DEF NextQuestion, evaluated, reported, ledger
<1>3. /\ Len(predictions) \in Nat /\ Len(verdicts) \in Nat \ {0}
      /\ DOMAIN verdicts = 1 .. Len(verdicts) /\ experiment.judges \in Nat \ {0}
      /\ Len(verdicts) <= Len(predictions) /\ verdicts \in Seq(Seq(Verdicts))
      /\ verdicts # <<>>
  <2>1. verdicts # <<>> /\ verdicts \in Seq(Seq(Verdicts))
    BY <1>1, <1>2 DEF Judged, ReportsTypeOK
  <2>2. Len(verdicts) # 0
    BY <2>1
  <2>3. QED
    BY <1>1, <2>1, <2>2, Settings DEF ReportsTypeOK
<1>4. \A k \in DOMAIN verdicts : Len(verdicts[k]) = experiment.judges
  BY <1>1, <1>2 DEF Judged
<1>5. /\ Replied' = Replied /\ Verdicts' = Verdicts /\ Unit' = Unit
      /\ MemoryUsage' = MemoryUsage /\ AnswererUsage' = AnswererUsage /\ Pending' = Pending
  BY <1>2 DEF Replied, Verdicts, Unit, MemoryUsage, AnswererUsage, Pending
<1>6. Asked'
  BY <1>1, <1>2, <1>5 DEF Asked
<1>7. Written'
  BY <1>1, <1>2 DEF Written
<1>8. CASE Len(verdicts) < Len(predictions)
  <2>1. verdicts' = Append(verdicts, <<>>) /\ progress' = "judge"
    BY <1>2, <1>8
  <2>2. /\ verdicts' \in Seq(Seq(Verdicts)) /\ Len(verdicts') = Len(verdicts) + 1
        /\ DOMAIN verdicts' = DOMAIN verdicts \cup {Len(verdicts) + 1}
        /\ verdicts'[Len(verdicts) + 1] = <<>> /\ verdicts' # <<>>
        /\ \A k \in DOMAIN verdicts : verdicts'[k] = verdicts[k]
    <3>1. <<>> \in Seq(Verdicts)
      OBVIOUS
    <3>2. QED
      BY <1>3, <2>1, <3>1
  <2>3. ReportsTypeOK'
    <3>1. \A k \in DOMAIN verdicts' : Len(verdicts'[k]) <= experiment.judges
      <4>1. ASSUME NEW k \in DOMAIN verdicts PROVE Len(verdicts'[k]) <= experiment.judges
        <5>1. verdicts'[k] = verdicts[k] /\ Len(verdicts[k]) = experiment.judges
          BY <1>4, <2>2
        <5>2. QED
          BY <1>3, <5>1
      <4>2. Len(verdicts'[Len(verdicts) + 1]) <= experiment.judges
        BY <1>3, <2>2
      <4>3. DOMAIN verdicts' = DOMAIN verdicts \cup {Len(verdicts) + 1}
        BY <2>2
      <4>4. QED
        BY ONLY <4>1, <4>2, <4>3
    <3>2. Len(verdicts') <= Len(predictions)
      BY <1>3, <1>8, <2>2
    <3>3. QED
      BY <1>1, <1>2, <1>5, <2>1, <2>2, <3>1, <3>2 DEF ReportsTypeOK
  <2>4. Judged'
    <3>1. \A k \in DOMAIN verdicts' : k = Len(verdicts') \/ Len(verdicts'[k]) = experiment.judges
      BY <1>4, <2>2
    <3>2. QED
      BY <1>1, <1>2, <1>5, <2>1, <2>2, <3>1 DEF Judged, UnitIsDone
  <2>5. Timed'
    <3>1. (Len(verdicts) - 1 + Len(verdicts[Len(verdicts)]))' = Len(verdicts)
      BY <1>3, <2>2
    <3>2. experiment.judges = 1 => calls.judge = Len(verdicts)
      BY <1>1, <1>2, <1>3 DEF Timed
    <3>3. QED
      BY <1>1, <1>2, <1>5, <2>1, <3>1, <3>2 DEF Timed
  <2>6. Balanced'
    <3>1. Draws(Verdicts, experiment.replies)
      BY <1>1, Settings DEF Verdicts, Draws
    <3>2. Summed(Verdicts, Append(verdicts, <<>>)) = Summed(Verdicts, verdicts)
      BY <1>3, <3>1, SummedOfNext
    <3>3. JudgeUsage' = JudgeUsage
      BY <1>3, <2>1, <2>2, <3>2, JudgeUsageIs
    <3>4. QED
      BY <1>1, <1>2, <1>5, <3>3 DEF Balanced
  <2>7. QED
    BY <1>6, <1>7, <2>3, <2>4, <2>5, <2>6 DEF Accounts
<1>9. CASE ~ (Len(verdicts) < Len(predictions))
  <2>1. verdicts' = verdicts /\ progress' = "evaluate" /\ Len(verdicts) = Len(predictions)
    BY <1>2, <1>3, <1>9
  <2>2. ReportsTypeOK'
    BY <1>1, <1>2, <1>5, <2>1 DEF ReportsTypeOK
  <2>3. Judged'
    BY <1>1, <1>2, <1>4, <1>5, <2>1 DEF Judged, UnitIsDone
  <2>4. Timed'
    <3>1. experiment.judges = 1 => calls.judge = Len(predictions)
      BY <1>1, <1>2, <1>3, <2>1 DEF Timed
    <3>2. QED
      BY <1>1, <1>2, <1>5, <2>1, <3>1 DEF Timed
  <2>5. Balanced'
    <3>1. JudgeUsage' = JudgeUsage
      BY <2>1 DEF JudgeUsage, RepliesTo
    <3>2. QED
      BY <1>1, <1>2, <1>5, <3>1 DEF Balanced
  <2>6. QED
    BY <1>6, <1>7, <2>2, <2>3, <2>4, <2>5 DEF Accounts
<1>10. QED
  BY <1>8, <1>9

LEMMA JudgeStep ==
    ASSUME ReportAssumption, Accounts, Judge
    PROVE  Accounts'
<1> DEFINE K == Len(verdicts)
<1>1. /\ ReportsTypeOK /\ Judged /\ Asked /\ Timed /\ Written /\ Balanced
  BY DEF Accounts
<1>2. PICK label \in {"CORRECT", "WRONG"}, reply \in experiment.replies :
          /\ verdicts' = [verdicts EXCEPT ![K] = Append(@, [label |-> label, usage |-> reply])]
          /\ spent' = [spent EXCEPT !.judge = @ + Tokens(reply),
                                    !.silent = @ + Silence(reply)]
  BY DEF Judge
<1>3. /\ progress = "judge" /\ Len(verdicts[K]) < experiment.judges
      /\ calls' = [calls EXCEPT !.judge = @ + 1]
      /\ experiment' = experiment /\ progress' = progress /\ ingested' = ingested
      /\ asked' = asked /\ predictions' = predictions /\ retrieval' = retrieval
      /\ rows' = rows /\ scores' = scores /\ usage' = usage /\ timing' = timing
  BY DEF Judge, evaluated, reported
<1> DEFINE verdict == [label |-> label, usage |-> reply]
<1>4. /\ verdicts # <<>> /\ verdicts \in Seq(Seq(Verdicts)) /\ K \in DOMAIN verdicts
      /\ verdicts[K] \in Seq(Verdicts) /\ Len(verdicts) \in Nat
      /\ experiment.judges \in Nat \ {0} /\ Len(predictions) \in Nat
  <2>1. verdicts # <<>> /\ verdicts \in Seq(Seq(Verdicts))
    BY <1>1, <1>3 DEF Judged, ReportsTypeOK
  <2>2. K \in DOMAIN verdicts
    BY <2>1
  <2>3. verdicts[K] \in Seq(Verdicts)
    BY <2>1, <2>2
  <2>4. QED
    BY <1>1, <2>1, <2>2, <2>3, Settings
<1>5. verdict \in Verdicts /\ \A x \in Verdicts : x.usage \in experiment.replies
  BY DEF Verdicts
<1>6. Tokens(reply) \in Nat /\ Silence(reply) \in Nat
  BY <1>1, Settings, TokensAre
<1>7. /\ verdicts'[K] = Append(verdicts[K], verdict) /\ verdicts' \in Seq(Seq(Verdicts)) /\ Len(verdicts') = Len(verdicts)
      /\ DOMAIN verdicts' = DOMAIN verdicts /\ verdicts' # <<>>
      /\ Len(verdicts'[K]) = Len(verdicts[K]) + 1 /\ Len(verdicts[K]) \in Nat
      /\ \A k \in DOMAIN verdicts : k # K => verdicts'[k] = verdicts[k]
  <2>1. verdicts' = [verdicts EXCEPT ![K] = Append(verdicts[K], verdict)]
    BY <1>2
  <2>2. Append(verdicts[K], verdict) \in Seq(Verdicts)
    BY <1>4, <1>5
  <2>3. Len(Append(verdicts[K], verdict)) = Len(verdicts[K]) + 1 /\ Len(verdicts[K]) \in Nat
    BY <1>4, <1>5
  <2> HIDE DEF K, verdict
  <2>5. verdicts' \in Seq(Seq(Verdicts)) /\ Len(verdicts') = Len(verdicts)
    BY <1>4, <2>1, <2>2
  <2>6. /\ DOMAIN verdicts' = DOMAIN verdicts /\ verdicts'[K] = Append(verdicts[K], verdict)
        /\ \A k \in DOMAIN verdicts : k # K => verdicts'[k] = verdicts[k]
    BY <1>4, <2>1
  <2>7. verdicts' # <<>>
    BY <1>4, <2>6
  <2>8. QED
    BY <2>3, <2>5, <2>6, <2>7
<1>8. /\ spent \in [memory : Nat, answerer : Nat, judge : Nat, silent : Nat]
      /\ calls \in [ingestion : Nat, qa : Nat, judge : Nat]
  BY <1>1 DEF ReportsTypeOK
<1>9. /\ spent'.memory = spent.memory /\ spent'.answerer = spent.answerer
      /\ spent'.judge = spent.judge + Tokens(reply)
      /\ spent'.silent = spent.silent + Silence(reply)
      /\ spent' \in [memory : Nat, answerer : Nat, judge : Nat, silent : Nat]
  <2>1. spent' = [spent EXCEPT !.judge = @ + Tokens(reply), !.silent = @ + Silence(reply)]
    BY <1>2
  <2>2. spent.judge + Tokens(reply) \in Nat /\ spent.silent + Silence(reply) \in Nat
    BY <1>6, <1>8
  <2>3. QED
    BY <1>8, <2>1, <2>2
<1>10. /\ calls'.ingestion = calls.ingestion /\ calls'.qa = calls.qa
       /\ calls'.judge = calls.judge + 1 /\ calls' \in [ingestion : Nat, qa : Nat, judge : Nat]
  BY <1>3, <1>8
<1>11. /\ Replied' = Replied /\ Verdicts' = Verdicts /\ Unit' = Unit
       /\ MemoryUsage' = MemoryUsage /\ AnswererUsage' = AnswererUsage /\ Pending' = Pending
  BY <1>3 DEF Replied, Verdicts, Unit, MemoryUsage, AnswererUsage, Pending
<1>12. ReportsTypeOK'
  <2>1. \A k \in DOMAIN verdicts' : Len(verdicts'[k]) <= experiment.judges
    <3>1. \A k \in DOMAIN verdicts : Len(verdicts[k]) <= experiment.judges
      BY <1>1 DEF ReportsTypeOK
    <3>2. Len(verdicts'[K]) <= experiment.judges
      BY <1>3, <1>4, <1>7
    <3> HIDE DEF K
    <3>3. QED
      BY <1>7, <3>1, <3>2
  <2>2. QED
    BY <1>1, <1>3, <1>7, <1>9, <1>10, <1>11, <2>1 DEF ReportsTypeOK
<1>13. Judged'
  BY <1>1, <1>3, <1>7, <1>11 DEF Judged, UnitIsDone
<1>14. Asked'
  BY <1>1, <1>3, <1>11 DEF Asked
<1>15. Timed'
  <2>1. (Len(verdicts[Len(verdicts)]))' = Len(verdicts[Len(verdicts)]) + 1
    BY <1>7
  <2>2. calls.ingestion = Unit /\ calls.qa = Len(predictions)
    BY <1>1 DEF Timed
  <2>3. experiment.judges = 1 =>
            calls'.judge = (Len(verdicts) - 1 + Len(verdicts[Len(verdicts)]))'
    <3>1. experiment.judges = 1 => calls.judge = Len(verdicts) - 1 + Len(verdicts[K])
      BY <1>1, <1>3 DEF Timed
    <3>2. (Len(verdicts) - 1 + Len(verdicts[Len(verdicts)]))'
              = Len(verdicts) - 1 + Len(verdicts[K]) + 1
      <4>1. Len(verdicts') = Len(verdicts) /\ Len(verdicts'[Len(verdicts')]) = Len(verdicts[K]) + 1
        BY <1>7, <2>1
      <4>2. Len(verdicts) \in Nat /\ Len(verdicts[K]) \in Nat
        BY <1>4, <1>7
      <4>3. QED
        BY ONLY <4>1, <4>2
    <3>3. calls'.judge = calls.judge + 1
      BY <1>10
    <3>4. QED
      BY <3>1, <3>2, <3>3
  <2>4. QED
    BY <1>3, <1>10, <1>11, <2>2, <2>3 DEF Timed
<1>16. Written'
  BY <1>1, <1>3 DEF Written
<1>17. Balanced'
  <2>1. /\ Summed(Verdicts, verdicts').tokens
              = Summed(Verdicts, verdicts).tokens + Tokens(verdict.usage)
        /\ Summed(Verdicts, verdicts').missing
              = Summed(Verdicts, verdicts).missing + Silence(verdict.usage)
    <3>1. Draws(Verdicts, experiment.replies)
      BY <1>1, <1>5, Settings DEF Draws
    <3> DEFINE replies == experiment.replies
               X == Verdicts
    <3>2. Draws(X, replies) /\ JudgedOn(X, verdicts, K, verdict, verdicts')
      BY <1>4, <1>5, <1>7, <3>1 DEF JudgedOn
    <3> HIDE DEF K, verdict, replies, X
    <3>3. /\ Summed(X, verdicts').tokens = Summed(X, verdicts).tokens + Tokens(verdict.usage)
          /\ Summed(X, verdicts').missing = Summed(X, verdicts).missing + Silence(verdict.usage)
      BY ONLY <3>2, SummedOfJudged
    <3>4. QED
      BY <3>3 DEF X
  <2>2. JudgeUsage = Summed(Verdicts, verdicts) /\ JudgeUsage' = Summed(Verdicts, verdicts')
    BY <1>4, <1>7, JudgeUsageIs
  <2>3. /\ JudgeUsage'.tokens = JudgeUsage.tokens + Tokens(reply)
        /\ JudgeUsage'.missing = JudgeUsage.missing + Silence(reply)
    BY <2>1, <2>2
  <2>4. /\ MemoryUsage + Pending = spent.memory /\ MemoryUsage \in Int
        /\ AnswererUsage.tokens = spent.answerer /\ JudgeUsage.tokens = spent.judge
        /\ AnswererUsage.missing + JudgeUsage.missing = spent.silent
        /\ AnswererUsage.missing \in Int /\ JudgeUsage.missing \in Int
    BY <1>1 DEF Balanced
  <2>5. (AnswererUsage.missing + JudgeUsage.missing)' = spent'.silent
    BY <1>6, <1>9, <1>11, <2>3, <2>4
  <2>6. QED
    BY <1>6, <1>9, <1>11, <2>3, <2>4, <2>5 DEF Balanced
<1>18. QED
  BY <1>12, <1>13, <1>14, <1>15, <1>16, <1>17 DEF Accounts

\* What the evaluators compute depends on the predictions and the verdicts only.
LEMMA EvaluatedAlike ==
    ASSUME experiment' = experiment, predictions' = predictions, verdicts' = verdicts
    PROVE  /\ RetrievalReport' = RetrievalReport /\ AnalysisRows' = AnalysisRows
           /\ MultiJudgeReport' = MultiJudgeReport
<1>1. RetrievalReport' = RetrievalReport
  BY DEF RetrievalReport
<1>2. AnalysisRows' = AnalysisRows
  BY <1>1 DEF AnalysisRows, AnalysisRow, RowMetric, Judges
<1>3. MultiJudgeReport' = MultiJudgeReport
  BY DEF MultiJudgeReport, Judges, Discordant
<1>4. QED
  BY <1>1, <1>2, <1>3

LEMMA EvaluateStep ==
    ASSUME ReportAssumption, Accounts, Evaluate
    PROVE  Accounts'
<1>1. /\ ReportsTypeOK /\ Judged /\ Asked /\ Timed /\ Written /\ Balanced
  BY DEF Accounts
<1>2. /\ progress = "evaluate" /\ progress' = "report"
      /\ experiment' = experiment /\ ingested' = ingested /\ asked' = asked
      /\ predictions' = predictions /\ verdicts' = verdicts /\ usage' = usage
      /\ timing' = timing /\ spent' = spent /\ calls' = calls
      /\ experiment.schema = 3 => /\ retrieval' = RetrievalReport /\ rows' = AnalysisRows
                                  /\ scores' = MultiJudgeReport
  BY DEF Evaluate, reported, ledger
<1>3. /\ Replied' = Replied /\ Verdicts' = Verdicts /\ Unit' = Unit
      /\ MemoryUsage' = MemoryUsage /\ AnswererUsage' = AnswererUsage
      /\ JudgeUsage' = JudgeUsage /\ Pending' = Pending
  BY <1>2 DEF Replied, Verdicts, Unit, MemoryUsage, AnswererUsage, JudgeUsage, RepliesTo,
              Pending
<1>4. ReportsTypeOK'
  BY <1>1, <1>2, <1>3 DEF ReportsTypeOK
<1>5. Judged'
  BY <1>1, <1>2, <1>3 DEF Judged, UnitIsDone
<1>6. Asked' /\ Timed'
  BY <1>1, <1>2, <1>3 DEF Asked, Timed
<1>7. Written'
  <2>1. /\ RetrievalReport' = RetrievalReport /\ AnalysisRows' = AnalysisRows
        /\ MultiJudgeReport' = MultiJudgeReport
    BY <1>2, EvaluatedAlike
  <2>2. QED
    BY <1>1, <1>2, <2>1 DEF Written
<1>8. Balanced'
  BY <1>1, <1>2, <1>3 DEF Balanced
<1>9. QED
  BY <1>4, <1>5, <1>6, <1>7, <1>8 DEF Accounts

LEMMA WriteReportsStep ==
    ASSUME ReportAssumption, Accounts, WriteReports
    PROVE  Accounts'
<1>1. /\ ReportsTypeOK /\ Judged /\ Asked /\ Timed /\ Written /\ Balanced
  BY DEF Accounts
<1>2. /\ progress = "report" /\ progress' = "done"
      /\ usage' = {UsageReport} /\ timing' = {TimingReport}
      /\ experiment' = experiment /\ ingested' = ingested /\ asked' = asked
      /\ predictions' = predictions /\ verdicts' = verdicts /\ retrieval' = retrieval
      /\ rows' = rows /\ scores' = scores /\ spent' = spent /\ calls' = calls
  BY DEF WriteReports, evaluated, ledger
<1>3. /\ Replied' = Replied /\ Verdicts' = Verdicts /\ Unit' = Unit
      /\ MemoryUsage' = MemoryUsage /\ AnswererUsage' = AnswererUsage
      /\ JudgeUsage' = JudgeUsage /\ Pending' = Pending
  BY <1>2 DEF Replied, Verdicts, Unit, MemoryUsage, AnswererUsage, JudgeUsage, RepliesTo,
              Pending
<1>4. ReportsTypeOK'
  BY <1>1, <1>2, <1>3 DEF ReportsTypeOK
<1>5. Judged'
  BY <1>1, <1>2, <1>3 DEF Judged, UnitIsDone
<1>6. Asked' /\ Timed'
  BY <1>1, <1>2, <1>3 DEF Asked, Timed
<1>7. Written'
  <2>1. /\ RetrievalReport' = RetrievalReport /\ AnalysisRows' = AnalysisRows
        /\ MultiJudgeReport' = MultiJudgeReport
    BY <1>2, EvaluatedAlike
  <2>2. UsageReport' = UsageReport /\ TimingReport' = TimingReport
    BY <1>2, <1>3 DEF UsageReport, TimingReport, Records, Identity, Judges
  <2>3. QED
    BY <1>1, <1>2, <2>1, <2>2 DEF Written
<1>8. Balanced'
  BY <1>1, <1>2, <1>3 DEF Balanced
<1>9. QED
  BY <1>4, <1>5, <1>6, <1>7, <1>8 DEF Accounts

-----------------------------------------------------------------------------
(* The invariant holds. *)

LEMMA AccountsInit == ASSUME ReportAssumption, ReportsInit PROVE Accounts
<1>1. /\ experiment \in Experiments /\ progress = "predict" /\ ingested = <<>> /\ asked = 0
      /\ predictions = <<>> /\ verdicts = <<>> /\ usage = {} /\ timing = {}
      /\ spent = [memory |-> 0, answerer |-> 0, judge |-> 0, silent |-> 0]
      /\ calls = [ingestion |-> 0, qa |-> 0, judge |-> 0]
  BY DEF ReportsInit
<1>2. \A f : DOMAIN f = {} => SumFunction(f) = 0
  BY SumOfDomain, SumOfNone
<1>3. Unit = 0 /\ DOMAIN predictions = {} /\ DOMAIN verdicts = {} /\ Len(predictions) = 0
  BY <1>1 DEF Unit
<1>4. ReportsTypeOK
  <2>1. Len(experiment.units) \in Nat
    BY <1>1 DEF ReportAssumption
  <2>2. <<>> \in Seq(Nat) /\ <<>> \in Seq(Replied) /\ <<>> \in Seq(Seq(Verdicts))
    OBVIOUS
  <2>3. spent \in [memory : Nat, answerer : Nat, judge : Nat, silent : Nat]
    BY <1>1
  <2>4. calls \in [ingestion : Nat, qa : Nat, judge : Nat]
    BY <1>1
  <2>5. QED
    BY <1>1, <1>3, <2>1, <2>2, <2>3, <2>4 DEF ReportsTypeOK
<1>5. Judged /\ Asked /\ Timed /\ Written
  BY <1>1, <1>3 DEF Judged, Asked, Timed, Written
<1>6. Balanced
  <2>1. MemoryUsage = 0
    BY <1>2, <1>3 DEF MemoryUsage
  <2>2. AnswererUsage.tokens = 0 /\ AnswererUsage.missing = 0
    BY <1>2, <1>3 DEF AnswererUsage, Aggregate
  <2>3. JudgeUsage.tokens = 0 /\ JudgeUsage.missing = 0
    BY <1>2, <1>3 DEF JudgeUsage
  <2>4. QED
    BY <1>1, <2>1, <2>2, <2>3 DEF Balanced, Pending
<1>7. QED
  BY <1>4, <1>5, <1>6 DEF Accounts

LEMMA AccountsHold == ASSUME ReportAssumption PROVE ReportsSpec => []Accounts
<1>1. ReportsInit => Accounts
  BY AccountsInit
<1>2. Accounts /\ [ReportsNext]_reportVars => Accounts'
  <2>1. SUFFICES ASSUME Accounts, [ReportsNext]_reportVars PROVE Accounts'
    OBVIOUS
  <2>2. CASE UNCHANGED reportVars
    <3>1. /\ experiment' = experiment /\ progress' = progress /\ ingested' = ingested
          /\ asked' = asked /\ predictions' = predictions /\ verdicts' = verdicts
          /\ retrieval' = retrieval /\ rows' = rows /\ scores' = scores /\ usage' = usage
          /\ timing' = timing /\ spent' = spent /\ calls' = calls
      BY <2>2 DEF reportVars, evaluated, reported, ledger
    <3>2. /\ Replied' = Replied /\ Verdicts' = Verdicts /\ Unit' = Unit
          /\ MemoryUsage' = MemoryUsage /\ AnswererUsage' = AnswererUsage
          /\ JudgeUsage' = JudgeUsage /\ Pending' = Pending
      BY <3>1 DEF Replied, Verdicts, Unit, MemoryUsage, AnswererUsage, JudgeUsage, RepliesTo,
                  Pending
    <3>3. ReportsTypeOK'
      BY <2>1, <3>1, <3>2 DEF Accounts, ReportsTypeOK
    <3>4. Judged' /\ Asked' /\ Timed'
      BY <2>1, <3>1, <3>2 DEF Accounts, Judged, UnitIsDone, Asked, Timed
    <3>5. Written'
      <4>1. /\ RetrievalReport' = RetrievalReport /\ AnalysisRows' = AnalysisRows
            /\ MultiJudgeReport' = MultiJudgeReport
        BY <3>1, EvaluatedAlike
      <4>2. UsageReport' = UsageReport /\ TimingReport' = TimingReport
        BY <3>1, <3>2 DEF UsageReport, TimingReport, Records, Identity, Judges
      <4>3. QED
        BY <2>1, <3>1, <4>1, <4>2 DEF Accounts, Written
    <3>6. Balanced'
      BY <2>1, <3>1, <3>2 DEF Accounts, Balanced
    <3>7. QED
      BY <3>3, <3>4, <3>5, <3>6 DEF Accounts
  <2>3. CASE ReportsNext
    BY <2>1, <2>3, IngestStep, PredictStep, BeginJudgingStep, JudgeStep, NextQuestionStep,
       EvaluateStep, WriteReportsStep DEF ReportsNext
  <2>4. QED
    BY <2>1, <2>2, <2>3
<1>3. QED
  BY <1>1, <1>2, PTL DEF ReportsSpec

-----------------------------------------------------------------------------
(* What was spent is what is reported. *)

LEMMA TheLedger == ASSUME ReportAssumption, Accounts PROVE UsageIsTheLedger
<1>1. CASE progress # "done"
  BY <1>1 DEF Accounts, Written, UsageIsTheLedger
<1>2. CASE progress = "done"
  <2>1. /\ ReportsTypeOK /\ usage = {UsageReport} /\ UnitIsDone /\ Balanced
    BY <1>2 DEF Accounts, Written, Judged
  <2>2. Pending = 0
    BY <2>1, NothingPending
  <2>3. /\ MemoryUsage = spent.memory /\ AnswererUsage.tokens = spent.answerer
        /\ JudgeUsage.tokens = spent.judge
        /\ AnswererUsage.missing + JudgeUsage.missing = spent.silent
    BY <2>1, <2>2 DEF Balanced
  <2>4. /\ UsageReport.memory = MemoryUsage /\ UsageReport.answerer = AnswererUsage
        /\ UsageReport.judge = JudgeUsage
        /\ UsageReport.overall = MemoryUsage + AnswererUsage.tokens + JudgeUsage.tokens
    BY DEF UsageReport
  <2>5. QED
    BY <2>1, <2>3, <2>4 DEF UsageIsTheLedger
<1>3. QED
  BY <1>1, <1>2

\* As many things as there are numbers for them.
LEMMA Numbered ==
    ASSUME NEW n \in Nat, NEW name
    PROVE  Cardinality({<<name, i>> : i \in 1 .. n}) = n
<1> DEFINE T == {<<name, i>> : i \in 1 .. n}
           f == [i \in 1 .. n |-> <<name, i>>]
<1>1. f \in Bijection(1 .. n, T)
  <2>1. f \in [1 .. n -> T] /\ \A i \in 1 .. n : f[i] = <<name, i>>
    OBVIOUS
  <2>2. \A a, b \in 1 .. n : f[a] = f[b] => a = b
    <3>1. \A a, b : <<name, a>> = <<name, b>> => a = b
      OBVIOUS
    <3> HIDE DEF f
    <3>2. QED
      BY <2>1, <3>1
  <2>3. \A t \in T : \E i \in 1 .. n : f[i] = t
    BY <2>1
  <2> HIDE DEF f, T
  <2>4. f \in Injection(1 .. n, T) /\ f \in Surjection(1 .. n, T)
    BY <2>1, <2>2, <2>3 DEF Injection, Surjection, IsInjective
  <2>5. QED
    BY <2>4 DEF Bijection
<1>2. ExistsBijection(1 .. n, T)
  BY <1>1 DEF ExistsBijection
<1>3. IsFiniteSet(1 .. n) /\ Cardinality(1 .. n) = n
  BY FS_Interval
<1>4. QED
  BY <1>2, <1>3, FS_Bijection

LEMMA TheTimings == ASSUME ReportAssumption, Accounts PROVE EachCallIsTimed
<1>1. CASE progress # "done" \/ experiment.judges # 1
  BY <1>1 DEF Accounts, Written, EachCallIsTimed
<1>2. CASE progress = "done" /\ experiment.judges = 1
  <2> DEFINE n == Len(predictions)
             timed(stage) == {Identity(stage, record) : record \in
                                 {r \in Records : stage \in r.stages}}
  <2>1. /\ ReportsTypeOK /\ timing = {TimingReport} /\ Judges = {1}
        /\ n \in Nat /\ DOMAIN predictions = 1 .. n /\ DOMAIN verdicts = 1 .. n
        /\ Unit \in Nat /\ calls.ingestion = Unit /\ calls.qa = n /\ calls.judge = n
    <3>1. ReportsTypeOK /\ Len(verdicts) = n
      BY <1>2 DEF Accounts, Judged
    <3>2. QED
      BY <1>2, <3>1, Settings DEF Accounts, Written, Timed, Judges
  <2>2. /\ \A k \in 1 .. n : predictions[k].unit \in 1 .. Unit
        /\ \A u \in 1 .. Unit : \E k \in 1 .. n : predictions[k].unit = u
    <3>1. ingested # <<>> => asked # 0
      BY <1>2, <2>1, Settings DEF Accounts, Judged, UnitIsDone
    <3>2. ingested = <<>> => Unit = 0
      BY DEF Unit
    <3>3. QED
      BY <2>1, <3>1, <3>2 DEF Accounts, Asked
  <2>3. Records = (IF experiment.schema = 2
                   THEN {[query |-> k, judge |-> 0, stages |-> {"ingestion", "qa"}] : k \in 1 .. n}
                   ELSE {})
                  \cup {[query |-> k, judge |-> 1, stages |-> {"judge"}] : k \in 1 .. n}
    BY <2>1 DEF Records
  <2> HIDE DEF n
  <2> DEFINE predicted == [k \in 1 .. n |-> [query |-> k, judge |-> 0, stages |-> {"ingestion", "qa"}]]
             judged == [k \in 1 .. n |-> [query |-> k, judge |-> 1, stages |-> {"judge"}]]
  <2>4. /\ \A k \in 1 .. n : predicted[k].query = k /\ predicted[k].stages = {"ingestion", "qa"}
        /\ \A k \in 1 .. n : judged[k].query = k /\ judged[k].stages = {"judge"}
        /\ Records = (IF experiment.schema = 2 THEN {predicted[k] : k \in 1 .. n} ELSE {})
                         \cup {judged[k] : k \in 1 .. n}
    BY <2>3
  <2> HIDE DEF predicted, judged
  <2>5. /\ {r \in Records : "judge" \in r.stages} = {judged[k] : k \in 1 .. n}
        /\ experiment.schema = 2 => \A stage \in {"ingestion", "qa"} :
              {r \in Records : stage \in r.stages} = {predicted[k] : k \in 1 .. n}
    BY <2>4
  <2>6. /\ timed("judge") = {<<"question", k>> : k \in 1 .. n}
        /\ experiment.schema = 2 => timed("qa") = {<<"question", k>> : k \in 1 .. n}
        /\ experiment.schema = 2 =>
              timed("ingestion") = {<<"conversation", u>> : u \in 1 .. Unit}
    <3>1. ASSUME NEW s, \A k \in 1 .. n : s[k].query = k
          PROVE  /\ {Identity("judge", r) : r \in {s[k] : k \in 1 .. n}}
                       = {<<"question", k>> : k \in 1 .. n}
                 /\ {Identity("qa", r) : r \in {s[k] : k \in 1 .. n}}
                       = {<<"question", k>> : k \in 1 .. n}
                 /\ {Identity("ingestion", r) : r \in {s[k] : k \in 1 .. n}}
                       = {<<"conversation", predictions[k].unit>> : k \in 1 .. n}
      BY <3>1 DEF Identity
    <3>2. {<<"conversation", predictions[k].unit>> : k \in 1 .. n}
              = {<<"conversation", u>> : u \in 1 .. Unit}
      BY <2>2
    <3>3. QED
      BY <2>4, <2>5, <3>1, <3>2
  <2>7. ASSUME NEW stage \in UNION {record.stages : record \in Records}
        PROVE  stage = "judge" \/ (experiment.schema = 2 /\ stage \in {"ingestion", "qa"})
    BY <2>4
  <2>8. TimingReport = [stage \in UNION {record.stages : record \in Records} |->
                            Cardinality(timed(stage))]
    BY DEF TimingReport
  <2> HIDE DEF timed
  <2>9. /\ Cardinality({<<"question", k>> : k \in 1 .. n}) = n
        /\ Cardinality({<<"conversation", u>> : u \in 1 .. Unit}) = Unit
    <3>1. n \in Nat /\ Unit \in Nat
      BY <2>1
    <3>2. QED
      BY ONLY <3>1, Numbered
  <2>10. ASSUME NEW stage \in DOMAIN TimingReport
        PROVE  TimingReport[stage] = calls[stage]
    <3>1. /\ TimingReport[stage] = Cardinality(timed(stage))
          /\ stage = "judge" \/ (experiment.schema = 2 /\ stage \in {"ingestion", "qa"})
      BY <2>7, <2>8, <2>10
    <3>2. CASE stage = "judge"
      BY <2>1, <2>6, <2>9, <3>1, <3>2
    <3>3. CASE experiment.schema = 2 /\ stage = "qa"
      BY <2>1, <2>6, <2>9, <3>1, <3>3
    <3>4. CASE experiment.schema = 2 /\ stage = "ingestion"
      BY <2>1, <2>6, <2>9, <3>1, <3>4
    <3>5. QED
      BY <3>1, <3>2, <3>3, <3>4
  <2>11. QED
    BY <2>1, <2>10 DEF EachCallIsTimed
<1>3. QED
  BY <1>1, <1>2

LEMMA PairOfTwo ==
    ASSUME NEW a, NEW b, a # b
    PROVE  IsFiniteSet({a, b}) /\ Cardinality({a, b}) = 2
<1>1. IsFiniteSet({a}) /\ Cardinality({a}) = 1
  BY FS_Singleton, Zenon
<1>2. {a, b} = {a} \cup {b} /\ b \notin {a}
  OBVIOUS
<1>3. /\ IsFiniteSet({a} \cup {b})
      /\ Cardinality({a} \cup {b}) = IF b \in {a} THEN Cardinality({a}) ELSE Cardinality({a}) + 1
  BY <1>1, FS_AddElement, Zenon
<1>4. QED
  BY <1>1, <1>2, <1>3

\* Two judges that differ on a question have given it two labels.
LEMMA TheJudges == ASSUME ReportAssumption, Accounts PROVE ScoresDifferWhereJudgesDo
<1>1. SUFFICES ASSUME experiment.schema = 3, progress = "done", NEW i \in Judges, NEW j \in Judges
               PROVE  scores.passes[i] - scores.passes[j] <= Cardinality(scores.discordant)
  BY DEF ScoresDifferWhereJudgesDo
<1> DEFINE passes(l) == {k \in DOMAIN verdicts : verdicts[k][l].label = "CORRECT"}
           discordant == {k \in DOMAIN verdicts : Discordant(k)}
<1>2. /\ scores.passes[i] = Cardinality(passes(i)) /\ scores.passes[j] = Cardinality(passes(j))
      /\ scores.discordant = discordant
  BY <1>1 DEF Accounts, Written, MultiJudgeReport
<1>3. IsFiniteSet(DOMAIN verdicts)
  BY Settings, FS_Interval DEF Accounts
<1>4. /\ IsFiniteSet(passes(i)) /\ IsFiniteSet(passes(j)) /\ IsFiniteSet(discordant)
  <2>1. /\ passes(i) \in SUBSET DOMAIN verdicts /\ passes(j) \in SUBSET DOMAIN verdicts
        /\ discordant \in SUBSET DOMAIN verdicts
    OBVIOUS
  <2> HIDE DEF passes, discordant
  <2>2. QED
    BY <1>3, <2>1, FS_Subset
<1>5. passes(i) \subseteq passes(j) \cup discordant
  <2>1. SUFFICES ASSUME NEW k \in DOMAIN verdicts, verdicts[k][i].label = "CORRECT",
                        verdicts[k][j].label # "CORRECT"
                 PROVE  Discordant(k)
    OBVIOUS
  <2> DEFINE labels == {v.label : v \in ToSet(verdicts[k])}
  <2>2. Len(verdicts[k]) = experiment.judges /\ verdicts[k] \in Seq(Verdicts)
    BY <1>1 DEF Accounts, Judged, ReportsTypeOK
  <2>3. i \in DOMAIN verdicts[k] /\ j \in DOMAIN verdicts[k]
    BY <2>2 DEF Judges
  <2>4. {verdicts[k][i].label, verdicts[k][j].label} \in SUBSET labels
    BY <2>3 DEF ToSet
  <2>5. IsFiniteSet(labels)
    <3>1. labels \in SUBSET {"CORRECT", "WRONG"}
      <4>1. \A l \in DOMAIN verdicts[k] : verdicts[k][l] \in Verdicts
        BY <2>2
      <4>2. \A v \in Verdicts : v.label \in {"CORRECT", "WRONG"}
        BY DEF Verdicts
      <4>3. QED
        BY <4>1, <4>2 DEF ToSet
    <3>2. IsFiniteSet({"CORRECT", "WRONG"})
      BY PairOfTwo, "CORRECT" # "WRONG"
    <3> HIDE DEF labels
    <3>3. QED
      BY <3>1, <3>2, FS_Subset
  <2>6. Cardinality({verdicts[k][i].label, verdicts[k][j].label}) = 2
    BY <2>1, PairOfTwo
  <2> HIDE DEF labels
  <2>7. Cardinality(labels) \in Nat /\ 2 <= Cardinality(labels)
    BY <2>4, <2>5, <2>6, FS_Subset, FS_CardinalityType
  <2>8. QED
    BY <2>7 DEF labels, Discordant
<1> HIDE DEF passes, discordant
<1>6. /\ IsFiniteSet(passes(j) \cup discordant)
      /\ Cardinality(passes(j) \cup discordant) <= Cardinality(passes(j)) + Cardinality(discordant)
  <2>1. /\ IsFiniteSet(passes(j) \cup discordant) /\ IsFiniteSet(passes(j) \cap discordant)
        /\ Cardinality(passes(j) \cup discordant)
              = Cardinality(passes(j)) + Cardinality(discordant)
                    - Cardinality(passes(j) \cap discordant)
    BY <1>4, FS_Union, FS_Intersection
  <2>2. /\ Cardinality(passes(j) \cap discordant) \in Nat /\ Cardinality(passes(j)) \in Nat
        /\ Cardinality(discordant) \in Nat
    BY <1>4, <2>1, FS_CardinalityType
  <2>3. QED
    BY <2>1, <2>2
<1>7. Cardinality(passes(i)) <= Cardinality(passes(j) \cup discordant)
  BY <1>5, <1>6, FS_Subset
<1>8. /\ Cardinality(passes(i)) \in Nat /\ Cardinality(passes(j)) \in Nat
      /\ Cardinality(discordant) \in Nat /\ Cardinality(passes(j) \cup discordant) \in Nat
  BY <1>4, <1>6, FS_CardinalityType
<1>9. QED
  BY <1>2, <1>6, <1>7, <1>8

\* Whatever is spent, done and said, for any plan, any replies and any judges, the
\* usage report has it, the timing report counts it once, and the judges' scores
\* differ by no more than the judges do.
THEOREM Spending == ASSUME ReportAssumption PROVE ReportsSpec => []UsageIsWhatWasSpent
<1>1. Accounts => UsageIsWhatWasSpent
  BY TheLedger, TheTimings, TheJudges DEF UsageIsWhatWasSpent, Accounts
<1>2. QED
  BY <1>1, AccountsHold, PTL

-----------------------------------------------------------------------------
(* What the analysis reads is what it accepts. *)

\* One memory more.
OneMore(gold, memory, k, before) ==
    [seen |-> before.seen \cup (gold \cap memory),
     first |-> IF gold \cap memory # {} /\ before.first = 0 THEN k ELSE before.first]

IsRanked(gold, results, after) ==
    after = [k \in 0 .. Len(results) |->
                IF k = 0 THEN [seen |-> {}, first |-> 0]
                ELSE OneMore(gold, results[k], k, after[k - 1])]

\* The memories so far that have evidence, and the evidence they have.
Hits(gold, results, k) == {r \in 1 .. k : gold \cap results[r] # {}}
Foremost(S) == IF S = {} THEN 0 ELSE CHOOSE r \in S : \A q \in S : r <= q
RankedTo(gold, results, k) ==
    [seen |-> {g \in gold : \E r \in 1 .. k : g \in results[r]},
     first |-> Foremost(Hits(gold, results, k))]

LEMMA ForemostIs ==
    ASSUME NEW S \in SUBSET Nat, S # {}
    PROVE  Foremost(S) \in S /\ \A r \in S : Foremost(S) <= r
<1>1. \E r \in S : \A q \in S : r <= q
  BY Smallest
<1>2. QED
  BY <1>1 DEF Foremost

\* What has been found grows by one memory.
LEMMA RankedToNext ==
    ASSUME NEW gold, NEW results, NEW k \in Nat \ {0}
    PROVE  RankedTo(gold, results, k)
               = OneMore(gold, results[k], k, RankedTo(gold, results, k - 1))
<1> DEFINE before == Hits(gold, results, k - 1)
           now == Hits(gold, results, k)
<1>1. 1 .. k = (1 .. k - 1) \cup {k} /\ k - 1 \in Nat /\ k \notin 1 .. k - 1
  OBVIOUS
<1>2. {g \in gold : \E r \in 1 .. k : g \in results[r]}
          = {g \in gold : \E r \in 1 .. k - 1 : g \in results[r]} \cup (gold \cap results[k])
  BY <1>1
<1>3. now = before \cup (IF gold \cap results[k] # {} THEN {k} ELSE {})
  BY <1>1 DEF Hits
<1>4. before \in SUBSET Nat /\ now \in SUBSET Nat /\ \A r \in before : r < k /\ r # 0
  BY <1>1 DEF Hits
<1>5. Foremost(now) = IF gold \cap results[k] # {} /\ Foremost(before) = 0
                      THEN k ELSE Foremost(before)
  <2> HIDE DEF before, now
  <2>1. CASE gold \cap results[k] = {}
    BY <1>3, <2>1
  <2>2. CASE gold \cap results[k] # {} /\ before = {}
    <3>1. now = {k} /\ Foremost(before) = 0
      BY <1>3, <2>2 DEF Foremost
    <3>2. Foremost(now) \in now
      BY <1>4, <3>1, ForemostIs
    <3>3. QED
      BY <2>2, <3>1, <3>2
  <2>3. CASE gold \cap results[k] # {} /\ before # {}
    <3>1. /\ Foremost(before) \in before /\ \A r \in before : Foremost(before) <= r
          /\ now # {} /\ now = before \cup {k}
      BY <1>3, <1>4, <2>3, ForemostIs
    <3>2. Foremost(now) \in now /\ \A r \in now : Foremost(now) <= r
      BY <1>4, <3>1, ForemostIs
    <3>3. Foremost(now) = Foremost(before)
      <4>1. Foremost(now) <= Foremost(before) /\ Foremost(before) < k
        BY <1>4, <3>1, <3>2
      <4>2. Foremost(now) \in Nat /\ Foremost(before) \in Nat
        BY <1>4, <3>1, <3>2
      <4>3. Foremost(now) \in before
        BY <3>1, <3>2, <4>1, <4>2
      <4>4. QED
        BY <3>1, <4>1, <4>2, <4>3
    <3>4. QED
      BY <1>4, <2>3, <3>1, <3>3
  <2>4. QED
    BY <2>1, <2>2, <2>3
<1>6. QED
  BY <1>2, <1>5 DEF RankedTo, OneMore

\* Whatever is found, its ranks are those of the memories that have evidence.
LEMMA RanksAre ==
    ASSUME NEW gold, NEW results, Len(results) \in Nat
    PROVE  Ranks(gold, results) = RankedTo(gold, results, Len(results))
<1> DEFINE n == Len(results)
           closed == [k \in 0 .. n |-> RankedTo(gold, results, k)]
           after == CHOOSE a : IsRanked(gold, results, a)
<1>1. RankedTo(gold, results, 0) = [seen |-> {}, first |-> 0]
  BY DEF RankedTo, Hits, Foremost
<1>2. IsRanked(gold, results, closed)
  <2>1. ASSUME NEW k \in 0 .. n
        PROVE  closed[k] = IF k = 0 THEN [seen |-> {}, first |-> 0]
                           ELSE OneMore(gold, results[k], k, closed[k - 1])
    <3>1. CASE k = 0
      BY <1>1, <3>1
    <3>2. CASE k # 0
      <4>1. k - 1 \in 0 .. n /\ k \in Nat \ {0}
        BY <3>2
      <4>2. QED
        BY <3>2, <4>1, RankedToNext
    <3>3. QED
      BY <3>1, <3>2
  <2>2. closed = [k \in 0 .. n |-> closed[k]]
    OBVIOUS
  <2> HIDE DEF closed
  <2>3. QED
    BY <2>1, <2>2 DEF IsRanked
<1>3. IsRanked(gold, results, after)
  BY <1>2
<1>4. Ranks(gold, results) = after[n]
  BY Zenon DEF Ranks, IsRanked, OneMore
<1> HIDE DEF after
<1>5. after[n] = RankedTo(gold, results, n)
  <2> DEFINE bad == {k \in 0 .. n : after[k] # RankedTo(gold, results, k)}
  <2>1. SUFFICES ASSUME bad # {} PROVE FALSE
    OBVIOUS
  <2>2. PICK k \in bad : \A j \in bad : k <= j
    BY <2>1, Smallest, bad \in SUBSET Nat
  <2>3. after[k] = IF k = 0 THEN [seen |-> {}, first |-> 0]
                   ELSE OneMore(gold, results[k], k, after[k - 1])
    BY <1>3, <2>2 DEF IsRanked
  <2>4. k # 0 => k - 1 \in 0 .. n /\ k - 1 \notin bad /\ k \in Nat \ {0}
    BY <2>2
  <2>5. k # 0 => after[k - 1] = RankedTo(gold, results, k - 1)
    BY <2>4
  <2>6. after[k] = RankedTo(gold, results, k)
    BY <1>1, <2>3, <2>4, <2>5, RankedToNext
  <2>7. QED
    BY <2>2, <2>6
<1>6. QED
  BY <1>4, <1>5

LEMMA Found ==
    ASSUME ReportAssumption, ReportsTypeOK, NEW k \in DOMAIN predictions
    PROVE  LET s == predictions[k].search IN
           /\ s \in experiment.searches /\ Len(s.results) \in Nat
           /\ DOMAIN s.results = 1 .. Len(s.results)
           /\ Len(s.results) = s.included + (Len(s.results) - s.included)
<1>1. predictions[k] \in Replied
  BY DEF ReportsTypeOK
<1>2. predictions[k].search \in experiment.searches
  BY <1>1 DEF Replied
<1> DEFINE s == predictions[k].search
<1>3. s.results \in Seq(Range(s.results)) /\ s.included \in 0 .. Len(s.results)
  BY <1>2 DEF ReportAssumption, ReportsTypeOK
<1> HIDE DEF s
<1>4. Len(s.results) \in Nat /\ DOMAIN s.results = 1 .. Len(s.results)
  BY <1>3
<1>5. Len(s.results) = s.included + (Len(s.results) - s.included)
  BY <1>3, <1>4
<1>6. QED
  BY <1>2, <1>4, <1>5 DEF s

LEMMA ExactRanks ==
    ASSUME ReportAssumption, ReportsTypeOK, retrieval = RetrievalReport,
           retrieval.status = "COMPLETED"
    PROVE  RanksAreExact
<1> SUFFICES ASSUME NEW k \in DOMAIN predictions
    PROVE  LET s == predictions[k].search  m == retrieval.queries[k]
               hits == {r \in DOMAIN s.results : s.results[r] \cap s.gold # {}} IN
           m.status = "COMPLETED" =>
               /\ m.found = Cardinality({g \in s.gold : \E r \in hits : g \in s.results[r]})
               /\ IF hits = {} THEN m.first = 0
                  ELSE m.first \in hits /\ \A r \in hits : m.first <= r
  BY DEF RanksAreExact
<1> DEFINE s == predictions[k].search
           m == retrieval.queries[k]
           n == Len(s.results)
           hits == {r \in DOMAIN s.results : s.results[r] \cap s.gold # {}}
           ranked == RankedTo(s.gold, s.results, n)
<1>1. n \in Nat /\ DOMAIN s.results = 1 .. n
  BY Found
<1>2. m = Metric(s)
  BY DEF RetrievalReport, Unavailable
<1>3. m.status = "COMPLETED" => m.found = Cardinality(ranked.seen) /\ m.first = ranked.first
  <2>1. Ranks(s.gold, s.results) = ranked
    BY <1>1, RanksAre
  <2> HIDE DEF s, m, ranked
  <2>2. QED
    BY <1>2, <2>1 DEF Metric, Unavailable
<1>4. hits = Hits(s.gold, s.results, n) /\ hits \in SUBSET Nat
  BY <1>1 DEF Hits
<1>5. ranked.seen = {g \in s.gold : \E r \in hits : g \in s.results[r]}
  BY <1>1 DEF RankedTo
<1>6. /\ ranked.first = Foremost(hits)
      /\ hits = {} => Foremost(hits) = 0
      /\ hits # {} => Foremost(hits) \in hits /\ \A r \in hits : Foremost(hits) <= r
  <2>1. ranked.first = Foremost(hits)
    BY <1>4 DEF RankedTo
  <2> HIDE DEF hits
  <2>2. QED
    BY <1>4, <2>1, ForemostIs DEF Foremost
<1>7. QED
  <2> HIDE DEF hits, ranked, m, n
  <2>1. m.status = "COMPLETED" =>
            /\ m.found = Cardinality({g \in s.gold : \E r \in hits : g \in s.results[r]})
            /\ IF hits = {} THEN m.first = 0
               ELSE m.first \in hits /\ \A r \in hits : m.first <= r
    BY <1>3, <1>5, <1>6
  <2>2. QED
    BY <2>1 DEF hits, m

LEMMA RowsAreAcceptable ==
    ASSUME ReportAssumption, ReportsTypeOK, retrieval = RetrievalReport, rows = AnalysisRows
    PROVE  /\ DOMAIN rows = DOMAIN predictions
           /\ \A k \in DOMAIN rows : Acceptable(rows[k], k)
<1>1. rows = [k \in DOMAIN predictions |-> AnalysisRow(k, retrieval)]
  BY DEF AnalysisRows
<1>2. ASSUME NEW k \in DOMAIN predictions
      PROVE  Acceptable(AnalysisRow(k, retrieval), k)
  <2> DEFINE row == AnalysisRow(k, retrieval)
             s == predictions[k].search
  <2>1. /\ row.query = k /\ row.metric = RowMetric(k, retrieval)
        /\ row.primary = verdicts[k][experiment.primary].label
        /\ row.labels = [j \in Judges |-> verdicts[k][j].label]
        /\ row.returned = Len(s.results) /\ row.included = s.included
        /\ row.excluded = Len(s.results) - s.included
        /\ row.answerer = predictions[k].answerer
    BY DEF AnalysisRow
  <2>2. experiment.primary \in Judges
    BY Settings
  <2>3. row.returned = row.included + row.excluded
    BY <2>1, Found
  <2>4. IF retrieval.status = "COMPLETED" THEN row.metric = retrieval.queries[k]
        ELSE row.metric.status = "NOT_APPLICABLE" /\ row.metric.reason = retrieval.reason
    BY <2>1 DEF RowMetric, Unavailable
  <2> HIDE DEF row
  <2>5. row.primary = row.labels[experiment.primary]
        /\ \A j \in Judges : row.labels[j] = verdicts[k][j].label
    BY <2>1, <2>2
  <2>6. Acceptable(row, k)
    BY <2>1, <2>3, <2>4, <2>5 DEF Acceptable
  <2>7. QED
    BY <2>6 DEF row
<1>3. QED
  BY <1>1, <1>2

\* For any run, whatever was searched and found and however it was judged, the
\* analysis accepts the rows, and the ranks and the evidence found are so.
THEOREM Accepted == ASSUME ReportAssumption PROVE ReportsSpec => []AnalysisAccepts
<1>1. Accounts => AnalysisAccepts
  BY ExactRanks, RowsAreAcceptable DEF AnalysisAccepts, Accounts, Written
<1>2. QED
  BY <1>1, AccountsHold, PTL

-----------------------------------------------------------------------------
(* The analysis. *)

LEMMA SequencesAreFinite ==
    ASSUME NEW X, NEW s \in Seq(X)
    PROVE  /\ Len(s) \in Nat /\ DOMAIN s = 1 .. Len(s)
           /\ IsFiniteSet(DOMAIN s) /\ IsFiniteSet(ToSet(s))
<1>1. Len(s) \in Nat /\ DOMAIN s = 1 .. Len(s)
  OBVIOUS
<1>2. IsFiniteSet(DOMAIN s)
  <2>1. 1 \in Int /\ Len(s) \in Int
    BY <1>1
  <2>2. QED
    BY <1>1, <2>1, FS_Interval, Zenon
<1>3. [i \in DOMAIN s |-> s[i]] \in Surjection(DOMAIN s, ToSet(s))
  BY DEF Surjection, ToSet
<1>4. QED
  BY <1>1, <1>2, <1>3, FS_Surjection

\* What is said of one publication that was checked.
Checked(run) == run \in Publications /\ Consistent(run)

\* Each query has a row, with a score.
LEMMA RowsAre ==
    ASSUME PlanAssumption, NEW run, Checked(run), NEW q \in Expected(run)
    PROVE  /\ RowOf(run.rows, q) \in ToSet(run.rows)
           /\ RowOf(run.rows, q).query = q /\ RowOf(run.rows, q).score \in Int
<1>1. QueriesOf(run.rows) = run.expected /\ \A row \in ToSet(run.rows) : row.score \in Int
  BY DEF Checked, Consistent, PlanAssumption
<1>2. PICK k \in DOMAIN run.expected : run.expected[k] = q
  BY DEF Expected, ToSet
<1>3. k \in DOMAIN run.rows /\ run.rows[k].query = q
  BY <1>1, <1>2 DEF QueriesOf
<1> DEFINE row == CHOOSE j \in DOMAIN run.rows : run.rows[j].query = q
<1>4. row \in DOMAIN run.rows /\ run.rows[row].query = q
  BY <1>3
<1>5. RowOf(run.rows, q) = run.rows[row]
  BY DEF RowOf
<1>6. QED
  BY <1>1, <1>4, <1>5 DEF ToSet

\* The mean of some queries of a unit is a fraction.
LEMMA MeansAre ==
    ASSUME PlanAssumption, NEW run, Checked(run), NEW u \in DOMAIN run.units,
           NEW queries \in SUBSET Expected(run)
    PROVE  /\ IsFiniteSet(ToSet(run.units[u]) \cap queries)
           /\ UnitMean(run, u, queries)[1] \in Int /\ UnitMean(run, u, queries)[2] \in Nat
           /\ u \in UnitsWith(run, queries) => UnitMean(run, u, queries)[2] # 0
<1> DEFINE ours == ToSet(run.units[u]) \cap queries
           marks == [q \in ours |-> RowOf(run.rows, q).score]
<1>1. run.units[u] \in Seq(Queries)
  BY DEF Checked, PlanAssumption
<1>2. IsFiniteSet(ours) /\ Cardinality(ours) \in Nat /\ (Cardinality(ours) = 0 <=> ours = {})
  BY <1>1, SequencesAreFinite, FS_Subset, FS_CardinalityType, FS_EmptySet
<1>3. Numbers(marks, ours)
  BY <1>2, RowsAre DEF Numbers
<1>4. UnitMean(run, u, queries) = <<SumFunctionOnSet(marks, ours), Cardinality(ours)>>
  BY DEF UnitMean
<1>5. SumFunctionOnSet(marks, ours) \in Int
  BY <1>3, SumType
<1>6. u \in UnitsWith(run, queries) => ours # {}
  BY DEF UnitsWith
<1> HIDE DEF ours, marks
<1>7. QED
  BY <1>2, <1>4, <1>5, <1>6 DEF ours

\* Some unit has a query.
LEMMA SomeUnitAsks ==
    ASSUME PlanAssumption, NEW run, Checked(run)
    PROVE  /\ IsFiniteSet(UnitsWith(run, Expected(run)))
           /\ Cardinality(UnitsWith(run, Expected(run))) \in Nat \ {0}
<1>1. run.expected \in Seq(Queries) /\ run.units \in Seq(Seq(Queries))
  BY DEF Checked, PlanAssumption
<1>2. IsFiniteSet(UnitsWith(run, Expected(run)))
  BY <1>1, SequencesAreFinite, FS_Subset DEF UnitsWith
<1>3. PICK i \in DOMAIN run.expected : TRUE
  <2>1. run.expected # <<>>
    BY DEF Checked, Consistent
  <2>2. Len(run.expected) # 0 /\ Len(run.expected) \in Nat
    BY <1>1, <2>1
  <2>3. 1 \in DOMAIN run.expected
    BY <1>1, <2>2
  <2>4. QED
    BY <2>3
<1>4. run.expected[i] \in Expected(run)
  BY DEF Expected, ToSet
<1>5. PICK u \in DOMAIN run.units : run.expected[i] \in ToSet(run.units[u])
  BY <1>4 DEF Checked, Consistent, EachAskedOnce
<1>6. UnitsWith(run, Expected(run)) # {}
  BY <1>4, <1>5 DEF UnitsWith
<1>7. QED
  BY <1>2, <1>6, FS_CardinalityType, FS_EmptySet

IsMultiple(run, n, m) ==
    m = [k \in 0 .. n |->
            IF k = 0 THEN 1
            ELSE IF k \in UnitsWith(run, Expected(run))
            THEN m[k - 1] * UnitMean(run, k, Expected(run))[2]
            ELSE m[k - 1]]

LEMMA ProductIsPositive ==
    ASSUME NEW a \in Nat \ {0}, NEW b \in Nat \ {0}
    PROVE  a * b \in Nat \ {0}
  OBVIOUS

\* The common multiple exists, and is not zero.
LEMMA MultipleIs ==
    ASSUME PlanAssumption, NEW run, Checked(run)
    PROVE  Multiple(run) \in Nat \ {0}
<1> DEFINE asking == UnitsWith(run, Expected(run))
           count(k) == UnitMean(run, k, Expected(run))[2]
           fits(n, m) == IsMultiple(run, n, m) /\ \A k \in 0 .. n : m[k] \in Nat \ {0}
           without == {n \in Nat : ~ \E m : fits(n, m)}
<1>1. \A k \in asking : count(k) \in Nat \ {0}
  BY MeansAre DEF UnitsWith
<1>2. fits(0, [k \in 0 .. 0 |-> 1])
  BY DEF IsMultiple
<1>3. ASSUME NEW n \in Nat, NEW m, fits(n, m)
      PROVE  \E next : fits(n + 1, next)
  <2> DEFINE last == IF n + 1 \in asking THEN m[n] * count(n + 1) ELSE m[n]
             next == [k \in 0 .. n + 1 |-> IF k = n + 1 THEN last ELSE m[k]]
  <2>1. m[n] \in Nat \ {0}
    BY <1>3
  <2>2. last \in Nat \ {0}
    <3> HIDE DEF count, asking
    <3>1. CASE n + 1 \in asking
      BY <1>1, <2>1, <3>1, ProductIsPositive
    <3>2. CASE n + 1 \notin asking
      BY <2>1, <3>2
    <3>3. QED
      BY <3>1, <3>2
  <2>3. /\ \A k \in 0 .. n : next[k] = m[k]
        /\ next[n + 1] = last /\ DOMAIN next = 0 .. n + 1
    OBVIOUS
  <2>4. \A k \in 0 .. n + 1 : k # 0 => (k - 1) \in 0 .. n
    OBVIOUS
  <2>5. ASSUME NEW k \in 0 .. n + 1
        PROVE  next[k] = IF k = 0 THEN 1
                         ELSE IF k \in asking THEN next[k - 1] * count(k) ELSE next[k - 1]
    <3>1. CASE k = n + 1
      <4>1. k # 0 /\ k - 1 = n /\ next[k - 1] = m[n] /\ next[k] = last
        BY <2>3, <3>1
      <4> HIDE DEF next, count, asking
      <4>2. QED
        BY <3>1, <4>1
    <3>2. CASE k \in 0 .. n
      <4>1. m[k] = IF k = 0 THEN 1
                   ELSE IF k \in asking THEN m[k - 1] * count(k) ELSE m[k - 1]
        BY <1>3, <3>2 DEF IsMultiple
      <4>2. next[k] = m[k] /\ (k # 0 => next[k - 1] = m[k - 1])
        BY <2>3, <2>4, <3>2
      <4> HIDE DEF next, count, asking
      <4>3. QED
        BY <4>1, <4>2
    <3>3. QED
      BY <3>1, <3>2
  <2>6. IsMultiple(run, n + 1, next)
    <3>1. next = [k \in 0 .. n + 1 |-> next[k]]
      OBVIOUS
    <3> HIDE DEF next
    <3>2. QED
      BY <2>5, <3>1 DEF IsMultiple
  <2>7. \A k \in 0 .. n + 1 : next[k] \in Nat \ {0}
    <3>1. \A k \in 0 .. n + 1 : k \in 0 .. n \/ k = n + 1
      OBVIOUS
    <3> HIDE DEF next, last
    <3>2. QED
      BY <1>3, <2>2, <2>3, <3>1
  <2>8. QED
    BY <2>6, <2>7
<1>4. without = {}
  <2>1. SUFFICES ASSUME without # {} PROVE FALSE
    OBVIOUS
  <2>2. PICK n \in without : \A j \in without : n <= j
    BY <2>1, Smallest, without \in SUBSET Nat
  <2>3. n # 0 /\ n \in Nat
    BY <1>2
  <2>4. n - 1 \in Nat /\ n - 1 \notin without /\ (n - 1) + 1 = n
    BY <2>2, <2>3
  <2>5. PICK m : fits(n - 1, m)
    BY <2>4
  <2> HIDE DEF fits
  <2>6. QED
    BY <1>3, <2>2, <2>4, <2>5
<1>5. Len(run.units) \in Nat
  BY DEF Checked, PlanAssumption
<1> DEFINE chosen == CHOOSE m : IsMultiple(run, Len(run.units), m)
<1>6. PICK m : fits(Len(run.units), m)
  BY <1>4, <1>5
<1>7. Multiple(run) = chosen[Len(run.units)]
  BY Zenon DEF Multiple, IsMultiple
<1>8. IsMultiple(run, Len(run.units), chosen)
  BY <1>6
<1> HIDE DEF chosen
<1>9. chosen[Len(run.units)] \in Nat \ {0}
  <2> DEFINE bad == {k \in 0 .. Len(run.units) : chosen[k] \notin Nat \ {0}}
  <2>1. SUFFICES ASSUME bad # {} PROVE FALSE
    BY <1>5
  <2>2. PICK k \in bad : \A j \in bad : k <= j
    BY <1>5, <2>1, Smallest, bad \in SUBSET Nat
  <2>3. chosen[k] = IF k = 0 THEN 1
                    ELSE IF k \in asking THEN chosen[k - 1] * count(k) ELSE chosen[k - 1]
    BY <1>8, <2>2 DEF IsMultiple
  <2>4. k # 0 => k - 1 \in 0 .. Len(run.units) /\ k - 1 \notin bad
    BY <1>5, <2>2
  <2>5. k # 0 => chosen[k - 1] \in Nat \ {0}
    BY <2>4
  <2> HIDE DEF count, asking
  <2>6. k \in asking /\ k # 0 => chosen[k - 1] * count(k) \in Nat \ {0}
    BY <1>1, <2>5, ProductIsPositive
  <2>7. chosen[k] \in Nat \ {0}
    BY <2>3, <2>5, <2>6
  <2>8. QED
    BY <2>2, <2>7
<1>10. QED
  BY <1>7, <1>9

\* A fraction.
Fraction(x) == x[1] \in Int /\ x[2] \in Nat \ {0}

LEMMA ScoreIs ==
    ASSUME PlanAssumption, NEW run, Checked(run)
    PROVE  Fraction(Score(run))
<1> DEFINE asking == UnitsWith(run, Expected(run))
           mean(u) == UnitMean(run, u, Expected(run))
           share == [u \in asking |-> mean(u)[1] * (Multiple(run) \div mean(u)[2])]
<1>1. Score(run) = <<SumFunctionOnSet(share, asking), Multiple(run) * Cardinality(asking)>>
  BY DEF Score
<1>2. IsFiniteSet(asking) /\ Cardinality(asking) \in Nat \ {0}
  BY SomeUnitAsks
<1>3. Multiple(run) \in Nat \ {0}
  BY MultipleIs
<1>4. ASSUME NEW u \in asking PROVE share[u] \in Int
  <2>1. mean(u)[1] \in Int /\ mean(u)[2] \in Nat \ {0}
    BY <1>4, MeansAre DEF UnitsWith
  <2>2. share[u] = mean(u)[1] * (Multiple(run) \div mean(u)[2])
    BY <1>4
  <2> HIDE DEF mean, share
  <2>3. Multiple(run) \div mean(u)[2] \in Int
    BY <1>3, <2>1
  <2>4. QED
    BY <2>1, <2>2, <2>3
<1> HIDE DEF share, asking
<1>5. SumFunctionOnSet(share, asking) \in Int
  BY <1>2, <1>4, SumType DEF Numbers
<1>6. Multiple(run) * Cardinality(asking) \in Nat \ {0}
  BY <1>2, <1>3, ProductIsPositive
<1>7. QED
  BY <1>1, <1>5, <1>6 DEF Fraction

LEMMA Multiplied ==
    ASSUME NEW a \in Int, NEW b \in Int, NEW c \in Nat
    PROVE  /\ a >= b => a * c >= b * c
           /\ a * c >= b * c /\ c # 0 => a >= b
  OBVIOUS

LEMMA Reordered ==
    ASSUME NEW a \in Int, NEW b \in Int, NEW c \in Int
    PROVE  a * b \in Int /\ (a * b) * c = (a * c) * b
  OBVIOUS

\* Fractions are ordered.
LEMMA FractionsInOrder ==
    ASSUME NEW x, NEW y, NEW z, Fraction(x), Fraction(y), Fraction(z)
    PROVE  /\ AtLeast(x, x) /\ (AtLeast(x, y) \/ AtLeast(y, x))
           /\ AtLeast(x, y) /\ AtLeast(y, z) => AtLeast(x, z)
<1>1. /\ x[1] \in Int /\ y[1] \in Int /\ z[1] \in Int
      /\ x[2] \in Nat \ {0} /\ y[2] \in Nat \ {0} /\ z[2] \in Nat \ {0}
  BY DEF Fraction
<1>2. AtLeast(x, x) /\ (AtLeast(x, y) \/ AtLeast(y, x))
  <2>1. x[1] * x[2] \in Int /\ x[1] * y[2] \in Int /\ y[1] * x[2] \in Int
    BY <1>1
  <2>2. QED
    BY <2>1 DEF AtLeast
<1>3. ASSUME AtLeast(x, y), AtLeast(y, z) PROVE AtLeast(x, z)
  <2>1. (x[1] * y[2]) * z[2] >= (y[1] * x[2]) * z[2]
    BY <1>1, <1>3, Multiplied, Reordered DEF AtLeast
  <2>2. (y[1] * z[2]) * x[2] >= (z[1] * y[2]) * x[2]
    BY <1>1, <1>3, Multiplied, Reordered DEF AtLeast
  <2>3. /\ (x[1] * y[2]) * z[2] = (x[1] * z[2]) * y[2]
        /\ (y[1] * x[2]) * z[2] = (y[1] * z[2]) * x[2]
        /\ (z[1] * y[2]) * x[2] = (z[1] * x[2]) * y[2]
    BY <1>1, Reordered
  <2>4. x[1] * z[2] \in Int /\ z[1] * x[2] \in Int /\ y[1] * z[2] \in Int
    BY <1>1
  <2>5. /\ (x[1] * z[2]) * y[2] \in Int /\ (y[1] * z[2]) * x[2] \in Int
        /\ (z[1] * x[2]) * y[2] \in Int
    BY <1>1, <2>4
  <2>6. (x[1] * z[2]) * y[2] >= (z[1] * x[2]) * y[2]
    BY <2>1, <2>2, <2>3, <2>5
  <2>7. QED
    BY <1>1, <2>4, <2>6, Multiplied DEF AtLeast
<1>4. QED
  BY <1>2, <1>3

\* Its cost and its latency, where it has them, are numbers.
LEMMA FiguresAre ==
    ASSUME PlanAssumption, NEW run, Checked(run), Available(run)
    PROVE  The(run.cost) \in Int /\ The(run.latency) \in Int
  BY DEF PlanAssumption, Checked, Available, The

\* Dominance is a strict order.
LEMMA DominanceIsStrict ==
    ASSUME PlanAssumption, NEW a, NEW b, NEW c, Checked(a), Checked(b), Checked(c),
           Available(a), Available(b), Available(c)
    PROVE  /\ ~ Dominates(a, a)
           /\ Dominates(a, b) /\ Dominates(b, c) => Dominates(a, c)
<1>1. Fraction(Score(a)) /\ Fraction(Score(b)) /\ Fraction(Score(c))
  BY ScoreIs
<1>2. /\ The(a.cost) \in Int /\ The(b.cost) \in Int /\ The(c.cost) \in Int
      /\ The(a.latency) \in Int /\ The(b.latency) \in Int /\ The(c.latency) \in Int
  BY FiguresAre
<1>3. ~ Dominates(a, a)
  BY <1>1, <1>2, FractionsInOrder DEF Dominates
<1>4. ASSUME Dominates(a, b), Dominates(b, c) PROVE Dominates(a, c)
  <2>1. AtLeast(Score(a), Score(c))
    BY <1>1, <1>4, FractionsInOrder DEF Dominates
  <2>2. The(a.cost) <= The(c.cost) /\ The(a.latency) <= The(c.latency)
    BY <1>2, <1>4 DEF Dominates
  <2>3. CASE ~ AtLeast(Score(b), Score(a))
    <3>1. ~ AtLeast(Score(c), Score(a))
      BY <1>1, <1>4, <2>3, FractionsInOrder DEF Dominates
    <3>2. QED
      BY <2>1, <2>2, <3>1 DEF Dominates
  <2>4. CASE ~ AtLeast(Score(c), Score(b))
    <3>1. ~ AtLeast(Score(c), Score(a))
      BY <1>1, <1>4, <2>4, FractionsInOrder DEF Dominates
    <3>2. QED
      BY <2>1, <2>2, <3>1 DEF Dominates
  <2>5. CASE AtLeast(Score(b), Score(a)) /\ AtLeast(Score(c), Score(b))
    <3>1. /\ The(a.cost) <= The(b.cost) /\ The(b.cost) <= The(c.cost)
          /\ The(a.latency) <= The(b.latency) /\ The(b.latency) <= The(c.latency)
          /\ The(a.cost) < The(b.cost) \/ The(a.latency) < The(b.latency)
      BY <1>4, <2>5 DEF Dominates
    <3>2. The(a.cost) < The(c.cost) \/ The(a.latency) < The(c.latency)
      BY <1>2, <3>1
    <3>3. QED
      BY <1>4, <2>1, <2>2, <3>2 DEF Dominates
  <2>6. QED
    BY <2>3, <2>4, <2>5
<1>5. QED
  BY <1>3, <1>4

\* Runs that were all checked: where one is dominated, one on the frontier does.
LEMMA DominatedFromFrontier ==
    ASSUME PlanAssumption, \A r \in RunIds : Checked(published[r]),
           NEW r \in RunIds, StatusOf(r) = "DOMINATED"
    PROVE  \E q \in RunIds : /\ q # r /\ StatusOf(q) = "FRONTIER"
                             /\ Comparable(published[q], published[r])
                             /\ Dominates(published[q], published[r])
<1> DEFINE better == {q \in RunIds : /\ Comparable(published[q], published[r])
                                     /\ Dominates(published[q], published[r])}
           above(q) == {x \in better : Dominates(published[x], published[q])}
           sizes == {Cardinality(above(q)) : q \in better}
<1>1. Available(published[r]) /\ \A q \in better : Available(published[q])
  BY DEF StatusOf, Dominates
<1>2. \E q \in RunIds \ {r} : /\ Comparable(published[q], published[r])
                              /\ Dominates(published[q], published[r])
  BY DEF StatusOf
<1>3. better # {}
  BY <1>2
<1>4. \A q \in better : IsFiniteSet(above(q)) /\ Cardinality(above(q)) \in Nat
  <2>1. IsFiniteSet(RunIds)
    BY DEF PlanAssumption
  <2>2. \A q \in better : above(q) \in SUBSET RunIds
    OBVIOUS
  <2>3. QED
    BY <2>1, <2>2, FS_Subset, FS_CardinalityType
<1>5. PICK n \in sizes : \A m \in sizes : n <= m
  <2>1. sizes \in SUBSET Nat
    BY <1>4
  <2>2. sizes # {}
    BY <1>3
  <2> HIDE DEF sizes
  <2>3. QED
    BY <2>1, <2>2, Smallest
<1>6. PICK q \in better : n = Cardinality(above(q))
  BY <1>5
<1>7. \A x \in RunIds : Comparable(published[x], published[q])
                           /\ Dominates(published[x], published[q]) => x \in better
  <2>1. SUFFICES ASSUME NEW x \in RunIds, Comparable(published[x], published[q]),
                        Dominates(published[x], published[q])
                 PROVE  x \in better
    OBVIOUS
  <2>2. Available(published[x])
    BY <2>1 DEF Dominates
  <2>3. Dominates(published[x], published[r])
    BY <1>1, <2>1, <2>2, DominanceIsStrict
  <2>4. Comparable(published[x], published[r])
    BY <2>1 DEF Comparable
  <2>5. QED
    BY <2>3, <2>4
<1>8. ASSUME NEW x \in better, Dominates(published[x], published[q])
      PROVE  FALSE
  <2>1. above(x) \subseteq above(q)
    BY <1>1, <1>8, DominanceIsStrict
  <2>2. x \in above(q) /\ x \notin above(x)
    BY <1>1, <1>8, DominanceIsStrict
  <2>3. Cardinality(above(x)) <= Cardinality(above(q)) /\ above(x) # above(q)
    BY <1>4, <2>1, <2>2, FS_Subset
  <2>4. Cardinality(above(x)) # Cardinality(above(q))
    BY <1>4, <2>1, <2>3, FS_Subset
  <2>5. Cardinality(above(x)) \in sizes
    BY <1>8
  <2> HIDE DEF above, sizes
  <2>6. n <= Cardinality(above(x))
    BY <1>5, <2>5
  <2>7. QED
    BY <1>4, <1>6, <1>8, <2>3, <2>4, <2>6
<1>9. StatusOf(q) = "FRONTIER"
  <2>1. Available(published[q])
    BY <1>1
  <2>2. ~ \E x \in RunIds \ {q} : /\ Comparable(published[x], published[q])
                                  /\ Dominates(published[x], published[q])
    BY <1>7, <1>8
  <2>3. QED
    BY <2>1, <2>2 DEF StatusOf
<1>10. q # r
  BY <1>1, <1>6, DominanceIsStrict
<1>11. QED
  BY <1>9, <1>10

\* What the differences of two runs' means are differences of: of the queries of
\* a unit that were asked for.
Gains(left, right, gain, ours) ==
    \A q \in ours : gain[q] = right.judgments[q].score - left.judgments[q].score

LEMMA DifferencesAreOfJudgments ==
    ASSUME PlanAssumption, NEW left, NEW right, Checked(left), Checked(right),
           Compatible(left, right), NEW queries \in SUBSET Expected(left),
           NEW u \in UnitsWith(left, queries), NEW ours,
           ours = ToSet(left.units[u]) \cap queries,
           NEW gain, Gains(left, right, gain, ours)
    PROVE  Paired(left, right, queries)[u][1] * Cardinality(ours)
               = SumFunctionOnSet(gain, ours) * Paired(left, right, queries)[u][2]
<1> DEFINE ofLeft == [q \in ours |-> RowOf(left.rows, q).score]
           ofRight == [q \in ours |-> RowOf(right.rows, q).score]
           n == Cardinality(ours)
           L == SumFunctionOnSet(ofLeft, ours)
           R == SumFunctionOnSet(ofRight, ours)
<1>1. /\ u \in DOMAIN left.units /\ u \in DOMAIN right.units
      /\ ToSet(right.units[u]) = ToSet(left.units[u]) /\ Expected(right) = Expected(left)
  BY DEF UnitsWith, Compatible, Expected
<1>2. ours \subseteq Expected(left)
  OBVIOUS
<1>3. IsFiniteSet(ours) /\ n \in Nat
  BY <1>1, MeansAre, FS_CardinalityType
<1>4. /\ UnitMean(left, u, queries) = <<L, n>>
      /\ UnitMean(right, u, queries) = <<R, n>>
  BY <1>1 DEF UnitMean
<1>5. Numbers(ofLeft, ours) /\ Numbers(ofRight, ours)
  BY <1>1, <1>2, <1>3, RowsAre DEF Numbers
<1>6. \A q \in ours : gain[q] = ofRight[q] - ofLeft[q]
  <2>1. SUFFICES ASSUME NEW q \in ours PROVE gain[q] = ofRight[q] - ofLeft[q]
    OBVIOUS
  <2>2. q \in Expected(left) /\ q \in Expected(right)
    BY <1>1, <1>2
  <2>3. /\ left.judgments[q].score = RowOf(left.rows, q).score
        /\ right.judgments[q].score = RowOf(right.rows, q).score
    BY <2>2 DEF Checked, Consistent
  <2>4. QED
    BY <2>3 DEF Gains
<1>7. SumFunctionOnSet(gain, ours) = R - L
  <2> HIDE DEF ofLeft, ofRight
  <2>1. QED
    BY <1>5, <1>6, SumOfDifferences
<1>8. L \in Int /\ R \in Int
  BY <1>5, SumType
<1>9. Paired(left, right, queries)[u] = <<R * n - L * n, n * n>>
  <2>1. Paired(left, right, queries)[u]
            = Difference(UnitMean(left, u, queries), UnitMean(right, u, queries))
    BY DEF Paired
  <2> HIDE DEF L, R, n
  <2>2. QED
    BY <1>4, <2>1 DEF Difference
<1> HIDE DEF L, R, n
<1>10. (R * n - L * n) * n = (R - L) * (n * n)
  <2>1. (R * n - L * n) = (R - L) * n
    BY <1>3, <1>8
  <2>2. ((R - L) * n) * n = (R - L) * (n * n)
    BY <1>3, <1>8
  <2>3. QED
    BY <2>1, <2>2
<1>11. QED
  BY <1>7, <1>9, <1>10 DEF n

\* A query's stratum is that of its row, in the evaluation too where its name is
\* one of the benchmark's.
LEMMA StratumIs ==
    ASSUME NEW run, Checked(run), NEW q \in Expected(run), NEW name
    PROVE  StratumOf(run, q, name) = Said(RowOf(run.rows, q).strata, name)
BY DEF Checked, Consistent, StratumOf

\* The queries of a unit that have a stratum.
Having(left, run, u, name, value) ==
    {q \in ToSet(left.units[u]) : value \in StratumOf(run, q, name)}

\* Every query with a stratum is in its comparison, and of each unit that has
\* those that both runs give that stratum.
LEMMA StrataHold ==
    ASSUME PlanAssumption, NEW left, NEW right, Checked(left), Checked(right),
           Compatible(left, right), StrataPaired(left, right), NEW name \in Names
    PROVE  /\ \A q \in Expected(left) : \A value \in StratumOf(left, q, name) :
                 /\ value \in Values(left, name)
                 /\ \E u \in UnitsWith(left, InStratum(left, name, value)) :
                       q \in ToSet(left.units[u])
           /\ \A value \in Values(left, name) :
                 /\ InStratum(left, name, value) \in SUBSET Expected(left)
                 /\ \A u \in UnitsWith(left, InStratum(left, name, value)) :
                       LET ours == ToSet(left.units[u]) \cap InStratum(left, name, value) IN
                       /\ ours # {} /\ ours = Having(left, left, u, name, value)
                       /\ ours = Having(left, right, u, name, value)
<1>1. /\ Expected(right) = Expected(left)
      /\ \A u \in DOMAIN left.units : ToSet(left.units[u]) \subseteq Expected(left)
  BY DEF Checked, Consistent, EachAskedOnce, Compatible, Expected
<1>2. /\ \A q \in Expected(left) :
            StratumOf(left, q, name) = Said(RowOf(left.rows, q).strata, name)
      /\ \A q \in Expected(left) :
            StratumOf(right, q, name) = Said(RowOf(right.rows, q).strata, name)
  BY <1>1, StratumIs
<1>3. ASSUME NEW q \in Expected(left), NEW value \in StratumOf(left, q, name)
      PROVE  /\ value \in Values(left, name)
             /\ \E u \in UnitsWith(left, InStratum(left, name, value)) :
                   q \in ToSet(left.units[u])
  <2>1. RowOf(left.rows, q) \in ToSet(left.rows)
    BY RowsAre
  <2>2. value \in Said(RowOf(left.rows, q).strata, name)
    BY <1>2, <1>3
  <2>3. value \in Values(left, name)
    BY <2>1, <2>2, Zenon DEF Values
  <2>4. q \in InStratum(left, name, value)
    BY <1>3, <2>2 DEF InStratum
  <2>5. PICK u \in DOMAIN left.units : q \in ToSet(left.units[u])
    BY <1>3 DEF Checked, Consistent, EachAskedOnce
  <2>6. u \in UnitsWith(left, InStratum(left, name, value))
    BY <2>4, <2>5 DEF UnitsWith
  <2>7. QED
    BY <2>3, <2>5, <2>6
<1>4. ASSUME NEW value \in Values(left, name)
      PROVE  /\ InStratum(left, name, value) \in SUBSET Expected(left)
             /\ \A u \in UnitsWith(left, InStratum(left, name, value)) :
                   LET ours == ToSet(left.units[u]) \cap InStratum(left, name, value) IN
                   /\ ours # {} /\ ours = Having(left, left, u, name, value)
                   /\ ours = Having(left, right, u, name, value)
  <2>1. /\ \A q \in Expected(left) :
             q \in InStratum(left, name, value) <=> value \in StratumOf(left, q, name)
        /\ \A q \in Expected(left) :
             q \in InStratum(right, name, value) <=> value \in StratumOf(right, q, name)
        /\ InStratum(left, name, value) \subseteq Expected(left)
    BY <1>1, <1>2 DEF InStratum
  <2>2. InStratum(left, name, value) = InStratum(right, name, value)
    BY <1>4 DEF StrataPaired
  <2>3. QED
    BY <1>1, <2>1, <2>2 DEF UnitsWith, Having
<1>5. QED
  BY <1>3, <1>4

-----------------------------------------------------------------------------
\* The comparisons made so far are of these runs.
MadeOf(k) ==
    /\ compared[k] = Comparison(LeftOf(k), RightOf(k))
    /\ Compatible(LeftOf(k), RightOf(k)) /\ StrataPaired(LeftOf(k), RightOf(k))

AllComparisons == {Comparison(left, right) : left \in Publications, right \in Publications}

AnalysisInv ==
    /\ published \in [RunIds -> Publications] /\ cells \in CellPlans
    /\ phase \in {"load", "compare", "report", "done", "refused"}
    /\ loaded \subseteq RunIds /\ \A r \in loaded : Consistent(published[r])
    /\ phase \in {"compare", "report", "done"} \/ compared # <<>> => loaded = RunIds
    /\ compared \in Seq(AllComparisons) /\ Len(compared) <= Len(Comparisons)
    /\ \A k \in DOMAIN compared : MadeOf(k)
    /\ phase = "done" =>
          /\ frontier = [r \in RunIds |-> StatusOf(r)]
          /\ matrix = [f \in Frameworks |-> IF f \in DOMAIN cells THEN cells[f] ELSE {}]
          /\ \A f \in DOMAIN cells : \A r \in cells[f] : CellFits(f, r)

LEMMA ComparedRuns ==
    ASSUME PlanAssumption, NEW k \in 1 .. Len(Comparisons)
    PROVE  /\ Comparisons[k][1] \in RunIds /\ Comparisons[k][2] \in RunIds
  BY DEF PlanAssumption

LEMMA AnalysisStart == PlanAssumption /\ AnalysisInit => AnalysisInv
<1> SUFFICES ASSUME PlanAssumption, AnalysisInit PROVE AnalysisInv
  OBVIOUS
<1>1. compared \in Seq(AllComparisons) /\ Len(compared) = 0 /\ DOMAIN compared = {}
  BY DEF AnalysisInit
<1>2. Len(Comparisons) \in Nat
  BY DEF PlanAssumption
<1>3. QED
  BY <1>1, <1>2 DEF AnalysisInit, AnalysisInv

LEMMA AnalysisStep ==
    PlanAssumption /\ AnalysisInv /\ [AnalysisNext]_analysisVars => AnalysisInv'
<1> SUFFICES ASSUME PlanAssumption, AnalysisInv, [AnalysisNext]_analysisVars
             PROVE  AnalysisInv'
  OBVIOUS
<1>1. UNCHANGED plan
  BY DEF AnalysisNext, LoadRun, EndLoad, Compare, EndCompare, Report, analysisVars
<1>2. published' = published /\ cells' = cells
  BY <1>1 DEF plan
<1>3. \A k \in DOMAIN compared : compared'[k] = compared[k] => MadeOf(k)'
  BY <1>2 DEF MadeOf, LeftOf, RightOf, AnalysisInv
<1>4. CASE \E r \in RunIds : LoadRun(r)
  <2>1. PICK r \in RunIds : LoadRun(r)
    BY <1>4
  <2>2. CASE Consistent(published[r])
    <3>1. /\ phase = "load" /\ phase' = "load" /\ loaded' = loaded \cup {r}
          /\ compared' = compared /\ matrix' = matrix /\ frontier' = frontier
      BY <2>1, <2>2 DEF LoadRun
    <3>2. QED
      BY <1>2, <1>3, <2>2, <3>1 DEF AnalysisInv
  <2>3. CASE ~ Consistent(published[r])
    <3>1. /\ phase = "load" /\ phase' = "refused" /\ loaded' = loaded
          /\ compared' = compared /\ matrix' = matrix /\ frontier' = frontier
      BY <2>1, <2>3 DEF LoadRun, Refuse
    <3>2. QED
      BY <1>2, <1>3, <3>1 DEF AnalysisInv
  <2>4. QED
    BY <2>2, <2>3
<1>5. CASE EndLoad
  BY <1>2, <1>3, <1>5 DEF AnalysisInv, EndLoad
<1>6. CASE Compare
  <2> DEFINE next == Len(compared) + 1
             left == published[Comparisons[next][1]]
             right == published[Comparisons[next][2]]
  <2>1. /\ phase = "compare" /\ loaded = RunIds /\ loaded' = loaded
        /\ matrix' = matrix /\ frontier' = frontier
        /\ compared \in Seq(AllComparisons) /\ Len(compared) < Len(Comparisons)
    BY <1>6 DEF Compare, AnalysisInv
  <2>2. CASE ~ (Compatible(left, right) /\ StrataPaired(left, right))
    <3>1. phase' = "refused" /\ compared' = compared
      BY <1>6, <2>2 DEF Compare, Refuse
    <3>2. QED
      BY <1>2, <1>3, <2>1, <3>1 DEF AnalysisInv
  <2>3. CASE Compatible(left, right) /\ StrataPaired(left, right)
    <3>1. phase' = "compare" /\ compared' = Append(compared, Comparison(left, right))
      BY <1>6, <2>1, <2>3 DEF Compare
    <3>2. Len(Comparisons) \in Nat /\ Len(compared) \in Nat
      BY <2>1 DEF PlanAssumption
    <3>3. next \in 1 .. Len(Comparisons)
      BY <2>1, <3>2
    <3>4. left \in Publications /\ right \in Publications
      BY <3>3, ComparedRuns DEF AnalysisInv
    <3>5. Comparison(left, right) \in AllComparisons
      BY <3>4 DEF AllComparisons
    <3> DEFINE added == Comparison(left, right)
    <3>6. /\ compared' \in Seq(AllComparisons) /\ Len(compared') = next
          /\ DOMAIN compared' = DOMAIN compared \cup {next}
          /\ compared'[next] = added /\ compared' # <<>>
          /\ \A k \in DOMAIN compared : compared'[k] = compared[k]
      <4> HIDE DEF added
      <4>1. QED
        BY <2>1, <3>1, <3>2, <3>5 DEF added
    <3>7. PICK n : n = next
      OBVIOUS
    <3>8. MadeOf(n)'
      <4>1. LeftOf(n)' = left /\ RightOf(n)' = right
        BY <1>2, <3>7 DEF LeftOf, RightOf
      <4>2. compared'[n] = added
        BY <3>6, <3>7
      <4>3. QED
        BY <2>3, <4>1, <4>2 DEF MadeOf
    <3>9. (\A k \in DOMAIN compared : MadeOf(k))'
      <4>1. \A k \in DOMAIN compared : MadeOf(k)'
        BY <1>3, <3>6 DEF AnalysisInv
      <4>2. DOMAIN compared' = DOMAIN compared \cup {n}
        BY <3>6, <3>7
      <4>3. QED
        BY <3>8, <4>1, <4>2
    <3>10. Len(compared') <= Len(Comparisons)
      BY <3>2, <3>3, <3>6
    <3> HIDE DEF next, left, right
    <3>11. QED
      BY <1>2, <2>1, <3>1, <3>6, <3>9, <3>10 DEF AnalysisInv
  <2>4. QED
    BY <2>2, <2>3
<1>7. CASE EndCompare
  BY <1>2, <1>3, <1>7 DEF AnalysisInv, EndCompare
<1>8. CASE Report
  <2>1. phase = "report" /\ loaded = RunIds /\ loaded' = loaded /\ compared' = compared
    BY <1>8 DEF Report, AnalysisInv
  <2>2. CASE \A f \in DOMAIN cells : \A r \in cells[f] : CellFits(f, r)
    <3>1. /\ phase' = "done" /\ frontier' = [r \in RunIds |-> StatusOf(r)]
          /\ matrix' = [f \in Frameworks |-> IF f \in DOMAIN cells THEN cells[f] ELSE {}]
      BY <1>8, <2>2 DEF Report
    <3>2. [r \in RunIds |-> StatusOf(r)]' = [r \in RunIds |-> StatusOf(r)]
      BY <1>2 DEF StatusOf
    <3>3. (\A f \in DOMAIN cells : \A r \in cells[f] : CellFits(f, r))'
      BY <1>2, <2>1, <2>2 DEF CellFits
    <3>4. QED
      BY <1>2, <1>3, <2>1, <3>1, <3>2, <3>3 DEF AnalysisInv
  <2>3. CASE ~ \A f \in DOMAIN cells : \A r \in cells[f] : CellFits(f, r)
    <3>1. phase' = "refused"
      BY <1>8, <2>3 DEF Report, Refuse
    <3>2. QED
      BY <1>2, <1>3, <2>1, <3>1 DEF AnalysisInv
  <2>4. QED
    BY <2>2, <2>3
<1>9. CASE UNCHANGED analysisVars
  BY <1>2, <1>3, <1>9 DEF AnalysisInv, analysisVars, CellFits, StatusOf
<1>10. QED
  BY <1>4, <1>5, <1>6, <1>7, <1>8, <1>9 DEF AnalysisNext

LEMMA AnalysisInvariant == ASSUME PlanAssumption PROVE AnalysisSpec => []AnalysisInv
<1>1. AnalysisInit => AnalysisInv
  BY AnalysisStart
<1>2. AnalysisInv /\ [AnalysisNext]_analysisVars => AnalysisInv'
  BY AnalysisStep
<1>3. QED
  BY <1>1, <1>2, PTL DEF AnalysisSpec

\* A comparison of these runs is of what was judged.
LEMMA PairedAsJudged ==
    ASSUME PlanAssumption, NEW k, Checked(LeftOf(k)), Checked(RightOf(k)), MadeOf(k),
           NEW queries \in SUBSET Expected(LeftOf(k)), NEW u \in UnitsWith(LeftOf(k), queries),
           NEW ours, ours = ToSet(LeftOf(k).units[u]) \cap queries
    PROVE  AsJudged(k, ours, Paired(LeftOf(k), RightOf(k), queries)[u])
<1> DEFINE gain == [q \in ours |-> RightOf(k).judgments[q].score
                                      - LeftOf(k).judgments[q].score]
<1>1. Gains(LeftOf(k), RightOf(k), gain, ours)
  BY DEF Gains
<1> HIDE DEF gain
<1>2. Paired(LeftOf(k), RightOf(k), queries)[u][1] * Cardinality(ours)
          = SumFunctionOnSet(gain, ours) * Paired(LeftOf(k), RightOf(k), queries)[u][2]
  BY <1>1, DifferencesAreOfJudgments DEF MadeOf
<1>3. QED
  BY <1>2 DEF AsJudged, gain

LEMMA ComparisonIsOfJudgments ==
    ASSUME PlanAssumption, NEW k, Checked(LeftOf(k)), Checked(RightOf(k)), MadeOf(k)
    PROVE  UnitsAsJudged(k) /\ StrataAsJudged(k)
<1> DEFINE left == LeftOf(k)
           right == RightOf(k)
           strata == compared[k].strata
<1>1. /\ compared[k].units = Paired(left, right, Expected(left))
      /\ strata = [name \in {n \in Names : Values(left, n) # {}} |->
                      [value \in Values(left, name) |->
                          Paired(left, right, InStratum(left, name, value))]]
  BY DEF MadeOf, Comparison
<1>2. UnitsAsJudged(k)
  <2>1. SUFFICES ASSUME NEW u \in UnitsWith(left, Expected(left))
                 PROVE  AsJudged(k, ToSet(left.units[u]), compared[k].units[u])
    BY DEF UnitsAsJudged
  <2>2. ToSet(left.units[u]) \cap Expected(left) = ToSet(left.units[u])
    BY DEF UnitsWith, Checked, Consistent, EachAskedOnce
  <2>3. QED
    BY <1>1, <2>2, PairedAsJudged
<1>3. /\ DOMAIN strata = {n \in Names : Values(left, n) # {}}
      /\ \A name \in DOMAIN strata :
            /\ DOMAIN strata[name] = Values(left, name)
            /\ \A value \in Values(left, name) :
                  /\ strata[name][value] = Paired(left, right, InStratum(left, name, value))
                  /\ DOMAIN strata[name][value] = UnitsWith(left, InStratum(left, name, value))
  BY <1>1 DEF Paired
<1> HIDE DEF strata
<1>4. ASSUME NEW q \in Expected(left), NEW name \in Names,
             NEW value \in StratumOf(left, q, name)
      PROVE  /\ name \in DOMAIN strata /\ value \in DOMAIN strata[name]
             /\ \E u \in DOMAIN strata[name][value] : q \in ToSet(left.units[u])
  <2>1. /\ value \in Values(left, name)
        /\ \E u \in UnitsWith(left, InStratum(left, name, value)) :
              q \in ToSet(left.units[u])
    BY <1>4, StrataHold DEF MadeOf
  <2>2. name \in DOMAIN strata
    BY <1>3, <2>1
  <2>3. QED
    BY <1>3, <2>1, <2>2
<1>5. ASSUME NEW name \in DOMAIN strata, NEW value \in DOMAIN strata[name],
             NEW u \in DOMAIN strata[name][value]
      PROVE  /\ Having(left, left, u, name, value) # {}
             /\ Having(left, left, u, name, value) = Having(left, right, u, name, value)
             /\ AsJudged(k, Having(left, left, u, name, value), strata[name][value][u])
  <2>1. /\ name \in Names /\ value \in Values(left, name)
        /\ u \in UnitsWith(left, InStratum(left, name, value))
        /\ strata[name][value] = Paired(left, right, InStratum(left, name, value))
    BY <1>3, <1>5
  <2> DEFINE queries == InStratum(left, name, value)
             ours == ToSet(left.units[u]) \cap queries
  <2>2. /\ queries \in SUBSET Expected(left)
        /\ ours # {} /\ ours = Having(left, left, u, name, value)
        /\ ours = Having(left, right, u, name, value)
    BY <2>1, StrataHold DEF MadeOf
  <2> HIDE DEF queries
  <2>3. AsJudged(k, ours, Paired(left, right, queries)[u])
    BY <2>1, <2>2, PairedAsJudged DEF queries
  <2>4. QED
    BY <2>1, <2>2, <2>3 DEF queries
<1>6. StrataAsJudged(k)
  BY <1>4, <1>5 DEF StrataAsJudged, Having, strata
<1>7. QED
  BY <1>2, <1>6

LEMMA AllChecked ==
    ASSUME AnalysisInv, loaded = RunIds
    PROVE  \A r \in RunIds : Checked(published[r])
  BY DEF AnalysisInv, Checked

\* A comparison that was made is of the judgments that were published, unit by
\* unit.  By each name, a query that has a stratum is in that one's comparison,
\* and what that says of a unit is the difference of the judgments of the queries
\* that have the stratum in both runs, and of no other.  The matrix has at most
\* one run of the right framework in a cell.
THEOREM Compared == ASSUME PlanAssumption PROVE AnalysisSpec => []ComparedAsJudged
<1>1. AnalysisInv => ComparedAsJudged
  <2> SUFFICES ASSUME AnalysisInv PROVE ComparedAsJudged
    OBVIOUS
  <2>1. AnalysisTypeOK
    <3>1. ASSUME phase = "done", NEW f \in Frameworks
          PROVE  /\ \A q, r \in matrix[f] : q = r
                 /\ \A r \in matrix[f] : published[r].framework = f
      <4>1. matrix[f] = IF f \in DOMAIN cells THEN cells[f] ELSE {}
        BY <3>1 DEF AnalysisInv
      <4>2. \A g \in DOMAIN cells : \A q, r \in cells[g] : q = r
        BY DEF AnalysisInv, PlanAssumption
      <4>3. f \in DOMAIN cells => \A r \in cells[f] : published[r].framework = f
        BY <3>1 DEF AnalysisInv, CellFits
      <4>4. QED
        BY <4>1, <4>2, <4>3
    <3>2. QED
      BY <3>1 DEF AnalysisInv, AnalysisTypeOK
  <2>2. ASSUME NEW k \in DOMAIN compared PROVE UnitsAsJudged(k) /\ StrataAsJudged(k)
    <3>1. /\ compared \in Seq(AllComparisons) /\ Len(compared) <= Len(Comparisons)
          /\ Len(Comparisons) \in Nat
      BY DEF AnalysisInv, PlanAssumption
    <3>2. k \in 1 .. Len(Comparisons) /\ compared # <<>>
      BY <2>2, <3>1
    <3>3. Checked(LeftOf(k)) /\ Checked(RightOf(k))
      BY <3>2, ComparedRuns, AllChecked DEF AnalysisInv, LeftOf, RightOf
    <3>4. MadeOf(k)
      BY <2>2 DEF AnalysisInv
    <3>5. QED
      BY <3>3, <3>4, ComparisonIsOfJudgments
  <2>3. QED
    BY <2>1, <2>2 DEF ComparedAsJudged
<1>2. QED
  BY AnalysisInvariant, <1>1, PTL

\* What is said to be dominated is so by a run on the frontier; and of two
\* comparable runs on it neither is the better choice in every respect.
THEOREM Frontier == ASSUME PlanAssumption PROVE AnalysisSpec => []FrontierDominates
<1>1. AnalysisInv => FrontierDominates
  <2> SUFFICES ASSUME AnalysisInv, phase = "done", NEW r \in RunIds
               PROVE  LET better(q) == /\ q # r /\ frontier[q] = "FRONTIER"
                                       /\ Comparable(published[q], published[r])
                                       /\ Dominates(published[q], published[r]) IN
                      /\ frontier[r] = "DOMINATED" => \E q \in RunIds : better(q)
                      /\ frontier[r] = "FRONTIER" => ~ \E q \in RunIds : better(q)
    BY DEF FrontierDominates
  <2>1. \A q \in RunIds : frontier[q] = StatusOf(q) /\ Checked(published[q])
    BY AllChecked DEF AnalysisInv
  <2>2. CASE frontier[r] = "DOMINATED"
    BY <2>1, <2>2, DominatedFromFrontier
  <2>3. CASE frontier[r] = "FRONTIER"
    BY <2>1, <2>3 DEF StatusOf
  <2>4. QED
    BY <2>2, <2>3
<1>2. QED
  BY AnalysisInvariant, <1>1, PTL
=============================================================================
