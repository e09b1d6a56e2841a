---------------------------- MODULE DatasetCache ----------------------------
(***************************************************************************)
(* How a pinned dataset gets into the cache and from there into a run.     *)
(* Several processes may be at it at once: each finds or downloads the     *)
(* source, takes its sample, records both in the directory's manifest, and *)
(* a run then checks the file against its configuration, reads it, and     *)
(* copies the manifest.  A request of a configuration has the directory of *)
(* its cache key; one made by hand has the directory it names, and its     *)
(* path and hash stay in the configuration.                                *)
(*                                                                         *)
(* What a file holds stands for its hash: the sampling it was made with,   *)
(* "all" for none, and the state of the source.                            *)
(***************************************************************************)
EXTENDS Naturals, FiniteSets

CONSTANTS
    Requests,     \* processes that prepare a dataset or run on it
    Runs,         \* those that run on it, too
    Samplings,    \* sampling declarations, "all" for none
    Declarations, \* what the requests may declare, each a sampling
    MaxFaults     \* bound: kills, failed or cut downloads, damaged files

\* What is assumed of the constants; the instances check it.
RequestAssumption ==
    /\ "all" \in Samplings /\ Declarations \subseteq [Requests -> Samplings]
    /\ Runs \subseteq Requests /\ MaxFaults \in Nat

Sources == {"right", "cut"}
Files == [of : Samplings, from : Sources]

VARIABLES
    samplingOf,  \* the setting: what each request declares
    byHand,      \* the setting: all name one directory, and keep what they were given
    source, sampled, recorded,   \* the files and the manifest of each directory, if any
    doing,       \* where a request is
    temp,        \* what it has downloaded
    seen,        \* the source it found or published
    config,      \* the hash its configuration names, or none
    data,        \* what the run has read, or none
    copied,      \* the manifest in the run's directory, or none
    damaged,     \* directories with a source that was damaged
    faults

settings == <<samplingOf, byHand>>
files == <<source, sampled, recorded, damaged>>
request == <<temp, seen, config>>
vars == <<settings, files, doing, request, data, copied, faults>>

Goto(r, from, to) == doing[r] = from /\ doing' = [doing EXCEPT ![r] = to]
Fault == faults < MaxFaults /\ faults' = faults + 1

\* A configuration's directory is named for what it asks for.
CacheKey(r) == samplingOf[r]

Dirs == {"shared"} \cup Samplings
Dir(r) == IF byHand THEN "shared" ELSE CacheKey(r)

\* The file a request's configuration points to; every sample of a source has
\* the same name.
File(r) ==
    IF samplingOf[r] = "all"
    THEN {[of |-> "all", from |-> s] : s \in source[Dir(r)]}
    ELSE sampled[Dir(r)]

-----------------------------------------------------------------------------
\* A run of a configuration that declares its dataset does not download.
Fetches(r) == byHand \/ r \notin Runs

\* Without a sampling the source itself is hashed again.
WithSource(r) == IF samplingOf[r] = "all" THEN "hash" ELSE "sample"

\* A source that is there is used if it has the record's hash; only a process
\* that prepares goes and gets one.
Ensure(r) ==
    /\ doing[r] = "start"
    /\ LET there == source[Dir(r)] IN
       /\ doing' = [doing EXCEPT ![r] =
                    CASE there = {"right"} -> WithSource(r)
                      [] there = {} /\ Fetches(r) -> "download"
                      [] OTHER -> "failed"]
       /\ seen' = [seen EXCEPT ![r] = there]
    /\ UNCHANGED <<settings, files, temp, config, data, copied, faults>>

\* Variant: the file has one name, and one that was left stands in the way.
DownloadExclusive(r) ==
    /\ Goto(r, "download", "publish") /\ temp[r] = {}
    /\ temp' = [temp EXCEPT ![r] = {"right"}]
    /\ UNCHANGED <<settings, files, seen, config, data, copied, faults>>

\* The download goes to a file of its own; it may end early unnoticed.
Download(r) ==
    /\ Goto(r, "download", "publish")
    /\ \/ temp' = [temp EXCEPT ![r] = {"right"}] /\ UNCHANGED faults
       \/ Fault /\ temp' = [temp EXCEPT ![r] = {"cut"}]
    /\ UNCHANGED <<settings, files, seen, config, data, copied>>

DownloadFails(r) ==
    /\ Goto(r, "download", "failed") /\ Fault
    /\ UNCHANGED <<settings, files, request, data, copied>>

\* It takes the source's place if its hash is the record's, whoever was there
\* in the meantime, and is removed if not.
Publish(r) ==
    /\ doing[r] = "publish"
    /\ temp' = [temp EXCEPT ![r] = {}]
    /\ \/ /\ temp[r] = {"right"}
          /\ doing' = [doing EXCEPT ![r] = WithSource(r)]
          /\ source' = [source EXCEPT ![Dir(r)] = temp[r]]
          /\ seen' = [seen EXCEPT ![r] = temp[r]]
          /\ damaged' = damaged \ {Dir(r)}
       \/ /\ temp[r] # {"right"}
          /\ doing' = [doing EXCEPT ![r] = "failed"]
          /\ UNCHANGED <<source, seen, damaged>>
    /\ UNCHANGED <<settings, sampled, recorded, config, data, copied, faults>>

\* The sample is drawn from the source as it is now; a source that is not all
\* there cannot be read.
DrawSample(r) ==
    /\ Goto(r, "sample", IF source[Dir(r)] = {"right"} THEN "hash" ELSE "failed")
    /\ sampled' = [sampled EXCEPT ![Dir(r)] =
                      IF source[Dir(r)] = {"right"}
                      THEN {[of |-> samplingOf[r], from |-> "right"]} ELSE @]
    /\ UNCHANGED <<settings, source, recorded, damaged, request, data, copied, faults>>

Hash(r) ==
    /\ Goto(r, "hash", IF File(r) = {} THEN "failed" ELSE "record")
    /\ config' = [config EXCEPT ![r] = File(r)]
    /\ UNCHANGED <<settings, files, temp, seen, data, copied, faults>>

\* The declared sampling, and the hashes this process took on its way.
Manifest(r) == [sampling |-> samplingOf[r], source |-> seen[r], materialized |-> config[r]]

\* The manifest takes the place of the one that is there.
Record(r) ==
    /\ Goto(r, "record", "resolved")
    /\ recorded' = [recorded EXCEPT ![Dir(r)] = {Manifest(r)}]
    /\ UNCHANGED <<settings, source, sampled, damaged, request, data, copied, faults>>

-----------------------------------------------------------------------------
\* Variant: the file is there.
Present(r) == File(r) # {}

\* The file has the hash the configuration names.
Verified(r) == File(r) # {} /\ File(r) = config[r]

\* Resolving the configuration ends with a check, and so does preparing.
Validate(r) ==
    /\ Goto(r, "resolved", IF Verified(r) THEN (IF r \in Runs THEN "load" ELSE "done")
                           ELSE "failed")
    /\ UNCHANGED <<settings, files, request, data, copied, faults>>

\* The benchmark hashes the file again, and then reads it.
Check(r) ==
    /\ Goto(r, "load", IF Verified(r) THEN "read" ELSE "failed")
    /\ UNCHANGED <<settings, files, request, data, copied, faults>>

Load(r) ==
    /\ Goto(r, "read", IF File(r) = {} THEN "failed" ELSE "copy")
    /\ data' = [data EXCEPT ![r] = File(r)]
    /\ UNCHANGED <<settings, files, request, copied, faults>>

Copy(r) ==
    /\ Goto(r, "copy", IF recorded[Dir(r)] = {} THEN "failed" ELSE "done")
    /\ copied' = [copied EXCEPT ![r] = recorded[Dir(r)]]
    /\ UNCHANGED <<settings, files, request, data, faults>>

-----------------------------------------------------------------------------
\* The operator calls again; a run waits until its dataset was prepared.
Again(r) ==
    LET keeps == byHand /\ config[r] # {} IN
    /\ Goto(r, "failed", IF keeps THEN "resolved" ELSE "start")
    /\ ~Fetches(r) => source[Dir(r)] = {"right"}
    /\ data' = [data EXCEPT ![r] = {}]
    /\ copied' = [copied EXCEPT ![r] = {}]
    /\ UNCHANGED <<settings, files, request, faults>>

\* The operator prepares the dataset again, for a file that is missing.
PrepareAgain(r) ==
    /\ Goto(r, "done", "start") /\ r \notin Runs
    /\ \E q \in Runs : Dir(q) = Dir(r) /\ doing[q] = "failed" /\ source[Dir(r)] = {}
    /\ UNCHANGED <<settings, files, request, data, copied, faults>>

\* A source that is refused is removed by the operator.
RemoveSource(d) ==
    /\ source[d] = {"cut"} /\ \E r \in Requests : Dir(r) = d /\ doing[r] = "failed"
    /\ source' = [source EXCEPT ![d] = {}]
    /\ damaged' = damaged \ {d}
    /\ UNCHANGED <<settings, sampled, recorded, doing, request, data, copied, faults>>

Kill(r) ==
    /\ doing[r] \notin {"failed", "done"} /\ Fault
    /\ doing' = [doing EXCEPT ![r] = "failed"]
    /\ UNCHANGED <<settings, files, request, data, copied>>

\* A file loses its end, while nobody is about to hash or read it.
Damage(d) ==
    /\ Fault /\ \A r \in Requests : Dir(r) = d => doing[r] \notin {"hash", "read"}
    /\ \/ /\ source[d] # {} /\ source' = [source EXCEPT ![d] = {"cut"}]
          /\ damaged' = damaged \cup {d} /\ UNCHANGED sampled
       \/ /\ sampled[d] # {}
          /\ sampled' = [sampled EXCEPT ![d] = {[s EXCEPT !.from = "cut"] : s \in @}]
          /\ UNCHANGED <<source, damaged>>
    /\ UNCHANGED <<settings, recorded, doing, request, data, copied>>

Init ==
    /\ samplingOf \in Declarations /\ byHand \in BOOLEAN
    /\ source = [d \in Dirs |-> {}] /\ sampled = source /\ recorded = source
    /\ doing = [r \in Requests |-> "start"]
    /\ temp = [r \in Requests |-> {}] /\ seen = temp /\ config = temp
    /\ data = temp /\ copied = temp
    /\ damaged = {} /\ faults = 0

Process(r) ==
    \/ Ensure(r) \/ Download(r) \/ Publish(r) \/ DrawSample(r) \/ Hash(r) \/ Record(r)
    \/ Validate(r) \/ Check(r) \/ Load(r) \/ Copy(r) \/ Again(r) \/ PrepareAgain(r)

Next ==
    \/ \E r \in Requests : Process(r) \/ DownloadFails(r) \/ Kill(r)
    \/ \E d \in Dirs : RemoveSource(d) \/ Damage(d)

\* Every process goes on, and the operator calls again and clears the way.
Fairness == (\A r \in Requests : WF_vars(Process(r))) /\ \A d \in Dirs : WF_vars(RemoveSource(d))
Spec == Init /\ [][Next]_vars /\ Fairness

-----------------------------------------------------------------------------
\* A file, or none.
OneOf(S) == {{}} \cup {{x} : x \in S}
Manifests == [sampling : Samplings, source : OneOf(Sources), materialized : OneOf(Files)]

TypeOK ==
    /\ samplingOf \in Declarations /\ byHand \in BOOLEAN
    /\ source \in [Dirs -> OneOf(Sources)] /\ sampled \in [Dirs -> OneOf(Files)]
    /\ recorded \in [Dirs -> OneOf(Manifests)]
    /\ doing \in [Requests -> {"start", "download", "publish", "sample", "hash", "record",
                               "resolved", "load", "read", "copy", "done", "failed"}]
    /\ temp \in [Requests -> OneOf(Sources)] /\ seen \in [Requests -> OneOf(Sources)]
    /\ config \in [Requests -> OneOf(Files)] /\ data \in [Requests -> OneOf(Files)]
    /\ copied \in [Requests -> OneOf(Manifests)]
    /\ damaged \subseteq Dirs /\ faults \in 0 .. MaxFaults

\* Two samples drawn by hand into one directory have one name; nothing is said
\* of what is read where another sample may take the place of the own one.
Undisturbed(r) ==
    \/ samplingOf[r] = "all"
    \/ \A q \in Requests : Dir(q) = Dir(r) => samplingOf[q] \in {"all", samplingOf[r]}

\* A process that finds a source in the cache finds all of it, whatever was
\* killed or cut on the way; only damage afterwards can make it otherwise.
SourceIsWhole == \A d \in Dirs \ damaged : source[d] \subseteq {"right"}

\* A run reads the data its configuration names, also when others prepare or
\* sample at the same time.
DataIsAsNamed == \A r \in Runs : Undisturbed(r) => data[r] \subseteq config[r]

\* The manifest in the directory of a run describes the data the run has read,
\* where the directory is named for what it holds.
ManifestDescribesData ==
    \A r \in Runs : \A m \in copied[r] : ~ byHand =>
        /\ m.sampling = samplingOf[r] /\ m.materialized = data[r]
        /\ \A f \in data[r] : f.of = m.sampling /\ m.source = {f.from}

\* Runs that declare the same sampling, as those that are compared must, have
\* read the same data.
SameSampleSameData ==
    \A q, r \in {s \in Runs : Undisturbed(s) /\ data[s] # {}} :
        samplingOf[q] = samplingOf[r] => data[q] = data[r]

\* What a run reads is whole, what its configuration names, what its manifest
\* describes and what every run of the same sample reads.
ReadsWhatItNames ==
    SourceIsWhole /\ DataIsAsNamed /\ ManifestDescribesData /\ SameSampleSameData

\* Whatever fails on the way, every run has its data in the end.
Loaded == \A r \in Runs : doing[r] = "done"
=============================================================================
