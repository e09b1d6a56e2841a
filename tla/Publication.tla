----------------------------- MODULE Publication -----------------------------
(***************************************************************************)
(* The files behind a published run: the run directory as the store makes  *)
(* it, the staged copies of the run's artifacts, the final directory with  *)
(* its manifest and completion marker, and what is made from a published   *)
(* run: derived evaluations, OCI archives and the answers of the API.      *)
(* Directories are copied one file at a time and a process may be killed   *)
(* between any two of them.                                                *)
(*                                                                         *)
(* A content is the number of the report it was written for: whatever is   *)
(* written anew gets a new number, so two contents are equal exactly when  *)
(* their digests are.  The id of a staged copy is the digest of the        *)
(* reporting checkpoint it was made for, here the number of that report.   *)
(* The phases up to the reports are in RunLifecycle.                       *)
(***************************************************************************)
EXTENDS Integers, FiniteSets

CONSTANTS
    Files,        \* the artifacts of a run
    Derivers,     \* processes that derive an evaluation from the run
    Exporters,    \* processes that pack the run as an OCI archive
    MaxFaults,    \* bound: kills and damaged files
    MaxReruns     \* bound: attempts started after the run is published

ASSUME FilesAssumption == IsFiniteSet(Files) /\ {"evaluations", "reports"} \subseteq Files
ASSUME ReadersAssumption ==
    /\ IsFiniteSet(Derivers) /\ IsFiniteSet(Exporters)
    /\ Exporters \cap {"none", "api", "bundle"} = {}   \* names apart
ASSUME BoundsAssumption == MaxFaults \in Nat /\ MaxReruns \in Nat

Absent == 0
Damaged == -1
Reports == 1 .. MaxFaults + 1   \* bound: a report is made again after a fault
Contents == {Absent, Damaged} \cup Reports
Trees == [Files -> Contents]
Empty == [f \in Files |-> Absent]

VARIABLES
    \* the run directory
    dir,        \* "absent", "bare" (no manifest yet) or "made"
    tree,       \* the run's artifacts
    log,        \* the event log, appended to by every later attempt
    staged,     \* the staged copies, by id
    final,      \* the artifacts in final/
    manifest,   \* final/manifest.json: the content of each artifact
    marker,     \* final/COMPLETED.json: the manifest it refers to
    official,   \* OFFICIAL-RUN.json: the export it was written for
    sums,       \* SHA256SUMS: the contents it lists
    \* the attempt
    pc, copy, todo,
    \* derived evaluations
    derived,    \* the derived bundle: who made it, and of which artifacts
    dpc, source,
    \* exports
    xpc, archive,
    disturbed,  \* another process wrote in the run directory during the export
    \* answers of the API and the number of reports and faults
    answered, made, faults

runDir == <<dir, tree, log, staged>>
finalDir == <<final, manifest, marker>>
process == <<pc, copy, todo>>
derivation == <<derived, dpc, source>>
export == <<xpc, archive, disturbed, official, sums>>
rest == <<answered, made, faults>>
vars == <<runDir, finalDir, process, derivation, export, rest>>

AttemptStates ==
    {"idle", "creating", "reporting", "staging", "copying", "verifying",
     "committing", "installing", "sealing", "marking", "repeating"}
None == {}   \* of a file that may be absent: no element, or its content
Nobody == "none"
Copies == [payload : Trees, manifest : Trees, receipt : Trees]

-----------------------------------------------------------------------------
\* Everyone who uses a published run first verifies it.

\* Variant: the files are compared without reading them.
VerifyMarkerOnly == marker # Empty /\ manifest = marker

\* The marker refers to the manifest, and every artifact is what it says.
VerifyCommitted ==
    /\ marker # Empty
    /\ manifest = marker
    /\ final = manifest

\* A staged copy is taken again only if its payload is what its manifest says.
ValidateStaged(id) == staged[id].payload = staged[id].manifest

Goto(from, to) == pc = from /\ pc' = to
Fault == faults < MaxFaults /\ faults' = faults + 1
Publication == tree["reports"]

\* The staged copies with that of the publication.
PutStaged(copied) ==
    [id \in DOMAIN staged \cup {Publication} |->
        IF id = Publication THEN copied ELSE staged[id]]

-----------------------------------------------------------------------------
\* The attempt: create the run, report, stage, verify, commit.

\* create_run: the directory first, its manifest last.
CreateRun ==
    /\ Goto("idle", "creating")
    /\ dir = "absent" /\ dir' = "bare"
    /\ UNCHANGED <<tree, log, staged, finalDir, copy, todo, derivation, export, rest>>

WriteRunManifest ==
    /\ Goto("creating", "reporting")
    /\ dir' = "made"
    /\ UNCHANGED <<tree, log, staged, finalDir, copy, todo, derivation, export, rest>>

\* A later attempt.  A directory without a manifest is refused for good.
Resume ==
    /\ dir = "made" /\ marker = Empty
    /\ Goto("idle", "reporting")
    /\ UNCHANGED <<runDir, finalDir, copy, todo, derivation, export, rest>>

\* The phases up to REPORTING: what is missing or damaged is made again, and
\* with it the reports.
Report ==
    /\ Goto("reporting", "staging")
    /\ IF \E f \in Files : tree[f] \in {Absent, Damaged}
       THEN /\ made' = made + 1
            /\ tree' = [f \in Files |->
                          IF f = "reports" \/ tree[f] \in {Absent, Damaged}
                          THEN made' ELSE tree[f]]
       ELSE UNCHANGED <<made, tree>>
    /\ UNCHANGED <<dir, log, staged, finalDir, copy, todo, derivation, export,
                   answered, faults>>

\* stage and load_staged: an existing copy is used if it is intact, and the
\* attempt fails if it is not.
UseStaged ==
    /\ pc = "staging" /\ Publication \in DOMAIN staged
    /\ pc' = IF ValidateStaged(Publication) THEN "verifying" ELSE "idle"
    /\ UNCHANGED <<runDir, finalDir, copy, todo, derivation, export, rest>>

\* Variant: the copy is made in its place.
BeginCopyInPlace ==
    /\ Publication \notin DOMAIN staged
    /\ Goto("staging", "copying")
    /\ copy' = Empty /\ todo' = Files
    /\ staged' = PutStaged([payload |-> Empty, manifest |-> tree, receipt |-> Empty])
    /\ UNCHANGED <<dir, tree, log, finalDir, derivation, export, rest>>

BeginCopy ==
    /\ Publication \notin DOMAIN staged
    /\ Goto("staging", "copying")
    /\ copy' = Empty /\ todo' = Files
    /\ UNCHANGED <<runDir, finalDir, derivation, export, rest>>

\* copy_tree_contents, one file at a time, into a directory of its own.
CopyFile(f) ==
    /\ pc = "copying" /\ f \in todo
    /\ copy' = [copy EXCEPT ![f] = tree[f]]
    /\ todo' = todo \ {f}
    /\ UNCHANGED <<pc, runDir, finalDir, derivation, export, rest>>

\* The manifest lists the copies, and a rename puts both in their place.
PlaceCopy ==
    /\ todo = {}
    /\ Goto("copying", "verifying")
    /\ staged' = PutStaged([payload |-> copy, manifest |-> copy, receipt |-> Empty])
    /\ UNCHANGED <<dir, tree, log, finalDir, copy, todo, derivation, export, rest>>

\* verify: the receipt of an earlier attempt must agree.
VerifyStaged ==
    LET copied == staged[Publication] IN
    /\ pc = "verifying"
    /\ IF ValidateStaged(Publication)
            /\ copied.receipt \in {Empty, copied.manifest}
       THEN /\ pc' = "committing"
            /\ staged' = [staged EXCEPT ![Publication].receipt = copied.manifest]
       ELSE pc' = "idle" /\ UNCHANGED staged
    /\ UNCHANGED <<dir, tree, log, finalDir, copy, todo, derivation, export, rest>>

BeginCommit ==
    /\ pc = "committing"
    /\ IF ValidateStaged(Publication)
       THEN pc' = "installing" /\ todo' = Files
       ELSE pc' = "idle" /\ UNCHANGED todo
    /\ UNCHANGED <<runDir, finalDir, copy, derivation, export, rest>>

InstallFile(f) ==
    /\ pc = "installing" /\ f \in todo
    /\ final' = [final EXCEPT ![f] = staged[Publication].payload[f]]
    /\ todo' = todo \ {f}
    /\ UNCHANGED <<pc, copy, runDir, manifest, marker, derivation, export, rest>>

InstallManifest ==
    /\ todo = {}
    /\ Goto("installing", "marking")
    /\ manifest' = staged[Publication].manifest
    /\ UNCHANGED <<runDir, final, marker, copy, todo, derivation, export, rest>>

\* Variant: the marker is written before the files are read back.
WriteMarkerEarly ==
    /\ pc = "installing" /\ pc' = "idle"
    /\ manifest' = staged[Publication].manifest
    /\ marker' = manifest'
    /\ UNCHANGED <<runDir, final, copy, todo, derivation, export, rest>>

\* The last write of a run, after every file was read back.
WriteMarker ==
    /\ Goto("marking", "idle")
    /\ marker' = IF final = manifest THEN manifest ELSE marker
    /\ UNCHANGED <<runDir, final, manifest, copy, todo, derivation, export, rest>>

\* An attempt of a published run appends to the log and verifies the run.
Repeat ==
    /\ pc = "idle" /\ marker # Empty /\ log < MaxReruns
    /\ log' = log + 1
    /\ disturbed' = [x \in Exporters |-> disturbed[x] \/ xpc[x] # "idle"]
    /\ UNCHANGED <<dir, tree, staged, finalDir, process, derivation,
                   xpc, archive, official, sums, rest>>

Kill ==
    /\ pc # "idle" /\ Fault
    /\ pc' = "idle" /\ copy' = Empty /\ todo' = {}
    /\ UNCHANGED <<runDir, finalDir, derivation, export, answered, made>>

-----------------------------------------------------------------------------
\* derive_locomo_evaluation: any number of them, without a lock.

Derive(d) ==
    /\ dpc[d] = "idle" /\ VerifyCommitted
    /\ dpc' = [dpc EXCEPT ![d] = "computed"]
    /\ source' = [source EXCEPT ![d] = final]
    /\ UNCHANGED <<runDir, finalDir, process, derived, export, rest>>

\* An existing bundle is returned if it was made from the same evaluations.
ReuseDerived(d) ==
    /\ dpc[d] = "computed" /\ derived # None
    /\ dpc' = [dpc EXCEPT ![d] =
         IF \A bundle \in derived : bundle.of["evaluations"] = source[d]["evaluations"]
         THEN "done" ELSE "failed"]
    /\ UNCHANGED <<runDir, finalDir, process, derived, source, export, rest>>

\* No bundle yet: the reports and derivation.json are written in a temporary
\* directory.
WriteDerived(d) ==
    /\ dpc[d] = "computed" /\ derived = None
    /\ dpc' = [dpc EXCEPT ![d] = "written"]
    /\ UNCHANGED <<runDir, finalDir, process, derived, source, export, rest>>

\* The rename fails, and the temporary directory is removed, if another
\* process has put a bundle there meanwhile.
PlaceDerived(d) ==
    /\ dpc[d] = "written"
    /\ IF derived = None
       THEN /\ derived' = {[by |-> d, of |-> source[d]]}
            /\ dpc' = [dpc EXCEPT ![d] = "done"]
       ELSE dpc' = [dpc EXCEPT ![d] = "failed"] /\ UNCHANGED derived
    /\ UNCHANGED <<runDir, finalDir, process, source, export, rest>>

\* A process that is called again, or killed: nothing of it is visible.
DeriveAgain(d) ==
    /\ \/ dpc[d] \in {"done", "failed"} /\ UNCHANGED faults
       \/ dpc[d] \in {"computed", "written"} /\ Fault
    /\ dpc' = [dpc EXCEPT ![d] = "idle"]
    /\ source' = [source EXCEPT ![d] = Empty]
    /\ UNCHANGED <<runDir, finalDir, process, derived, export, answered, made>>

-----------------------------------------------------------------------------
\* publish_run_oci: the official metadata and the checksums are written in
\* the run directory, which is then packed.

RunFiles == [tree |-> tree, final |-> final, official |-> official, log |-> log]

\* The others that are in the middle of an export see their files change.
Disturb(x) == [y \in Exporters |->
                 IF y = x THEN disturbed[y] ELSE disturbed[y] \/ xpc[y] # "idle"]

BeginExport(x) ==
    /\ xpc[x] = "idle" /\ VerifyCommitted
    /\ xpc' = [xpc EXCEPT ![x] = "describing"]
    /\ disturbed' = [disturbed EXCEPT ![x] = FALSE]
    /\ UNCHANGED <<runDir, finalDir, process, derivation, archive, official, sums, rest>>

WriteOfficialRun(x) ==
    /\ xpc[x] = "describing"
    /\ xpc' = [xpc EXCEPT ![x] = "summing"]
    /\ official' = x
    /\ disturbed' = Disturb(x)
    /\ UNCHANGED <<runDir, finalDir, process, derivation, archive, sums, rest>>

\* Variant: the checksums are those of the run before the export.
WriteSumsFirst(x) ==
    /\ xpc[x] = "summing"
    /\ xpc' = [xpc EXCEPT ![x] = "packing"]
    /\ sums' = IF sums = None THEN {RunFiles} ELSE sums
    /\ disturbed' = Disturb(x)
    /\ UNCHANGED <<runDir, finalDir, process, derivation, archive, official, rest>>

WriteSums(x) ==
    /\ xpc[x] = "summing"
    /\ xpc' = [xpc EXCEPT ![x] = "packing"]
    /\ sums' = {RunFiles}
    /\ disturbed' = Disturb(x)
    /\ UNCHANGED <<runDir, finalDir, process, derivation, archive, official, rest>>

\* A push that fails leaves the archive as it is; the call ends either way.
Pack(x) ==
    /\ xpc[x] = "packing"
    /\ xpc' = [xpc EXCEPT ![x] = "idle"]
    /\ archive' = [archive EXCEPT ![x] = {[files |-> RunFiles, sums |-> sums]}]
    /\ UNCHANGED <<runDir, finalDir, process, derivation, disturbed, official, sums, rest>>

KillExport(x) ==
    /\ xpc[x] # "idle" /\ Fault
    /\ xpc' = [xpc EXCEPT ![x] = "idle"]
    /\ UNCHANGED <<runDir, finalDir, process, derivation, archive, disturbed, official,
                   sums, answered, made>>

-----------------------------------------------------------------------------
\* The API and the command line: inspect, verify, download.

Download ==
    /\ VerifyCommitted
    /\ answered' = final
    /\ UNCHANGED <<runDir, finalDir, process, derivation, export, made, faults>>

-----------------------------------------------------------------------------
\* Files are damaged while no process is at work.

AtRest ==
    /\ pc = "idle"
    /\ \A d \in Derivers : dpc[d] \notin {"computed", "written"}
    /\ \A x \in Exporters : xpc[x] = "idle"

DamageTree(f) ==
    /\ AtRest /\ Fault
    /\ tree[f] \in Reports
    /\ tree' = [tree EXCEPT ![f] = Damaged]
    /\ UNCHANGED <<dir, log, staged, finalDir, process, derivation, export, answered, made>>

DamageStaged(id, f) ==
    /\ AtRest /\ Fault
    /\ \/ staged' = [staged EXCEPT ![id].payload[f] = Damaged]
       \/ /\ staged[id].receipt # Empty
          /\ staged' = [staged EXCEPT ![id].receipt[f] = Damaged]
    /\ UNCHANGED <<dir, tree, log, finalDir, process, derivation, export, answered, made>>

DamageFinal(f) ==
    /\ AtRest /\ Fault
    /\ final[f] \in Reports
    /\ final' = [final EXCEPT ![f] = Damaged]
    /\ UNCHANGED <<runDir, manifest, marker, process, derivation, export, answered, made>>

-----------------------------------------------------------------------------
Init ==
    /\ dir = "absent" /\ tree = Empty /\ log = 0 /\ staged = <<>>
    /\ final = Empty /\ manifest = Empty /\ marker = Empty
    /\ official = Nobody /\ sums = None
    /\ pc = "idle" /\ copy = Empty /\ todo = {}
    /\ derived = None
    /\ dpc = [d \in Derivers |-> "idle"] /\ source = [d \in Derivers |-> Empty]
    /\ xpc = [x \in Exporters |-> "idle"]
    /\ archive = [x \in Exporters |-> None]
    /\ disturbed = [x \in Exporters |-> FALSE]
    /\ answered = Empty /\ made = 0 /\ faults = 0

Attempt ==
    \/ CreateRun \/ WriteRunManifest \/ Resume \/ Report
    \/ UseStaged \/ BeginCopy \/ PlaceCopy \/ VerifyStaged
    \/ BeginCommit \/ InstallManifest \/ WriteMarker
    \/ \E f \in Files : CopyFile(f) \/ InstallFile(f)

DeriveStep(d) ==
    Derive(d) \/ ReuseDerived(d) \/ WriteDerived(d) \/ PlaceDerived(d)
ExportStep(x) == BeginExport(x) \/ WriteOfficialRun(x) \/ WriteSums(x) \/ Pack(x)

Faults ==
    \/ Kill
    \/ \E x \in Exporters : KillExport(x)
    \/ \E f \in Files : DamageTree(f) \/ DamageFinal(f)
    \/ \E id \in DOMAIN staged, f \in Files : DamageStaged(id, f)

Next ==
    \/ Attempt \/ Repeat \/ Download \/ Faults
    \/ \E d \in Derivers : DeriveStep(d) \/ DeriveAgain(d)
    \/ \E x \in Exporters : ExportStep(x)

\* An attempt goes on to its end and is started again after a failure (the
\* operator's "resume").
Spec ==
    /\ Init /\ [][Next]_vars
    /\ WF_vars(Attempt)

-----------------------------------------------------------------------------
Published == [Files -> Reports]

RunFileSets == [tree : Trees, final : Trees, official : Exporters \cup {Nobody},
                log : 0 .. MaxReruns]
Archives == [files : RunFileSets, sums : SUBSET RunFileSets]

TypeOK ==
    /\ dir \in {"absent", "bare", "made"}
    /\ tree \in Trees /\ final \in Trees
    /\ {manifest, marker, answered} \subseteq Published \cup {Empty}
    /\ log \in 0 .. MaxReruns
    /\ DOMAIN staged \subseteq Reports
    /\ \A id \in DOMAIN staged :
          staged[id] \in Copies
    /\ official \in Exporters \cup {Nobody} /\ sums \subseteq RunFileSets
    /\ archive \in [Exporters -> SUBSET Archives]
    /\ pc \in AttemptStates /\ copy \in Trees /\ todo \subseteq Files
    /\ \A bundle \in derived : bundle \in [by : Derivers, of : Published]
    /\ dpc \in [Derivers -> {"idle", "computed", "written", "done", "failed"}]
    /\ source \in [Derivers -> Published \cup {Empty}]
    /\ xpc \in [Exporters -> {"idle", "describing", "summing", "packing"}]
    /\ disturbed \in [Exporters -> BOOLEAN]
    /\ made \in {0} \cup Reports /\ faults \in 0 .. MaxFaults

\* What was given to readers: the artifacts of a download, of each archive,
\* and those the derived bundle was made from.
Only(trees) == IF trees = None THEN Empty ELSE CHOOSE t \in trees : TRUE
Readers == Exporters \cup {"api", "bundle"}
Given == [r \in Readers |->
    IF r = "api" THEN answered
    ELSE IF r = "bundle" THEN Only({bundle.of : bundle \in derived})
    ELSE Only({packed.files.final : packed \in archive[r]})]

\* Whatever files are damaged, attempts killed or readers concurrent, the run
\* has one published content and every download, archive and derivation is of
\* it: the marker is written last and every use verifies first.  A derived
\* evaluation is never replaced: two concurrent derivations leave the bundle of
\* the one that came first, and a killed one leaves nothing.
Abstract == INSTANCE PublishedRun
    WITH Contents <- Published, Readers <- Readers,
         Nothing <- Empty, published <- marker, given <- Given
BundleStays == [][derived # None => derived' = derived]_vars
OnePublishedContent == Abstract!Spec /\ BundleStays

\* The checksums packed with a run are those of the packed files, unless
\* another export or attempt wrote in the run directory during the export,
\* which nothing prevents.
SumsAreOfTheArchive ==
    [][\A x \in Exporters :
         \A packed \in archive'[x] \ archive[x] :
            packed.sums = {packed.files} \/ disturbed[x]]_vars

\* The marker is the last write: by then final/ holds every artifact of the
\* staged copy, though earlier attempts may have left part of another one.
MarkerIsLast ==
    [][marker' # marker =>
         /\ marker' = staged[Publication].payload
         /\ final' = marker']_vars

\* A run is published in the end, unless it is one of the two that no later
\* attempt repairs: a directory that a kill left without a manifest, and a
\* staged copy whose files were damaged after it was made.
StagedDamaged ==
    /\ Publication \in DOMAIN staged
    /\ \E f \in Files : Damaged \in {staged[Publication].payload[f],
                                     staged[Publication].receipt[f]}
EventuallyPublished == <>[](marker # Empty \/ dir = "bare" \/ StagedDamaged)
=============================================================================
