-------------------------- MODULE Publication_proofs --------------------------
(***************************************************************************)
(* The run has one published content, given to every reader alone, written *)
(* after all it refers to: for every set of artifacts and readers and any  *)
(* number of kills and damaged files.                                      *)
(***************************************************************************)
EXTENDS Publication, TLAPS

\* What the proofs are told of a step: the action it is.
LEMMA Steps ==
    ASSUME [Next]_vars
    PROVE  \/ UNCHANGED vars
           \/ CreateRun \/ WriteRunManifest \/ Resume \/ Report \/ UseStaged
           \/ BeginCopy \/ PlaceCopy \/ VerifyStaged \/ BeginCommit
           \/ InstallManifest \/ WriteMarker \/ Repeat \/ Kill \/ Download
           \/ \E f \in Files : \/ CopyFile(f) \/ InstallFile(f)
                               \/ DamageTree(f) \/ DamageFinal(f)
           \/ \E id \in DOMAIN staged, f \in Files : DamageStaged(id, f)
           \/ \E d \in Derivers :
                 \/ Derive(d) \/ ReuseDerived(d) \/ WriteDerived(d)
                 \/ PlaceDerived(d) \/ DeriveAgain(d)
           \/ \E x \in Exporters :
                 \/ BeginExport(x) \/ WriteOfficialRun(x) \/ WriteSums(x)
                 \/ Pack(x) \/ KillExport(x)
BY DEF Next, Attempt, Faults, DeriveStep, ExportStep

-----------------------------------------------------------------------------
(* The inductive invariant. *)

\* Every report but the first is made after a fault of its own.
Counted ==
    /\ made <= faults + 1
    /\ (\E f \in Files : tree[f] \in {Absent, Damaged}) => made <= faults

Whole == {"staging", "copying", "verifying", "committing", "installing", "marking"}
Placed == {"verifying", "committing", "installing", "marking"}

\* An attempt is of a run that is not published yet; from the reports on its
\* artifacts are whole, and what it has copied of them is what they are.
Attempting ==
    /\ pc # "idle" => marker = Empty
    /\ dir # "made" => pc \in {"idle", "creating"} /\ marker = Empty
    /\ pc \in Whole => tree \in Published
    /\ pc = "copying" => \A f \in Files \ todo : copy[f] = tree[f]
    /\ pc \in Placed => Publication \in DOMAIN staged
    /\ \A id \in DOMAIN staged : staged[id].manifest \in Published

\* The staged copy is intact while it is installed, and final/ has what was
\* installed of it.
Installing ==
    /\ pc \in {"installing", "marking"} => ValidateStaged(Publication)
    /\ pc = "installing" =>
          \A f \in Files \ todo : final[f] = staged[Publication].payload[f]
    /\ pc = "marking" => /\ final = staged[Publication].payload
                         /\ manifest = staged[Publication].manifest

\* Whoever reads has verified the run, and what was given is what is published.
Reading ==
    /\ answered # Empty => answered = marker
    /\ derived # None =>
          /\ marker # Empty
          /\ \E d \in Derivers : derived = {[by |-> d, of |-> marker]}
    /\ \A d \in Derivers :
          dpc[d] \in {"computed", "written"} => marker # Empty /\ source[d] = marker
    /\ \A x \in Exporters :
          /\ xpc[x] # "idle" => VerifyCommitted
          /\ archive[x] # None =>
                /\ marker # Empty
                /\ \E packed \in archive[x] :
                      archive[x] = {packed} /\ packed.files.final = marker

\* The checksums are of the files to be packed, if nobody wrote among them.
Summing ==
    \A x \in Exporters :
        xpc[x] = "packing" => sums = {RunFiles} \/ disturbed[x]

IInv == TypeOK /\ Counted /\ Attempting /\ Installing /\ Reading /\ Summing

LEMMA Basics ==
    /\ MaxFaults \in Nat /\ MaxReruns \in Nat
    /\ Reports \subseteq Nat /\ Reports \subseteq Contents
    /\ Absent \notin Reports /\ Damaged \notin Reports
    /\ Empty \in Trees /\ Empty \notin Published /\ Published \subseteq Trees
    /\ "reports" \in Files
    /\ "none" \notin Exporters /\ "api" \notin Exporters /\ "bundle" \notin Exporters
<1>1. MaxFaults \in Nat /\ MaxReruns \in Nat /\ "reports" \in Files
  BY BoundsAssumption, FilesAssumption
<1>2. Reports \subseteq Nat /\ Absent \notin Reports /\ Damaged \notin Reports
  BY <1>1 DEF Reports, Absent, Damaged
<1>3. Reports \subseteq Contents /\ Empty \in Trees /\ Published \subseteq Trees
  BY DEF Contents, Trees, Empty, Published
<1>4. Empty \notin Published
  BY <1>1, <1>2 DEF Empty, Published
<1>5. "none" \notin Exporters /\ "api" \notin Exporters /\ "bundle" \notin Exporters
  BY ReadersAssumption
<1>6. QED
  BY <1>1, <1>2, <1>3, <1>4, <1>5

LEMMA Initial == Init => IInv
<1>1. SUFFICES ASSUME Init PROVE IInv
  OBVIOUS
<1>2. DOMAIN staged = {}
  BY <1>1 DEF Init
<1>3. TypeOK
  <2>1. /\ 0 \in 0 .. MaxFaults /\ 0 \in 0 .. MaxReruns
    BY Basics
  <2>2. disturbed \in [Exporters -> BOOLEAN]
    BY <1>1, Zenon DEF Init
  <2>3. QED
    BY <1>1, <1>2, <2>1, <2>2, Basics DEF Init, TypeOK, AttemptStates, None
<1>4. Counted
  BY <1>1 DEF Init, Counted
<1>5. Attempting /\ Installing
  BY <1>1, <1>2 DEF Init, Attempting, Installing, Whole, Placed
<1>6. Reading /\ Summing
  BY <1>1 DEF Init, Reading, Summing
<1>7. QED
  BY <1>3, <1>4, <1>5, <1>6 DEF IInv

-----------------------------------------------------------------------------
(* The steps of the readers touch neither the attempt nor the final files. *)

Reader ==
    UNCHANGED <<dir, tree, staged, finalDir, process, made, faults>>

LEMMA ReaderSteps ==
    /\ UNCHANGED vars \/ Repeat \/ Download => Reader
    /\ \A d \in Derivers :
          Derive(d) \/ ReuseDerived(d) \/ WriteDerived(d) \/ PlaceDerived(d) => Reader
    /\ \A x \in Exporters :
          BeginExport(x) \/ WriteOfficialRun(x) \/ WriteSums(x) \/ Pack(x) => Reader
BY DEF Reader, vars, runDir, finalDir, process, rest, Repeat, Download, Derive, ReuseDerived,
       WriteDerived, PlaceDerived, BeginExport, WriteOfficialRun, WriteSums, Pack

\* A reader that is killed or called again.
LEMMA ReaderEnds ==
    /\ \A d \in Derivers :
          DeriveAgain(d) => /\ UNCHANGED <<runDir, finalDir, process, export, made, answered, derived>>
                            /\ faults' = faults \/ Fault
    /\ \A x \in Exporters :
          KillExport(x) => /\ UNCHANGED <<runDir, finalDir, process, derivation, made, answered>>
                           /\ Fault
BY DEF DeriveAgain, KillExport

LEMMA CountedStep ==
    ASSUME IInv, [Next]_vars
    PROVE  Counted'
<1> USE Basics DEF IInv
<1>1. made \in Nat /\ faults \in Nat
  BY DEF TypeOK
<1>2. ASSUME UNCHANGED <<tree, made>>, faults' = faults \/ Fault PROVE Counted'
  BY <1>1, <1>2 DEF Counted, Fault
<1>3. CASE Report
  <2>1. CASE \E f \in Files : tree[f] \in {Absent, Damaged}
    <3>1. made' = made + 1 /\ faults' = faults /\ made' \in Reports
      BY <1>1, <1>3, <2>1 DEF Report, Counted, TypeOK, Reports
    <3>2. \A f \in Files : tree'[f] \notin {Absent, Damaged}
      BY <1>3, <2>1, <3>1 DEF Report
    <3>3. QED
      BY <1>1, <2>1, <3>1, <3>2 DEF Counted
  <2>2. CASE ~ \E f \in Files : tree[f] \in {Absent, Damaged}
    BY <1>2, <1>3, <2>2 DEF Report
  <2>3. QED
    BY <2>1, <2>2
<1>4. ASSUME NEW f \in Files, DamageTree(f) PROVE Counted'
  BY <1>1, <1>4 DEF DamageTree, Fault, Counted
<1>5. CASE \/ CreateRun \/ WriteRunManifest \/ Resume \/ UseStaged \/ BeginCopy
           \/ PlaceCopy \/ VerifyStaged \/ BeginCommit \/ InstallManifest \/ WriteMarker
           \/ Kill
  BY <1>2, <1>5 DEF CreateRun, WriteRunManifest, Resume, UseStaged, BeginCopy,
     PlaceCopy, VerifyStaged, BeginCommit, InstallManifest, WriteMarker, Kill, runDir, rest
<1>6. ASSUME NEW f \in Files, CopyFile(f) \/ InstallFile(f) \/ DamageFinal(f)
      PROVE  Counted'
  BY <1>2, <1>6 DEF CopyFile, InstallFile, DamageFinal, runDir, rest
<1>7. ASSUME NEW id \in DOMAIN staged, NEW f \in Files, DamageStaged(id, f) PROVE Counted'
  BY <1>2, <1>7 DEF DamageStaged
<1>8. ASSUME NEW d \in Derivers, DeriveAgain(d) PROVE Counted'
  BY <1>2, <1>8, ReaderEnds DEF runDir
<1>9. ASSUME NEW x \in Exporters, KillExport(x) PROVE Counted'
  BY <1>2, <1>9, ReaderEnds DEF runDir
<1>10. CASE Reader
  BY <1>2, <1>10 DEF Reader
<1>11. QED
  BY <1>3, <1>4, <1>5, <1>6, <1>7, <1>8, <1>9, <1>10, Steps, ReaderSteps

\* The reports phase leaves every artifact whole.
LEMMA ReportStep ==
    ASSUME IInv, Report
    PROVE  /\ tree' \in Published /\ made' \in {0} \cup Reports
<1> USE Basics DEF IInv
<1>1. CASE \E f \in Files : tree[f] \in {Absent, Damaged}
  <2>1. made' \in Reports
    BY <1>1 DEF Report, Counted, TypeOK, Reports
  <2>2. QED
    BY <1>1, <2>1 DEF Report, TypeOK, Trees, Contents, Published
<1>2. CASE ~ \E f \in Files : tree[f] \in {Absent, Damaged}
  BY <1>2 DEF Report, TypeOK, Trees, Contents, Published
<1>3. QED
  BY <1>1, <1>2

\* A copy is complete when no file is left to copy.
LEMMA CopyStep ==
    ASSUME IInv, PlaceCopy
    PROVE  /\ copy = tree /\ copy \in Published /\ Publication \in Reports
           /\ DOMAIN staged' = DOMAIN staged \cup {Publication}
           /\ staged'[Publication] = [payload |-> copy, manifest |-> copy, receipt |-> Empty]
           /\ \A id \in DOMAIN staged : id # Publication => staged'[id] = staged[id]
<1> USE Basics DEF IInv
<1>1. pc = "copying" /\ todo = {}
  BY DEF PlaceCopy, Goto
<1>2. tree \in Published /\ \A f \in Files : copy[f] = tree[f]
  BY <1>1 DEF Attempting, Whole
<1>3. copy = tree
  BY <1>2 DEF TypeOK, Trees
<1>4. Publication \in Reports
  BY <1>2 DEF Publication, Published
<1>5. QED
  BY <1>2, <1>3, <1>4 DEF PlaceCopy, PutStaged

LEMMA AttemptingStep ==
    ASSUME IInv, [Next]_vars
    PROVE  Attempting'
<1> USE Basics DEF IInv
<1>1. ASSUME UNCHANGED <<dir, tree, staged, marker, process>> PROVE Attempting'
  BY <1>1 DEF Attempting, process, Publication
<1>2. ASSUME UNCHANGED <<dir, tree, staged, marker>>, pc' = "idle" PROVE Attempting'
  BY <1>2 DEF Attempting, Whole, Placed
<1>3. CASE CreateRun \/ WriteRunManifest \/ Resume
  BY <1>3 DEF CreateRun, WriteRunManifest, Resume, Goto, Attempting, Whole, Placed, runDir, finalDir
<1>4. CASE Report
  BY <1>4, ReportStep DEF Report, Goto, Attempting, Whole, Placed, finalDir
<1>5. CASE UseStaged
  BY <1>5 DEF UseStaged, Attempting, Whole, Placed, runDir, finalDir, Publication
<1>6. CASE BeginCopy
  BY <1>6 DEF BeginCopy, Goto, Attempting, Whole, Placed, runDir, finalDir
<1>7. ASSUME NEW f \in Files, CopyFile(f) PROVE Attempting'
  BY <1>7 DEF CopyFile, Attempting, Whole, Placed, runDir, finalDir, TypeOK, Trees
<1>8. CASE PlaceCopy
  <2>1. /\ pc = "copying" /\ pc' = "verifying"
        /\ UNCHANGED <<dir, tree, marker>>
    BY <1>8 DEF PlaceCopy, Goto, finalDir
  <2>2. /\ Publication' = Publication /\ Publication \in DOMAIN staged'
        /\ \A id \in DOMAIN staged' : staged'[id].manifest \in Published
    BY <1>8, <2>1, CopyStep DEF Publication, Attempting
  <2>3. QED
    BY <2>1, <2>2 DEF Attempting, Whole, Placed
<1>9. CASE VerifyStaged
  <2>1. /\ pc = "verifying" /\ pc' \in {"committing", "idle"}
        /\ UNCHANGED <<dir, tree, marker>>
        /\ DOMAIN staged' = DOMAIN staged
        /\ \A id \in DOMAIN staged : staged'[id].manifest = staged[id].manifest
    BY <1>9 DEF VerifyStaged, finalDir, TypeOK, Copies
  <2>2. QED
    BY <2>1 DEF Attempting, Whole, Placed, Publication
<1>10. CASE BeginCommit
  BY <1>10 DEF BeginCommit, Attempting, Whole, Placed, runDir, finalDir, Publication
<1>11. ASSUME NEW f \in Files, InstallFile(f) PROVE Attempting'
  BY <1>11 DEF InstallFile, Attempting, Whole, Placed, runDir, Publication
<1>12. CASE InstallManifest
  BY <1>12 DEF InstallManifest, Goto, Attempting, Whole, Placed, runDir, Publication
<1>13. CASE WriteMarker
  <2>1. pc = "marking" /\ pc' = "idle" /\ UNCHANGED runDir
    BY <1>13 DEF WriteMarker, Goto
  <2>2. dir = "made"
    BY <2>1 DEF Attempting
  <2>3. QED
    BY <2>1, <2>2 DEF Attempting, Whole, Placed, runDir
<1>14. CASE Kill
  BY <1>2, <1>14 DEF Kill, runDir, finalDir
<1>15. ASSUME NEW f \in Files, DamageTree(f) PROVE Attempting'
  BY <1>15 DEF DamageTree, AtRest, Attempting, Whole, Placed, process, finalDir
<1>16. ASSUME NEW f \in Files, DamageFinal(f) PROVE Attempting'
  BY <1>1, <1>16 DEF DamageFinal, runDir
<1>17. ASSUME NEW id \in DOMAIN staged, NEW f \in Files, DamageStaged(id, f)
       PROVE  Attempting'
  <2>1. /\ pc = "idle" /\ UNCHANGED <<dir, tree, marker, process>>
        /\ DOMAIN staged' = DOMAIN staged
    BY <1>17 DEF DamageStaged, AtRest, finalDir
  <2>2. \A i \in DOMAIN staged : staged'[i].manifest = staged[i].manifest
    BY <1>17 DEF DamageStaged, TypeOK, Copies
  <2>3. QED
    BY <2>1, <2>2 DEF Attempting, Whole, Placed, process
<1>18. ASSUME NEW d \in Derivers, DeriveAgain(d) PROVE Attempting'
  BY <1>1, <1>18, ReaderEnds DEF runDir, finalDir
<1>19. ASSUME NEW x \in Exporters, KillExport(x) PROVE Attempting'
  BY <1>1, <1>19, ReaderEnds DEF runDir, finalDir
<1>20. CASE Reader
  BY <1>1, <1>20 DEF Reader, finalDir
<1>21. QED
  BY <1>3, <1>4, <1>5, <1>6, <1>7, <1>8, <1>9, <1>10, <1>11, <1>12, <1>13, <1>14,
     <1>15, <1>16, <1>17, <1>18, <1>19, <1>20, Steps, ReaderSteps

LEMMA InstallingStep ==
    ASSUME IInv, [Next]_vars
    PROVE  Installing'
<1> USE Basics DEF IInv
<1>1. ASSUME UNCHANGED <<tree, staged, final, manifest, process>> PROVE Installing'
  BY <1>1 DEF Installing, process, Publication, ValidateStaged
<1>2. ASSUME pc' \notin {"installing", "marking"} PROVE Installing'
  BY <1>2 DEF Installing
<1>3. CASE \/ CreateRun \/ WriteRunManifest \/ Resume \/ Report \/ UseStaged \/ BeginCopy
           \/ PlaceCopy \/ VerifyStaged \/ WriteMarker \/ Kill
  BY <1>2, <1>3 DEF CreateRun, WriteRunManifest, Resume, Report, UseStaged, BeginCopy,
     PlaceCopy, VerifyStaged, WriteMarker, Kill, Goto
<1>4. ASSUME NEW f \in Files, CopyFile(f) PROVE Installing'
  BY <1>2, <1>4 DEF CopyFile
<1>5. CASE BeginCommit
  BY <1>5 DEF BeginCommit, Installing, runDir, Publication, ValidateStaged
<1>6. ASSUME NEW f \in Files, InstallFile(f) PROVE Installing'
  <2>1. pc = "installing" /\ UNCHANGED <<pc, tree, staged>> /\ todo' = todo \ {f}
        /\ final' = [final EXCEPT ![f] = staged[Publication].payload[f]]
    BY <1>6 DEF InstallFile, runDir
  <2>2. QED
    BY <2>1 DEF Installing, Publication, ValidateStaged, TypeOK, Trees
<1>7. CASE InstallManifest
  <2>1. /\ pc = "installing" /\ pc' = "marking" /\ todo = {} /\ UNCHANGED <<tree, staged, final>>
        /\ manifest' = staged[Publication].manifest
    BY <1>7 DEF InstallManifest, Goto, runDir
  <2>2. /\ Publication \in DOMAIN staged
        /\ \A f \in Files : final[f] = staged[Publication].payload[f]
        /\ ValidateStaged(Publication)
    BY <2>1 DEF Attempting, Placed, Installing
  <2>3. final = staged[Publication].payload
    <3>1. staged[Publication].payload \in Trees
      BY <2>2 DEF TypeOK, Copies
    <3>2. QED
      BY <2>2, <3>1 DEF TypeOK, Trees
  <2>4. QED
    BY <2>1, <2>2, <2>3 DEF Installing, Publication, ValidateStaged
<1>8. ASSUME NEW f \in Files, DamageTree(f) \/ DamageFinal(f) PROVE Installing'
  BY <1>2, <1>8 DEF DamageTree, DamageFinal, AtRest, process
<1>9. ASSUME NEW id \in DOMAIN staged, NEW f \in Files, DamageStaged(id, f)
      PROVE  Installing'
  BY <1>2, <1>9 DEF DamageStaged, AtRest, process
<1>10. ASSUME NEW d \in Derivers, DeriveAgain(d) PROVE Installing'
  BY <1>1, <1>10, ReaderEnds DEF runDir, finalDir
<1>11. ASSUME NEW x \in Exporters, KillExport(x) PROVE Installing'
  BY <1>1, <1>11, ReaderEnds DEF runDir, finalDir
<1>12. CASE Reader
  BY <1>1, <1>12 DEF Reader, finalDir
<1>13. QED
  BY <1>3, <1>4, <1>5, <1>6, <1>7, <1>8, <1>9, <1>10, <1>11, <1>12, Steps, ReaderSteps

\* The marker is written once, over a manifest and files that agree.
LEMMA MarkerStep ==
    ASSUME IInv, [Next]_vars, marker' # marker
    PROVE  /\ WriteMarker /\ marker = Empty /\ marker' \in Published
           /\ marker' = staged[Publication].payload /\ final' = marker'
<1> USE Basics DEF IInv
<1>1. WriteMarker
  <2>1. ASSUME NEW d \in Derivers, DeriveAgain(d) PROVE UNCHANGED marker
    BY <2>1, ReaderEnds DEF finalDir
  <2>2. ASSUME NEW x \in Exporters, KillExport(x) PROVE UNCHANGED marker
    BY <2>2, ReaderEnds DEF finalDir
  <2>3. ASSUME Reader PROVE UNCHANGED marker
    BY <2>3 DEF Reader, finalDir
  <2>4. ASSUME \/ CreateRun \/ WriteRunManifest \/ Resume \/ Report \/ UseStaged
               \/ BeginCopy \/ PlaceCopy \/ VerifyStaged \/ BeginCommit
               \/ InstallManifest \/ Kill
        PROVE  UNCHANGED marker
    BY <2>4 DEF CreateRun, WriteRunManifest, Resume, Report, UseStaged, BeginCopy,
       PlaceCopy, VerifyStaged, BeginCommit, InstallManifest, Kill, finalDir
  <2>5. ASSUME NEW f \in Files, CopyFile(f) \/ InstallFile(f) \/ DamageTree(f)
                                \/ DamageFinal(f)
        PROVE  UNCHANGED marker
    BY <2>5 DEF CopyFile, InstallFile, DamageTree, DamageFinal, finalDir
  <2>6. ASSUME NEW id \in DOMAIN staged, NEW f \in Files, DamageStaged(id, f)
        PROVE  UNCHANGED marker
    BY <2>6 DEF DamageStaged, finalDir
  <2>7. QED
    BY <2>1, <2>2, <2>3, <2>4, <2>5, <2>6, Steps, ReaderSteps
<1>2. /\ pc = "marking" /\ final' = final /\ final = manifest /\ marker' = manifest
  BY <1>1 DEF WriteMarker, Goto
<1>3. /\ marker = Empty /\ Publication \in DOMAIN staged
      /\ final = staged[Publication].payload /\ manifest = staged[Publication].manifest
      /\ staged[Publication].manifest \in Published
  BY <1>2 DEF Attempting, Placed, Installing
<1>4. QED
  BY <1>1, <1>2, <1>3

\* Nobody writes a published file but the one who damages it, and that happens
\* while no reader is at work.
LEMMA FinalStep ==
    ASSUME IInv, [Next]_vars, marker # Empty
    PROVE  /\ UNCHANGED <<marker, manifest>>
           /\ UNCHANGED <<tree, final>> \/ AtRest
<1> USE Basics DEF IInv
<1>1. pc = "idle"
  BY DEF Attempting
<1>2. ASSUME NEW d \in Derivers, DeriveAgain(d)
      PROVE  UNCHANGED <<marker, manifest, tree, final>>
  BY <1>2, ReaderEnds DEF finalDir, runDir
<1>3. ASSUME NEW x \in Exporters, KillExport(x)
      PROVE  UNCHANGED <<marker, manifest, tree, final>>
  BY <1>3, ReaderEnds DEF finalDir, runDir
<1>4. ASSUME Reader PROVE UNCHANGED <<marker, manifest, tree, final>>
  BY <1>4 DEF Reader, finalDir
<1>5. ASSUME \/ WriteRunManifest \/ Resume \/ Report \/ UseStaged
             \/ BeginCopy \/ PlaceCopy \/ VerifyStaged \/ BeginCommit
             \/ InstallManifest \/ WriteMarker \/ Kill
      PROVE  FALSE
  BY <1>1, <1>5 DEF WriteRunManifest, Resume, Report, UseStaged, BeginCopy,
     PlaceCopy, VerifyStaged, BeginCommit, InstallManifest, WriteMarker, Kill, Goto
<1>6. ASSUME NEW f \in Files, CopyFile(f) \/ InstallFile(f) PROVE FALSE
  BY <1>1, <1>6 DEF CopyFile, InstallFile
<1>7. ASSUME CreateRun PROVE FALSE
  BY <1>7 DEF CreateRun, Attempting
<1>8. ASSUME NEW f \in Files, DamageTree(f) \/ DamageFinal(f)
      PROVE  UNCHANGED <<marker, manifest>> /\ AtRest
  BY <1>8 DEF DamageTree, DamageFinal, finalDir
<1>9. ASSUME NEW id \in DOMAIN staged, NEW f \in Files, DamageStaged(id, f)
      PROVE  UNCHANGED <<marker, manifest, tree, final>>
  BY <1>9 DEF DamageStaged, finalDir
<1>10. QED
  BY <1>2, <1>3, <1>4, <1>5, <1>6, <1>7, <1>8, <1>9, Steps, ReaderSteps

-----------------------------------------------------------------------------
(* The readers. *)

LEMMA ReadingStays ==
    ASSUME IInv, [Next]_vars, UNCHANGED <<answered, derivation, xpc, archive>>
    PROVE  Reading'
<1> USE Basics DEF IInv
<1>1. CASE marker' # marker
  <2>1. marker = Empty
    BY <1>1, MarkerStep
  <2>2. /\ answered = Empty /\ derived = None
        /\ \A d \in Derivers : dpc[d] \notin {"computed", "written"}
        /\ \A x \in Exporters : xpc[x] = "idle" /\ archive[x] = None
    BY <2>1 DEF Reading, VerifyCommitted
  <2>3. QED
    BY <2>2 DEF Reading, derivation
<1>2. CASE marker' = marker
  <2>1. ASSUME NEW x \in Exporters, xpc[x] # "idle" PROVE VerifyCommitted'
    <3>1. VerifyCommitted /\ marker # Empty
      BY <2>1 DEF Reading, VerifyCommitted
    <3>2. UNCHANGED <<manifest, final>>
      BY <2>1, <3>1, FinalStep DEF AtRest
    <3>3. QED
      BY <1>2, <3>1, <3>2 DEF VerifyCommitted
  <2>2. QED
    BY <1>2, <2>1 DEF Reading, derivation
<1>3. QED
  BY <1>1, <1>2

\* Who changes what was given: a download, a derivation or an export.
LEMMA GivenStep ==
    ASSUME [Next]_vars
    PROVE  \/ UNCHANGED <<answered, derived, archive>>
           \/ Download /\ UNCHANGED <<derived, archive>>
           \/ \E d \in Derivers : PlaceDerived(d) /\ UNCHANGED <<answered, archive>>
           \/ \E x \in Exporters : Pack(x) /\ UNCHANGED <<answered, derived>>
<1>1. CASE \/ UNCHANGED vars
           \/ CreateRun \/ WriteRunManifest \/ Resume \/ Report \/ UseStaged
           \/ BeginCopy \/ PlaceCopy \/ VerifyStaged \/ BeginCommit
           \/ InstallManifest \/ WriteMarker \/ Repeat \/ Kill
  BY <1>1 DEF vars, CreateRun, WriteRunManifest, Resume, Report, UseStaged,
     BeginCopy, PlaceCopy, VerifyStaged, BeginCommit, InstallManifest, WriteMarker,
     Repeat, Kill, derivation, export, rest
<1>2. ASSUME NEW f \in Files, \/ CopyFile(f) \/ InstallFile(f)
                              \/ DamageTree(f) \/ DamageFinal(f)
      PROVE  UNCHANGED <<answered, derived, archive>>
  BY <1>2 DEF CopyFile, InstallFile, DamageTree, DamageFinal, derivation, export, rest
<1>3. ASSUME NEW id \in DOMAIN staged, NEW f \in Files, DamageStaged(id, f)
      PROVE  UNCHANGED <<answered, derived, archive>>
  BY <1>3 DEF DamageStaged, derivation, export
<1>4. ASSUME NEW d \in Derivers, \/ Derive(d) \/ ReuseDerived(d) \/ WriteDerived(d)
                                 \/ DeriveAgain(d)
      PROVE  UNCHANGED <<answered, derived, archive>>
  BY <1>4 DEF Derive, ReuseDerived, WriteDerived, DeriveAgain, export, rest
<1>5. ASSUME NEW x \in Exporters, \/ BeginExport(x) \/ WriteOfficialRun(x)
                                  \/ WriteSums(x) \/ KillExport(x)
      PROVE  UNCHANGED <<answered, derived, archive>>
  BY <1>5 DEF BeginExport, WriteOfficialRun, WriteSums, KillExport, derivation, rest
<1>6. ASSUME Download PROVE UNCHANGED <<derived, archive>>
  BY <1>6 DEF Download, derivation, export
<1>7. ASSUME NEW d \in Derivers, PlaceDerived(d) PROVE UNCHANGED <<answered, archive>>
  BY <1>7 DEF PlaceDerived, export, rest
<1>8. ASSUME NEW x \in Exporters, Pack(x) PROVE UNCHANGED <<answered, derived>>
  BY <1>8 DEF Pack, derivation, rest
<1>9. QED
  BY <1>1, <1>2, <1>3, <1>4, <1>5, <1>6, <1>7, <1>8, Steps

LEMMA ReadingStep ==
    ASSUME IInv, [Next]_vars
    PROVE  Reading'
<1> USE Basics DEF IInv
<1>1. CASE Download
  <2>1. /\ marker # Empty /\ answered' = marker
        /\ UNCHANGED <<finalDir, derivation, xpc, archive>>
    BY <1>1 DEF Download, VerifyCommitted, export
  <2>2. QED
    BY <2>1 DEF Reading, VerifyCommitted, finalDir, derivation
<1>2. ASSUME NEW d \in Derivers, Derive(d) PROVE Reading'
  <2>1. /\ marker # Empty /\ source' = [source EXCEPT ![d] = marker]
        /\ dpc' = [dpc EXCEPT ![d] = "computed"]
        /\ UNCHANGED <<finalDir, derived, export, answered>>
    BY <1>2 DEF Derive, VerifyCommitted, rest
  <2>2. QED
    BY <2>1 DEF Reading, VerifyCommitted, finalDir, export, TypeOK
<1>3. ASSUME NEW d \in Derivers, ReuseDerived(d) \/ WriteDerived(d) PROVE Reading'
  <2>1. /\ dpc[d] = "computed"
        /\ \A e \in Derivers : e # d => dpc'[e] = dpc[e]
        /\ UNCHANGED <<finalDir, derived, source, export, answered>>
    BY <1>3 DEF ReuseDerived, WriteDerived, rest, TypeOK
  <2>2. QED
    BY <2>1 DEF Reading, VerifyCommitted, finalDir, export
<1>4. ASSUME NEW d \in Derivers, PlaceDerived(d) PROVE Reading'
  <2>1. /\ dpc[d] = "written" /\ dpc'[d] \notin {"computed", "written"}
        /\ \A e \in Derivers : e # d => dpc'[e] = dpc[e]
        /\ UNCHANGED <<finalDir, source, export, answered>>
        /\ derived' = derived \/ derived' = {[by |-> d, of |-> source[d]]}
    BY <1>4 DEF PlaceDerived, rest, TypeOK
  <2>2. marker # Empty /\ source[d] = marker
    BY <2>1 DEF Reading
  <2>3. QED
    BY <2>1, <2>2 DEF Reading, VerifyCommitted, finalDir, export
<1>5. ASSUME NEW d \in Derivers, DeriveAgain(d) PROVE Reading'
  <2>1. /\ dpc' = [dpc EXCEPT ![d] = "idle"] /\ source' = [source EXCEPT ![d] = Empty]
        /\ UNCHANGED <<finalDir, derived, export, answered>>
    BY <1>5 DEF DeriveAgain
  <2>2. QED
    BY <2>1 DEF Reading, VerifyCommitted, finalDir, export, TypeOK
<1>6. ASSUME NEW x \in Exporters,
             BeginExport(x) \/ WriteOfficialRun(x) \/ WriteSums(x) \/ KillExport(x)
      PROVE  Reading'
  <2>1. /\ VerifyCommitted \/ xpc'[x] = "idle"
        /\ \A y \in Exporters : y # x => xpc'[y] = xpc[y]
        /\ UNCHANGED <<finalDir, derivation, archive, answered>>
    BY <1>6 DEF BeginExport, WriteOfficialRun, WriteSums, KillExport, rest, Reading, TypeOK
  <2>2. QED
    BY <2>1 DEF Reading, VerifyCommitted, finalDir, derivation
<1>7. ASSUME NEW x \in Exporters, Pack(x) PROVE Reading'
  <2>1. /\ xpc[x] # "idle" /\ xpc' = [xpc EXCEPT ![x] = "idle"]
        /\ archive' = [archive EXCEPT ![x] = {[files |-> RunFiles, sums |-> sums]}]
        /\ UNCHANGED <<finalDir, derivation, answered>>
    BY <1>7 DEF Pack, rest
  <2>2. marker # Empty /\ final = marker
    BY <2>1 DEF Reading, VerifyCommitted
  <2>3. RunFiles.final = marker
    BY <2>2 DEF RunFiles
  <2>4. \E packed \in archive'[x] : archive'[x] = {packed} /\ packed.files.final = marker
    BY <2>1, <2>3 DEF TypeOK
  <2>5. \A y \in Exporters : y # x => xpc'[y] = xpc[y] /\ archive'[y] = archive[y]
    BY <2>1 DEF TypeOK
  <2>6. xpc'[x] = "idle"
    BY <2>1 DEF TypeOK
  <2>7. QED
    BY <2>1, <2>2, <2>4, <2>5, <2>6 DEF Reading, VerifyCommitted, finalDir, derivation
<1>8. CASE \/ UNCHANGED vars
           \/ CreateRun \/ WriteRunManifest \/ Resume \/ Report \/ UseStaged
           \/ BeginCopy \/ PlaceCopy \/ VerifyStaged \/ BeginCommit
           \/ InstallManifest \/ WriteMarker \/ Repeat \/ Kill
  BY <1>8, ReadingStays DEF vars, CreateRun, WriteRunManifest, Resume, Report, UseStaged,
     BeginCopy, PlaceCopy, VerifyStaged, BeginCommit, InstallManifest, WriteMarker,
     Repeat, Kill, export, rest
<1>9. ASSUME NEW f \in Files, \/ CopyFile(f) \/ InstallFile(f)
                              \/ DamageTree(f) \/ DamageFinal(f)
      PROVE  Reading'
  BY <1>9, ReadingStays DEF CopyFile, InstallFile, DamageTree, DamageFinal, export, rest
<1>10. ASSUME NEW id \in DOMAIN staged, NEW f \in Files, DamageStaged(id, f)
       PROVE  Reading'
  BY <1>10, ReadingStays DEF DamageStaged, export
<1>11. QED
  BY <1>1, <1>2, <1>3, <1>4, <1>5, <1>6, <1>7, <1>8, <1>9, <1>10, Steps

\* The files of an export in progress change only with the official metadata
\* and the log.
LEMMA PackedFilesStay ==
    ASSUME IInv, [Next]_vars, NEW x \in Exporters, xpc[x] # "idle",
           UNCHANGED <<official, log>>
    PROVE  UNCHANGED RunFiles
<1>1. marker # Empty
  BY DEF IInv, Reading, VerifyCommitted
<1>2. ~ AtRest
  BY DEF AtRest
<1>3. QED
  BY <1>1, <1>2, FinalStep DEF RunFiles

LEMMA SummingStep ==
    ASSUME IInv, [Next]_vars
    PROVE  Summing'
<1>1. SUFFICES ASSUME NEW x \in Exporters, xpc'[x] = "packing"
               PROVE  sums' = {RunFiles'} \/ disturbed'[x]
  BY DEF Summing
<1>2. ASSUME UNCHANGED <<official, log, sums, disturbed>>, xpc[x] = "packing"
      PROVE  sums' = {RunFiles'} \/ disturbed'[x]
  <2>1. RunFiles' = RunFiles
    BY <1>2, PackedFilesStay
  <2>2. sums = {RunFiles} \/ disturbed[x]
    BY <1>2 DEF IInv, Summing
  <2>3. QED
    BY <1>2, <2>1, <2>2
<1>3. CASE \/ UNCHANGED vars
           \/ CreateRun \/ WriteRunManifest \/ Resume \/ Report \/ UseStaged
           \/ BeginCopy \/ PlaceCopy \/ VerifyStaged \/ BeginCommit
           \/ InstallManifest \/ WriteMarker \/ Kill \/ Download
  BY <1>1, <1>2, <1>3 DEF vars, CreateRun, WriteRunManifest, Resume, Report, UseStaged,
     BeginCopy, PlaceCopy, VerifyStaged, BeginCommit, InstallManifest, WriteMarker,
     Kill, Download, export, runDir
<1>4. ASSUME NEW f \in Files, \/ CopyFile(f) \/ InstallFile(f)
                              \/ DamageTree(f) \/ DamageFinal(f)
      PROVE  sums' = {RunFiles'} \/ disturbed'[x]
  BY <1>1, <1>2, <1>4 DEF CopyFile, InstallFile, DamageTree, DamageFinal, export, runDir
<1>5. ASSUME NEW id \in DOMAIN staged, NEW f \in Files, DamageStaged(id, f)
      PROVE  sums' = {RunFiles'} \/ disturbed'[x]
  BY <1>1, <1>2, <1>5 DEF DamageStaged, export
<1>6. ASSUME NEW d \in Derivers, \/ Derive(d) \/ ReuseDerived(d) \/ WriteDerived(d)
                                 \/ PlaceDerived(d) \/ DeriveAgain(d)
      PROVE  sums' = {RunFiles'} \/ disturbed'[x]
  BY <1>1, <1>2, <1>6 DEF Derive, ReuseDerived, WriteDerived, PlaceDerived, DeriveAgain,
     export, runDir
<1>7. CASE Repeat
  <2>1. xpc[x] # "idle" /\ disturbed' = [y \in Exporters |-> disturbed[y] \/ xpc[y] # "idle"]
    BY <1>1, <1>7 DEF Repeat
  <2>2. disturbed'[x]
    BY <2>1, Zenon
  <2>3. QED
    BY <2>2
<1>8. ASSUME NEW y \in Exporters,
             WriteOfficialRun(y) \/ (y # x /\ WriteSums(y))
      PROVE  disturbed'[x]
  <2>1. xpc[x] # "idle" /\ y # x /\ disturbed' = Disturb(y)
    BY <1>1, <1>8 DEF WriteOfficialRun, WriteSums, IInv, TypeOK
  <2>2. QED
    BY <2>1, Zenon DEF Disturb
<1>9. CASE WriteSums(x)
  BY <1>9 DEF WriteSums, RunFiles, runDir, finalDir
<1>10. ASSUME NEW y \in Exporters, Pack(y) \/ KillExport(y)
       PROVE  sums' = {RunFiles'} \/ disturbed'[x]
  <2>1. xpc[x] = "packing" /\ UNCHANGED <<official, log, sums, disturbed>>
    BY <1>1, <1>10 DEF Pack, KillExport, runDir, IInv, TypeOK
  <2>2. QED
    BY <1>2, <2>1
<1>11. ASSUME NEW y \in Exporters, BeginExport(y)
       PROVE  sums' = {RunFiles'} \/ disturbed'[x]
  <2>1. /\ y # x /\ xpc[x] = "packing" /\ UNCHANGED <<official, log, sums>>
        /\ disturbed' = [disturbed EXCEPT ![y] = FALSE]
    BY <1>1, <1>11 DEF BeginExport, runDir, IInv, TypeOK
  <2>2. disturbed \in [Exporters -> BOOLEAN]
    BY Zenon DEF IInv, TypeOK
  <2>3. disturbed'[x] = disturbed[x]
    BY <2>1, <2>2, Zenon
  <2>4. RunFiles' = RunFiles
    BY <2>1, PackedFilesStay
  <2>5. sums = {RunFiles} \/ disturbed[x]
    BY <2>1 DEF IInv, Summing
  <2>6. QED
    BY <2>1, <2>3, <2>4, <2>5
<1>12. QED
  BY <1>3, <1>4, <1>5, <1>6, <1>7, <1>8, <1>9, <1>10, <1>11, Steps

-----------------------------------------------------------------------------
(* Types. *)

LEMMA TypeStep ==
    ASSUME IInv, [Next]_vars
    PROVE  TypeOK'
<1> USE Basics DEF IInv
<1>1. TypeOK
  OBVIOUS
<1>2. CASE UNCHANGED vars
  BY <1>1, <1>2 DEF vars, runDir, finalDir, process, derivation, export, rest, TypeOK
<1>3. CASE CreateRun \/ WriteRunManifest \/ Resume
  BY <1>1, <1>3 DEF CreateRun, WriteRunManifest, Resume, Goto, TypeOK, AttemptStates,
     runDir, finalDir, derivation, export, rest
<1>4. CASE Report
  <2>1. tree' \in Trees /\ made' \in {0} \cup Reports
    BY <1>4, ReportStep
  <2>2. QED
    BY <1>1, <1>4, <2>1 DEF Report, Goto, TypeOK, AttemptStates, finalDir, derivation, export
<1>5. CASE UseStaged \/ BeginCopy
  BY <1>1, <1>5 DEF UseStaged, BeginCopy, Goto, TypeOK, AttemptStates, runDir, finalDir,
     derivation, export, rest
<1>6. CASE PlaceCopy
  <2>1. /\ DOMAIN staged' \subseteq Reports
        /\ \A id \in DOMAIN staged' : staged'[id] \in Copies
    <3>1. copy \in Trees /\ [payload |-> copy, manifest |-> copy, receipt |-> Empty] \in Copies
      BY <1>1 DEF TypeOK, Copies
    <3>2. QED
      BY <1>1, <1>6, <3>1, CopyStep DEF TypeOK
  <2>2. QED
    BY <1>1, <1>6, <2>1 DEF PlaceCopy, Goto, TypeOK, AttemptStates, finalDir, derivation,
       export, rest
<1>7. CASE VerifyStaged
  <2>1. /\ DOMAIN staged' = DOMAIN staged
        /\ \A id \in DOMAIN staged' : staged'[id] \in Copies
    <3>1. CASE staged' = staged
      BY <1>1, <3>1 DEF TypeOK
    <3>2. CASE staged' = [staged EXCEPT ![Publication].receipt = staged[Publication].manifest]
      <4>1. Publication \in DOMAIN staged
        BY <1>7 DEF VerifyStaged, Attempting, Placed
      <4>2. /\ DOMAIN staged' = DOMAIN staged
            /\ \A id \in DOMAIN staged : id # Publication => staged'[id] = staged[id]
            /\ staged'[Publication] =
                  [staged[Publication] EXCEPT !.receipt = staged[Publication].manifest]
        BY <3>2, <4>1
      <4>3. staged'[Publication] \in Copies
        BY <1>1, <4>1, <4>2 DEF TypeOK, Copies
      <4>4. QED
        BY <1>1, <4>2, <4>3 DEF TypeOK
    <3>3. QED
      BY <1>7, <3>1, <3>2 DEF VerifyStaged
  <2>2. pc' \in AttemptStates
    BY <1>7 DEF VerifyStaged, AttemptStates
  <2>3. QED
    BY <1>1, <1>7, <2>1, <2>2 DEF VerifyStaged, TypeOK, finalDir, derivation, export, rest
<1>8. CASE BeginCommit
  BY <1>1, <1>8 DEF BeginCommit, TypeOK, AttemptStates, runDir, finalDir, derivation,
     export, rest
<1>9. CASE InstallManifest
  <2>1. Publication \in DOMAIN staged
    BY <1>9 DEF InstallManifest, Goto, Attempting, Placed
  <2>2. manifest' \in Published
    BY <1>9, <2>1 DEF InstallManifest, Attempting
  <2>3. QED
    BY <1>1, <1>9, <2>2 DEF InstallManifest, Goto, TypeOK, AttemptStates, runDir,
       derivation, export, rest
<1>10. CASE WriteMarker
  BY <1>1, <1>10 DEF WriteMarker, Goto, TypeOK, AttemptStates, runDir, derivation,
     export, rest
<1>11. CASE Kill
  BY <1>1, <1>11 DEF Kill, Fault, TypeOK, AttemptStates, runDir, finalDir, derivation, export
<1>12. CASE Repeat
  <2>1. disturbed' \in [Exporters -> BOOLEAN]
    BY <1>12, Zenon DEF Repeat
  <2>2. log' \in 0 .. MaxReruns
    BY <1>1, <1>12 DEF Repeat, TypeOK
  <2>3. QED
    BY <1>1, <1>12, <2>1, <2>2 DEF Repeat, TypeOK, finalDir, process, derivation, rest
<1>13. CASE Download
  BY <1>1, <1>13 DEF Download, VerifyCommitted, TypeOK, runDir, finalDir, process,
     derivation, export
<1>14. ASSUME NEW f \in Files, CopyFile(f) PROVE TypeOK'
  BY <1>1, <1>14 DEF CopyFile, TypeOK, Trees, runDir, finalDir, derivation, export, rest
<1>15. ASSUME NEW f \in Files, InstallFile(f) PROVE TypeOK'
  <2>1. Publication \in DOMAIN staged
    BY <1>15 DEF InstallFile, Attempting, Placed
  <2>2. staged[Publication].payload[f] \in Contents
    BY <1>1, <2>1 DEF TypeOK, Copies, Trees
  <2>3. QED
    BY <1>1, <1>15, <2>2 DEF InstallFile, TypeOK, Trees, runDir, derivation, export, rest
<1>16. ASSUME NEW f \in Files, DamageTree(f) \/ DamageFinal(f) PROVE TypeOK'
  BY <1>1, <1>16 DEF DamageTree, DamageFinal, Fault, TypeOK, Trees, Contents, runDir,
     finalDir, process, derivation, export
<1>17. ASSUME NEW id \in DOMAIN staged, NEW f \in Files, DamageStaged(id, f)
       PROVE  TypeOK'
  <2>1. staged[id] \in Copies
    BY <1>1 DEF TypeOK
  <2>2. \A t \in Trees : [t EXCEPT ![f] = Damaged] \in Trees
    BY DEF Trees, Contents
  <2> DEFINE p == [staged[id] EXCEPT !.payload[f] = Damaged]
             r == [staged[id] EXCEPT !.receipt[f] = Damaged]
  <2>3. /\ p = [staged[id] EXCEPT !.payload = [staged[id].payload EXCEPT ![f] = Damaged]]
        /\ r = [staged[id] EXCEPT !.receipt = [staged[id].receipt EXCEPT ![f] = Damaged]]
    BY Zenon
  <2>4. p \in Copies /\ r \in Copies
    <3> HIDE DEF p, r
    <3>1. QED
      BY <2>1, <2>2, <2>3 DEF Copies
  <2>5. staged' = [staged EXCEPT ![id] = p] \/ staged' = [staged EXCEPT ![id] = r]
    BY <1>17, Zenon DEF DamageStaged
  <2>6. /\ DOMAIN staged' = DOMAIN staged
        /\ \A i \in DOMAIN staged' : staged'[i] \in Copies
    <3> HIDE DEF p, r
    <3>1. QED
      BY <1>1, <2>4, <2>5 DEF TypeOK
  <2>7. /\ faults' \in 0 .. MaxFaults
        /\ UNCHANGED <<dir, tree, log, finalDir, process, derivation, export, answered, made>>
    BY <1>1, <1>17 DEF DamageStaged, Fault, TypeOK
  <2>8. QED
    BY <1>1, <2>6, <2>7 DEF TypeOK, finalDir, process, derivation, export
<1>18. ASSUME NEW d \in Derivers, Derive(d) PROVE TypeOK'
  BY <1>1, <1>18 DEF Derive, VerifyCommitted, TypeOK, runDir, finalDir, process, export, rest
<1>19. ASSUME NEW d \in Derivers, ReuseDerived(d) \/ WriteDerived(d) PROVE TypeOK'
  BY <1>1, <1>19 DEF ReuseDerived, WriteDerived, TypeOK, runDir, finalDir, process, export, rest
<1>20. ASSUME NEW d \in Derivers, PlaceDerived(d) PROVE TypeOK'
  <2>1. source[d] \in Published
    BY <1>1, <1>20 DEF PlaceDerived, Reading, TypeOK
  <2>2. QED
    BY <1>1, <1>20, <2>1 DEF PlaceDerived, TypeOK, runDir, finalDir, process, export, rest
<1>21. ASSUME NEW d \in Derivers, DeriveAgain(d) PROVE TypeOK'
  BY <1>1, <1>21 DEF DeriveAgain, Fault, TypeOK, runDir, finalDir, process, export
<1>22. RunFiles \in RunFileSets
  BY <1>1 DEF RunFiles, RunFileSets, TypeOK
<1>23. ASSUME NEW x \in Exporters,
              \/ BeginExport(x) \/ WriteOfficialRun(x) \/ WriteSums(x)
              \/ Pack(x) \/ KillExport(x)
       PROVE  TypeOK'
  <2>1. disturbed' \in [Exporters -> BOOLEAN]
    <3>1. disturbed \in [Exporters -> BOOLEAN]
      BY <1>1, Zenon DEF TypeOK
    <3>2. CASE UNCHANGED disturbed
      BY <3>1, <3>2
    <3>3. CASE disturbed' = [disturbed EXCEPT ![x] = FALSE]
      BY <3>1, <3>3, Zenon
    <3>4. CASE disturbed' = Disturb(x)
      <4>1. \A y \in Exporters : disturbed[y] \in BOOLEAN
        BY <3>1, Zenon
      <4>2. QED
        BY <3>4, <4>1, Zenon DEF Disturb
    <3>5. QED
      BY <1>23, <3>2, <3>3, <3>4 DEF BeginExport, WriteOfficialRun, WriteSums, Pack, KillExport
  <2>2. /\ xpc' \in [Exporters -> {"idle", "describing", "summing", "packing"}]
        /\ sums' \subseteq RunFileSets /\ official' \in Exporters \cup {Nobody}
        /\ faults' \in 0 .. MaxFaults
        /\ UNCHANGED <<runDir, finalDir, process, derivation, answered, made>>
    BY <1>1, <1>22, <1>23 DEF BeginExport, WriteOfficialRun, WriteSums, Pack, KillExport,
       TypeOK, rest, Fault
  <2>3. archive' \in [Exporters -> SUBSET Archives]
    <3>1. [files |-> RunFiles, sums |-> sums] \in Archives
      BY <1>1, <1>22 DEF TypeOK, Archives
    <3>2. QED
      BY <1>1, <1>23, <3>1 DEF BeginExport, WriteOfficialRun, WriteSums, Pack, KillExport,
         TypeOK
  <2>4. QED
    BY <1>1, <2>1, <2>2, <2>3 DEF TypeOK, runDir, finalDir, process, derivation
<1>24. QED
  BY <1>2, <1>3, <1>4, <1>5, <1>6, <1>7, <1>8, <1>9, <1>10, <1>11, <1>12, <1>13, <1>14,
     <1>15, <1>16, <1>17, <1>18, <1>19, <1>20, <1>21, <1>23, Steps

LEMMA Invariant == Spec => []IInv
<1>1. IInv /\ [Next]_vars => IInv'
  BY TypeStep, CountedStep, AttemptingStep, InstallingStep, ReadingStep, SummingStep
     DEF IInv
<1>2. QED
  BY <1>1, Initial, PTL DEF Spec

\* Every variable keeps its type; the number of reports, which stands for the
\* contents that are told apart, is never more than that of the faults and one.
THEOREM TypeCorrect == Spec => []TypeOK
BY Invariant, PTL DEF IInv

-----------------------------------------------------------------------------
(* The promises. *)

\* The marker is the last write of a run: by then final/ holds every artifact
\* of the staged copy, whatever earlier attempts left there of another one.
THEOREM MarkerLast == Spec => MarkerIsLast
<1>1. IInv /\ [Next]_vars =>
        [marker' # marker =>
            /\ marker' = staged[Publication].payload
            /\ final' = marker']_vars
  BY MarkerStep
<1>2. QED
  BY <1>1, Invariant, PTL DEF Spec, MarkerIsLast

\* The checksums packed with a run are those of the packed files, unless
\* another export or attempt wrote in the run directory meanwhile.
THEOREM SumsOfTheArchive == Spec => SumsAreOfTheArchive
<1> DEFINE A == \A x \in Exporters :
                   \A packed \in archive'[x] \ archive[x] :
                      packed.sums = {packed.files} \/ disturbed[x]
<1>1. ASSUME IInv, [Next]_vars PROVE A
  <2>1. SUFFICES ASSUME NEW x \in Exporters, NEW packed \in archive'[x] \ archive[x]
                 PROVE  packed.sums = {packed.files} \/ disturbed[x]
    OBVIOUS
  <2>2. CASE UNCHANGED archive
    BY <2>2
  <2>3. CASE Pack(x)
    <3>1. xpc[x] = "packing" /\ packed = [files |-> RunFiles, sums |-> sums]
      BY <1>1, <2>3 DEF Pack, IInv, TypeOK
    <3>2. sums = {RunFiles} \/ disturbed[x]
      BY <1>1, <3>1 DEF IInv, Summing
    <3>3. QED
      BY <3>1, <3>2
  <2>4. ASSUME NEW y \in Exporters, Pack(y), y # x PROVE FALSE
    BY <1>1, <2>4 DEF Pack, IInv, TypeOK
  <2>5. QED
    BY <1>1, <2>2, <2>3, <2>4, GivenStep
<1>2. IInv /\ [Next]_vars => [A]_vars
  BY <1>1
<1>3. QED
  BY <1>2, Invariant, PTL DEF Spec, SumsAreOfTheArchive

-----------------------------------------------------------------------------
(* The refinement of PublishedRun. *)

\* What a reader was given is read off the file it was given in.
LEMMA GivenIs ==
    ASSUME Reading, NEW r \in Readers
    PROVE  /\ r = "api" => Given[r] = answered
           /\ r = "bundle" => Given[r] = IF derived = None THEN Empty ELSE marker
           /\ r \in Exporters => Given[r] = IF archive[r] = None THEN Empty ELSE marker
<1> USE Basics
<1>1. ASSUME r = "bundle"
      PROVE  Given[r] = IF derived = None THEN Empty ELSE marker
  <2>1. Given[r] = Only({bundle.of : bundle \in derived})
    BY <1>1 DEF Given
  <2>2. CASE derived = None
    BY <2>1, <2>2 DEF Only, None
  <2>3. CASE derived # None
    <3>1. {bundle.of : bundle \in derived} = {marker}
      <4>1. PICK d \in Derivers : derived = {[by |-> d, of |-> marker]}
        BY <2>3 DEF Reading
      <4>2. \A bundle \in derived : bundle.of = marker
        BY <4>1
      <4>3. QED
        BY <2>3, <4>2 DEF None
    <3>2. QED
      BY <2>1, <2>3, <3>1 DEF Only, None
  <2>4. QED
    BY <2>2, <2>3
<1>2. ASSUME r \in Exporters
      PROVE  Given[r] = IF archive[r] = None THEN Empty ELSE marker
  <2>1. Given[r] = Only({packed.files.final : packed \in archive[r]})
    BY <1>2 DEF Given
  <2>2. CASE archive[r] = None
    BY <2>1, <2>2 DEF Only, None
  <2>3. CASE archive[r] # None
    <3>1. {packed.files.final : packed \in archive[r]} = {marker}
      BY <1>2, <2>3 DEF Reading
    <3>2. QED
      BY <2>1, <2>3, <3>1 DEF Only, None
  <2>4. QED
    BY <2>2, <2>3
<1>3. ASSUME r = "api" PROVE Given[r] = answered
  BY <1>3 DEF Given
<1>4. QED
  BY <1>1, <1>2, <1>3

\* A step of the files is the publication of the run, the reading of what is
\* published by one reader, or nothing to either.
LEMMA RefinementStep ==
    ASSUME IInv, Reading', [Next]_vars
    PROVE  [Abstract!Next]_(Abstract!vars)
<1> USE Basics DEF IInv
<1>1. Given = [r \in Readers |-> Given[r]] /\ Given' = [r \in Readers |-> Given'[r]]
  BY DEF Given
<1>2. CASE marker' # marker
  <2>1. marker = Empty /\ marker' \in Published /\ WriteMarker
    BY <1>2, MarkerStep
  <2>2. UNCHANGED <<answered, derived, archive>>
    BY <2>1 DEF WriteMarker, derivation, export, rest
  <2>3. Given' = Given
    BY <2>2 DEF Given
  <2>4. QED
    BY <2>1, <2>3 DEF Abstract!Next, Abstract!Publish
<1>3. ASSUME marker' = marker, marker # Empty, NEW s \in Readers, Given'[s] = marker,
             \A r \in Readers : r # s => Given'[r] = Given[r]
      PROVE  Abstract!Read(s)
  BY <1>1, <1>3 DEF Abstract!Read
<1>4. CASE marker' = marker
  <2>1. CASE UNCHANGED <<answered, derived, archive>>
    BY <1>4, <2>1 DEF Abstract!vars, Given
  <2>2. CASE Download /\ UNCHANGED <<derived, archive>>
    <3>1. marker # Empty /\ answered' = marker
      BY <2>2 DEF Download, VerifyCommitted
    <3>2. "api" \in Readers /\ Given'["api"] = marker
      BY <3>1 DEF Given, Readers
    <3>3. \A r \in Readers : r # "api" => Given'[r] = Given[r]
      BY <2>2 DEF Given
    <3>4. QED
      BY <1>3, <1>4, <3>1, <3>2, <3>3 DEF Abstract!Next
  <2>3. ASSUME NEW d \in Derivers, PlaceDerived(d), UNCHANGED <<answered, archive>>,
               derived' # derived
        PROVE  Abstract!Next
    <3>1. marker # Empty
      BY <2>3 DEF PlaceDerived, Reading
    <3>2. "bundle" \in Readers /\ derived' # None
      BY <2>3 DEF PlaceDerived, Readers, None
    <3>3. Given'["bundle"] = marker
      <4>1. {bundle.of : bundle \in derived'} = {marker}
        <5>1. PICK e \in Derivers : derived' = {[by |-> e, of |-> marker]}
          BY <1>4, <3>2 DEF Reading
        <5>2. \A bundle \in derived' : bundle.of = marker
          BY <5>1
        <5>3. QED
          BY <3>2, <5>2 DEF None
      <4>2. QED
        BY <3>2, <4>1 DEF Given, Only, None
    <3>4. \A r \in Readers : r # "bundle" => Given'[r] = Given[r]
      BY <2>3 DEF Given
    <3>5. QED
      BY <1>3, <1>4, <3>1, <3>2, <3>3, <3>4 DEF Abstract!Next
  <2>4. ASSUME NEW x \in Exporters, Pack(x), UNCHANGED <<answered, derived>>
        PROVE  Abstract!Next
    <3>1. marker # Empty
      BY <2>4 DEF Pack, Reading, VerifyCommitted
    <3>2. /\ x \in Readers /\ x # "api" /\ x # "bundle"
          /\ archive'[x] # None /\ \A y \in Exporters : y # x => archive'[y] = archive[y]
      BY <2>4 DEF Pack, TypeOK, Readers, None
    <3>3. Given'[x] = marker
      <4>1. {packed.files.final : packed \in archive'[x]} = {marker}
        BY <1>4, <3>2 DEF Reading
      <4>2. QED
        BY <3>2, <4>1 DEF Given, Only, None
    <3>4. \A r \in Readers : r # x => Given'[r] = Given[r]
      BY <2>4, <3>2 DEF Given, Readers
    <3>5. QED
      BY <1>3, <1>4, <3>1, <3>2, <3>3, <3>4 DEF Abstract!Next
  <2>5. QED
    BY <2>1, <2>2, <2>3, <2>4, GivenStep
<1>5. QED
  BY <1>2, <1>4

\* The run directory implements PublishedRun: one published content, chosen
\* once, of which every download, archive and derivation is; and a derived
\* evaluation is never replaced.
THEOREM OnePublished == Spec => OnePublishedContent
<1>1. Init => Abstract!Init
  <2>1. SUFFICES ASSUME Init PROVE Abstract!Init
    OBVIOUS
  <2>2. Reading /\ answered = Empty /\ derived = None
        /\ \A x \in Exporters : archive[x] = None
    BY <2>1, Initial DEF IInv, Init
  <2>3. \A r \in Readers : Given[r] = Empty
    BY <2>2, GivenIs DEF Readers
  <2>4. Given = [r \in Readers |-> Given[r]]
    BY DEF Given
  <2>5. QED
    BY <2>1, <2>3, <2>4 DEF Init, Abstract!Init
<1>2. IInv /\ IInv' /\ [Next]_vars => [Abstract!Next]_(Abstract!vars)
  BY RefinementStep DEF IInv
<1>3. IInv /\ [Next]_vars => [derived # None => derived' = derived]_vars
  BY GivenStep DEF PlaceDerived
<1>4. QED
  BY <1>1, <1>2, <1>3, Invariant, PTL
     DEF Spec, OnePublishedContent, BundleStays, Abstract!Spec
=============================================================================
