------------------------ MODULE RunLifecycle_proofs ------------------------
(* What holds of RunLifecycle for every set of units and answers, any number *)
(* of attempts and any number of faults.                                     *)
EXTENDS RunLifecycle, TLAPS

\* The empty files are files.
LEMMA EmptyFiles ==
    /\ Missing \in Version
    /\ NoResults \in Results
    /\ NoReport \in Report
    /\ NoCheckpoint \in LifecycleCheckpoint
    /\ NoPayload \in Payload
    /\ NoFinalFiles \in FinalFiles
<1>1. Missing \in Version
  BY BoundsAssumption DEF Missing, Version
<1>2. NoResults \in Results
  BY <1>1 DEF NoResults, Results
<1>3. NoReport \in Report
  BY <1>2, BoundsAssumption DEF NoReport, Report
<1>4. NoCheckpoint \in LifecycleCheckpoint
  BY <1>2, BoundsAssumption DEF NoCheckpoint, LifecycleCheckpoint
<1>5. NoPayload \in Payload
  BY <1>2, <1>3 DEF NoPayload, Payload
<1>6. NoFinalFiles \in FinalFiles
  BY <1>2, <1>3, BoundsAssumption DEF NoFinalFiles, FinalFiles
<1>7. QED
  BY <1>1, <1>2, <1>3, <1>4, <1>5, <1>6

LEMMA TypeInit == Init => TypeOK
<1> SUFFICES ASSUME Init PROVE TypeOK
  OBVIOUS
<1>1. ProcessOK
  BY BoundsAssumption DEF Init, ProcessOK, PC
<1>2. cancel \in BOOLEAN
  BY DEF Init
<1>3. RecordsOK
  BY DEF Init, RecordsOK, RunState
<1>4. WorkOK
  BY EmptyFiles DEF Init, WorkOK
<1>5. PublishedOK
  BY EmptyFiles, BoundsAssumption DEF Init, PublishedOK
<1>6. QED
  BY <1>1, <1>2, <1>3, <1>4, <1>5 DEF TypeOK


\* The variables of the process keep their types.
LEMMA ProcessStep == TypeOK /\ Next => ProcessOK'
<1> SUFFICES ASSUME TypeOK, Next PROVE ProcessOK'
  OBVIOUS
<1> USE BoundsAssumption
    DEF TypeOK, ProcessOK, PC, Working, Phase, Phases, Attempts, Goto, Exit,
        Begin, Enter, process
<1>1. CASE \E m \in {"full", "predict"} : CreateRun(m)
  BY <1>1 DEF CreateRun
<1>2. CASE WriteManifest
  BY <1>2 DEF WriteManifest
<1>3. CASE Resume
  BY <1>3 DEF Resume
<1>4. CASE ResumeCompleted
  BY <1>4 DEF ResumeCompleted
<1>5. CASE Refuse
  BY <1>5 DEF Refuse
<1>6. CASE WriteAttempt
  BY <1>6 DEF WriteAttempt
<1>7. CASE PersistConfig
  BY <1>7 DEF PersistConfig
<1>8. CASE StartPredictions
  BY <1>8 DEF StartPredictions
<1>9. CASE \E u \in Units : RestartUnit(u)
  BY <1>9 DEF RestartUnit
<1>10. CASE \E u \in Units : OpenUnit(u)
  BY <1>10 DEF OpenUnit
<1>11. CASE \E u \in Units, answer \in Answers : WritePrediction(u, answer)
  BY <1>11 DEF WritePrediction
<1>12. CASE \E u \in Units : CommitUnit(u)
  BY <1>12 DEF CommitUnit
<1>13. CASE NextUnit
  BY <1>13 DEF NextUnit
<1>14. CASE SealPredictions
  BY <1>14 DEF SealPredictions
<1>15. CASE EndPredictions
  BY <1>15 DEF EndPredictions
<1>16. CASE FinishPartial
  BY <1>16 DEF FinishPartial
<1>17. CASE StartFinalize
  BY <1>17 DEF StartFinalize
<1>18. CASE StartJudging
  BY <1>18 DEF StartJudging
<1>19. CASE \E u \in Units : ReuseJudgment(u)
  BY <1>19 DEF ReuseJudgment
<1>20. CASE \E u \in Units : Judge(u)
  BY <1>20 DEF Judge
<1>21. CASE \E u \in Units : CommitJudgment(u)
  BY <1>21 DEF CommitJudgment
<1>22. CASE WriteEvaluations
  BY <1>22 DEF WriteEvaluations
<1>23. CASE CommitJudging
  BY <1>23 DEF CommitJudging
<1>24. CASE StartEvaluating
  BY <1>24 DEF StartEvaluating
<1>25. CASE WriteSummary
  BY <1>25 DEF WriteSummary
<1>26. CASE CommitEvaluating
  BY <1>26 DEF CommitEvaluating
<1>27. CASE StartReporting
  BY <1>27 DEF StartReporting
<1>28. CASE WriteReports
  BY <1>28 DEF WriteReports
<1>29. CASE CommitReporting
  BY <1>29 DEF CommitReporting
<1>30. CASE StartPublishing
  BY <1>30 DEF StartPublishing
<1>31. CASE Stage
  BY <1>31 DEF Stage
<1>32. CASE CommitPublishing
  BY <1>32 DEF CommitPublishing
<1>33. CASE StartVerifying
  BY <1>33 DEF StartVerifying
<1>34. CASE CommitVerifying
  BY <1>34 DEF CommitVerifying
<1>35. CASE CopyItems
  BY <1>35 DEF CopyItems
<1>36. CASE CopyResults
  BY <1>36 DEF CopyResults
<1>37. CASE WriteMarker
  BY <1>37 DEF WriteMarker
<1>38. CASE WriteCompleted
  BY <1>38 DEF WriteCompleted
<1>39. CASE FinishCompleted
  BY <1>39 DEF FinishCompleted
<1>40. CASE RequestCancel
  BY <1>40 DEF RequestCancel
<1>41. CASE Interrupt
  BY <1>41 DEF Interrupt, AtCancelCheck
<1>42. CASE WriteInterrupted
  BY <1>42 DEF WriteInterrupted
<1>43. CASE FinishInterrupted
  BY <1>43 DEF FinishInterrupted
<1>44. CASE InterruptUnhandled
  BY <1>44 DEF InterruptUnhandled
<1>45. CASE \E phase \in Phases : Fail(phase)
  BY <1>45 DEF Fail
<1>46. CASE \E phase \in Phases : WriteFailedCheckpoint(phase)
  BY <1>46 DEF WriteFailedCheckpoint
<1>47. CASE FinishFailed
  BY <1>47 DEF FinishFailed
<1>48. CASE FailUnhandled
  BY <1>48 DEF FailUnhandled
<1>49. CASE Crash
  BY <1>49 DEF Crash
<1>50. CASE Damage
  BY <1>50 DEF Damage
<1> HIDE DEF ProcessOK, Enter, Goto, Exit, process
<1>51. QED
  BY <1>1, <1>2, <1>3, <1>4, <1>5, <1>6, <1>7, <1>8, <1>9, <1>10, <1>11,
     <1>12, <1>13, <1>14, <1>15, <1>16, <1>17, <1>18, <1>19, <1>20, <1>21,
     <1>22, <1>23, <1>24, <1>25, <1>26, <1>27, <1>28, <1>29, <1>30, <1>31,
     <1>32, <1>33, <1>34, <1>35, <1>36, <1>37, <1>38, <1>39, <1>40, <1>41,
     <1>42, <1>43, <1>44, <1>45, <1>46, <1>47, <1>48, <1>49, <1>50
  DEF Phases, Next, Start, Advance, Predictions, Judging, Reporting,
      Publishing, Handlers, Faults

\* The states of the run and of its attempts are among those declared.
LEMMA RecordsStep == TypeOK /\ Next => RecordsOK'
<1> SUFFICES ASSUME TypeOK, Next PROVE RecordsOK'
  OBVIOUS
<1> USE DEF TypeOK, ProcessOK, RecordsOK, Attempts, RunState, WriteStatus,
            RecordAttempt, Enter, Chain, records
<1>1. CASE \E m \in {"full", "predict"} : CreateRun(m)
  BY <1>1 DEF CreateRun
<1>2. CASE WriteManifest
  BY <1>2 DEF WriteManifest
<1>3. CASE Resume
  BY <1>3 DEF Resume
<1>4. CASE ResumeCompleted
  BY <1>4 DEF ResumeCompleted
<1>5. CASE Refuse
  BY <1>5 DEF Refuse
<1>6. CASE WriteAttempt
  BY <1>6 DEF WriteAttempt
<1>7. CASE PersistConfig
  BY <1>7 DEF PersistConfig
<1>8. CASE StartPredictions
  BY <1>8 DEF StartPredictions
<1>9. CASE \E u \in Units : RestartUnit(u)
  BY <1>9 DEF RestartUnit
<1>10. CASE \E u \in Units : OpenUnit(u)
  BY <1>10 DEF OpenUnit
<1>11. CASE \E u \in Units, answer \in Answers : WritePrediction(u, answer)
  BY <1>11 DEF WritePrediction
<1>12. CASE \E u \in Units : CommitUnit(u)
  BY <1>12 DEF CommitUnit
<1>13. CASE NextUnit
  BY <1>13 DEF NextUnit
<1>14. CASE SealPredictions
  BY <1>14 DEF SealPredictions
<1>15. CASE EndPredictions
  BY <1>15 DEF EndPredictions
<1>16. CASE FinishPartial
  BY <1>16 DEF FinishPartial
<1>17. CASE StartFinalize
  BY <1>17 DEF StartFinalize
<1>18. CASE StartJudging
  BY <1>18 DEF StartJudging
<1>19. CASE \E u \in Units : ReuseJudgment(u)
  BY <1>19 DEF ReuseJudgment
<1>20. CASE \E u \in Units : Judge(u)
  BY <1>20 DEF Judge
<1>21. CASE \E u \in Units : CommitJudgment(u)
  BY <1>21 DEF CommitJudgment
<1>22. CASE WriteEvaluations
  BY <1>22 DEF WriteEvaluations
<1>23. CASE CommitJudging
  BY <1>23 DEF CommitJudging
<1>24. CASE StartEvaluating
  BY <1>24 DEF StartEvaluating
<1>25. CASE WriteSummary
  BY <1>25 DEF WriteSummary
<1>26. CASE CommitEvaluating
  BY <1>26 DEF CommitEvaluating
<1>27. CASE StartReporting
  BY <1>27 DEF StartReporting
<1>28. CASE WriteReports
  BY <1>28 DEF WriteReports
<1>29. CASE CommitReporting
  BY <1>29 DEF CommitReporting
<1>30. CASE StartPublishing
  BY <1>30 DEF StartPublishing
<1>31. CASE Stage
  BY <1>31 DEF Stage
<1>32. CASE CommitPublishing
  BY <1>32 DEF CommitPublishing
<1>33. CASE StartVerifying
  BY <1>33 DEF StartVerifying
<1>34. CASE CommitVerifying
  BY <1>34 DEF CommitVerifying
<1>35. CASE CopyItems
  BY <1>35 DEF CopyItems
<1>36. CASE CopyResults
  BY <1>36 DEF CopyResults
<1>37. CASE WriteMarker
  BY <1>37 DEF WriteMarker
<1>38. CASE WriteCompleted
  BY <1>38 DEF WriteCompleted
<1>39. CASE FinishCompleted
  BY <1>39 DEF FinishCompleted
<1>40. CASE RequestCancel
  BY <1>40 DEF RequestCancel
<1>41. CASE Interrupt
  BY <1>41 DEF Interrupt
<1>42. CASE WriteInterrupted
  BY <1>42 DEF WriteInterrupted
<1>43. CASE FinishInterrupted
  BY <1>43 DEF FinishInterrupted
<1>44. CASE InterruptUnhandled
  BY <1>44 DEF InterruptUnhandled
<1>45. CASE \E phase \in Phases : Fail(phase)
  BY <1>45 DEF Fail, FailedState, Phases
<1>46. CASE \E phase \in Phases : WriteFailedCheckpoint(phase)
  BY <1>46 DEF WriteFailedCheckpoint
<1>47. CASE FinishFailed
  BY <1>47 DEF FinishFailed
<1>48. CASE FailUnhandled
  BY <1>48 DEF FailUnhandled
<1>49. CASE Crash
  BY <1>49 DEF Crash
<1>50. CASE Damage
  BY <1>50 DEF Damage
<1> HIDE DEF RecordsOK, Enter, WriteStatus, RecordAttempt, records
<1>51. QED
  BY <1>1, <1>2, <1>3, <1>4, <1>5, <1>6, <1>7, <1>8, <1>9, <1>10, <1>11,
     <1>12, <1>13, <1>14, <1>15, <1>16, <1>17, <1>18, <1>19, <1>20, <1>21,
     <1>22, <1>23, <1>24, <1>25, <1>26, <1>27, <1>28, <1>29, <1>30, <1>31,
     <1>32, <1>33, <1>34, <1>35, <1>36, <1>37, <1>38, <1>39, <1>40, <1>41,
     <1>42, <1>43, <1>44, <1>45, <1>46, <1>47, <1>48, <1>49, <1>50
  DEF Phases, Next, Start, Advance, Predictions, Judging, Reporting,
      Publishing, Handlers, Faults

\* Only these actions write predictions, judgments or results.
LEMMA WorkWriters ==
    Next => \/ UNCHANGED <<unitFiles, judgeFiles, resultFiles>>
            \/ \E u \in Units :
                  \/ RestartUnit(u) \/ OpenUnit(u) \/ CommitUnit(u)
                  \/ Judge(u) \/ CommitJudgment(u)
                  \/ \E answer \in Answers : WritePrediction(u, answer)
            \/ WriteEvaluations \/ WriteSummary \/ WriteReports
            \/ Damage
  BY DEF Next, Start, Advance, Predictions, Judging, Reporting, Publishing,
         Handlers, Faults, files, Enter,
         CreateRun, WriteManifest, Resume, ResumeCompleted, Refuse,
         WriteAttempt, PersistConfig, StartPredictions, NextUnit,
         SealPredictions, EndPredictions, FinishPartial, StartFinalize,
         StartJudging, ReuseJudgment, CommitJudging, StartEvaluating,
         CommitEvaluating, StartReporting, CommitReporting, StartPublishing,
         Stage, CommitPublishing, StartVerifying, CommitVerifying,
         CopyItems, CopyResults, WriteMarker, WriteCompleted,
         FinishCompleted, RequestCancel, Interrupt, WriteInterrupted,
         FinishInterrupted, InterruptUnhandled, Fail, WriteFailedCheckpoint,
         FinishFailed, FailUnhandled, Crash

\* Only these actions write checkpoints or anything of the publication.
LEMMA PublicationWriters ==
    Next => \/ UNCHANGED <<checkpoint, published>>
            \/ SealPredictions \/ CommitJudging \/ CommitEvaluating
            \/ CommitReporting \/ CommitPublishing \/ CommitVerifying
            \/ \E phase \in Phases : WriteFailedCheckpoint(phase)
            \/ Stage \/ CopyItems \/ CopyResults \/ WriteMarker \/ Damage
  BY DEF Next, Start, Advance, Predictions, Judging, Reporting, Publishing,
         Handlers, Faults, files, Enter,
         CreateRun, WriteManifest, Resume, ResumeCompleted, Refuse,
         WriteAttempt, PersistConfig, StartPredictions, RestartUnit,
         OpenUnit, WritePrediction, CommitUnit, NextUnit, EndPredictions,
         FinishPartial, StartFinalize, StartJudging, ReuseJudgment, Judge,
         CommitJudgment, WriteEvaluations, StartEvaluating, WriteSummary,
         StartReporting, WriteReports, StartPublishing, StartVerifying,
         WriteCompleted, FinishCompleted, RequestCancel, Interrupt,
         WriteInterrupted, FinishInterrupted, InterruptUnhandled, Fail,
         FinishFailed, FailUnhandled, Crash

\* Replacing one unit's version, or one staged payload, gives such a file.
LEMMA ReplaceVersion ==
    ASSUME NEW r \in Results, NEW u, NEW v \in Version
    PROVE  [r EXCEPT ![u] = v] \in Results
  BY DEF Results

LEMMA WorkStep == TypeOK /\ Next => WorkOK'
<1> SUFFICES ASSUME TypeOK, Next PROVE WorkOK'
  OBVIOUS
<1> USE DEF WorkOK, unitFiles, judgeFiles, resultFiles
<1>1. CASE UNCHANGED <<unitFiles, judgeFiles, resultFiles>>
  BY <1>1 DEF TypeOK
<1>2. ASSUME NEW u \in Units, RestartUnit(u) PROVE WorkOK'
  BY <1>2, ReplaceVersion, EmptyFiles DEF TypeOK, RestartUnit
<1>3. ASSUME NEW u \in Units, OpenUnit(u) PROVE WorkOK'
  BY <1>3, ReplaceVersion, EmptyFiles DEF TypeOK, OpenUnit
<1>4. ASSUME NEW u \in Units, CommitUnit(u) PROVE WorkOK'
  <2>1. prediction[u] \in Version
    BY DEF TypeOK, Results
  <2>2. QED
    BY <1>4, <2>1, ReplaceVersion DEF TypeOK, CommitUnit
<1>5. ASSUME NEW u \in Units, NEW answer \in Answers, WritePrediction(u, answer)
      PROVE  WorkOK'
  <2>1. [answer |-> answer, by |-> attempt] \in Version
    BY DEF TypeOK, ProcessOK, Version
  <2>2. QED
    BY <1>5, <2>1, ReplaceVersion DEF TypeOK, WritePrediction
<1>6. ASSUME NEW u \in Units, Judge(u) PROVE WorkOK'
  <2>1. [answer |-> prediction[u].answer, by |-> attempt] \in Version
    BY DEF TypeOK, ProcessOK, Version, Results
  <2>2. QED
    BY <1>6, <2>1, ReplaceVersion DEF TypeOK, Judge
<1>7. ASSUME NEW u \in Units, CommitJudgment(u) PROVE WorkOK'
  <2>1. judgment[u] \in Version
    BY DEF TypeOK, Results
  <2>2. QED
    BY <1>7, <2>1, ReplaceVersion DEF TypeOK, CommitJudgment
<1>8. CASE WriteEvaluations
  BY <1>8 DEF TypeOK, WriteEvaluations
<1>9. CASE WriteSummary
  BY <1>9 DEF TypeOK, WriteSummary
<1>10. CASE WriteReports
  <2>1. [by |-> attempt, of |-> summary] \in Report
    BY DEF TypeOK, ProcessOK, Report
  <2>2. QED
    BY <1>10, <2>1 DEF TypeOK, WriteReports
<1>11. CASE Damage
  <2>1. ASSUME NEW u \in Units, DamageUnit(u), UNCHANGED resultFiles
        PROVE  WorkOK'
    <3>1. /\ [prediction EXCEPT ![u] = Missing] \in Results
          /\ [judgment EXCEPT ![u] = Missing] \in Results
      BY ReplaceVersion, EmptyFiles DEF TypeOK
    <3>2. QED
      BY <2>1, <3>1 DEF TypeOK, DamageUnit
  <2>2. ASSUME DamageResults, UNCHANGED <<unitFiles, judgeFiles>>
        PROVE  WorkOK'
    BY <2>2, EmptyFiles DEF TypeOK, DamageResults
  <2>3. QED
    BY <1>1, <1>11, <2>1, <2>2 DEF Damage
<1>12. QED
  BY WorkWriters, <1>1, <1>2, <1>3, <1>4, <1>5, <1>6, <1>7, <1>8, <1>9,
     <1>10, <1>11

\* Digests are attempt numbers, and a committed checkpoint is a checkpoint.
LEMMA CommitPhaseType ==
    ASSUME TypeOK, pc # "idle", NEW phase \in Phases,
           NEW predecessor \in 0 .. MaxAttempts, NEW refs \in Results,
           CommitPhase(phase, predecessor, refs)
    PROVE  checkpoint' \in [Phases -> LifecycleCheckpoint]
<1>1. [status |-> "COMMITTED", by |-> attempt, predecessor |-> predecessor,
       refs |-> refs] \in LifecycleCheckpoint
  BY DEF TypeOK, ProcessOK, LifecycleCheckpoint
<1>2. QED
  BY <1>1 DEF CommitPhase, TypeOK, PublishedOK

LEMMA DigestType ==
    ASSUME TypeOK, NEW phase \in Phases
    PROVE  checkpoint[phase].by \in 0 .. MaxAttempts
  BY DEF TypeOK, PublishedOK, LifecycleCheckpoint

LEMMA PublishedStep == TypeOK /\ Next => PublishedOK'
<1> SUFFICES ASSUME TypeOK, Next PROVE PublishedOK'
  OBVIOUS
<1> USE DEF PublishedOK, published
<1>a. 0 \in 0 .. MaxAttempts
  BY BoundsAssumption
<1>b. \A i \in 2 .. 5 : PredecessorDigest(i) \in 0 .. MaxAttempts
  BY DigestType DEF PredecessorDigest, Chain, Phases
<1>1. CASE UNCHANGED <<checkpoint, published>>
  BY <1>1 DEF TypeOK
<1>2. CASE SealPredictions
  <2>1. CASE UNCHANGED checkpoint
    BY <1>2, <2>1 DEF TypeOK, SealPredictions
  <2>2. CASE CommitPhase("RUNNING", 0, unitCheckpoint)
    <3>1. checkpoint' \in [Phases -> LifecycleCheckpoint]
      BY <1>2, <1>a, <2>2, CommitPhaseType
      DEF TypeOK, WorkOK, SealPredictions, Phases
    <3>2. QED
      BY <1>2, <3>1 DEF TypeOK, SealPredictions
  <2>3. QED
    BY <1>2, <2>1, <2>2 DEF SealPredictions
<1>3. CASE CommitJudging
  <2>1. checkpoint' \in [Phases -> LifecycleCheckpoint]
    BY <1>3, <1>a, CommitPhaseType DEF TypeOK, WorkOK, CommitJudging, Phases
  <2>2. QED
    BY <1>3, <2>1 DEF TypeOK, CommitJudging
<1>4. CASE CommitEvaluating
  <2>1. checkpoint' \in [Phases -> LifecycleCheckpoint]
    BY <1>4, <1>b, CommitPhaseType DEF TypeOK, WorkOK, CommitEvaluating, Phases
  <2>2. QED
    BY <1>4, <2>1 DEF TypeOK, CommitEvaluating
<1>5. CASE CommitReporting
  <2>1. report.of \in Results
    BY DEF TypeOK, WorkOK, Report
  <2>2. checkpoint' \in [Phases -> LifecycleCheckpoint]
    BY <1>5, <1>b, <2>1, CommitPhaseType DEF CommitReporting, Phases
  <2>3. QED
    BY <1>5, <2>2 DEF TypeOK, CommitReporting
<1>6. CASE CommitPublishing
  <2>1. checkpoint' \in [Phases -> LifecycleCheckpoint]
    BY <1>6, <1>b, EmptyFiles, CommitPhaseType DEF CommitPublishing, Phases
  <2>2. QED
    BY <1>6, <2>1 DEF TypeOK, CommitPublishing
<1>7. CASE CommitVerifying
  <2>1. CASE UNCHANGED checkpoint
    BY <1>7, <2>1 DEF TypeOK, CommitVerifying
  <2>2. CASE CommitPhase("VERIFYING", PredecessorDigest(5), NoResults)
    <3>1. checkpoint' \in [Phases -> LifecycleCheckpoint]
      BY <1>7, <1>b, <2>2, EmptyFiles, CommitPhaseType
      DEF CommitVerifying, Phases
    <3>2. QED
      BY <1>7, <3>1 DEF TypeOK, CommitVerifying
  <2>3. QED
    BY <1>7, <2>1, <2>2 DEF CommitVerifying
<1>8. ASSUME NEW phase \in Phases, WriteFailedCheckpoint(phase)
      PROVE  PublishedOK'
  <2>1. [NoCheckpoint EXCEPT !.status = "FAILED", !.by = attempt]
           \in LifecycleCheckpoint
    BY EmptyFiles DEF TypeOK, ProcessOK, LifecycleCheckpoint
  <2>2. QED
    BY <1>8, <2>1 DEF TypeOK, WriteFailedCheckpoint
<1>9. CASE Stage
  <2>1. Snapshot \in Payload
    BY DEF TypeOK, WorkOK, Snapshot, Payload
  <2>2. QED
    BY <1>9, <2>1 DEF TypeOK, Stage
<1>c. Publication \in 0 .. MaxAttempts
  BY DigestType DEF Publication, Phases
<1>10. CASE CopyItems
  <2>1. final' \in FinalFiles
    BY <1>10, <1>c DEF TypeOK, CopyItems, FinalFiles, Payload
  <2>2. QED
    BY <1>10, <2>1 DEF TypeOK, CopyItems
<1>11. CASE CopyResults
  <2>1. final' \in FinalFiles
    BY <1>11, <1>c DEF TypeOK, CopyResults, FinalFiles, Payload
  <2>2. QED
    BY <1>11, <2>1 DEF TypeOK, CopyResults
<1>12. CASE WriteMarker
  BY <1>12, <1>c DEF TypeOK, WriteMarker
<1>13. CASE Damage
  <2>1. ASSUME NEW p \in Attempts, DamageStaging(p),
               UNCHANGED <<checkpoint, final, marker>>
        PROVE  PublishedOK'
    <3>1. \/ staging' = [staging EXCEPT ![p].condition = "damaged"]
          \/ staging' = [staging EXCEPT ![p] = NoPayload]
      BY <2>1 DEF DamageStaging
    <3>2. staging' \in [0 .. MaxAttempts -> Payload]
      BY <3>1, EmptyFiles DEF TypeOK, Attempts, Payload
    <3>3. QED
      BY <2>1, <3>2 DEF TypeOK
  <2>2. QED
    BY <1>1, <1>13, <2>1 DEF Damage
<1>14. QED
  BY PublicationWriters, <1>1, <1>2, <1>3, <1>4, <1>5, <1>6, <1>7, <1>8,
     <1>9, <1>10, <1>11, <1>12, <1>13

\* A stop request is pending or it is not.
LEMMA CancelStep == TypeOK /\ Next => cancel' \in BOOLEAN
<1> SUFFICES ASSUME TypeOK, Next PROVE cancel' \in BOOLEAN
  OBVIOUS
<1>1. cancel' \in {cancel, TRUE, FALSE}
  BY DEF Next, Start, Advance, Predictions, Judging, Reporting, Publishing,
         Handlers, Faults, Goto, Exit, Begin, Enter, process,
         CreateRun, WriteManifest, Resume, ResumeCompleted, Refuse,
         WriteAttempt, PersistConfig, StartPredictions, RestartUnit, OpenUnit,
         WritePrediction, CommitUnit, NextUnit, SealPredictions,
         EndPredictions, FinishPartial, StartFinalize, StartJudging,
         ReuseJudgment, Judge, CommitJudgment, WriteEvaluations,
         CommitJudging, StartEvaluating, WriteSummary, CommitEvaluating,
         StartReporting, WriteReports, CommitReporting, StartPublishing,
         Stage, CommitPublishing, StartVerifying, CommitVerifying,
         CopyItems, CopyResults, WriteMarker, WriteCompleted,
         FinishCompleted, RequestCancel, Interrupt, WriteInterrupted,
         FinishInterrupted, InterruptUnhandled, Fail, WriteFailedCheckpoint,
         FinishFailed, FailUnhandled, Crash, Damage
<1>2. QED
  BY <1>1 DEF TypeOK

\* The type invariant: every variable keeps the values the code can give it.
THEOREM TypeCorrect == Spec => []TypeOK
<1>1. TypeOK /\ [Next]_vars => TypeOK'
  <2>1. TypeOK /\ Next => TypeOK'
    <3> SUFFICES ASSUME TypeOK, Next PROVE TypeOK'
      OBVIOUS
    <3>1. /\ ProcessOK' /\ cancel' \in BOOLEAN /\ RecordsOK'
          /\ WorkOK' /\ PublishedOK'
      BY ProcessStep, CancelStep, RecordsStep, WorkStep, PublishedStep
    <3>2. QED
      BY <3>1, Zenon DEF TypeOK
  <2>2. TypeOK /\ UNCHANGED vars => TypeOK'
    BY Zenon DEF TypeOK, ProcessOK, RecordsOK, WorkOK, PublishedOK, vars, process,
           records, files, unitFiles, judgeFiles, resultFiles, published
  <2>3. QED
    BY <2>1, <2>2
<1>2. QED
  BY TypeInit, <1>1, PTL DEF Spec

-----------------------------------------------------------------------------
(* What a completion marker means for the rest of the run.                 *)

\* The invariant behind the two theorems on the marker.  A COMMITTED phase has
\* a digest, so that the marker names a publication; a run is published only
\* after its config is on disk and its status VERIFYING; and once published no
\* process of it is anywhere but in the steps that close the run.
MarkerInv ==
    /\ \A phase \in Phases :
          checkpoint[phase].status = "COMMITTED" => checkpoint[phase].by # 0
    /\ pc \in Phase["PUBLISHING"] \cup Phase["VERIFYING"] => Publication # 0
    /\ pc \in (Working \ {"config"}) \cup {"finalize"} => created = "config"
    /\ pc \in {"verify", "commit", "copying", "copied", "marked"} =>
          status = "VERIFYING"
    /\ pc \in {"marked", "closing"} => marker # 0
    /\ status = "COMPLETED" => marker # 0
    /\ marker # 0 =>
          /\ created = "config"
          /\ pc \in {"idle", "marked", "closing", "failing", "failed"}
          /\ status \in {"VERIFYING", "COMPLETED", "FAILED_VERIFYING"}

LEMMA MarkerInit == Init => MarkerInv
  BY DEF Init, MarkerInv, NoCheckpoint, Phase, Working, Phases

LEMMA MarkerStep == TypeOK /\ MarkerInv /\ Next => MarkerInv'
<1> SUFFICES ASSUME TypeOK, MarkerInv, Next PROVE MarkerInv'
  OBVIOUS
<1> USE BoundsAssumption
    DEF TypeOK, ProcessOK, PublishedOK, MarkerInv, PC, Working, Phase, Phases,
        Attempts, Goto, Exit, Begin, Enter, Chain, Current,
        ValidPhaseCheckpoint, Publication, WriteStatus, RecordAttempt,
        process, records, files, published, unitFiles, judgeFiles,
        resultFiles
<1>1. CASE \E m \in {"full", "predict"} : CreateRun(m)
  BY <1>1 DEF CreateRun
<1>2. CASE WriteManifest
  BY <1>2 DEF WriteManifest
<1>3. CASE Resume
  BY <1>3 DEF Resume
<1>4. CASE ResumeCompleted
  BY <1>4 DEF ResumeCompleted
<1>5. CASE Refuse
  BY <1>5 DEF Refuse
<1>6. CASE WriteAttempt
  BY <1>6 DEF WriteAttempt
<1>7. CASE PersistConfig
  BY <1>7 DEF PersistConfig
<1>8. CASE StartPredictions
  BY <1>8 DEF StartPredictions
<1>9. CASE \E u \in Units : RestartUnit(u)
  BY <1>9 DEF RestartUnit
<1>10. CASE \E u \in Units : OpenUnit(u)
  BY <1>10 DEF OpenUnit
<1>11. CASE \E u \in Units, answer \in Answers : WritePrediction(u, answer)
  BY <1>11 DEF WritePrediction
<1>12. CASE \E u \in Units : CommitUnit(u)
  BY <1>12 DEF CommitUnit
<1>13. CASE NextUnit
  BY <1>13 DEF NextUnit
<1>14. CASE SealPredictions
  BY <1>14 DEF SealPredictions, CommitPhase
<1>15. CASE EndPredictions
  BY <1>15 DEF EndPredictions
<1>16. CASE FinishPartial
  BY <1>16 DEF FinishPartial
<1>17. CASE StartFinalize
  BY <1>17 DEF StartFinalize
<1>18. CASE StartJudging
  BY <1>18 DEF StartJudging
<1>19. CASE \E u \in Units : ReuseJudgment(u)
  BY <1>19 DEF ReuseJudgment
<1>20. CASE \E u \in Units : Judge(u)
  BY <1>20 DEF Judge
<1>21. CASE \E u \in Units : CommitJudgment(u)
  BY <1>21 DEF CommitJudgment
<1>22. CASE WriteEvaluations
  BY <1>22 DEF WriteEvaluations
<1>23. CASE CommitJudging
  BY <1>23 DEF CommitJudging, CommitPhase
<1>24. CASE StartEvaluating
  BY <1>24 DEF StartEvaluating
<1>25. CASE WriteSummary
  BY <1>25 DEF WriteSummary
<1>26. CASE CommitEvaluating
  BY <1>26 DEF CommitEvaluating, CommitPhase
<1>27. CASE StartReporting
  BY <1>27 DEF StartReporting
<1>28. CASE WriteReports
  BY <1>28 DEF WriteReports
<1>29. CASE CommitReporting
  BY <1>29 DEF CommitReporting, CommitPhase
<1>30. CASE StartPublishing
  BY <1>30 DEF StartPublishing
<1>31. CASE Stage
  BY <1>31 DEF Stage
<1>32. CASE CommitPublishing
  BY <1>32 DEF CommitPublishing, CommitPhase
<1>33. CASE StartVerifying
  BY <1>33 DEF StartVerifying
<1>34. CASE CommitVerifying
  BY <1>34 DEF CommitVerifying, CommitPhase
<1>35. CASE CopyItems
  BY <1>35 DEF CopyItems
<1>36. CASE CopyResults
  BY <1>36 DEF CopyResults
<1>37. CASE WriteMarker
  BY <1>37 DEF WriteMarker
<1>38. CASE WriteCompleted
  BY <1>38 DEF WriteCompleted
<1>39. CASE FinishCompleted
  BY <1>39 DEF FinishCompleted
<1>40. CASE RequestCancel
  BY <1>40 DEF RequestCancel
<1>41. CASE Interrupt
  BY <1>41 DEF Interrupt, AtCancelCheck
<1>42. CASE WriteInterrupted
  BY <1>42 DEF WriteInterrupted
<1>43. CASE FinishInterrupted
  BY <1>43 DEF FinishInterrupted
<1>44. CASE InterruptUnhandled
  BY <1>44 DEF InterruptUnhandled
<1>45. CASE \E phase \in Phases : Fail(phase)
  BY <1>45, SMTT(30) DEF Fail, FailedState
<1>46. CASE \E phase \in Phases : WriteFailedCheckpoint(phase)
  BY <1>46, SMTT(30) DEF WriteFailedCheckpoint
<1>47. CASE FinishFailed
  BY <1>47 DEF FinishFailed
<1>48. CASE FailUnhandled
  BY <1>48 DEF FailUnhandled
<1>49. CASE Crash
  BY <1>49 DEF Crash
<1>50. CASE Damage
  BY <1>50 DEF Damage
<1> HIDE DEF MarkerInv, Enter, Goto, Exit, process
<1>51. QED
  BY <1>1, <1>2, <1>3, <1>4, <1>5, <1>6, <1>7, <1>8, <1>9, <1>10, <1>11,
     <1>12, <1>13, <1>14, <1>15, <1>16, <1>17, <1>18, <1>19, <1>20, <1>21,
     <1>22, <1>23, <1>24, <1>25, <1>26, <1>27, <1>28, <1>29, <1>30, <1>31,
     <1>32, <1>33, <1>34, <1>35, <1>36, <1>37, <1>38, <1>39, <1>40, <1>41,
     <1>42, <1>43, <1>44, <1>45, <1>46, <1>47, <1>48, <1>49, <1>50
  DEF Phases, Next, Start, Advance, Predictions, Judging, Reporting,
      Publishing, Handlers, Faults

\* The two invariants hold together, in every reachable state.
LEMMA MarkerInvariant == Spec => [](TypeOK /\ MarkerInv)
<1>1. TypeOK /\ MarkerInv /\ [Next]_vars => MarkerInv'
  <2>1. TypeOK /\ MarkerInv /\ UNCHANGED vars => MarkerInv'
    BY DEF MarkerInv, Publication, vars, process, records, files, published
  <2>2. QED
    BY <2>1, MarkerStep
<1>2. QED
  BY TypeCorrect, MarkerInit, <1>1, PTL DEF Spec

\* run-status.json agrees with the completion marker, whatever was killed in between
\* COMPLETED is never written before the marker, and a published run never goes
\* back to the state of an unpublished one.
THEOREM StatusAgrees == Spec => []StatusAgreesWithMarker
<1>1. MarkerInv => StatusAgreesWithMarker
  BY DEF MarkerInv, StatusAgreesWithMarker
<1>2. QED
  BY MarkerInvariant, <1>1, PTL

\* Once the marker is written, no step of any later attempt changes final/ or
\* the marker.
THEOREM PublicationStays == Spec => PublicationKept
<1>1. TypeOK /\ MarkerInv /\ [Next]_vars =>
         (marker # 0 => UNCHANGED <<final, marker>>)
  <2> SUFFICES ASSUME TypeOK, MarkerInv, [Next]_vars, marker # 0
               PROVE  UNCHANGED <<final, marker>>
    OBVIOUS
  <2>1. pc \notin {"commit", "copying", "copied"}
    BY DEF MarkerInv
  <2>2. CASE Next
    BY <2>1, <2>2, PublicationWriters
    DEF published, SealPredictions, CommitJudging, CommitEvaluating,
        CommitReporting, CommitPublishing, CommitVerifying,
        WriteFailedCheckpoint, Stage, CopyItems, CopyResults, WriteMarker,
        Damage
  <2>3. CASE UNCHANGED vars
    BY <2>3 DEF vars, files, published
  <2>4. QED
    BY <2>2, <2>3
<1>2. QED
  BY MarkerInvariant, <1>1, PTL DEF Spec, PublicationKept

-----------------------------------------------------------------------------
(* What an attempt may rely on, and what it leaves alone. *)

\* Places from which a process has still to go through the units.
Predicting == {"create", "begin", "config", "ready", "unit", "opening",
               "predict", "predicted", "committed"}

\* Places behind the evaluation, the reports and the staging.
Evaluated == Phase["REPORTING"] \cup Phase["PUBLISHING"] \cup Phase["VERIFYING"]
Reported == Phase["PUBLISHING"] \cup Phase["VERIFYING"]
Judged == Phase["EVALUATING"] \cup Evaluated

\* A file without an answer is no file.
AnswersInv == \A u \in Units :
                prediction[u] # Missing => prediction[u].answer # NoAnswer

\* While it predicts, a process has exactly the invalid units before it, and
\* the one it works on has lost its checkpoint before it gets its prediction.
UnitsInv ==
    /\ created = "absent" => pc = "idle" /\ unitCheckpoint = NoResults
    /\ pc \in Predicting => \A u \in Units : u \in todo <=> ~ UnitValid(u)
    /\ pc \in {"opening", "predict", "predicted"} => open \subseteq todo
    /\ pc \in {"opening", "predict", "predicted"} =>
          \A u, v \in open : u = v
    /\ pc \in {"predict", "predicted"} =>
          \A u \in open : unitCheckpoint[u] = Missing
    /\ pc = "predicted" => \A u \in open : prediction[u] # Missing

\* Once sealed, the units stay valid and sealed to the end of the process.
SealedInv ==
    pc \in {"sealed", "partial", "finalize"} \cup Phase["JUDGING"] \cup Judged =>
        (\A u \in Units : UnitValid(u)) /\ ValidPhaseCheckpoint("RUNNING", 0)

\* While it judges, what a process has done is valid.
JudgmentsInv ==
    /\ pc \in {"judge", "judged"} =>
          \A u \in Units : u \notin todo => JudgmentValid(u)
    /\ pc = "judged" =>
          \A u \in open : /\ judgment[u] # Missing
                          /\ judgment[u].answer = prediction[u].answer
    /\ pc = "collected" =>
          (\A u \in Units : JudgmentValid(u)) /\ evaluations = judgment

\* Behind a phase its checkpoint is current.
PhasesInv ==
    /\ pc \in Judged => JudgingCurrent
    /\ pc \in Evaluated => Current(2)
    /\ pc = "reported" => report.by = attempt
    /\ pc \in Reported => Current(3)
    /\ pc = "staged" => staging[Publication].condition # "absent"
    /\ pc \in Phase["VERIFYING"] => Current(4)

WorkInv == AnswersInv /\ UnitsInv /\ SealedInv /\ JudgmentsInv /\ PhasesInv

\* An idle process is in no phase.
LEMMA IdlePlace == \A phase \in Phases : "idle" \notin Phase[phase]
<1>1. \A phase \in Phases : Phase[phase] \subseteq Working
  BY DEF Working
<1>2. "idle" \notin Working
  BY DEF Working, Phase, Phases
<1>3. QED
  BY <1>1, <1>2

\* A failure of a phase leaves the files as they are.
LEMMA FailPlace ==
    ASSUME \E phase \in Phases : Fail(phase)
    PROVE  pc # "idle" /\ pc' = "failing" /\ created' = created /\ UNCHANGED files
  BY IdlePlace DEF Fail, Goto, WriteStatus

\* The VERIFYING checkpoint replaces no other.
LEMMA VerifyingPlace ==
    ASSUME TypeOK, CommitVerifying
    PROVE  /\ pc = "verify" /\ pc' = "commit"
           /\ checkpoint'["RUNNING"] = checkpoint["RUNNING"]
           /\ UNCHANGED <<unitFiles, judgeFiles, resultFiles, published>>
<1>1. CASE checkpoint' = checkpoint
  BY <1>1 DEF CommitVerifying, Goto
<1>2. CASE CommitPhase("VERIFYING", PredecessorDigest(5), NoResults)
  <2>1. checkpoint'["RUNNING"] = checkpoint["RUNNING"]
    BY <1>2 DEF CommitPhase, TypeOK, PublishedOK, Phases
  <2>2. QED
    BY <2>1 DEF CommitVerifying, Goto
<1>3. QED
  BY <1>1, <1>2 DEF CommitVerifying

LEMMA WorkInit == Init => WorkInv
  BY DEF Init, WorkInv, AnswersInv, UnitsInv, SealedInv, JudgmentsInv, PhasesInv,
         Predicting, Judged, Evaluated, Reported, Phase, NoResults

\* One step per action: predictions are written with an answer.
LEMMA AnswersStep == TypeOK /\ WorkInv /\ Next => AnswersInv'
<1> SUFFICES ASSUME TypeOK, WorkInv, Next PROVE AnswersInv'
  OBVIOUS
<1> USE AnswersAssumption, BoundsAssumption
    DEF TypeOK, ProcessOK, WorkOK, PublishedOK, Results, Version, Attempts,
        Goto, Exit, Begin, Enter, WriteStatus, RecordAttempt, process, records,
        files, published, unitFiles, judgeFiles, resultFiles, Phase, Phases,
        Chain, WorkInv, AnswersInv
<1>1. CASE \E m \in {"full", "predict"} : CreateRun(m)
  BY <1>1 DEF CreateRun
<1>2. CASE WriteManifest
  BY <1>2 DEF WriteManifest
<1>3. CASE Resume
  BY <1>3 DEF Resume
<1>4. CASE ResumeCompleted
  BY <1>4 DEF ResumeCompleted
<1>5. CASE Refuse
  BY <1>5 DEF Refuse
<1>6. CASE WriteAttempt
  BY <1>6 DEF WriteAttempt
<1>7. CASE PersistConfig
  BY <1>7 DEF PersistConfig
<1>8. CASE StartPredictions
  BY <1>8 DEF StartPredictions
<1>9. CASE \E u \in Units : RestartUnit(u)
  BY <1>9 DEF RestartUnit
<1>10. CASE \E u \in Units : OpenUnit(u)
  BY <1>10 DEF OpenUnit
<1>11. CASE \E u \in Units, answer \in Answers : WritePrediction(u, answer)
  BY <1>11 DEF WritePrediction
<1>12. CASE \E u \in Units : CommitUnit(u)
  BY <1>12 DEF CommitUnit
<1>13. CASE NextUnit
  BY <1>13 DEF NextUnit
<1>14. CASE SealPredictions
  BY <1>14 DEF SealPredictions
<1>15. CASE EndPredictions
  BY <1>15 DEF EndPredictions
<1>16. CASE FinishPartial
  BY <1>16 DEF FinishPartial
<1>17. CASE StartFinalize
  BY <1>17 DEF StartFinalize
<1>18. CASE StartJudging
  BY <1>18 DEF StartJudging
<1>19. CASE \E u \in Units : ReuseJudgment(u)
  BY <1>19 DEF ReuseJudgment
<1>20. CASE \E u \in Units : Judge(u)
  BY <1>20 DEF Judge
<1>21. CASE \E u \in Units : CommitJudgment(u)
  BY <1>21 DEF CommitJudgment
<1>22. CASE WriteEvaluations
  BY <1>22 DEF WriteEvaluations
<1>23. CASE CommitJudging
  BY <1>23 DEF CommitJudging
<1>24. CASE StartEvaluating
  BY <1>24 DEF StartEvaluating
<1>25. CASE WriteSummary
  BY <1>25 DEF WriteSummary
<1>26. CASE CommitEvaluating
  BY <1>26 DEF CommitEvaluating
<1>27. CASE StartReporting
  BY <1>27 DEF StartReporting
<1>28. CASE WriteReports
  BY <1>28 DEF WriteReports
<1>29. CASE CommitReporting
  BY <1>29 DEF CommitReporting
<1>30. CASE StartPublishing
  BY <1>30 DEF StartPublishing
<1>31. CASE Stage
  BY <1>31 DEF Stage
<1>32. CASE CommitPublishing
  BY <1>32 DEF CommitPublishing
<1>33. CASE StartVerifying
  BY <1>33 DEF StartVerifying
<1>34. CASE CommitVerifying
  BY <1>34 DEF CommitVerifying
<1>35. CASE CopyItems
  BY <1>35 DEF CopyItems
<1>36. CASE CopyResults
  BY <1>36 DEF CopyResults
<1>37. CASE WriteMarker
  BY <1>37 DEF WriteMarker
<1>38. CASE WriteCompleted
  BY <1>38 DEF WriteCompleted
<1>39. CASE FinishCompleted
  BY <1>39 DEF FinishCompleted
<1>40. CASE RequestCancel
  BY <1>40 DEF RequestCancel
<1>41. CASE Interrupt
  BY <1>41 DEF Interrupt, AtCancelCheck
<1>42. CASE WriteInterrupted
  BY <1>42 DEF WriteInterrupted
<1>43. CASE FinishInterrupted
  BY <1>43 DEF FinishInterrupted
<1>44. CASE InterruptUnhandled
  BY <1>44 DEF InterruptUnhandled
<1>45. CASE \E phase \in Phases : Fail(phase)
  BY <1>45 DEF Fail, FailedState
<1>46. CASE \E phase \in Phases : WriteFailedCheckpoint(phase)
  BY <1>46 DEF WriteFailedCheckpoint
<1>47. CASE FinishFailed
  BY <1>47 DEF FinishFailed
<1>48. CASE FailUnhandled
  BY <1>48 DEF FailUnhandled
<1>49. CASE Crash
  BY <1>49 DEF Crash
<1>50. CASE Damage
  <2>1. \A u \in Units : prediction'[u] \in {prediction[u], Missing}
    BY <1>50 DEF Damage, DamageUnit
  <2>2. QED
    BY <2>1
<1> HIDE DEF AnswersInv, Enter, Goto, Exit, process
<1>51. QED
  BY <1>1, <1>2, <1>3, <1>4, <1>5, <1>6, <1>7, <1>8, <1>9, <1>10, <1>11,
     <1>12, <1>13, <1>14, <1>15, <1>16, <1>17, <1>18, <1>19, <1>20, <1>21,
     <1>22, <1>23, <1>24, <1>25, <1>26, <1>27, <1>28, <1>29, <1>30, <1>31,
     <1>32, <1>33, <1>34, <1>35, <1>36, <1>37, <1>38, <1>39, <1>40, <1>41,
     <1>42, <1>43, <1>44, <1>45, <1>46, <1>47, <1>48, <1>49, <1>50
  DEF Phases, Next, Start, Advance, Predictions, Judging, Reporting,
      Publishing, Handlers, Faults

\* One step per action for the units.
LEMMA UnitsStep == TypeOK /\ WorkInv /\ Next => UnitsInv'
<1> SUFFICES ASSUME TypeOK, WorkInv, Next PROVE UnitsInv'
  OBVIOUS
<1> USE AnswersAssumption, BoundsAssumption
    DEF TypeOK, ProcessOK, WorkOK, PublishedOK, Results, Version, Attempts,
        Goto, Exit, Begin, Enter, WriteStatus, RecordAttempt, process, records,
        files, published, unitFiles, judgeFiles, resultFiles, Phase, Phases,
        Chain, WorkInv, AnswersInv, UnitsInv,
        Predicting, UnitValid, NoResults, Missing
<1>1. CASE \E m \in {"full", "predict"} : CreateRun(m)
  BY <1>1 DEF CreateRun
<1>2. CASE WriteManifest
  BY <1>2 DEF WriteManifest
<1>3. CASE Resume
  BY <1>3 DEF Resume
<1>4. CASE ResumeCompleted
  BY <1>4 DEF ResumeCompleted
<1>5. CASE Refuse
  BY <1>5 DEF Refuse
<1>6. CASE WriteAttempt
  BY <1>6 DEF WriteAttempt
<1>7. CASE PersistConfig
  BY <1>7 DEF PersistConfig
<1>8. CASE StartPredictions
  BY <1>8 DEF StartPredictions
<1>9. CASE \E u \in Units : RestartUnit(u)
  BY <1>9 DEF RestartUnit
<1>10. CASE \E u \in Units : OpenUnit(u)
  BY <1>10 DEF OpenUnit
<1>11. CASE \E u \in Units, answer \in Answers : WritePrediction(u, answer)
  BY <1>11 DEF WritePrediction
<1>12. CASE \E u \in Units : CommitUnit(u)
  BY <1>12 DEF CommitUnit
<1>13. CASE NextUnit
  BY <1>13 DEF NextUnit
<1>14. CASE SealPredictions
  BY <1>14 DEF SealPredictions
<1>15. CASE EndPredictions
  BY <1>15 DEF EndPredictions
<1>16. CASE FinishPartial
  BY <1>16 DEF FinishPartial
<1>17. CASE StartFinalize
  BY <1>17 DEF StartFinalize
<1>18. CASE StartJudging
  BY <1>18 DEF StartJudging
<1>19. CASE \E u \in Units : ReuseJudgment(u)
  BY <1>19 DEF ReuseJudgment
<1>20. CASE \E u \in Units : Judge(u)
  BY <1>20 DEF Judge
<1>21. CASE \E u \in Units : CommitJudgment(u)
  BY <1>21 DEF CommitJudgment
<1>22. CASE WriteEvaluations
  BY <1>22 DEF WriteEvaluations
<1>23. CASE CommitJudging
  BY <1>23 DEF CommitJudging
<1>24. CASE StartEvaluating
  BY <1>24 DEF StartEvaluating
<1>25. CASE WriteSummary
  BY <1>25 DEF WriteSummary
<1>26. CASE CommitEvaluating
  BY <1>26 DEF CommitEvaluating
<1>27. CASE StartReporting
  BY <1>27 DEF StartReporting
<1>28. CASE WriteReports
  BY <1>28 DEF WriteReports
<1>29. CASE CommitReporting
  BY <1>29 DEF CommitReporting
<1>30. CASE StartPublishing
  BY <1>30 DEF StartPublishing
<1>31. CASE Stage
  BY <1>31 DEF Stage
<1>32. CASE CommitPublishing
  BY <1>32 DEF CommitPublishing
<1>33. CASE StartVerifying
  BY <1>33 DEF StartVerifying
<1>34. CASE CommitVerifying
  BY <1>34 DEF CommitVerifying
<1>35. CASE CopyItems
  BY <1>35 DEF CopyItems
<1>36. CASE CopyResults
  BY <1>36 DEF CopyResults
<1>37. CASE WriteMarker
  BY <1>37 DEF WriteMarker
<1>38. CASE WriteCompleted
  BY <1>38 DEF WriteCompleted
<1>39. CASE FinishCompleted
  BY <1>39 DEF FinishCompleted
<1>40. CASE RequestCancel
  BY <1>40 DEF RequestCancel
<1>41. CASE Interrupt
  BY <1>41 DEF Interrupt, AtCancelCheck
<1>42. CASE WriteInterrupted
  BY <1>42 DEF WriteInterrupted
<1>43. CASE FinishInterrupted
  BY <1>43 DEF FinishInterrupted
<1>44. CASE InterruptUnhandled
  BY <1>44 DEF InterruptUnhandled
<1>45. CASE \E phase \in Phases : Fail(phase)
  <2>1. /\ pc # "idle" /\ pc' = "failing" /\ created' = created
        /\ UNCHANGED files
    BY <1>45, FailPlace
  <2>2. QED
    BY <2>1
<1>46. CASE \E phase \in Phases : WriteFailedCheckpoint(phase)
  BY <1>46 DEF WriteFailedCheckpoint
<1>47. CASE FinishFailed
  BY <1>47 DEF FinishFailed
<1>48. CASE FailUnhandled
  BY <1>48 DEF FailUnhandled
<1>49. CASE Crash
  BY <1>49 DEF Crash
<1>50. CASE Damage
  <2>1. pc' = "idle" /\ created' = created /\ unitCheckpoint' = unitCheckpoint
    BY <1>50 DEF Damage, DamageUnit
  <2>2. QED
    BY <2>1
<1> HIDE DEF UnitsInv, Enter, Goto, Exit, process
<1>51. QED
  BY <1>1, <1>2, <1>3, <1>4, <1>5, <1>6, <1>7, <1>8, <1>9, <1>10, <1>11,
     <1>12, <1>13, <1>14, <1>15, <1>16, <1>17, <1>18, <1>19, <1>20, <1>21,
     <1>22, <1>23, <1>24, <1>25, <1>26, <1>27, <1>28, <1>29, <1>30, <1>31,
     <1>32, <1>33, <1>34, <1>35, <1>36, <1>37, <1>38, <1>39, <1>40, <1>41,
     <1>42, <1>43, <1>44, <1>45, <1>46, <1>47, <1>48, <1>49, <1>50
  DEF Phases, Next, Start, Advance, Predictions, Judging, Reporting,
      Publishing, Handlers, Faults

\* One step per action for the sealed units.
LEMMA SealedStep == TypeOK /\ WorkInv /\ Next => SealedInv'
<1> SUFFICES ASSUME TypeOK, WorkInv, Next PROVE SealedInv'
  OBVIOUS
<1> USE AnswersAssumption, BoundsAssumption
    DEF TypeOK, ProcessOK, WorkOK, PublishedOK, Results, Version, Attempts,
        Goto, Exit, Begin, Enter, WriteStatus, RecordAttempt, process, records,
        files, published, unitFiles, judgeFiles, resultFiles, Phase, Phases,
        Chain, WorkInv, UnitsInv, SealedInv,
        Predicting, Judged, Evaluated, Reported, UnitValid,
        ValidPhaseCheckpoint, ArtifactsValid, CommitPhase
<1>1. CASE \E m \in {"full", "predict"} : CreateRun(m)
  BY <1>1 DEF CreateRun
<1>2. CASE WriteManifest
  BY <1>2 DEF WriteManifest
<1>3. CASE Resume
  BY <1>3 DEF Resume
<1>4. CASE ResumeCompleted
  BY <1>4 DEF ResumeCompleted
<1>5. CASE Refuse
  BY <1>5 DEF Refuse
<1>6. CASE WriteAttempt
  BY <1>6 DEF WriteAttempt
<1>7. CASE PersistConfig
  BY <1>7 DEF PersistConfig
<1>8. CASE StartPredictions
  BY <1>8 DEF StartPredictions
<1>9. CASE \E u \in Units : RestartUnit(u)
  BY <1>9 DEF RestartUnit
<1>10. CASE \E u \in Units : OpenUnit(u)
  BY <1>10 DEF OpenUnit
<1>11. CASE \E u \in Units, answer \in Answers : WritePrediction(u, answer)
  BY <1>11 DEF WritePrediction
<1>12. CASE \E u \in Units : CommitUnit(u)
  BY <1>12 DEF CommitUnit
<1>13. CASE NextUnit
  BY <1>13 DEF NextUnit
<1>14. CASE SealPredictions
  BY <1>14 DEF SealPredictions
<1>15. CASE EndPredictions
  BY <1>15 DEF EndPredictions
<1>16. CASE FinishPartial
  BY <1>16 DEF FinishPartial
<1>17. CASE StartFinalize
  BY <1>17 DEF StartFinalize
<1>18. CASE StartJudging
  BY <1>18 DEF StartJudging
<1>19. CASE \E u \in Units : ReuseJudgment(u)
  BY <1>19 DEF ReuseJudgment
<1>20. CASE \E u \in Units : Judge(u)
  BY <1>20 DEF Judge
<1>21. CASE \E u \in Units : CommitJudgment(u)
  BY <1>21 DEF CommitJudgment
<1>22. CASE WriteEvaluations
  BY <1>22 DEF WriteEvaluations
<1>23. CASE CommitJudging
  BY <1>23 DEF CommitJudging
<1>24. CASE StartEvaluating
  BY <1>24 DEF StartEvaluating
<1>25. CASE WriteSummary
  BY <1>25 DEF WriteSummary
<1>26. CASE CommitEvaluating
  BY <1>26 DEF CommitEvaluating
<1>27. CASE StartReporting
  BY <1>27 DEF StartReporting
<1>28. CASE WriteReports
  BY <1>28 DEF WriteReports
<1>29. CASE CommitReporting
  BY <1>29 DEF CommitReporting
<1>30. CASE StartPublishing
  BY <1>30 DEF StartPublishing
<1>31. CASE Stage
  BY <1>31 DEF Stage
<1>32. CASE CommitPublishing
  BY <1>32 DEF CommitPublishing
<1>33. CASE StartVerifying
  BY <1>33 DEF StartVerifying
<1>34. CASE CommitVerifying
  <2>1. /\ pc = "verify" /\ pc' = "commit"
        /\ checkpoint'["RUNNING"] = checkpoint["RUNNING"]
        /\ UNCHANGED <<unitFiles, judgeFiles, resultFiles, published>>
    BY <1>34, VerifyingPlace
  <2>2. QED
    BY <2>1
<1>35. CASE CopyItems
  BY <1>35 DEF CopyItems
<1>36. CASE CopyResults
  BY <1>36 DEF CopyResults
<1>37. CASE WriteMarker
  BY <1>37 DEF WriteMarker
<1>38. CASE WriteCompleted
  BY <1>38 DEF WriteCompleted
<1>39. CASE FinishCompleted
  BY <1>39 DEF FinishCompleted
<1>40. CASE RequestCancel
  BY <1>40 DEF RequestCancel
<1>41. CASE Interrupt
  BY <1>41 DEF Interrupt, AtCancelCheck
<1>42. CASE WriteInterrupted
  BY <1>42 DEF WriteInterrupted
<1>43. CASE FinishInterrupted
  BY <1>43 DEF FinishInterrupted
<1>44. CASE InterruptUnhandled
  BY <1>44 DEF InterruptUnhandled
<1>45. CASE \E phase \in Phases : Fail(phase)
  BY <1>45 DEF Fail, FailedState
<1>46. CASE \E phase \in Phases : WriteFailedCheckpoint(phase)
  BY <1>46 DEF WriteFailedCheckpoint
<1>47. CASE FinishFailed
  BY <1>47 DEF FinishFailed
<1>48. CASE FailUnhandled
  BY <1>48 DEF FailUnhandled
<1>49. CASE Crash
  BY <1>49 DEF Crash
<1>50. CASE Damage
  BY <1>50 DEF Damage
<1> HIDE DEF SealedInv, Enter, Goto, Exit, process
<1>51. QED
  BY <1>1, <1>2, <1>3, <1>4, <1>5, <1>6, <1>7, <1>8, <1>9, <1>10, <1>11,
     <1>12, <1>13, <1>14, <1>15, <1>16, <1>17, <1>18, <1>19, <1>20, <1>21,
     <1>22, <1>23, <1>24, <1>25, <1>26, <1>27, <1>28, <1>29, <1>30, <1>31,
     <1>32, <1>33, <1>34, <1>35, <1>36, <1>37, <1>38, <1>39, <1>40, <1>41,
     <1>42, <1>43, <1>44, <1>45, <1>46, <1>47, <1>48, <1>49, <1>50
  DEF Phases, Next, Start, Advance, Predictions, Judging, Reporting,
      Publishing, Handlers, Faults

\* One step per action for the judgments.
LEMMA JudgmentsStep == TypeOK /\ WorkInv /\ Next => JudgmentsInv'
<1> SUFFICES ASSUME TypeOK, WorkInv, Next PROVE JudgmentsInv'
  OBVIOUS
<1> USE AnswersAssumption, BoundsAssumption
    DEF TypeOK, ProcessOK, WorkOK, PublishedOK, Results, Version, Attempts,
        Goto, Exit, Begin, Enter, WriteStatus, RecordAttempt, process, records,
        files, published, unitFiles, judgeFiles, resultFiles, Phase, Phases,
        Chain, WorkInv, SealedInv,
        JudgmentsInv, Judged, Evaluated, Reported, UnitValid, JudgmentValid,
        Missing
<1>1. CASE \E m \in {"full", "predict"} : CreateRun(m)
  BY <1>1 DEF CreateRun
<1>2. CASE WriteManifest
  BY <1>2 DEF WriteManifest
<1>3. CASE Resume
  BY <1>3 DEF Resume
<1>4. CASE ResumeCompleted
  BY <1>4 DEF ResumeCompleted
<1>5. CASE Refuse
  BY <1>5 DEF Refuse
<1>6. CASE WriteAttempt
  BY <1>6 DEF WriteAttempt
<1>7. CASE PersistConfig
  BY <1>7 DEF PersistConfig
<1>8. CASE StartPredictions
  BY <1>8 DEF StartPredictions
<1>9. CASE \E u \in Units : RestartUnit(u)
  BY <1>9 DEF RestartUnit
<1>10. CASE \E u \in Units : OpenUnit(u)
  BY <1>10 DEF OpenUnit
<1>11. CASE \E u \in Units, answer \in Answers : WritePrediction(u, answer)
  BY <1>11 DEF WritePrediction
<1>12. CASE \E u \in Units : CommitUnit(u)
  BY <1>12 DEF CommitUnit
<1>13. CASE NextUnit
  BY <1>13 DEF NextUnit
<1>14. CASE SealPredictions
  BY <1>14 DEF SealPredictions
<1>15. CASE EndPredictions
  BY <1>15 DEF EndPredictions
<1>16. CASE FinishPartial
  BY <1>16 DEF FinishPartial
<1>17. CASE StartFinalize
  BY <1>17 DEF StartFinalize
<1>18. CASE StartJudging
  BY <1>18 DEF StartJudging
<1>19. CASE \E u \in Units : ReuseJudgment(u)
  BY <1>19 DEF ReuseJudgment
<1>20. CASE \E u \in Units : Judge(u)
  BY <1>20 DEF Judge
<1>21. CASE \E u \in Units : CommitJudgment(u)
  BY <1>21 DEF CommitJudgment
<1>22. CASE WriteEvaluations
  BY <1>22 DEF WriteEvaluations
<1>23. CASE CommitJudging
  BY <1>23 DEF CommitJudging
<1>24. CASE StartEvaluating
  BY <1>24 DEF StartEvaluating
<1>25. CASE WriteSummary
  BY <1>25 DEF WriteSummary
<1>26. CASE CommitEvaluating
  BY <1>26 DEF CommitEvaluating
<1>27. CASE StartReporting
  BY <1>27 DEF StartReporting
<1>28. CASE WriteReports
  BY <1>28 DEF WriteReports
<1>29. CASE CommitReporting
  BY <1>29 DEF CommitReporting
<1>30. CASE StartPublishing
  BY <1>30 DEF StartPublishing
<1>31. CASE Stage
  BY <1>31 DEF Stage
<1>32. CASE CommitPublishing
  BY <1>32 DEF CommitPublishing
<1>33. CASE StartVerifying
  BY <1>33 DEF StartVerifying
<1>34. CASE CommitVerifying
  BY <1>34 DEF CommitVerifying
<1>35. CASE CopyItems
  BY <1>35 DEF CopyItems
<1>36. CASE CopyResults
  BY <1>36 DEF CopyResults
<1>37. CASE WriteMarker
  BY <1>37 DEF WriteMarker
<1>38. CASE WriteCompleted
  BY <1>38 DEF WriteCompleted
<1>39. CASE FinishCompleted
  BY <1>39 DEF FinishCompleted
<1>40. CASE RequestCancel
  BY <1>40 DEF RequestCancel
<1>41. CASE Interrupt
  BY <1>41 DEF Interrupt, AtCancelCheck
<1>42. CASE WriteInterrupted
  BY <1>42 DEF WriteInterrupted
<1>43. CASE FinishInterrupted
  BY <1>43 DEF FinishInterrupted
<1>44. CASE InterruptUnhandled
  BY <1>44 DEF InterruptUnhandled
<1>45. CASE \E phase \in Phases : Fail(phase)
  BY <1>45 DEF Fail, FailedState
<1>46. CASE \E phase \in Phases : WriteFailedCheckpoint(phase)
  BY <1>46 DEF WriteFailedCheckpoint
<1>47. CASE FinishFailed
  BY <1>47 DEF FinishFailed
<1>48. CASE FailUnhandled
  BY <1>48 DEF FailUnhandled
<1>49. CASE Crash
  BY <1>49 DEF Crash
<1>50. CASE Damage
  BY <1>50 DEF Damage
<1> HIDE DEF JudgmentsInv, Enter, Goto, Exit, process
<1>51. QED
  BY <1>1, <1>2, <1>3, <1>4, <1>5, <1>6, <1>7, <1>8, <1>9, <1>10, <1>11,
     <1>12, <1>13, <1>14, <1>15, <1>16, <1>17, <1>18, <1>19, <1>20, <1>21,
     <1>22, <1>23, <1>24, <1>25, <1>26, <1>27, <1>28, <1>29, <1>30, <1>31,
     <1>32, <1>33, <1>34, <1>35, <1>36, <1>37, <1>38, <1>39, <1>40, <1>41,
     <1>42, <1>43, <1>44, <1>45, <1>46, <1>47, <1>48, <1>49, <1>50
  DEF Phases, Next, Start, Advance, Predictions, Judging, Reporting,
      Publishing, Handlers, Faults

\* One step per action for the phases.
LEMMA PhasesStep == TypeOK /\ WorkInv /\ Next => PhasesInv'
<1> SUFFICES ASSUME TypeOK, WorkInv, Next PROVE PhasesInv'
  OBVIOUS
<1> USE AnswersAssumption, BoundsAssumption
    DEF TypeOK, ProcessOK, WorkOK, PublishedOK, Results, Version, Attempts,
        Goto, Exit, Begin, Enter, WriteStatus, RecordAttempt, process, records,
        files, published, unitFiles, judgeFiles, resultFiles, Phase, Phases,
        Chain, WorkInv, SealedInv, JudgmentsInv,
        PhasesInv, Judged, Evaluated, Reported, UnitValid, JudgmentValid,
        JudgingCurrent, Current, ValidPhaseCheckpoint, ArtifactsValid,
        PredecessorDigest, Publication, CommitPhase, Report, Snapshot
<1>1. CASE \E m \in {"full", "predict"} : CreateRun(m)
  BY <1>1 DEF CreateRun
<1>2. CASE WriteManifest
  BY <1>2 DEF WriteManifest
<1>3. CASE Resume
  BY <1>3 DEF Resume
<1>4. CASE ResumeCompleted
  BY <1>4 DEF ResumeCompleted
<1>5. CASE Refuse
  BY <1>5 DEF Refuse
<1>6. CASE WriteAttempt
  BY <1>6 DEF WriteAttempt
<1>7. CASE PersistConfig
  BY <1>7 DEF PersistConfig
<1>8. CASE StartPredictions
  BY <1>8 DEF StartPredictions
<1>9. CASE \E u \in Units : RestartUnit(u)
  BY <1>9 DEF RestartUnit
<1>10. CASE \E u \in Units : OpenUnit(u)
  BY <1>10 DEF OpenUnit
<1>11. CASE \E u \in Units, answer \in Answers : WritePrediction(u, answer)
  BY <1>11 DEF WritePrediction
<1>12. CASE \E u \in Units : CommitUnit(u)
  BY <1>12 DEF CommitUnit
<1>13. CASE NextUnit
  BY <1>13 DEF NextUnit
<1>14. CASE SealPredictions
  BY <1>14 DEF SealPredictions
<1>15. CASE EndPredictions
  BY <1>15 DEF EndPredictions
<1>16. CASE FinishPartial
  BY <1>16 DEF FinishPartial
<1>17. CASE StartFinalize
  BY <1>17 DEF StartFinalize
<1>18. CASE StartJudging
  BY <1>18 DEF StartJudging
<1>19. CASE \E u \in Units : ReuseJudgment(u)
  BY <1>19 DEF ReuseJudgment
<1>20. CASE \E u \in Units : Judge(u)
  BY <1>20 DEF Judge
<1>21. CASE \E u \in Units : CommitJudgment(u)
  BY <1>21 DEF CommitJudgment
<1>22. CASE WriteEvaluations
  BY <1>22 DEF WriteEvaluations
<1>23. CASE CommitJudging
  BY <1>23 DEF CommitJudging
<1>24. CASE StartEvaluating
  BY <1>24 DEF StartEvaluating
<1>25. CASE WriteSummary
  BY <1>25 DEF WriteSummary
<1>26. CASE CommitEvaluating
  BY <1>26 DEF CommitEvaluating
<1>27. CASE StartReporting
  BY <1>27 DEF StartReporting
<1>28. CASE WriteReports
  BY <1>28 DEF WriteReports
<1>29. CASE CommitReporting
  BY <1>29 DEF CommitReporting
<1>30. CASE StartPublishing
  BY <1>30 DEF StartPublishing
<1>31. CASE Stage
  BY <1>31 DEF Stage
<1>32. CASE CommitPublishing
  BY <1>32 DEF CommitPublishing
<1>33. CASE StartVerifying
  BY <1>33 DEF StartVerifying
<1>34. CASE CommitVerifying
  <2>1. /\ pc = "verify" /\ pc' = "commit"
        /\ checkpoint'["JUDGING"] = checkpoint["JUDGING"]
        /\ checkpoint'["EVALUATING"] = checkpoint["EVALUATING"]
        /\ checkpoint'["REPORTING"] = checkpoint["REPORTING"]
        /\ checkpoint'["PUBLISHING"] = checkpoint["PUBLISHING"]
        /\ UNCHANGED <<todo, open, unitFiles, judgeFiles, resultFiles, staging>>
    BY <1>34 DEF CommitVerifying
  <2>2. JudgingCurrent'
    BY <2>1
  <2>3. Current(2)'
    BY <2>1
  <2>4. Current(3)'
    BY <2>1
  <2>5. Current(4)'
    BY <2>1
  <2>6. QED
    BY <2>1, <2>2, <2>3, <2>4, <2>5
<1>35. CASE CopyItems
  BY <1>35 DEF CopyItems
<1>36. CASE CopyResults
  BY <1>36 DEF CopyResults
<1>37. CASE WriteMarker
  BY <1>37 DEF WriteMarker
<1>38. CASE WriteCompleted
  BY <1>38 DEF WriteCompleted
<1>39. CASE FinishCompleted
  BY <1>39 DEF FinishCompleted
<1>40. CASE RequestCancel
  BY <1>40 DEF RequestCancel
<1>41. CASE Interrupt
  BY <1>41 DEF Interrupt, AtCancelCheck
<1>42. CASE WriteInterrupted
  BY <1>42 DEF WriteInterrupted
<1>43. CASE FinishInterrupted
  BY <1>43 DEF FinishInterrupted
<1>44. CASE InterruptUnhandled
  BY <1>44 DEF InterruptUnhandled
<1>45. CASE \E phase \in Phases : Fail(phase)
  BY <1>45 DEF Fail, FailedState
<1>46. CASE \E phase \in Phases : WriteFailedCheckpoint(phase)
  BY <1>46 DEF WriteFailedCheckpoint
<1>47. CASE FinishFailed
  BY <1>47 DEF FinishFailed
<1>48. CASE FailUnhandled
  BY <1>48 DEF FailUnhandled
<1>49. CASE Crash
  BY <1>49 DEF Crash
<1>50. CASE Damage
  BY <1>50 DEF Damage
<1> HIDE DEF PhasesInv, Enter, Goto, Exit, process
<1>51. QED
  BY <1>1, <1>2, <1>3, <1>4, <1>5, <1>6, <1>7, <1>8, <1>9, <1>10, <1>11,
     <1>12, <1>13, <1>14, <1>15, <1>16, <1>17, <1>18, <1>19, <1>20, <1>21,
     <1>22, <1>23, <1>24, <1>25, <1>26, <1>27, <1>28, <1>29, <1>30, <1>31,
     <1>32, <1>33, <1>34, <1>35, <1>36, <1>37, <1>38, <1>39, <1>40, <1>41,
     <1>42, <1>43, <1>44, <1>45, <1>46, <1>47, <1>48, <1>49, <1>50
  DEF Phases, Next, Start, Advance, Predictions, Judging, Reporting,
      Publishing, Handlers, Faults

LEMMA WorkStutter == WorkInv /\ UNCHANGED vars => WorkInv'
  BY DEF WorkInv, AnswersInv, UnitsInv, SealedInv, JudgmentsInv, PhasesInv,
         Predicting, Judged, Evaluated, Reported, UnitValid, JudgmentValid,
         JudgingCurrent, Current, ValidPhaseCheckpoint, ArtifactsValid,
         PredecessorDigest, Publication, vars, process, records, files,
         unitFiles, judgeFiles, resultFiles, published

\* The invariants hold together, in every reachable state.
LEMMA WorkInvariant == Spec => [](TypeOK /\ WorkInv)
<1>1. TypeOK /\ WorkInv /\ [Next]_vars => WorkInv'
  BY AnswersStep, UnitsStep, SealedStep, JudgmentsStep, PhasesStep, WorkStutter
  DEF WorkInv
<1>2. QED
  BY TypeCorrect, WorkInit, <1>1, PTL DEF Spec

\* No terminal phase runs on the output of a stale one: while a process is in
\* a phase, every unit is valid and sealed and every earlier phase is current.
THEOREM PhasesCurrent == Spec => []PhasesBuildOnCurrentWork
<1>1. WorkInv => PhasesBuildOnCurrentWork
  <2> SUFFICES ASSUME WorkInv, NEW i \in 1 .. 5, pc \in Phase[Chain[i]]
               PROVE  /\ \A u \in Units : UnitValid(u)
                      /\ ValidPhaseCheckpoint("RUNNING", 0)
                      /\ i > 1 => JudgingCurrent
                      /\ \A j \in 2 .. (i - 1) : Current(j)
    BY DEF PhasesBuildOnCurrentWork
  <2>1. \/ i = 1 /\ pc \in Phase["JUDGING"]
        \/ i = 2 /\ pc \in Phase["EVALUATING"]
        \/ i = 3 /\ pc \in Phase["REPORTING"]
        \/ i = 4 /\ pc \in Phase["PUBLISHING"]
        \/ i = 5 /\ pc \in Phase["VERIFYING"]
    BY DEF Chain
  <2>2. (\A u \in Units : UnitValid(u)) /\ ValidPhaseCheckpoint("RUNNING", 0)
    BY <2>1 DEF WorkInv, SealedInv, Judged, Evaluated
  <2>3. i > 1 => JudgingCurrent
    BY <2>1 DEF WorkInv, PhasesInv, Judged, Evaluated
  <2>4. i > 2 => Current(2)
    BY <2>1 DEF WorkInv, PhasesInv, Evaluated
  <2>5. i > 3 => Current(3)
    BY <2>1 DEF WorkInv, PhasesInv, Reported
  <2>6. i > 4 => Current(4)
    BY <2>1 DEF WorkInv, PhasesInv
  <2>7. \A j \in 2 .. (i - 1) : j \in {2, 3, 4} /\ i > j
    <3>1. i \in Nat /\ i <= 5
      OBVIOUS
    <3>2. QED
      BY <3>1
  <2>8. QED
    BY <2>2, <2>3, <2>4, <2>5, <2>6, <2>7
<1>2. QED
  BY WorkInvariant, <1>1, PTL

\* Committed work is kept: no step of a running process touches a unit or a
\* judgment that is valid, whichever attempt committed it.
THEOREM WorkKept == Spec => CommittedWorkKept
<1>1. TypeOK /\ WorkInv /\ [Next]_vars => (pc # "idle" => KeepsCommittedWork)
  <2> SUFFICES ASSUME TypeOK, WorkInv, [Next]_vars, pc # "idle"
               PROVE  KeepsCommittedWork
    OBVIOUS
  <2> USE DEF TypeOK, WorkOK, Results, KeepsCommittedWork
  <2>1. CASE UNCHANGED <<unitFiles, judgeFiles>>
    BY <2>1 DEF unitFiles, judgeFiles
  <2>2. ASSUME NEW u \in Units, RestartUnit(u) PROVE KeepsCommittedWork
    BY <2>2 DEF RestartUnit, WorkInv, UnitsInv, Predicting, judgeFiles
  <2>3. ASSUME NEW u \in Units, OpenUnit(u) PROVE KeepsCommittedWork
    BY <2>3 DEF OpenUnit, WorkInv, UnitsInv, Predicting, judgeFiles
  <2>4. ASSUME NEW u \in Units, NEW answer \in Answers,
               WritePrediction(u, answer)
        PROVE  KeepsCommittedWork
    BY <2>4 DEF WritePrediction, WorkInv, UnitsInv, Predicting, judgeFiles
  <2>5. ASSUME NEW u \in Units, CommitUnit(u) PROVE KeepsCommittedWork
    BY <2>5 DEF CommitUnit, WorkInv, UnitsInv, Predicting, judgeFiles
  <2>6. ASSUME NEW u \in Units, Judge(u) PROVE KeepsCommittedWork
    BY <2>6 DEF Judge, unitFiles
  <2>7. ASSUME NEW u \in Units, CommitJudgment(u) PROVE KeepsCommittedWork
    BY <2>7 DEF CommitJudgment, unitFiles
  <2>8. CASE WriteEvaluations \/ WriteSummary \/ WriteReports
    BY <2>1, <2>8 DEF WriteEvaluations, WriteSummary, WriteReports
  <2>9. CASE UNCHANGED vars
    BY <2>1, <2>9 DEF vars, files
  <2>10. ~ Damage
    BY DEF Damage
  <2>11. QED
    BY WorkWriters, <2>1, <2>2, <2>3, <2>4, <2>5, <2>6, <2>7, <2>8, <2>9,
       <2>10
<1>2. QED
  BY WorkInvariant, <1>1, PTL DEF Spec, CommittedWorkKept

-----------------------------------------------------------------------------
(* What a completion marker vouches for. *)

\* Places before a process commits the evaluation, and the reports.
BeforeEvaluated == Predicting \cup {"sealed", "partial", "finalize"}
                     \cup Phase["JUDGING"] \cup Phase["EVALUATING"]
BeforeReported == BeforeEvaluated \cup Phase["REPORTING"]

\* Digests come from attempts that were; those of the current attempt are not
\* referenced before the phase that references them is committed.
DigestsInv ==
    /\ \A phase \in Phases : /\ checkpoint[phase].by <= attempt
                             /\ checkpoint[phase].predecessor <= attempt
    /\ pc \in BeforeEvaluated => checkpoint["EVALUATING"].predecessor < attempt
    /\ pc \in BeforeReported => checkpoint["REPORTING"].predecessor < attempt
    /\ pc \in BeforeReported => staging[attempt].condition = "absent"
    /\ \A a \in 0 .. MaxAttempts :
          a > attempt => staging[a].condition = "absent"

\* What a phase is about to commit was made from the files it read.
OutputsInv ==
    /\ pc = "evaluated" => summary = evaluations
    /\ pc = "reported" => report.of = summary

OfJudging == checkpoint["JUDGING"]
OfEvaluating == checkpoint["EVALUATING"]
OfReporting == checkpoint["REPORTING"]

EvaluationLinked ==
    /\ OfJudging.status = "COMMITTED" /\ OfEvaluating.status = "COMMITTED"
    /\ OfEvaluating.predecessor = OfJudging.by

ReportLinked ==
    /\ OfEvaluating.status = "COMMITTED" /\ OfReporting.status = "COMMITTED"
    /\ OfReporting.predecessor = OfEvaluating.by

\* A predecessor digest stands for the content the work was done from.
LinksInv ==
    /\ EvaluationLinked => OfEvaluating.refs = OfJudging.refs
    /\ ReportLinked => OfReporting.refs = OfEvaluating.refs

\* A staged publication holds the work the reports were made from.
StagedInv ==
    EvaluationLinked /\ ReportLinked
      /\ staging[OfReporting.by].condition # "absent" =>
        LET payload == staging[OfReporting.by] IN
        /\ payload.judgment = OfJudging.refs
        /\ payload.evaluations = OfJudging.refs
        /\ payload.summary = OfJudging.refs
        /\ payload.report = [by |-> OfReporting.by, of |-> OfReporting.refs]
        /\ \A u \in Units : 
              /\ payload.prediction[u] # Missing
              /\ payload.prediction[u].answer = OfJudging.refs[u].answer

PublishedInv == DigestsInv /\ OutputsInv /\ LinksInv /\ StagedInv
                  /\ PublishedConsistent

\* Damage to a staged publication leaves its content or nothing.
LEMMA DamagedStaging ==
    TypeOK /\ Damage =>
        \A a \in 0 .. MaxAttempts :
           \/ staging'[a] = staging[a]
           \/ staging'[a].condition = "absent"
           \/ /\ staging[a].condition # "absent"
              /\ staging'[a] = [staging[a] EXCEPT !.condition = "damaged"]
<1> SUFFICES ASSUME TypeOK, Damage, NEW a \in 0 .. MaxAttempts
             PROVE  \/ staging'[a] = staging[a]
                    \/ staging'[a].condition = "absent"
                    \/ /\ staging[a].condition # "absent"
                       /\ staging'[a] = [staging[a] EXCEPT !.condition = "damaged"]
  OBVIOUS
<1>1. CASE staging' = staging
  BY <1>1
<1>2. ASSUME NEW p \in Attempts, DamageStaging(p)
      PROVE  \/ staging'[a] = staging[a]
             \/ staging'[a].condition = "absent"
             \/ /\ staging[a].condition # "absent"
                /\ staging'[a] = [staging[a] EXCEPT !.condition = "damaged"]
  <2>1. \A v : [staging EXCEPT ![p] = v][a] = IF a = p THEN v ELSE staging[a]
    BY DEF TypeOK, PublishedOK
  <2>2. CASE staging' = [staging EXCEPT ![p].condition = "damaged"]
                /\ staging[p].condition = "intact"
    <3>1. staging' = [staging EXCEPT
                        ![p] = [staging[p] EXCEPT !.condition = "damaged"]]
      BY <2>2
    <3>2. QED
      BY <2>1, <2>2, <3>1
  <2>3. CASE staging' = [staging EXCEPT ![p] = NoPayload]
    BY <2>1, <2>3 DEF NoPayload
  <2>4. QED
    BY <1>2, <2>2, <2>3 DEF DamageStaging
<1>3. QED
  BY <1>1, <1>2 DEF Damage, published

LEMMA PublishedInit == Init => PublishedInv
<1> SUFFICES ASSUME Init PROVE PublishedInv
  OBVIOUS
<1> USE BoundsAssumption DEF Init, Phases
<1>1. DigestsInv
  BY DEF DigestsInv, BeforeEvaluated, BeforeReported, Predicting, Phase,
         NoCheckpoint, NoPayload
<1>2. OutputsInv /\ LinksInv /\ StagedInv /\ PublishedConsistent
  <2>1. checkpoint["EVALUATING"].status = "NONE" /\ marker = 0 /\ pc = "idle"
    BY DEF NoCheckpoint
  <2>2. QED
    BY <2>1 DEF OutputsInv, LinksInv, StagedInv, PublishedConsistent,
                EvaluationLinked, ReportLinked, OfEvaluating
<1>3. QED
  BY <1>1, <1>2 DEF PublishedInv

\* A new attempt finds digests of earlier attempts only.
LEMMA BeginDigests ==
    ASSUME TypeOK, DigestsInv, attempt < MaxAttempts, attempt' = attempt + 1,
           UNCHANGED <<checkpoint, staging>>
    PROVE  DigestsInv'
<1> USE BoundsAssumption
    DEF TypeOK, ProcessOK, PublishedOK, LifecycleCheckpoint, DigestsInv, Phases
<1>1. attempt \in Nat /\ MaxAttempts \in Nat
  OBVIOUS
<1>2. \A phase \in Phases : /\ checkpoint'[phase].by < attempt'
                           /\ checkpoint'[phase].predecessor < attempt'
  BY <1>1
<1>3. \A a \in 0 .. MaxAttempts :
         a >= attempt' => staging'[a].condition = "absent"
  BY <1>1
<1>4. attempt' \in 0 .. MaxAttempts
  BY <1>1
<1>5. QED
  BY <1>1, <1>2, <1>3, <1>4

\* One step per action: which digests a process may find, and what it has made.
LEMMA DigestsStep == TypeOK /\ PublishedInv /\ Next => DigestsInv' /\ OutputsInv'
<1> SUFFICES ASSUME TypeOK, PublishedInv, Next PROVE DigestsInv' /\ OutputsInv'
  OBVIOUS
<1> USE BoundsAssumption
    DEF TypeOK, ProcessOK, PublishedOK, LifecycleCheckpoint, Attempts,
        Goto, Exit, Begin, Enter, WriteStatus, RecordAttempt, process, records,
        files, published, unitFiles, judgeFiles, resultFiles, Phase, Phases,
        Chain, PredecessorDigest, Publication, NoCheckpoint, PublishedInv,
        DigestsInv, OutputsInv, Predicting, BeforeEvaluated, BeforeReported
<1>1. CASE \E m \in {"full", "predict"} : CreateRun(m)
  <2>1. /\ attempt < MaxAttempts /\ attempt' = attempt + 1 /\ pc' = "create"
        /\ UNCHANGED <<checkpoint, staging>>
    BY <1>1 DEF CreateRun
  <2>2. QED
    BY <2>1, BeginDigests
<1>2. CASE WriteManifest
  BY <1>2 DEF WriteManifest
<1>3. CASE Resume
  <2>1. /\ attempt < MaxAttempts /\ attempt' = attempt + 1 /\ pc' = "begin"
        /\ UNCHANGED <<checkpoint, staging>>
    BY <1>3 DEF Resume
  <2>2. QED
    BY <2>1, BeginDigests
<1>4. CASE ResumeCompleted
  BY <1>4 DEF ResumeCompleted
<1>5. CASE Refuse
  BY <1>5 DEF Refuse
<1>6. CASE WriteAttempt
  BY <1>6 DEF WriteAttempt
<1>7. CASE PersistConfig
  BY <1>7 DEF PersistConfig
<1>8. CASE StartPredictions
  BY <1>8 DEF StartPredictions
<1>9. CASE \E u \in Units : RestartUnit(u)
  BY <1>9 DEF RestartUnit
<1>10. CASE \E u \in Units : OpenUnit(u)
  BY <1>10 DEF OpenUnit
<1>11. CASE \E u \in Units, answer \in Answers : WritePrediction(u, answer)
  BY <1>11 DEF WritePrediction
<1>12. CASE \E u \in Units : CommitUnit(u)
  BY <1>12 DEF CommitUnit
<1>13. CASE NextUnit
  BY <1>13 DEF NextUnit
<1>14. CASE SealPredictions
  BY <1>14, SMTT(30) DEF SealPredictions, CommitPhase
<1>15. CASE EndPredictions
  BY <1>15 DEF EndPredictions
<1>16. CASE FinishPartial
  BY <1>16 DEF FinishPartial
<1>17. CASE StartFinalize
  BY <1>17 DEF StartFinalize
<1>18. CASE StartJudging
  BY <1>18 DEF StartJudging
<1>19. CASE \E u \in Units : ReuseJudgment(u)
  BY <1>19 DEF ReuseJudgment
<1>20. CASE \E u \in Units : Judge(u)
  BY <1>20 DEF Judge
<1>21. CASE \E u \in Units : CommitJudgment(u)
  BY <1>21 DEF CommitJudgment
<1>22. CASE WriteEvaluations
  BY <1>22 DEF WriteEvaluations
<1>23. CASE CommitJudging
  BY <1>23 DEF CommitJudging, CommitPhase
<1>24. CASE StartEvaluating
  BY <1>24 DEF StartEvaluating
<1>25. CASE WriteSummary
  BY <1>25 DEF WriteSummary
<1>26. CASE CommitEvaluating
  BY <1>26 DEF CommitEvaluating, CommitPhase
<1>27. CASE StartReporting
  BY <1>27 DEF StartReporting
<1>28. CASE WriteReports
  BY <1>28 DEF WriteReports
<1>29. CASE CommitReporting
  BY <1>29 DEF CommitReporting, CommitPhase
<1>30. CASE StartPublishing
  BY <1>30 DEF StartPublishing
<1>31. CASE Stage
  BY <1>31 DEF Stage
<1>32. CASE CommitPublishing
  BY <1>32 DEF CommitPublishing, CommitPhase
<1>33. CASE StartVerifying
  BY <1>33 DEF StartVerifying
<1>34. CASE CommitVerifying
  <2>1. /\ checkpoint'["VERIFYING"].by <= attempt
        /\ checkpoint'["VERIFYING"].predecessor <= attempt
        /\ \A phase \in Phases \ {"VERIFYING"} :
              checkpoint'[phase] = checkpoint[phase]
    <3>1. \/ checkpoint' = checkpoint
          \/ CommitPhase("VERIFYING", PredecessorDigest(5), NoResults)
      BY <1>34 DEF CommitVerifying
    <3>2. CASE checkpoint' = checkpoint
      BY <3>2
    <3>3. CASE CommitPhase("VERIFYING", PredecessorDigest(5), NoResults)
      BY <3>3 DEF CommitPhase
    <3>4. QED
      BY ONLY <3>1, <3>2, <3>3
  <2>2. pc' = "commit" /\ attempt' = attempt /\ staging' = staging
    BY <1>34 DEF CommitVerifying
  <2>3. QED
    BY <2>1, <2>2
<1>35. CASE CopyItems
  BY <1>35 DEF CopyItems
<1>36. CASE CopyResults
  BY <1>36 DEF CopyResults
<1>37. CASE WriteMarker
  BY <1>37 DEF WriteMarker
<1>38. CASE WriteCompleted
  BY <1>38 DEF WriteCompleted
<1>39. CASE FinishCompleted
  BY <1>39 DEF FinishCompleted
<1>40. CASE RequestCancel
  BY <1>40 DEF RequestCancel
<1>41. CASE Interrupt
  BY <1>41 DEF Interrupt, AtCancelCheck
<1>42. CASE WriteInterrupted
  BY <1>42 DEF WriteInterrupted
<1>43. CASE FinishInterrupted
  BY <1>43 DEF FinishInterrupted
<1>44. CASE InterruptUnhandled
  BY <1>44 DEF InterruptUnhandled
<1>45. CASE \E phase \in Phases : Fail(phase)
  BY <1>45 DEF Fail, FailedState
<1>46. CASE \E phase \in Phases : WriteFailedCheckpoint(phase)
  BY <1>46 DEF WriteFailedCheckpoint
<1>47. CASE FinishFailed
  BY <1>47 DEF FinishFailed
<1>48. CASE FailUnhandled
  BY <1>48 DEF FailUnhandled
<1>49. CASE Crash
  BY <1>49 DEF Crash
<1>50. CASE Damage
  <2>1. pc' = "idle" /\ attempt' = attempt /\ checkpoint' = checkpoint
    BY <1>50 DEF Damage
  <2>2. \A a \in 0 .. MaxAttempts : staging[a].condition = "absent"
                                   => staging'[a].condition = "absent"
    BY <1>50, DamagedStaging
  <2>3. QED
    BY <2>1, <2>2
<1> HIDE DEF DigestsInv, OutputsInv, Enter, Goto, Exit, process
<1>51. QED
  BY <1>1, <1>2, <1>3, <1>4, <1>5, <1>6, <1>7, <1>8, <1>9, <1>10, <1>11,
     <1>12, <1>13, <1>14, <1>15, <1>16, <1>17, <1>18, <1>19, <1>20, <1>21,
     <1>22, <1>23, <1>24, <1>25, <1>26, <1>27, <1>28, <1>29, <1>30, <1>31,
     <1>32, <1>33, <1>34, <1>35, <1>36, <1>37, <1>38, <1>39, <1>40, <1>41,
     <1>42, <1>43, <1>44, <1>45, <1>46, <1>47, <1>48, <1>49, <1>50
  DEF Phases, Next, Start, Advance, Predictions, Judging, Reporting,
      Publishing, Handlers, Faults

\* The fields of a function of checkpoints after one of them is replaced.
LEMMA ReplaceCheckpoint ==
    ASSUME TypeOK, NEW phase \in Phases, NEW c
    PROVE  \A q \in Phases : [checkpoint EXCEPT ![phase] = c][q]
                              = IF q = phase THEN c ELSE checkpoint[q]
  BY DEF TypeOK, PublishedOK

\* What a process behind a phase knows of the files of that phase.
LEMMA CurrentWork ==
    ASSUME WorkInv
    PROVE  /\ pc \in Judged =>
                /\ OfJudging.status = "COMMITTED"
                /\ evaluations = OfJudging.refs
                /\ judgment = OfJudging.refs
                /\ judgmentCheckpoint = OfJudging.refs
                /\ \A u \in Units :
                      OfJudging.refs[u].answer = prediction[u].answer
           /\ pc \in Evaluated => EvaluationLinked /\ summary = OfEvaluating.refs
           /\ pc \in Reported =>
                /\ ReportLinked
                /\ report = [by |-> OfReporting.by, of |-> OfReporting.refs]
<1> USE DEF WorkInv, PhasesInv, Current, ValidPhaseCheckpoint, ArtifactsValid,
            PredecessorDigest, Chain, OfJudging, OfEvaluating, OfReporting
<1>1. ASSUME pc \in Judged
      PROVE  /\ OfJudging.status = "COMMITTED"
             /\ evaluations = OfJudging.refs
             /\ judgment = OfJudging.refs
             /\ judgmentCheckpoint = OfJudging.refs
             /\ \A u \in Units :
                   OfJudging.refs[u].answer = prediction[u].answer
  BY <1>1 DEF JudgingCurrent
<1>2. ASSUME pc \in Evaluated
      PROVE  EvaluationLinked /\ summary = OfEvaluating.refs
  <2>1. pc \in Judged
    BY <1>2 DEF Judged
  <2>2. Current(2)
    BY <1>2
  <2>3. QED
    BY <1>1, <2>1, <2>2 DEF EvaluationLinked
<1>3. ASSUME pc \in Reported
      PROVE  /\ ReportLinked
             /\ report = [by |-> OfReporting.by, of |-> OfReporting.refs]
  <2>1. pc \in Evaluated
    BY <1>3 DEF Reported, Evaluated
  <2>2. Current(3)
    BY <1>3
  <2>3. QED
    BY <1>2, <2>1, <2>2 DEF ReportLinked, EvaluationLinked
<1>4. QED
  BY <1>1, <1>2, <1>3

\* A link is only made to the content it is made from, and what is redone
\* upstream gets a digest that nothing downstream refers to.
LEMMA LinksStep == TypeOK /\ WorkInv /\ PublishedInv /\ Next => LinksInv'
<1> SUFFICES ASSUME TypeOK, WorkInv, PublishedInv, Next PROVE LinksInv'
  OBVIOUS
<1> USE DEF PublishedInv, LinksInv, EvaluationLinked, ReportLinked, OfJudging,
            OfEvaluating, OfReporting
<1>1. ASSUME checkpoint'["JUDGING"] = checkpoint["JUDGING"],
             checkpoint'["EVALUATING"] = checkpoint["EVALUATING"],
             checkpoint'["REPORTING"] = checkpoint["REPORTING"]
      PROVE  LinksInv'
  BY <1>1
<1>2. CASE SealPredictions \/ CommitPublishing \/ CommitVerifying
  BY <1>1, <1>2, ReplaceCheckpoint
  DEF SealPredictions, CommitPublishing, CommitVerifying, CommitPhase, Phases
<1>3. CASE CommitJudging
  <2>1. pc = "collected" /\ CommitPhase("JUDGING", 0, judgment)
    BY <1>3 DEF CommitJudging
  <2>2. /\ checkpoint'["JUDGING"].by = attempt
        /\ checkpoint'["EVALUATING"] = checkpoint["EVALUATING"]
        /\ checkpoint'["REPORTING"] = checkpoint["REPORTING"]
    BY <2>1, ReplaceCheckpoint DEF CommitPhase, Phases
  <2>3. checkpoint["EVALUATING"].predecessor # attempt
    BY <2>1 DEF DigestsInv, BeforeEvaluated, Phase, TypeOK, PublishedOK,
                LifecycleCheckpoint, ProcessOK
  <2>4. QED
    BY <2>2, <2>3
<1>4. CASE CommitEvaluating
  <2>1. pc = "evaluated"
        /\ CommitPhase("EVALUATING", PredecessorDigest(2), summary)
    BY <1>4 DEF CommitEvaluating
  <2>2. /\ checkpoint'["JUDGING"] = checkpoint["JUDGING"]
        /\ checkpoint'["EVALUATING"].by = attempt
        /\ checkpoint'["EVALUATING"].refs = summary
        /\ checkpoint'["REPORTING"] = checkpoint["REPORTING"]
    BY <2>1, ReplaceCheckpoint DEF CommitPhase, Phases
  <2>3. checkpoint["REPORTING"].predecessor # attempt
    BY <2>1 DEF DigestsInv, BeforeReported, BeforeEvaluated, Phase, TypeOK,
                PublishedOK, LifecycleCheckpoint, ProcessOK
  <2>4. summary = checkpoint["JUDGING"].refs
    BY <2>1, CurrentWork DEF OutputsInv, Judged, Phase
  <2>5. QED
    BY <2>2, <2>3, <2>4
<1>5. CASE CommitReporting
  <2>1. pc = "reported"
        /\ CommitPhase("REPORTING", PredecessorDigest(3), report.of)
    BY <1>5 DEF CommitReporting
  <2>2. /\ checkpoint'["JUDGING"] = checkpoint["JUDGING"]
        /\ checkpoint'["EVALUATING"] = checkpoint["EVALUATING"]
        /\ checkpoint'["REPORTING"].refs = report.of
    BY <2>1, ReplaceCheckpoint DEF CommitPhase, Phases
  <2>3. report.of = checkpoint["EVALUATING"].refs
    BY <2>1, CurrentWork DEF OutputsInv, Evaluated, Phase
  <2>4. QED
    BY <2>2, <2>3
<1>6. ASSUME NEW phase \in Phases, WriteFailedCheckpoint(phase)
      PROVE  LinksInv'
  <2>1. /\ checkpoint'[phase].status = "FAILED"
        /\ \A q \in Phases \ {phase} : checkpoint'[q] = checkpoint[q]
    BY <1>6, ReplaceCheckpoint DEF WriteFailedCheckpoint, NoCheckpoint
  <2>2. QED
    BY <2>1 DEF Phases
<1>7. CASE UNCHANGED checkpoint
  BY <1>1, <1>7
<1>8. QED
  BY <1>2, <1>3, <1>4, <1>5, <1>6, <1>7, PublicationWriters
  DEF Stage, CopyItems, CopyResults, WriteMarker, Damage

\* A publication is staged from work that is linked from end to end, and no
\* reports committed later take over the digest it is staged under.
LEMMA StagedStep ==
    TypeOK /\ WorkInv /\ PublishedInv /\ Next => StagedInv'
<1> SUFFICES ASSUME TypeOK, WorkInv, PublishedInv, Next PROVE StagedInv'
  OBVIOUS
<1> USE DEF PublishedInv, StagedInv, EvaluationLinked, ReportLinked, OfJudging,
            OfEvaluating, OfReporting
<1>1. ASSUME checkpoint'["JUDGING"] = checkpoint["JUDGING"],
             checkpoint'["EVALUATING"] = checkpoint["EVALUATING"],
             checkpoint'["REPORTING"] = checkpoint["REPORTING"],
             staging' = staging
      PROVE  StagedInv'
  BY <1>1
<1>2. CASE SealPredictions \/ CommitPublishing \/ CommitVerifying
  BY <1>1, <1>2, ReplaceCheckpoint
  DEF SealPredictions, CommitPublishing, CommitVerifying, CommitPhase, Phases,
      published
<1>3. CASE CommitJudging
  <2>1. pc = "collected" /\ CommitPhase("JUDGING", 0, judgment)
    BY <1>3 DEF CommitJudging
  <2>2. /\ checkpoint'["JUDGING"].by = attempt
        /\ checkpoint'["EVALUATING"] = checkpoint["EVALUATING"]
    BY <2>1, ReplaceCheckpoint DEF CommitPhase, Phases
  <2>3. checkpoint["EVALUATING"].predecessor # attempt
    BY <2>1 DEF DigestsInv, BeforeEvaluated, Phase, TypeOK, PublishedOK,
                LifecycleCheckpoint, ProcessOK
  <2>4. QED
    BY <2>2, <2>3
<1>4. CASE CommitEvaluating
  <2>1. pc = "evaluated"
        /\ CommitPhase("EVALUATING", PredecessorDigest(2), summary)
    BY <1>4 DEF CommitEvaluating
  <2>2. /\ checkpoint'["EVALUATING"].by = attempt
        /\ checkpoint'["REPORTING"] = checkpoint["REPORTING"]
    BY <2>1, ReplaceCheckpoint DEF CommitPhase, Phases
  <2>3. checkpoint["REPORTING"].predecessor # attempt
    BY <2>1 DEF DigestsInv, BeforeReported, BeforeEvaluated, Phase, TypeOK,
                PublishedOK, LifecycleCheckpoint, ProcessOK
  <2>4. QED
    BY <2>2, <2>3
<1>5. CASE CommitReporting
  <2>1. pc = "reported" /\ staging' = staging
        /\ CommitPhase("REPORTING", PredecessorDigest(3), report.of)
    BY <1>5 DEF CommitReporting, published
  <2>2. checkpoint'["REPORTING"].by = attempt
    BY <2>1, ReplaceCheckpoint DEF CommitPhase, Phases
  <2>3. staging[attempt].condition = "absent"
    BY <2>1 DEF DigestsInv, BeforeReported, Phase
  <2>4. QED
    BY <2>1, <2>2, <2>3
<1>6. ASSUME NEW phase \in Phases, WriteFailedCheckpoint(phase)
      PROVE  StagedInv'
  <2>1. /\ checkpoint'[phase].status = "FAILED"
        /\ \A q \in Phases \ {phase} : checkpoint'[q] = checkpoint[q]
        /\ staging' = staging
    BY <1>6, ReplaceCheckpoint
    DEF WriteFailedCheckpoint, NoCheckpoint, published
  <2>2. QED
    BY <2>1 DEF Phases
<1>7. CASE Stage
  <2>1. checkpoint' = checkpoint
    BY <1>7 DEF Stage
  <2>2. CASE staging[Publication].condition = "intact"
    BY <1>1, <1>7, <2>1, <2>2 DEF Stage
  <2>3. CASE staging[Publication].condition # "intact"
    <3>1. pc = "stage" /\ staging'[OfReporting.by] = Snapshot
      BY <1>7, <2>3 DEF Stage, Publication, TypeOK, PublishedOK, Phases,
                        LifecycleCheckpoint
    <3>2. pc \in Judged /\ pc \in Evaluated /\ pc \in Reported
      BY <3>1 DEF Judged, Evaluated, Reported, Phase
    <3>3. \A u \in Units : /\ prediction[u] # Missing
                           /\ OfJudging.refs[u].answer = prediction[u].answer
      BY <3>2, CurrentWork DEF WorkInv, SealedInv, UnitValid
    <3>4. /\ evaluations = OfJudging.refs /\ judgment = OfJudging.refs
          /\ summary = OfJudging.refs
          /\ report = [by |-> OfReporting.by, of |-> OfReporting.refs]
      BY <3>2, CurrentWork DEF LinksInv
    <3>5. QED
      BY <2>1, <3>1, <3>3, <3>4 DEF Snapshot
  <2>4. QED
    BY <2>2, <2>3
<1>8. CASE Damage
  <2>1. checkpoint' = checkpoint
    BY <1>8 DEF Damage
  <2>2. OfReporting.by \in 0 .. MaxAttempts
    BY DEF TypeOK, PublishedOK, LifecycleCheckpoint, Phases
  <2>3. CASE staging'[OfReporting.by] = staging[OfReporting.by]
    BY <2>1, <2>3
  <2>4. CASE staging'[OfReporting.by].condition = "absent"
    BY <2>1, <2>4
  <2>5. CASE /\ staging[OfReporting.by].condition # "absent"
             /\ staging'[OfReporting.by] =
                  [staging[OfReporting.by] EXCEPT !.condition = "damaged"]
    <3>1. staging[OfReporting.by] \in Payload
      BY <2>2 DEF TypeOK, PublishedOK
    <3>2. /\ staging'[OfReporting.by].judgment = staging[OfReporting.by].judgment
          /\ staging'[OfReporting.by].prediction
                = staging[OfReporting.by].prediction
          /\ staging'[OfReporting.by].evaluations
                = staging[OfReporting.by].evaluations
          /\ staging'[OfReporting.by].summary = staging[OfReporting.by].summary
          /\ staging'[OfReporting.by].report = staging[OfReporting.by].report
      BY <2>5, <3>1 DEF Payload
    <3>3. QED
      BY <2>1, <2>5, <3>2
  <2>6. QED
    BY <1>8, <2>2, <2>3, <2>4, <2>5, DamagedStaging
<1>9. CASE UNCHANGED <<checkpoint, staging>>
  BY <1>1, <1>9
<1>10. QED
  BY <1>2, <1>3, <1>4, <1>5, <1>6, <1>7, <1>8, <1>9, PublicationWriters
  DEF published, CopyItems, CopyResults, WriteMarker

\* The staged publication the marker is written for is linked end to end.
LEMMA MarkedStaging ==
    ASSUME TypeOK, WorkInv, PublishedInv, pc \in Phase["VERIFYING"]
    PROVE  /\ EvaluationLinked /\ ReportLinked
           /\ OfEvaluating.refs = OfJudging.refs
           /\ OfReporting.refs = OfJudging.refs
           /\ staging[OfReporting.by].condition # "absent"
<1>1. pc \in Evaluated /\ pc \in Reported
  BY DEF Evaluated, Reported
<1>2. EvaluationLinked /\ ReportLinked
  BY <1>1, CurrentWork
<1>3. staging[OfReporting.by].condition # "absent"
  BY DEF WorkInv, PhasesInv, Current, ValidPhaseCheckpoint, ArtifactsValid,
         Chain, OfReporting
<1>4. QED
  BY <1>2, <1>3 DEF PublishedInv, LinksInv

\* The marker is written over a consistent copy, and nothing it vouches for
\* changes afterwards.
LEMMA ConsistentStep ==
    TypeOK /\ MarkerInv /\ WorkInv /\ PublishedInv /\ Next
        => PublishedConsistent'
<1> SUFFICES ASSUME TypeOK, MarkerInv, WorkInv, PublishedInv, Next
             PROVE  PublishedConsistent'
  OBVIOUS
<1>1. CASE WriteMarker
  <2>1. /\ pc = "copied" /\ FinalMatches(Publication)
        /\ marker' = Publication /\ staging' = staging /\ final' = final
    BY <1>1 DEF WriteMarker
  <2>2. /\ EvaluationLinked /\ ReportLinked
        /\ OfReporting.refs = OfJudging.refs
        /\ staging[OfReporting.by].condition # "absent"
    BY <2>1, MarkedStaging DEF Phase
  <2>3. /\ final.judgment = OfJudging.refs
        /\ final.evaluations = OfJudging.refs
        /\ final.summary = OfJudging.refs
        /\ final.report.of = OfJudging.refs
        /\ \A u \in Units :
              /\ final.prediction[u] # Missing
              /\ final.prediction[u].answer = OfJudging.refs[u].answer
    BY <2>1, <2>2
    DEF FinalMatches, PublishedInv, StagedInv, Publication, OfReporting
  <2>4. FinalMatches(marker)'
    BY <2>1 DEF FinalMatches
  <2>5. QED
    BY <2>1, <2>3, <2>4 DEF PublishedConsistent, Whole
<1>2. CASE ~ WriteMarker
  <2>1. marker' = marker
    BY <1>2, PublicationWriters
    DEF published, SealPredictions, CommitJudging, CommitEvaluating,
        CommitReporting, CommitPublishing, CommitVerifying,
        WriteFailedCheckpoint, Stage, CopyItems, CopyResults, Damage
  <2>2. ASSUME marker # 0 PROVE staging' = staging /\ final' = final
    <3>1. pc \notin {"stage", "commit", "copying"}
      BY <2>2 DEF MarkerInv
    <3>2. QED
      BY <1>2, <2>2, <3>1, PublicationWriters
      DEF published, SealPredictions, CommitJudging, CommitEvaluating,
          CommitReporting, CommitPublishing, CommitVerifying,
          WriteFailedCheckpoint, Stage, CopyItems, CopyResults, Damage
  <2>3. QED
    BY <2>1, <2>2 DEF PublishedInv, PublishedConsistent, FinalMatches, Whole
<1>3. QED
  BY <1>1, <1>2

LEMMA PublishedStutter == PublishedInv /\ UNCHANGED vars => PublishedInv'
  BY DEF PublishedInv, DigestsInv, OutputsInv, LinksInv, StagedInv,
         PublishedConsistent, FinalMatches, Whole, EvaluationLinked, ReportLinked,
         OfJudging, OfEvaluating, OfReporting, vars, process, records, files,
         unitFiles, judgeFiles, resultFiles, published

LEMMA PublishedInvariant ==
    Spec => [](TypeOK /\ MarkerInv /\ WorkInv /\ PublishedInv)
<1>1. TypeOK /\ MarkerInv /\ WorkInv /\ PublishedInv /\ [Next]_vars
        => PublishedInv'
  <2>1. TypeOK /\ MarkerInv /\ WorkInv /\ PublishedInv /\ Next => PublishedInv'
    BY DigestsStep, LinksStep, StagedStep, ConsistentStep DEF PublishedInv
  <2>2. QED
    BY <2>1, PublishedStutter
<1>2. QED
  BY PublishedInit, MarkerInvariant, WorkInvariant, <1>1, PTL DEF Spec

\* A completion marker vouches for a whole: the judgments of those very
\* answers, their evaluations, summary and reports, whatever number of killed
\* attempts, of publications and of partial copies came before.
THEOREM Consistent == Spec => []PublishedConsistent
<1>1. PublishedInv => PublishedConsistent
  BY DEF PublishedInv
<1>2. QED
  BY PublishedInvariant, <1>1, PTL

\* The marker is only ever written over the answers and the judgments the run
\* holds at that moment, not over what an earlier attempt had staged.
THEOREM PublishedIsCurrent == Spec => PublishesCurrentWork
<1>1. TypeOK /\ MarkerInv /\ WorkInv /\ PublishedInv /\ [Next]_vars =>
         (marker' # marker => FinalIsCurrentWork)
  <2> SUFFICES ASSUME TypeOK, WorkInv, PublishedInv, [Next]_vars,
                      marker' # marker
               PROVE  FinalIsCurrentWork
    OBVIOUS
  <2>1. WriteMarker
    BY PublicationWriters
    DEF vars, files, published, SealPredictions, CommitJudging,
        CommitEvaluating, CommitReporting, CommitPublishing, CommitVerifying,
        WriteFailedCheckpoint, Stage, CopyItems, CopyResults, Damage
  <2>2. pc = "copied" /\ FinalMatches(OfReporting.by)
    BY <2>1 DEF WriteMarker, Publication, OfReporting
  <2>3. /\ EvaluationLinked /\ ReportLinked
        /\ staging[OfReporting.by].condition # "absent"
    BY <2>2, MarkedStaging DEF Phase
  <2>4. /\ final.judgment = OfJudging.refs
        /\ \A u \in Units :
              final.prediction[u].answer = OfJudging.refs[u].answer
    BY <2>2, <2>3 DEF FinalMatches, PublishedInv, StagedInv
  <2>5. /\ judgment = OfJudging.refs /\ judgmentCheckpoint = OfJudging.refs
        /\ \A u \in Units : OfJudging.refs[u].answer = prediction[u].answer
    BY <2>2, CurrentWork DEF Judged, Evaluated, Phase
  <2>6. \A u \in Units : UnitValid(u)
    BY <2>2 DEF WorkInv, SealedInv, Judged, Evaluated, Phase
  <2>7. \A u \in Units : judgmentCheckpoint[u] # Missing
    BY <2>5, <2>6 DEF WorkInv, AnswersInv, UnitValid, Missing
  <2>8. QED
    BY <2>4, <2>5, <2>6, <2>7 DEF FinalIsCurrentWork, JudgmentValid
<1>2. QED
  BY PublishedInvariant, <1>1, PTL DEF Spec, PublishesCurrentWork

\* Nothing published is told apart from whatever is: a unit has no answer in it.
LEMMA NothingIsNotWhole == ~ Whole(NoFinalFiles)
<1>1. PICK u \in Units : TRUE
  BY UnitsAssumption
<1>2. NoFinalFiles.prediction[u] = Missing
  BY DEF NoFinalFiles, NoResults
<1>3. QED
  BY <1>2 DEF Whole

\* The run directory, with all its attempts, kills and partial copies, keeps the
\* promise of PublishedRun: its content is published in one step, whole, and
\* never replaced.
THEOREM OnePublished == Spec => OnePublication
<1>1. Init => Abstract!Init
  BY DEF Init, Abstract!Init
<1>2. TypeOK /\ PublishedInv /\ TypeOK' /\ PublishedInv'
         /\ [marker # 0 => UNCHANGED <<final, marker>>]_vars
      => [Abstract!Next]_(Abstract!vars)
  <2> SUFFICES ASSUME TypeOK, PublishedInv, TypeOK', PublishedInv',
                      [marker # 0 => UNCHANGED <<final, marker>>]_vars
               PROVE  [Abstract!Next]_(Abstract!vars)
    OBVIOUS
  <2>1. CASE marker = 0 /\ marker' = 0
    BY <2>1 DEF Abstract!vars
  <2>2. CASE marker = 0 /\ marker' # 0
    <3>1. final' \in FinalFiles /\ Whole(final')
      BY <2>2 DEF TypeOK, PublishedOK, PublishedInv, PublishedConsistent, Whole
    <3>2. QED
      BY <2>2, <3>1 DEF Abstract!Next, Abstract!Publish
  <2>3. CASE marker # 0
    <3>1. UNCHANGED <<final, marker>>
      BY <2>3 DEF vars, files, published
    <3>2. QED
      BY <2>3, <3>1 DEF Abstract!vars
  <2>4. QED
    BY <2>1, <2>2, <2>3
<1>3. QED
  BY <1>1, <1>2, PublishedInvariant, PublicationStays, PTL
  DEF Spec, OnePublication, PublicationKept, Abstract!Spec
=============================================================================
