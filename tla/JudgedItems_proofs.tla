-------------------------- MODULE JudgedItems_proofs --------------------------
(***************************************************************************)
(* A reported run reports, of every question and judge, the verdict on the *)
(* answer it holds now, and no verdict is asked for twice: for any number  *)
(* of questions, of judges and of faults.  And the calls that the judging  *)
(* makes of a provider client: they keep its rate, count what they spend,  *)
(* and what a judge says rests on the replies it got.                      *)
(***************************************************************************)
EXTENDS JudgedItems, ProviderCalls, Sums, SequenceTheorems, FiniteSetTheorems, TLAPS

Assumed == SizeAssumption /\ PrimaryAssumption

\* Where an attempt is.
AtJudging == {"judging", "timing", "marking", "gathered"}
AtEvaluating == {"evaluating", "evaluated", "outputting"}
AtReporting == {"reporting", "committing", "reported"}
Places == {"idle"} \cup AtJudging \cup AtEvaluating \cup AtReporting
LastItem == LastQuery * LastJudge

\* The verdict of a judge on a question, in one file.
IsVerdict(file, i) == \E v \in Verdicts : v.judge = i[2] /\ file = {v}

\* An item of which everything is as it was written, about this answer.
Settled(i, judgments, timings, ans) ==
    \E v \in Verdicts :
        /\ v.judge = i[2] /\ v.answer = ans[i[1]]
        /\ judgments[i] = {v} /\ timings[i] = {v.by}

\* The evaluations of these verdicts.
EvaluationsOf(evals, judgments) ==
    \E e \in Evaluations :
        /\ evals = {e}
        /\ \A q \in Queries : \A j \in Judges : judgments[<<q, j>>] = {e[q].judges[j]}
        /\ \A q \in Queries : judgments[<<q, Primary>>] = {e[q].primary}

\* What a JUDGING checkpoint lists was all made from the answers it lists.
Consistent(f) ==
    /\ \A i \in Items : Settled(i, f.judgment, f.timing, f.answers)
    /\ EvaluationsOf(f.evaluations, f.judgment)

\* The output of an evaluator, as a function of the evaluations alone: they tell
\* which answers were judged.
OutputOf(name, evals) ==
    {[evaluations |-> evals,
      answers |-> IF name \in ReadsPredictions
                  THEN [q \in Queries |-> The(evals)[q].primary.answer]
                  ELSE [q \in Queries |-> 0]]}

TypedFiles ==
    /\ answers \in Answers /\ \A q \in Queries : answers[q] <= faults
    /\ judgment \in [Items -> SUBSET Verdicts]
    /\ timing \in [Items -> SUBSET Attempts]
    /\ itemMark \in [Items -> SUBSET (Verdicts \X Attempts)]
    /\ gathered \in [Items -> SUBSET Verdicts]
    /\ evaluations = Missing \/ \E e \in Evaluations : evaluations = {e}
    /\ DOMAIN output = Names /\ DOMAIN outputMark = Names
TypedProcess ==
    /\ pc \in Places
    /\ attempt \in 0 .. MaxFaults + 1 /\ (pc # "idle" => attempt \in Attempts)
    /\ faults \in 0 .. MaxFaults
    /\ at \in Nat \ {0}
    /\ at <= LastItem + 1 \/ at <= Len(Requirements) + 1

\* Each file of an item is one verdict or time, and a checkpoint is of a verdict
\* and the time of that very verdict.
ItemFiles ==
    \A i \in Items :
        /\ judgment[i] = Missing \/ IsVerdict(judgment[i], i)
        /\ timing[i] = Missing \/ \E t \in Attempts : timing[i] = {t}
        /\ \/ itemMark[i] = Missing
           \/ \E v \in Verdicts : v.judge = i[2] /\ itemMark[i] = {<<v, v.by>>}

\* How far the attempt has come with the items.
Counting ==
    /\ pc \in AtJudging => at <= LastItem + 1
    /\ pc \in {"timing", "marking"} => at <= LastItem
    /\ pc = "gathered" => at = LastItem + 1
    /\ pc \in AtEvaluating => at <= Len(Requirements) + 1
    /\ pc \in {"evaluated", "outputting"} => at <= Len(Requirements)
Gathering ==
    /\ pc \in AtJudging =>
          \A n \in 1 .. LastItem : n < at =>
              /\ Settled(Item(n), judgment, timing, answers)
              /\ gathered[Item(n)] = judgment[Item(n)]
    /\ pc \in {"timing", "marking"} =>
          /\ gathered[Item(at)] = judgment[Item(at)]
          /\ judgment[Item(at)] = {[answer |-> AnswerOf(Item(at)), judge |-> Item(at)[2],
                                    by |-> attempt]}
    /\ pc = "marking" => timing[Item(at)] = {attempt}
    /\ pc = "gathered" => EvaluationsOf(evaluations, judgment)

\* What the checkpoints of the phases refer to, whatever became of it since.
JudgingMarked ==
    \/ judgingMark = Missing
    \/ \E m : judgingMark = {m} /\ Consistent(m.files)
OutputMarked ==
    \A name \in Names :
        \/ outputMark[name] = Missing
        \/ \E evals :
              outputMark[name] =
                  {[evaluations |-> evals, output |-> OutputOf(name, evals),
                    rows |-> IF name = "analysis_rows" THEN OutputOf(name, evals)
                             ELSE Missing]}
EvaluatedOf(files, evals) ==
    /\ \A name \in Names : files.output[name] = OutputOf(name, evals)
    /\ files.rows = OutputOf("analysis_rows", evals)
EvaluatingMarked ==
    \/ evaluatingMark = Missing
    \/ \E m, j : /\ evaluatingMark = {m} /\ m.files.judging = {j}
                 /\ EvaluatedOf(m.files, j.files.evaluations)
ReportingMarked ==
    \/ reportingMark = Missing
    \/ \E m, j :
          /\ m.files.judging = {j}
          /\ reportingMark =
               {[evaluating |-> {m},
                 report |-> {[evaluations |-> j.files.evaluations, timing |-> j.files.timing,
                              output |-> m.files.output]}]}

\* What an attempt has behind it.
Behind ==
    /\ pc \in AtEvaluating \cup AtReporting => JudgingValid
    /\ pc \in AtReporting => EvaluatingValid
    /\ pc \in AtEvaluating =>
          \A k \in 1 .. Len(Requirements) : k < at => OutputValid(Requirements[k])
    /\ pc \in {"evaluated", "outputting"} /\ Requirements[at] = "analysis_rows" =>
          rows = OutputOf("analysis_rows", evaluations)
    /\ pc = "outputting" =>
          output[Requirements[at]] = OutputOf(Requirements[at], evaluations)
    /\ pc \in {"committing", "reported"} =>
          report = {[evaluations |-> evaluations, timing |-> timing, output |-> output]}

IInv ==
    /\ TypedFiles /\ TypedProcess /\ ItemFiles /\ Counting /\ Gathering
    /\ JudgingMarked /\ OutputMarked /\ EvaluatingMarked /\ ReportingMarked /\ Behind

-----------------------------------------------------------------------------
(* Constants, items and requirements. *)

LEMMA Constants ==
    ASSUME Assumed
    PROVE  /\ LastQuery \in Nat /\ LastQuery > 0 /\ LastJudge \in Nat /\ LastJudge > 0
           /\ MaxFaults \in Nat /\ Primary \in Judges /\ LastItem \in Nat
BY DEF Assumed, SizeAssumption, PrimaryAssumption, Judges, LastItem

LEMMA Division ==
    ASSUME NEW m \in Nat, NEW d \in Nat, d > 0
    PROVE  m \div d \in Nat /\ m % d \in 0 .. d - 1 /\ m = d * (m \div d) + (m % d)
OBVIOUS

LEMMA Composition ==
    ASSUME NEW a \in Nat, NEW d \in Nat, d > 0, NEW b \in 0 .. d - 1
    PROVE  (a * d + b) \div d = a /\ (a * d + b) % d = b
OBVIOUS

LEMMA Below ==
    ASSUME NEW a \in Nat, NEW d \in Nat, d > 0, NEW n \in Nat, d * a < n * d
    PROVE  a < n
OBVIOUS

LEMMA Room ==
    ASSUME NEW a \in Nat, NEW d \in Nat, NEW n \in Nat, a < n
    PROVE  a * d + d <= n * d /\ a * d \in Nat
OBVIOUS

LEMMA CountedTo ==
    ASSUME NEW k \in Nat
    PROVE  IsFiniteSet(1 .. k) /\ Cardinality(1 .. k) = k
<1>1. 1 \in Int /\ k \in Int
  OBVIOUS
<1>2. IsFiniteSet(1 .. k) /\ Cardinality(1 .. k) = (IF 1 > k THEN 0 ELSE k - 1 + 1)
  BY <1>1, FS_Interval, Zenon
<1>3. QED
  BY <1>2

\* The items are as many as the pairs, and the count goes through all of them.
LEMMA ItemsCounted ==
    ASSUME Assumed
    PROVE  /\ Cardinality(Items) = LastItem
           /\ \A n \in 1 .. LastItem : Item(n) \in Items
           /\ \A i \in Items : \E n \in 1 .. LastItem : Item(n) = i
<1>0. /\ LastQuery \in Nat /\ LastQuery > 0 /\ LastJudge \in Nat /\ LastJudge > 0
      /\ LastItem \in Nat
  BY Constants
<1>1. Cardinality(Items) = LastItem
  <2>1. /\ IsFiniteSet(Queries) /\ Cardinality(Queries) = LastQuery
        /\ IsFiniteSet(Judges) /\ Cardinality(Judges) = LastJudge
    BY <1>0, CountedTo DEF Queries, Judges
  <2>2. QED
    BY <2>1, FS_Product DEF Items, LastItem
<1>2. ASSUME NEW n \in 1 .. LastItem PROVE Item(n) \in Items
  <2> DEFINE q == (n - 1) \div LastJudge
             r == (n - 1) % LastJudge
  <2>1. n - 1 \in Nat /\ n - 1 < LastQuery * LastJudge
    BY <1>0 DEF LastItem
  <2>2. q \in Nat /\ r \in 0 .. LastJudge - 1 /\ n - 1 = LastJudge * q + r
    BY <1>0, <2>1, Division
  <2> HIDE DEF q, r
  <2>3. LastJudge * q \in Nat
    BY <1>0, <2>2
  <2>4. LastJudge * q <= n - 1
    BY <2>2, <2>3, <1>0
  <2>5. LastQuery * LastJudge \in Nat
    BY <1>0
  <2>6. LastJudge * q < LastQuery * LastJudge
    BY <2>1, <2>3, <2>4, <2>5
  <2>7. q < LastQuery
    BY <1>0, <2>2, <2>6, Below
  <2>8. 1 + q \in Queries /\ 1 + r \in Judges
    BY <1>0, <2>2, <2>7 DEF Queries, Judges
  <2>9. QED
    BY <2>8 DEF Item, Items, q, r
<1>3. ASSUME NEW i \in Items PROVE \E n \in 1 .. LastItem : Item(n) = i
  <2>1. PICK x \in Queries, j \in Judges : i = <<x, j>>
    BY DEF Items
  <2> DEFINE a == x - 1
             b == j - 1
             n == (a * LastJudge + b) + 1
  <2>2. a \in Nat /\ a < LastQuery /\ b \in 0 .. LastJudge - 1 /\ x = 1 + a /\ j = 1 + b
    BY <1>0, <2>1 DEF Queries, Judges
  <2> HIDE DEF a, b
  <2>3. a * LastJudge + LastJudge <= LastQuery * LastJudge /\ a * LastJudge \in Nat
    BY <1>0, <2>2, Room
  <2>4. n \in 1 .. LastItem
    <3>1. LastQuery * LastJudge = LastItem
      BY DEF LastItem
    <3>2. QED
      BY <1>0, <2>2, <2>3, <3>1
  <2>5. (a * LastJudge + b) \div LastJudge = a /\ (a * LastJudge + b) % LastJudge = b
    BY <1>0, <2>2, Composition
  <2>6. n - 1 = a * LastJudge + b
    BY <1>0, <2>2, <2>3
  <2> HIDE DEF n
  <2>7. Item(n) = <<1 + a, 1 + b>>
    BY <2>5, <2>6 DEF Item
  <2>8. QED
    BY <2>1, <2>2, <2>4, <2>7
<1>4. QED
  BY <1>1, <1>2, <1>3

LEMMA Uniqueness ==
    ASSUME NEW m \in Nat, NEW n \in Nat, NEW d \in Nat, d > 0,
           m \div d = n \div d, m % d = n % d
    PROVE  m = n
<1>1. m = d * (m \div d) + (m % d) /\ n = d * (n \div d) + (n % d)
  BY Division
<1>2. QED
  BY <1>1

\* The count goes through no item twice.
LEMMA ItemsDiffer ==
    ASSUME Assumed
    PROVE  \A m, n \in 1 .. LastItem : Item(m) = Item(n) => m = n
<1>1. ASSUME NEW m \in 1 .. LastItem, NEW n \in 1 .. LastItem, Item(m) = Item(n) PROVE m = n
  <2>1. LastJudge \in Nat /\ LastJudge > 0 /\ m - 1 \in Nat /\ n - 1 \in Nat
    BY Constants
  <2>2. /\ (m - 1) \div LastJudge \in Nat /\ (n - 1) \div LastJudge \in Nat
        /\ (m - 1) % LastJudge \in Nat /\ (n - 1) % LastJudge \in Nat
    BY <2>1, Division
  <2>3. /\ 1 + ((m - 1) \div LastJudge) = 1 + ((n - 1) \div LastJudge)
        /\ 1 + ((m - 1) % LastJudge) = 1 + ((n - 1) % LastJudge)
    BY <1>1 DEF Item
  <2>4. (m - 1) \div LastJudge = (n - 1) \div LastJudge /\ (m - 1) % LastJudge = (n - 1) % LastJudge
    BY <2>2, <2>3
  <2>5. m - 1 = n - 1
    BY <2>1, <2>4, Uniqueness
  <2>6. QED
    BY <2>5
<1>2. QED
  BY <1>1

LEMMA TheIs ==
    \A x : The({x}) = x
<1>1. ASSUME NEW x PROVE The({x}) = x
  <2>1. \E c \in {x} : TRUE
    OBVIOUS
  <2>2. The({x}) \in {x}
    BY <2>1, Zenon DEF The
  <2>3. QED
    BY <2>2
<1>2. QED
  BY <1>1

LEMMA RequirementsAre ==
    /\ Len(Requirements) = 3
    /\ Requirements[1] = "primary_judge_score" /\ Requirements[2] = "analysis_rows"
    /\ Requirements[3] = "retrieval_report"
    /\ Names = {"primary_judge_score", "analysis_rows", "retrieval_report"}
    /\ \A k \in 1 .. Len(Requirements) : Requirements[k] \in Names
    /\ \A name \in Names : \E k \in 1 .. Len(Requirements) : Requirements[k] = name
    /\ \A k, l \in 1 .. Len(Requirements) : k # l => Requirements[k] # Requirements[l]
<1>1. /\ Len(Requirements) = 3
      /\ Requirements[1] = "primary_judge_score" /\ Requirements[2] = "analysis_rows"
      /\ Requirements[3] = "retrieval_report"
      /\ DOMAIN Requirements = 1 .. 3
  BY DEF Requirements
<1>2. Names = {Requirements[1], Requirements[2], Requirements[3]}
  <2>1. \A i : i \in 1 .. 3 <=> i = 1 \/ i = 2 \/ i = 3
    OBVIOUS
  <2>2. Names = {Requirements[i] : i \in 1 .. 3}
    BY <1>1 DEF Names
  <2>3. QED
    BY <2>1, <2>2
<1>3. \A i : i \in 1 .. 3 <=> i = 1 \/ i = 2 \/ i = 3
  OBVIOUS
<1>4. QED
  BY <1>1, <1>2, <1>3

-----------------------------------------------------------------------------
LEMMA Steps ==
    ASSUME [Next]_vars
    PROVE  \/ UNCHANGED vars
           \/ Begin \/ ReuseVerdict \/ AskJudge \/ WriteTiming \/ CommitVerdict
           \/ WriteEvaluations \/ CommitJudging
           \/ SkipEvaluating \/ ReuseOutput \/ RunEvaluator \/ WriteOutput \/ CommitOutput
           \/ CommitEvaluating
           \/ SkipReporting \/ WriteReports \/ CommitReporting
           \/ Interrupt \/ BetweenAttempts
BY DEF Next, Attempt, Judge, Evaluate

-----------------------------------------------------------------------------
(* What the checkpoints vouch for. *)

LEMMA ValidIsSettled ==
    ASSUME ItemFiles, NEW i \in Items, ItemValid(i)
    PROVE  Settled(i, judgment, timing, answers)
<1>1. itemMark[i] = judgment[i] \X timing[i] /\ itemMark[i] # Missing
  BY DEF ItemValid
<1>2. PICK v \in Verdicts : v.judge = i[2] /\ itemMark[i] = {<<v, v.by>>}
  BY <1>1 DEF ItemFiles
<1>3. v \in judgment[i] /\ v.by \in timing[i]
  <2>1. <<v, v.by>> \in judgment[i] \X timing[i]
    BY <1>1, <1>2
  <2>2. QED
    BY <2>1, Zenon
<1>4. judgment[i] = {v} /\ timing[i] = {v.by}
  BY <1>3 DEF ItemFiles, IsVerdict, Missing
<1>5. v.answer = answers[i[1]]
  BY <1>4, TheIs DEF ItemValid, AnswerOf
<1>6. QED
  BY <1>2, <1>4, <1>5 DEF Settled

LEMMA CurrentJudging ==
    ASSUME JudgingMarked, JudgingValid
    PROVE  /\ \A i \in Items : Settled(i, judgment, timing, answers)
           /\ EvaluationsOf(evaluations, judgment)
<1>1. PICK m : judgingMark = {m} /\ Consistent(m.files)
  BY DEF JudgingMarked, JudgingValid
<1>2. m.files = JudgingFiles
  BY <1>1, TheIs DEF JudgingValid
<1>3. /\ JudgingFiles.judgment = judgment /\ JudgingFiles.timing = timing
      /\ JudgingFiles.answers = answers /\ JudgingFiles.evaluations = evaluations
  BY DEF JudgingFiles
<1>4. QED
  BY <1>1, <1>2, <1>3 DEF Consistent

\* The evaluations tell the answers, so what is made of both is made of them.
LEMMA OutputsFollow ==
    ASSUME Assumed, TypedFiles, NEW name,
           \A i \in Items : Settled(i, judgment, timing, answers),
           EvaluationsOf(evaluations, judgment)
    PROVE  Evaluated(name) = OutputOf(name, evaluations)
<1>1. PICK e \in Evaluations :
        /\ evaluations = {e}
        /\ \A q \in Queries : judgment[<<q, Primary>>] = {e[q].primary}
  BY DEF EvaluationsOf
<1>2. The(evaluations) = e
  BY <1>1, TheIs
<1>3. ASSUME NEW q \in Queries PROVE e[q].primary.answer = answers[q]
  <2>1. <<q, Primary>> \in Items
    BY Constants DEF Items
  <2>2. <<q, Primary>>[1] = q
    OBVIOUS
  <2>3. PICK v \in Verdicts : v.answer = answers[q] /\ judgment[<<q, Primary>>] = {v}
    BY <2>1, <2>2 DEF Settled
  <2>4. e[q].primary = v
    BY <1>1, <2>3
  <2>5. QED
    BY <2>3, <2>4
<1>4. answers = [q \in Queries |-> The(evaluations)[q].primary.answer]
  BY <1>2, <1>3 DEF TypedFiles, Answers
<1>5. QED
  BY <1>4 DEF Evaluated, OutputOf

-----------------------------------------------------------------------------
(* The steps preserve the invariant, one part after the other. *)

\* Where the item of an attempt that is judging is.
LEMMA ItemAt ==
    ASSUME Assumed, TypedFiles, TypedProcess, at <= LastItem, pc # "idle"
    PROVE  /\ Item(at) \in Items /\ Item(at)[1] \in Queries /\ Item(at)[2] \in Judges
           /\ [answer |-> AnswerOf(Item(at)), judge |-> Item(at)[2], by |-> attempt] \in Verdicts
<1>1. at \in 1 .. LastItem
  BY Constants DEF TypedProcess
<1>2. Item(at) \in Items /\ Item(at)[1] \in Queries /\ Item(at)[2] \in Judges
  <2>1. Item(at) \in Items
    BY <1>1, ItemsCounted
  <2>2. \A i \in Items : i[1] \in Queries /\ i[2] \in Judges
    BY DEF Items
  <2>3. QED
    BY <2>1, <2>2
<1>3. answers[Item(at)[1]] \in Done /\ attempt \in Attempts
  BY <1>2 DEF TypedFiles, TypedProcess, Answers
<1>4. QED
  BY <1>2, <1>3 DEF Verdicts, AnswerOf

\* An attempt that has come to the end has the verdict of every item.
LEMMA AllGathered ==
    ASSUME Assumed, TypedProcess, Gathering, pc \in AtJudging, at > LastItem
    PROVE  \A i \in Items : /\ Settled(i, judgment, timing, answers)
                            /\ gathered[i] = judgment[i]
<1>1. \A n \in 1 .. LastItem : n < at
  BY Constants DEF TypedProcess
<1>2. \A n \in 1 .. LastItem : /\ Settled(Item(n), judgment, timing, answers)
                           /\ gathered[Item(n)] = judgment[Item(n)]
  BY <1>1 DEF Gathering
<1>3. QED
  BY <1>2, ItemsCounted

\* Its evaluations are those of the judgment files.
LEMMA EvaluationIs ==
    ASSUME Assumed, TypedProcess, Gathering, pc \in AtJudging, at > LastItem
    PROVE  Evaluation \in Evaluations /\ EvaluationsOf({Evaluation}, judgment)
<1>1. \A i \in Items : \E v \in Verdicts : judgment[i] = {v} /\ gathered[i] = {v}
  BY AllGathered DEF Settled
<1>2. ASSUME NEW q \in Queries, NEW j \in Judges
      PROVE  The(gathered[<<q, j>>]) \in Verdicts /\ judgment[<<q, j>>] = {The(gathered[<<q, j>>])}
  <2>1. <<q, j>> \in Items
    BY DEF Items
  <2>2. QED
    BY <2>1, <1>1, TheIs
<1>3. Primary \in Judges
  BY Constants
<1>4. Evaluation \in Evaluations
  <2>1. \A q \in Queries : [j \in Judges |-> The(gathered[<<q, j>>])] \in [Judges -> Verdicts]
    BY <1>2
  <2>2. \A q \in Queries :
           [judges |-> [j \in Judges |-> The(gathered[<<q, j>>])],
            primary |-> The(gathered[<<q, Primary>>])]
               \in [judges : [Judges -> Verdicts], primary : Verdicts]
    BY <2>1, <1>2, <1>3
  <2>3. QED
    BY <2>2, Zenon DEF Evaluation, Evaluations
<1>5. \A q \in Queries : /\ Evaluation[q].primary = The(gathered[<<q, Primary>>])
                         /\ \A j \in Judges : Evaluation[q].judges[j] = The(gathered[<<q, j>>])
  BY DEF Evaluation
<1>6. /\ \A q \in Queries : \A j \in Judges : judgment[<<q, j>>] = {Evaluation[q].judges[j]}
      /\ \A q \in Queries : judgment[<<q, Primary>>] = {Evaluation[q].primary}
  BY <1>2, <1>3, <1>5
<1>7. QED
  BY <1>4, <1>6, Zenon DEF EvaluationsOf

LEMMA TypedFilesStep ==
    ASSUME Assumed, TypedFiles, TypedProcess, Counting, Gathering, [Next]_vars
    PROVE  TypedFiles'
<1>0. /\ MaxFaults \in Nat /\ Cardinality(Items) = LastItem
  BY Constants, ItemsCounted
<1>1. CASE AskJudge
  <2>1. at <= LastItem /\ pc = "judging"
    BY <1>0, <1>1 DEF AskJudge, Goto
  <2>2. /\ Item(at) \in Items
        /\ [answer |-> AnswerOf(Item(at)), judge |-> Item(at)[2], by |-> attempt] \in Verdicts
    BY <2>1, ItemAt
  <2>3. QED
    BY <1>1, <2>2 DEF AskJudge, TypedFiles, evaluating
<1>2. CASE WriteTiming
  <2>1. attempt \in Attempts
    BY <1>2 DEF WriteTiming, Goto, TypedProcess
  <2>2. QED
    BY <1>2, <2>1 DEF WriteTiming, TypedFiles, evaluating
<1>3. CASE CommitVerdict
  <2>1. at <= LastItem /\ pc # "idle"
    BY <1>3 DEF CommitVerdict, Goto, Counting
  <2>2. Item(at) \in Items
    BY <2>1, ItemAt
  <2>3. judgment[Item(at)] \X timing[Item(at)] \subseteq Verdicts \X Attempts
    BY <2>2 DEF TypedFiles
  <2>4. itemMark' \in [Items -> SUBSET (Verdicts \X Attempts)]
    BY <1>3, <2>2, <2>3 DEF CommitVerdict, TypedFiles
  <2>5. QED
    BY <1>3, <2>4 DEF CommitVerdict, TypedFiles, evaluating
<1>4. CASE WriteEvaluations
  <2>1. Evaluation \in Evaluations
    BY <1>0, <1>4, EvaluationIs DEF WriteEvaluations, Goto, AtJudging
  <2>2. QED
    BY <1>4, <2>1 DEF WriteEvaluations, TypedFiles, evaluating
<1>5. CASE Begin
  <2>1. gathered' \in [Items -> SUBSET Verdicts]
    BY <1>5 DEF Begin, TypedFiles, Missing
  <2>2. QED
    BY <1>5, <2>1 DEF Begin, TypedFiles, judging, evaluating
<1>6. CASE ReuseVerdict
  <2>1. Item(at) \in Items
    BY <1>0, <1>6, ItemAt DEF ReuseVerdict
  <2>2. gathered' \in [Items -> SUBSET Verdicts]
    BY <1>6, <2>1 DEF ReuseVerdict, TypedFiles
  <2>3. QED
    BY <1>6, <2>2 DEF ReuseVerdict, TypedFiles, judging, evaluating
<1>7. CASE BetweenAttempts
  <2>1. ASSUME NEW q \in Queries, Redo(q) PROVE TypedFiles'
    <3>1. /\ answers \in [Queries -> 0 .. MaxFaults] /\ \A x \in Queries : answers[x] <= faults
          /\ faults < MaxFaults /\ faults' = faults + 1 /\ faults \in Nat
          /\ answers' = [answers EXCEPT ![q] = answers[q] + 1]
      BY <2>1 DEF Redo, Fault, TypedFiles, TypedProcess, Answers, Done
    <3>2. /\ DOMAIN answers' = Queries
          /\ \A x \in Queries : answers'[x] = IF x = q THEN answers[q] + 1 ELSE answers[x]
      BY <3>1
    <3>3. \A x \in Queries : answers'[x] \in 0 .. MaxFaults /\ answers'[x] <= faults'
      BY <1>0, <3>1, <3>2
    <3>4. answers' \in Answers
      <4>1. answers' = [x \in Queries |-> answers'[x]]
        BY <3>1
      <4>2. QED
        BY <3>3, <4>1 DEF Answers, Done
    <3>5. QED
      BY <2>1, <3>3, <3>4 DEF Redo, TypedFiles, judging, evaluating
  <2>2. ASSUME Lose PROVE TypedFiles'
    <3>1. answers' = answers /\ gathered' = gathered /\ faults' = faults + 1 /\ faults \in Nat
      BY <2>2 DEF Lose, Fault, TypedProcess
    <3>2. answers' \in Answers /\ \A q \in Queries : answers'[q] <= faults'
      BY <1>0, <3>1 DEF TypedFiles, Answers, Done
    <3>3. /\ judgment' = judgment \/ \E i \in Items : judgment' = [judgment EXCEPT ![i] = Missing]
          /\ timing' = timing \/ \E i \in Items : timing' = [timing EXCEPT ![i] = Missing]
          /\ itemMark' = itemMark \/ \E i \in Items : itemMark' = [itemMark EXCEPT ![i] = Missing]
          /\ evaluations' = evaluations \/ evaluations' = Missing
          /\ output' = output \/ \E n \in Names : output' = [output EXCEPT ![n] = Missing]
          /\ outputMark' = outputMark
      BY <2>2, Zenon DEF Lose, evaluating, reporting
    <3>4. /\ judgment' \in [Items -> SUBSET Verdicts] /\ timing' \in [Items -> SUBSET Attempts]
          /\ itemMark' \in [Items -> SUBSET (Verdicts \X Attempts)]
          /\ DOMAIN output' = Names
      BY <3>3 DEF TypedFiles, Missing
    <3>5. QED
      BY <3>1, <3>2, <3>3, <3>4 DEF TypedFiles
  <2>3. QED
    BY <1>7, <2>1, <2>2 DEF BetweenAttempts
<1>8. CASE CommitJudging
  BY <1>8 DEF CommitJudging, TypedFiles, evaluating
<1>9. CASE SkipEvaluating \/ ReuseOutput \/ RunEvaluator \/ WriteOutput \/ CommitOutput
           \/ CommitEvaluating
  BY <1>9 DEF SkipEvaluating, ReuseOutput, RunEvaluator, WriteOutput, CommitOutput,
     CommitEvaluating, TypedFiles, judging, evaluating
<1>10. CASE SkipReporting \/ WriteReports \/ CommitReporting
  BY <1>10 DEF SkipReporting, WriteReports, CommitReporting, TypedFiles, judging, evaluating
<1>11. CASE Interrupt
  <2>1. faults' = faults + 1 /\ faults \in Nat
    BY <1>11 DEF Interrupt, Fault, TypedProcess
  <2>2. answers' = answers /\ \A q \in Queries : answers'[q] <= faults'
    BY <1>0, <1>11, <2>1 DEF Interrupt, TypedFiles, Answers, Done
  <2>3. QED
    BY <1>11, <2>2 DEF Interrupt, TypedFiles
<1>12. CASE UNCHANGED vars
  BY <1>12 DEF vars, judging, evaluating, TypedFiles
<1>13. QED
  BY <1>1, <1>2, <1>3, <1>4, <1>5, <1>6, <1>7, <1>8, <1>9, <1>10, <1>11, <1>12, Steps

\* The places, the attempts and the count, action by action.
LEMMA TypedProcessStep ==
    ASSUME Assumed, TypedProcess, Counting, [Next]_vars
    PROVE  TypedProcess' /\ Counting'
<1>0. /\ MaxFaults \in Nat /\ Cardinality(Items) = LastItem /\ LastItem \in Nat /\ LastItem >= 1
      /\ Len(Requirements) = 3
  <2>1. \E n \in 1 .. LastItem : TRUE
    <3>1. \E q \in Queries, j \in Judges : <<q, j>> \in Items
      BY Constants DEF Queries, Judges, Items
    <3>2. QED
      BY <3>1, ItemsCounted
  <2>2. QED
    BY <2>1, Constants, ItemsCounted, RequirementsAre
<1> USE DEF Goto, Places, AtJudging, AtEvaluating, AtReporting
<1>1. CASE Begin
  BY <1>0, <1>1 DEF Begin, TypedProcess, Counting, Attempts
<1>2. CASE ReuseVerdict \/ AskJudge \/ WriteTiming \/ CommitVerdict
  BY <1>0, <1>2 DEF ReuseVerdict, AskJudge, WriteTiming, CommitVerdict, TypedProcess, Counting
<1>3. CASE WriteEvaluations \/ CommitJudging
  BY <1>0, <1>3 DEF WriteEvaluations, CommitJudging, TypedProcess, Counting
<1>4. CASE SkipEvaluating \/ ReuseOutput \/ RunEvaluator
  BY <1>0, <1>4 DEF SkipEvaluating, ReuseOutput, RunEvaluator, TypedProcess, Counting
<1>5. CASE WriteOutput \/ CommitOutput \/ CommitEvaluating
  BY <1>0, <1>5 DEF WriteOutput, CommitOutput, CommitEvaluating, TypedProcess, Counting
<1>6. CASE SkipReporting \/ WriteReports \/ CommitReporting
  BY <1>0, <1>6 DEF SkipReporting, WriteReports, CommitReporting, TypedProcess, Counting
<1>7. CASE Interrupt
  <2>1. pc' = "idle" /\ faults < MaxFaults /\ faults' = faults + 1 /\ at' = at /\ attempt' = attempt
    BY <1>7 DEF Interrupt, Fault
  <2>2. QED
    BY <1>0, <2>1 DEF TypedProcess, Counting
<1>8. CASE BetweenAttempts
  <2>1. pc' = "idle" /\ faults < MaxFaults /\ faults' = faults + 1 /\ at' = at /\ attempt' = attempt
    BY <1>8 DEF BetweenAttempts, Lose, Redo, Fault
  <2>2. QED
    BY <1>0, <2>1 DEF TypedProcess, Counting
<1>9. CASE UNCHANGED vars
  BY <1>9 DEF vars, TypedProcess, Counting
<1>10. QED
  BY <1>1, <1>2, <1>3, <1>4, <1>5, <1>6, <1>7, <1>8, <1>9, Steps

\* What a file of an item becomes, whatever the step.
LEMMA ItemFilesStep ==
    ASSUME Assumed, TypedFiles, TypedProcess, Counting, Gathering, ItemFiles, [Next]_vars
    PROVE  ItemFiles'
<1>0. Cardinality(Items) = LastItem
  BY ItemsCounted
<1>1. CASE AskJudge
  <2> DEFINE v == [answer |-> AnswerOf(Item(at)), judge |-> Item(at)[2], by |-> attempt]
  <2>1. at <= LastItem /\ pc = "judging"
    BY <1>0, <1>1 DEF AskJudge, Goto
  <2>2. Item(at) \in Items /\ v \in Verdicts /\ v.judge = Item(at)[2]
    BY <2>1, ItemAt
  <2>3. /\ judgment' = [judgment EXCEPT ![Item(at)] = {v}]
        /\ timing' = timing /\ itemMark' = itemMark
    BY <1>1, Zenon DEF AskJudge
  <2> HIDE DEF v
  <2>4. IsVerdict({v}, Item(at))
    BY <2>2 DEF IsVerdict
  <2>5. \A i \in Items : judgment'[i] = IF i = Item(at) THEN {v} ELSE judgment[i]
    BY <2>3 DEF TypedFiles
  <2>6. QED
    BY <2>2, <2>3, <2>4, <2>5 DEF ItemFiles, IsVerdict
<1>2. CASE WriteTiming
  <2>1. attempt \in Attempts
    BY <1>2 DEF WriteTiming, Goto, TypedProcess
  <2>2. \A i \in Items : timing'[i] = IF i = Item(at) THEN {attempt} ELSE timing[i]
    BY <1>2 DEF WriteTiming, TypedFiles
  <2>3. judgment' = judgment /\ itemMark' = itemMark
    BY <1>2 DEF WriteTiming
  <2>4. QED
    BY <2>1, <2>2, <2>3 DEF ItemFiles, IsVerdict
<1>3. CASE CommitVerdict
  <2> DEFINE v == [answer |-> AnswerOf(Item(at)), judge |-> Item(at)[2], by |-> attempt]
  <2>1. at <= LastItem /\ pc = "marking"
    BY <1>3 DEF CommitVerdict, Goto, Counting
  <2>2. /\ Item(at) \in Items /\ v \in Verdicts
        /\ v.judge = Item(at)[2] /\ v.by = attempt
    BY <2>1, ItemAt
  <2>3. judgment[Item(at)] = {v} /\ timing[Item(at)] = {attempt}
    BY <2>1 DEF Gathering
  <2> HIDE DEF v
  <2>4. judgment[Item(at)] \X timing[Item(at)] = {<<v, v.by>>}
    BY <2>2, <2>3
  <2>5. \A i \in Items :
           itemMark'[i] = IF i = Item(at) THEN judgment[Item(at)] \X timing[Item(at)]
                          ELSE itemMark[i]
    BY <1>3 DEF CommitVerdict, TypedFiles
  <2>6. judgment' = judgment /\ timing' = timing
    BY <1>3 DEF CommitVerdict
  <2>7. ASSUME NEW i \in Items
        PROVE  \/ itemMark'[i] = Missing
               \/ \E w \in Verdicts : w.judge = i[2] /\ itemMark'[i] = {<<w, w.by>>}
    BY <2>2, <2>4, <2>5 DEF ItemFiles
  <2>8. QED
    BY <2>6, <2>7 DEF ItemFiles, IsVerdict
<1>4. CASE BetweenAttempts
  <2>1. ASSUME NEW q \in Queries, Redo(q) PROVE ItemFiles'
    BY <2>1 DEF Redo, judging, ItemFiles, IsVerdict
  <2>2. ASSUME Lose PROVE ItemFiles'
    <3>1. /\ judgment' = judgment \/ \E i \in Items : judgment' = [judgment EXCEPT ![i] = Missing]
          /\ timing' = timing \/ \E i \in Items : timing' = [timing EXCEPT ![i] = Missing]
          /\ itemMark' = itemMark \/ \E i \in Items : itemMark' = [itemMark EXCEPT ![i] = Missing]
      BY <2>2, Zenon DEF Lose, evaluating, reporting
    <3>2. ASSUME NEW i \in Items
          PROVE  /\ judgment'[i] = judgment[i] \/ judgment'[i] = Missing
                 /\ timing'[i] = timing[i] \/ timing'[i] = Missing
                 /\ itemMark'[i] = itemMark[i] \/ itemMark'[i] = Missing
      BY <3>1 DEF TypedFiles
    <3>3. QED
      BY <3>2 DEF ItemFiles, IsVerdict
  <2>3. QED
    BY <1>4, <2>1, <2>2 DEF BetweenAttempts
<1>5. CASE /\ UNCHANGED <<judgment, timing, itemMark>>
  BY <1>5 DEF ItemFiles, IsVerdict
<1>6. ASSUME \/ Begin \/ ReuseVerdict \/ WriteEvaluations \/ CommitJudging
             \/ SkipEvaluating \/ ReuseOutput \/ RunEvaluator \/ WriteOutput \/ CommitOutput
             \/ CommitEvaluating
             \/ SkipReporting \/ WriteReports \/ CommitReporting \/ Interrupt \/ UNCHANGED vars
      PROVE  UNCHANGED <<judgment, timing, itemMark>>
  BY <1>6, Zenon DEF Begin, ReuseVerdict, WriteEvaluations, CommitJudging, SkipEvaluating,
     ReuseOutput, RunEvaluator, WriteOutput, CommitOutput, CommitEvaluating, SkipReporting,
     WriteReports, CommitReporting, Interrupt, vars, judging
<1>7. QED
  BY <1>1, <1>2, <1>3, <1>4, <1>5, <1>6, Steps

\* The items behind the attempt: those it passed stay as it left them, since
\* each is written in its turn and nothing is lost while it goes on.
LEMMA GatheringStep ==
    ASSUME Assumed, TypedFiles, TypedProcess, Counting, Gathering, ItemFiles, JudgingMarked,
           [Next]_vars
    PROVE  Gathering'
<1>0. /\ Cardinality(Items) = LastItem /\ LastItem \in Nat
      /\ \A n \in 1 .. LastItem : Item(n) \in Items
      /\ \A m, n \in 1 .. LastItem : Item(m) = Item(n) => m = n
  BY ItemsCounted, ItemsDiffer, Constants
<1>1. CASE Begin
  <2>1. at' = 1 /\ pc' \in {"judging", "evaluating"}
    BY <1>1 DEF Begin, Goto
  <2>2. \A n \in 1 .. LastItem : ~ (n < 1)
    BY <1>0
  <2>3. QED
    BY <2>1, <2>2 DEF Gathering, AtJudging
<1>2. CASE ReuseVerdict
  <2>1. /\ pc = "judging" /\ pc' = pc /\ at <= LastItem /\ at' = at + 1 /\ ItemValid(Item(at))
        /\ gathered' = [gathered EXCEPT ![Item(at)] = judgment[Item(at)]]
        /\ UNCHANGED <<answers, judgment, timing>>
    BY <1>0, <1>2 DEF ReuseVerdict, judging
  <2>2. at \in 1 .. LastItem
    BY <1>0, <2>1 DEF TypedProcess
  <2>3. Settled(Item(at), judgment, timing, answers)
    BY <1>0, <2>1, <2>2, ValidIsSettled
  <2>4. \A i \in Items : gathered'[i] = IF i = Item(at) THEN judgment[i] ELSE gathered[i]
    BY <2>1 DEF TypedFiles
  <2>5. ASSUME NEW n \in 1 .. LastItem, n < at'
        PROVE  Settled(Item(n), judgment, timing, answers) /\ gathered'[Item(n)] = judgment[Item(n)]
    <3>1. n < at \/ n = at
      BY <2>1, <2>2, <2>5
    <3>2. QED
      BY <1>0, <2>1, <2>3, <2>4, <3>1 DEF Gathering, AtJudging
  <2>6. QED
    BY <2>1, <2>5 DEF Gathering, Settled
<1>3. CASE AskJudge
  <2> DEFINE v == [answer |-> AnswerOf(Item(at)), judge |-> Item(at)[2], by |-> attempt]
  <2>1. /\ pc = "judging" /\ pc' = "timing" /\ at <= LastItem /\ at' = at
        /\ judgment' = [judgment EXCEPT ![Item(at)] = {v}]
        /\ gathered' = [gathered EXCEPT ![Item(at)] = {v}]
        /\ UNCHANGED <<answers, timing, attempt>>
    BY <1>0, <1>3 DEF AskJudge, Goto
  <2>2. at \in 1 .. LastItem /\ Item(at) \in Items
    BY <1>0, <2>1 DEF TypedProcess
  <2> HIDE DEF v
  <2>3. \A i \in Items : /\ judgment'[i] = IF i = Item(at) THEN {v} ELSE judgment[i]
                         /\ gathered'[i] = IF i = Item(at) THEN {v} ELSE gathered[i]
    BY <2>1 DEF TypedFiles
  <2>4. ASSUME NEW n \in 1 .. LastItem, n < at
        PROVE  /\ Settled(Item(n), judgment', timing', answers')
               /\ gathered'[Item(n)] = judgment'[Item(n)]
    <3>1. Item(n) # Item(at) /\ Item(n) \in Items
      BY <1>0, <2>2, <2>4
    <3>2. QED
      BY <2>1, <2>3, <2>4, <3>1 DEF Gathering, AtJudging, Settled
  <2>5. judgment'[Item(at)] = {v} /\ gathered'[Item(at)] = {v}
    BY <2>2, <2>3
  <2>6. v = [answer |-> AnswerOf(Item(at))', judge |-> Item(at)[2], by |-> attempt']
    BY <2>1 DEF v, AnswerOf
  <2>7. QED
    BY <2>1, <2>4, <2>5, <2>6 DEF Gathering, Settled, Item
<1>4. CASE WriteTiming
  <2>1. /\ pc = "timing" /\ pc' = "marking" /\ at' = at
        /\ timing' = [timing EXCEPT ![Item(at)] = {attempt}]
        /\ UNCHANGED <<answers, judgment, gathered, attempt>>
    BY <1>4 DEF WriteTiming, Goto
  <2>2. at \in 1 .. LastItem /\ Item(at) \in Items
    BY <1>0, <2>1 DEF TypedProcess, Counting
  <2>3. \A i \in Items : timing'[i] = IF i = Item(at) THEN {attempt} ELSE timing[i]
    BY <2>1 DEF TypedFiles
  <2>4. ASSUME NEW n \in 1 .. LastItem, n < at
        PROVE  /\ Settled(Item(n), judgment, timing', answers)
               /\ gathered[Item(n)] = judgment[Item(n)]
    <3>1. Item(n) # Item(at) /\ Item(n) \in Items
      BY <1>0, <2>2, <2>4
    <3>2. QED
      BY <2>1, <2>3, <2>4, <3>1 DEF Gathering, AtJudging, Settled
  <2>5. timing'[Item(at)] = {attempt}
    BY <2>2, <2>3
  <2>6. /\ gathered[Item(at)] = judgment[Item(at)]
        /\ judgment[Item(at)] = {[answer |-> AnswerOf(Item(at)), judge |-> Item(at)[2],
                                  by |-> attempt]}
    BY <2>1 DEF Gathering
  <2>7. QED
    BY <2>1, <2>4, <2>5, <2>6 DEF Gathering, Settled, AnswerOf
<1>5. CASE CommitVerdict
  <2> DEFINE v == [answer |-> AnswerOf(Item(at)), judge |-> Item(at)[2], by |-> attempt]
  <2>1. /\ pc = "marking" /\ pc' = "judging" /\ at' = at + 1
        /\ UNCHANGED <<answers, judgment, timing, gathered>>
    BY <1>5 DEF CommitVerdict, Goto
  <2>2. at \in 1 .. LastItem
    BY <1>0, <2>1 DEF TypedProcess, Counting
  <2>3. v \in Verdicts /\ v.judge = Item(at)[2] /\ v.by = attempt /\ v.answer = AnswerOf(Item(at))
    BY <2>1, <2>2, ItemAt
  <2>4. /\ judgment[Item(at)] = {v} /\ timing[Item(at)] = {attempt}
        /\ gathered[Item(at)] = judgment[Item(at)]
    BY <2>1 DEF Gathering
  <2> HIDE DEF v
  <2>5. Settled(Item(at), judgment, timing, answers)
    BY <2>3, <2>4 DEF Settled, AnswerOf
  <2>6. ASSUME NEW n \in 1 .. LastItem, n < at'
        PROVE  Settled(Item(n), judgment, timing, answers) /\ gathered[Item(n)] = judgment[Item(n)]
    <3>1. n < at \/ n = at
      BY <2>1, <2>2, <2>6
    <3>2. QED
      BY <2>1, <2>4, <2>5, <3>1, <2>6 DEF Gathering, AtJudging
  <2>7. QED
    BY <2>1, <2>6 DEF Gathering, Settled
<1>6. CASE WriteEvaluations
  <2>1. /\ pc = "judging" /\ pc' = "gathered" /\ at > LastItem /\ at' = at
        /\ evaluations' = {Evaluation}
        /\ UNCHANGED <<answers, judgment, timing, gathered>>
    BY <1>0, <1>6 DEF WriteEvaluations, Goto
  <2>2. EvaluationsOf({Evaluation}, judgment)
    BY <2>1, EvaluationIs DEF AtJudging
  <2>3. EvaluationsOf(evaluations', judgment')
    BY <2>1, <2>2
  <2>4. \A n \in 1 .. LastItem : n < at =>
              /\ Settled(Item(n), judgment, timing, answers)
              /\ gathered[Item(n)] = judgment[Item(n)]
    BY <2>1 DEF Gathering, AtJudging
  <2>5. QED
    BY <2>1, <2>3, <2>4 DEF Gathering, Settled
<1>7. CASE CommitJudging \/ SkipEvaluating \/ ReuseOutput \/ RunEvaluator \/ WriteOutput
           \/ CommitOutput \/ CommitEvaluating \/ SkipReporting \/ WriteReports
           \/ CommitReporting \/ Interrupt \/ BetweenAttempts
  <2>1. pc' \notin AtJudging
    BY <1>7 DEF CommitJudging, SkipEvaluating, ReuseOutput, RunEvaluator, WriteOutput,
       CommitOutput, CommitEvaluating, SkipReporting, WriteReports, CommitReporting,
       Interrupt, BetweenAttempts, Goto, AtJudging
  <2>2. QED
    BY <2>1 DEF Gathering, AtJudging
<1>8. CASE UNCHANGED vars
  <2>1. UNCHANGED <<pc, at, attempt, answers, judgment, timing, gathered, evaluations>>
    BY <1>8, Zenon DEF vars, judging
  <2>2. QED
    BY <2>1 DEF Gathering, Settled, AnswerOf, EvaluationsOf
<1>9. QED
  BY <1>1, <1>2, <1>3, <1>4, <1>5, <1>6, <1>7, <1>8, Steps

\* The checkpoint of the phase is written of files that are all of one making.
LEMMA JudgingMarkedStep ==
    ASSUME Assumed, TypedProcess, Counting, Gathering, JudgingMarked, [Next]_vars
    PROVE  JudgingMarked'
<1>1. CASE CommitJudging
  <2> DEFINE m == [by |-> attempt, files |-> JudgingFiles]
  <2>1. pc = "gathered" /\ judgingMark' = {m}
    BY <1>1 DEF CommitJudging, Goto
  <2>2. pc \in AtJudging /\ at > LastItem
    BY <2>1, Constants DEF AtJudging, Counting
  <2>3. \A i \in Items : Settled(i, judgment, timing, answers)
    BY <2>2, AllGathered
  <2>4. EvaluationsOf(evaluations, judgment)
    BY <2>1 DEF Gathering
  <2>5. Consistent(JudgingFiles)
    BY <2>3, <2>4 DEF Consistent, JudgingFiles
  <2>6. m.files = JudgingFiles
    OBVIOUS
  <2> HIDE DEF m
  <2>7. QED
    BY <2>1, <2>5, <2>6 DEF JudgingMarked
<1>2. ASSUME ~ CommitJudging PROVE judgingMark' = judgingMark \/ judgingMark' = Missing
  <2>1. CASE Interrupt
    BY <2>1 DEF Interrupt
  <2>2. CASE BetweenAttempts
    BY <2>2 DEF BetweenAttempts, Lose, Redo, judging
  <2>3. CASE Begin \/ ReuseVerdict \/ AskJudge \/ WriteTiming \/ CommitVerdict \/ WriteEvaluations
    BY <2>3, Zenon DEF Begin, ReuseVerdict, AskJudge, WriteTiming, CommitVerdict,
       WriteEvaluations, judging
  <2>4. CASE SkipEvaluating \/ ReuseOutput \/ RunEvaluator \/ WriteOutput \/ CommitOutput
             \/ CommitEvaluating \/ SkipReporting \/ WriteReports \/ CommitReporting
    BY <2>4, Zenon DEF SkipEvaluating, ReuseOutput, RunEvaluator, WriteOutput, CommitOutput,
       CommitEvaluating, SkipReporting, WriteReports, CommitReporting, judging
  <2>5. CASE UNCHANGED vars
    BY <2>5 DEF vars, judging
  <2>6. QED
    BY <1>2, <2>1, <2>2, <2>3, <2>4, <2>5, Steps
<1>3. QED
  BY <1>1, <1>2 DEF JudgingMarked

\* The item, evaluation and timing files do not change once they are judged.
LEMMA JudgedStay ==
    ASSUME pc \in AtEvaluating \cup AtReporting, pc' \in AtEvaluating \cup AtReporting,
           [Next]_vars
    PROVE  UNCHANGED <<answers, judging>>
<1>1. CASE SkipEvaluating \/ ReuseOutput \/ RunEvaluator \/ WriteOutput \/ CommitOutput
           \/ CommitEvaluating \/ SkipReporting \/ WriteReports \/ CommitReporting
  BY <1>1, Zenon DEF SkipEvaluating, ReuseOutput, RunEvaluator, WriteOutput, CommitOutput,
     CommitEvaluating, SkipReporting, WriteReports, CommitReporting
<1>2. CASE UNCHANGED vars
  BY <1>2 DEF vars
<1>3. ~ (Begin \/ ReuseVerdict \/ AskJudge \/ WriteTiming \/ CommitVerdict
         \/ WriteEvaluations \/ CommitJudging \/ Interrupt \/ BetweenAttempts)
  BY DEF Begin, ReuseVerdict, AskJudge, WriteTiming, CommitVerdict, WriteEvaluations,
     CommitJudging, Interrupt, BetweenAttempts, Goto, AtEvaluating, AtReporting
<1>4. QED
  BY <1>1, <1>2, <1>3, Steps

\* What is judged is settled while the evaluators run, so what they make of it
\* is what they would make of the evaluations.
LEMMA EvaluatedIs ==
    ASSUME Assumed, TypedFiles, JudgingMarked, JudgingValid
    PROVE  /\ \A name \in Names : Evaluated(name) = OutputOf(name, evaluations)
           /\ judgingMark # Missing
           /\ \E j : judgingMark = {j} /\ j.files.evaluations = evaluations
                     /\ j.files.timing = timing
<1>1. \A name \in Names : Evaluated(name) = OutputOf(name, evaluations)
  BY CurrentJudging, OutputsFollow
<1>2. PICK j : judgingMark = {j}
  BY DEF JudgingMarked, JudgingValid
<1>3. j.files = JudgingFiles
  BY <1>2, TheIs DEF JudgingValid
<1>4. j.files.evaluations = evaluations /\ j.files.timing = timing
  BY <1>3 DEF JudgingFiles
<1>5. QED
  BY <1>1, <1>2, <1>4 DEF JudgingValid

\* The checkpoint of an evaluator is of what it made of the evaluations it is of.
LEMMA OutputMarkedStep ==
    ASSUME Assumed, TypedFiles, TypedProcess, Counting, JudgingMarked, OutputMarked, Behind,
           [Next]_vars
    PROVE  OutputMarked'
<1>1. CASE CommitOutput
  <2>1. /\ pc = "outputting" /\ outputMark' = [outputMark EXCEPT ![Requirements[at]] =
                                                   {OutputFiles(Requirements[at])}]
    BY <1>1, Zenon DEF CommitOutput, Goto
  <2>2. at \in 1 .. Len(Requirements)
    BY <2>1, RequirementsAre DEF TypedProcess, Counting
  <2>3. Requirements[at] \in Names
    BY <2>2, RequirementsAre
  <2>4. /\ output[Requirements[at]] = OutputOf(Requirements[at], evaluations)
        /\ Requirements[at] = "analysis_rows" => rows = OutputOf("analysis_rows", evaluations)
    BY <2>1 DEF Behind
  <2>5. OutputFiles(Requirements[at]) =
           [evaluations |-> evaluations, output |-> OutputOf(Requirements[at], evaluations),
            rows |-> IF Requirements[at] = "analysis_rows"
                     THEN OutputOf(Requirements[at], evaluations) ELSE Missing]
    BY <2>4 DEF OutputFiles
  <2>6. \A name \in Names :
           outputMark'[name] = IF name = Requirements[at] THEN {OutputFiles(name)}
                               ELSE outputMark[name]
    BY <2>1, <2>3 DEF TypedFiles
  <2>7. ASSUME NEW name \in Names
        PROVE  \/ outputMark'[name] = Missing
               \/ \E evals :
                     outputMark'[name] =
                        {[evaluations |-> evals, output |-> OutputOf(name, evals),
                          rows |-> IF name = "analysis_rows" THEN OutputOf(name, evals)
                                   ELSE Missing]}
    <3>1. CASE name = Requirements[at]
      <4>1. outputMark'[name] = {OutputFiles(name)}
        BY <2>6, <3>1
      <4>2. OutputFiles(name) =
               [evaluations |-> evaluations, output |-> OutputOf(name, evaluations),
                rows |-> IF name = "analysis_rows" THEN OutputOf(name, evaluations) ELSE Missing]
        BY <2>5, <3>1
      <4>3. QED
        BY <4>1, <4>2
    <3>2. CASE name # Requirements[at]
      <4>1. outputMark'[name] = outputMark[name]
        BY <2>6, <3>2
      <4>2. QED
        BY <4>1 DEF OutputMarked
    <3>3. QED
      BY <3>1, <3>2
  <2>8. QED
    BY <2>7, Zenon DEF OutputMarked
<1>2. ASSUME ~ CommitOutput PROVE outputMark' = outputMark
  <2>1. CASE BetweenAttempts
    BY <2>1, Zenon DEF BetweenAttempts, Lose, Redo, evaluating
  <2>2. CASE Begin \/ ReuseVerdict \/ AskJudge \/ WriteTiming \/ CommitVerdict
             \/ WriteEvaluations \/ CommitJudging \/ SkipEvaluating \/ ReuseOutput
             \/ RunEvaluator \/ WriteOutput \/ CommitEvaluating \/ SkipReporting
             \/ WriteReports \/ CommitReporting \/ Interrupt \/ UNCHANGED vars
    BY <2>2, Zenon DEF Begin, ReuseVerdict, AskJudge, WriteTiming, CommitVerdict,
       WriteEvaluations, CommitJudging, SkipEvaluating, ReuseOutput, RunEvaluator,
       WriteOutput, CommitEvaluating, SkipReporting, WriteReports, CommitReporting,
       Interrupt, vars, evaluating
  <2>3. QED
    BY <1>2, <2>1, <2>2, Steps
<1>3. CASE outputMark' = outputMark
  BY <1>3, Zenon DEF OutputMarked
<1>4. QED
  BY <1>1, <1>2, <1>3

\* Outputs that are valid are made of the evaluations that are there.
LEMMA OutputsValid ==
    ASSUME OutputMarked, NEW name \in Names, OutputValid(name)
    PROVE  /\ output[name] = OutputOf(name, evaluations)
           /\ name = "analysis_rows" => rows = OutputOf(name, evaluations)
<1>1. outputMark[name] = {OutputFiles(name)}
  BY DEF OutputValid
<1>2. PICK evals :
        outputMark[name] =
            {[evaluations |-> evals, output |-> OutputOf(name, evals),
              rows |-> IF name = "analysis_rows" THEN OutputOf(name, evals) ELSE Missing]}
  BY <1>1 DEF OutputMarked, Missing
<1>3. OutputFiles(name) =
        [evaluations |-> evals, output |-> OutputOf(name, evals),
         rows |-> IF name = "analysis_rows" THEN OutputOf(name, evals) ELSE Missing]
  BY <1>1, <1>2
<1>4. /\ OutputFiles(name).evaluations = evaluations
      /\ OutputFiles(name).output = output[name]
      /\ name = "analysis_rows" => OutputFiles(name).rows = rows
  BY DEF OutputFiles
<1>5. QED
  BY <1>3, <1>4

\* The checkpoint of EVALUATING is of outputs made of the evaluations that the
\* JUDGING checkpoint it names lists.
LEMMA EvaluatingMarkedStep ==
    ASSUME Assumed, TypedFiles, TypedProcess, Counting, JudgingMarked, OutputMarked,
           EvaluatingMarked, Behind, [Next]_vars
    PROVE  EvaluatingMarked'
<1>1. CASE CommitEvaluating
  <2> DEFINE m == [by |-> attempt, files |-> EvaluatingFiles]
  <2>1. pc = "evaluating" /\ at > Len(Requirements) /\ evaluatingMark' = {m}
    BY <1>1, Zenon DEF CommitEvaluating, Goto
  <2>2. JudgingValid
    BY <2>1 DEF Behind, AtEvaluating
  <2>3. PICK j : judgingMark = {j} /\ j.files.evaluations = evaluations
    BY <2>2, EvaluatedIs
  <2>4. \A k \in 1 .. Len(Requirements) : OutputValid(Requirements[k])
    BY <2>1, RequirementsAre DEF Behind, AtEvaluating, TypedProcess
  <2>5. \A name \in Names : OutputValid(name)
    BY <2>4, RequirementsAre
  <2>6. \A name \in Names : output[name] = OutputOf(name, evaluations)
    BY <2>5, OutputsValid
  <2>7. rows = OutputOf("analysis_rows", evaluations)
    BY <2>5, OutputsValid, RequirementsAre
  <2>8. m.files.output = output /\ m.files.rows = rows /\ m.files.judging = {j}
    BY <2>3 DEF EvaluatingFiles
  <2> HIDE DEF m
  <2>9. EvaluatedOf(m.files, j.files.evaluations)
    BY <2>3, <2>6, <2>7, <2>8 DEF EvaluatedOf
  <2>10. QED
    BY <2>1, <2>8, <2>9 DEF EvaluatingMarked
<1>2. ASSUME ~ CommitEvaluating PROVE evaluatingMark' = evaluatingMark \/ evaluatingMark' = Missing
  <2>1. CASE Interrupt
    BY <2>1 DEF Interrupt
  <2>2. CASE BetweenAttempts
    BY <2>2, Zenon DEF BetweenAttempts, Lose, Redo, evaluating
  <2>3. CASE Begin \/ ReuseVerdict \/ AskJudge \/ WriteTiming \/ CommitVerdict
             \/ WriteEvaluations \/ CommitJudging \/ SkipEvaluating \/ ReuseOutput
             \/ RunEvaluator \/ WriteOutput \/ CommitOutput \/ SkipReporting
             \/ WriteReports \/ CommitReporting \/ UNCHANGED vars
    BY <2>3, Zenon DEF Begin, ReuseVerdict, AskJudge, WriteTiming, CommitVerdict,
       WriteEvaluations, CommitJudging, SkipEvaluating, ReuseOutput, RunEvaluator,
       WriteOutput, CommitOutput, SkipReporting, WriteReports, CommitReporting,
       vars, evaluating
  <2>4. QED
    BY <1>2, <2>1, <2>2, <2>3, Steps
<1>3. CASE evaluatingMark' = evaluatingMark \/ evaluatingMark' = Missing
  BY <1>3, Zenon DEF EvaluatingMarked
<1>4. QED
  BY <1>1, <1>2, <1>3

\* A valid checkpoint of EVALUATING is of the JUDGING checkpoint that is there.
LEMMA CurrentEvaluating ==
    ASSUME Assumed, TypedFiles, JudgingMarked, EvaluatingMarked, JudgingValid, EvaluatingValid
    PROVE  \E m, j : /\ evaluatingMark = {m} /\ judgingMark = {j} /\ m.files.judging = {j}
                     /\ j.files.evaluations = evaluations /\ j.files.timing = timing
                     /\ m.files.output = output /\ m.files.rows = rows
                     /\ EvaluatedOf(m.files, evaluations)
<1>1. PICK j : judgingMark = {j} /\ j.files.evaluations = evaluations /\ j.files.timing = timing
  BY EvaluatedIs
<1>2. PICK m, i : /\ evaluatingMark = {m} /\ m.files.judging = {i}
                  /\ EvaluatedOf(m.files, i.files.evaluations)
  BY DEF EvaluatingMarked, EvaluatingValid
<1>3. m.files = EvaluatingFiles
  BY <1>2, TheIs DEF EvaluatingValid
<1>4. m.files.judging = judgingMark /\ m.files.output = output /\ m.files.rows = rows
  BY <1>3 DEF EvaluatingFiles
<1>5. i = j
  BY <1>1, <1>2, <1>4
<1>6. QED
  BY <1>1, <1>2, <1>4, <1>5

LEMMA ReportingMarkedStep ==
    ASSUME Assumed, TypedFiles, JudgingMarked, EvaluatingMarked, ReportingMarked, Behind,
           [Next]_vars
    PROVE  ReportingMarked'
<1>1. CASE CommitReporting
  <2>1. pc = "committing" /\ reportingMark' = {[evaluating |-> evaluatingMark, report |-> report]}
    BY <1>1, Zenon DEF CommitReporting, Goto
  <2>2. /\ JudgingValid /\ EvaluatingValid
        /\ report = {[evaluations |-> evaluations, timing |-> timing, output |-> output]}
    BY <2>1 DEF Behind, AtReporting
  <2>3. PICK m, j : /\ evaluatingMark = {m} /\ m.files.judging = {j}
                    /\ j.files.evaluations = evaluations /\ j.files.timing = timing
                    /\ m.files.output = output
    BY <2>2, CurrentEvaluating
  <2>4. reportingMark' =
           {[evaluating |-> {m},
             report |-> {[evaluations |-> j.files.evaluations, timing |-> j.files.timing,
                          output |-> m.files.output]}]}
    BY <2>1, <2>2, <2>3
  <2>5. QED
    BY <2>3, <2>4 DEF ReportingMarked
<1>2. ASSUME ~ CommitReporting PROVE reportingMark' = reportingMark \/ reportingMark' = Missing
  <2>1. CASE Interrupt
    BY <2>1 DEF Interrupt
  <2>2. CASE BetweenAttempts
    BY <2>2, Zenon DEF BetweenAttempts, Lose, Redo, reporting
  <2>3. CASE Begin \/ ReuseVerdict \/ AskJudge \/ WriteTiming \/ CommitVerdict
             \/ WriteEvaluations \/ CommitJudging \/ SkipEvaluating \/ ReuseOutput
             \/ RunEvaluator \/ WriteOutput \/ CommitOutput \/ CommitEvaluating
             \/ SkipReporting \/ WriteReports \/ UNCHANGED vars
    BY <2>3, Zenon DEF Begin, ReuseVerdict, AskJudge, WriteTiming, CommitVerdict,
       WriteEvaluations, CommitJudging, SkipEvaluating, ReuseOutput, RunEvaluator,
       WriteOutput, CommitOutput, CommitEvaluating, SkipReporting, WriteReports,
       vars, reporting
  <2>4. QED
    BY <1>2, <2>1, <2>2, <2>3, Steps
<1>3. CASE reportingMark' = reportingMark \/ reportingMark' = Missing
  BY <1>3, Zenon DEF ReportingMarked
<1>4. QED
  BY <1>1, <1>2, <1>3

\* A report that is reused was made of what is there.
LEMMA ReportReused ==
    ASSUME Assumed, TypedFiles, JudgingMarked, EvaluatingMarked, ReportingMarked,
           JudgingValid, EvaluatingValid, ReportingValid
    PROVE  report = {[evaluations |-> evaluations, timing |-> timing, output |-> output]}
<1>1. PICK m, j : /\ evaluatingMark = {m} /\ m.files.judging = {j}
                  /\ j.files.evaluations = evaluations /\ j.files.timing = timing
                  /\ m.files.output = output
  BY CurrentEvaluating
<1>2. reportingMark = {[evaluating |-> {m}, report |-> report]}
  BY <1>1 DEF ReportingValid
<1>3. PICK n, i : /\ n.files.judging = {i}
                  /\ reportingMark =
                       {[evaluating |-> {n},
                         report |-> {[evaluations |-> i.files.evaluations,
                                      timing |-> i.files.timing, output |-> n.files.output]}]}
  BY <1>2 DEF ReportingMarked, Missing
<1>4. [evaluating |-> {m}, report |-> report] =
        [evaluating |-> {n},
         report |-> {[evaluations |-> i.files.evaluations, timing |-> i.files.timing,
                      output |-> n.files.output]}]
  BY <1>2, <1>3
<1>5. /\ {m} = {n}
      /\ report = {[evaluations |-> i.files.evaluations, timing |-> i.files.timing,
                    output |-> n.files.output]}
  BY <1>4
<1>6. m = n /\ i = j
  BY <1>1, <1>3, <1>5
<1>7. QED
  BY <1>1, <1>5, <1>6

\* What is valid stays valid as long as the files it depends on stay.
LEMMA ValidStays ==
    /\ UNCHANGED <<answers, judging>> => JudgingValid' = JudgingValid
    /\ UNCHANGED <<judgingMark, evaluating>> => EvaluatingValid' = EvaluatingValid
    /\ \A name : /\ UNCHANGED <<evaluations, output, outputMark>>
                 /\ name = "analysis_rows" => rows' = rows
                 => OutputValid(name)' = OutputValid(name)
<1>1. UNCHANGED <<answers, judging>> => JudgingValid' = JudgingValid
  BY Zenon DEF judging, JudgingValid, JudgingFiles
<1>2. UNCHANGED <<judgingMark, evaluating>> => EvaluatingValid' = EvaluatingValid
  BY Zenon DEF evaluating, EvaluatingValid, EvaluatingFiles
<1>3. ASSUME NEW name, UNCHANGED <<evaluations, output, outputMark>>,
             name = "analysis_rows" => rows' = rows
      PROVE  OutputValid(name)' = OutputValid(name)
  <2>1. OutputFiles(name)' = OutputFiles(name)
    BY <1>3 DEF OutputFiles
  <2>2. QED
    BY <1>3, <2>1, Zenon DEF OutputValid
<1>4. QED
  BY <1>1, <1>2, <1>3

LEMMA BehindStep ==
    ASSUME Assumed, TypedFiles, TypedProcess, Counting, Gathering, JudgingMarked,
           OutputMarked, EvaluatingMarked, ReportingMarked, Behind, [Next]_vars
    PROVE  Behind'
<1> DEFINE Shown == [evaluations |-> evaluations, timing |-> timing, output |-> output]
<1>0. Len(Requirements) = 3 /\ at \in Nat \ {0}
  BY RequirementsAre DEF TypedProcess
<1>1. CASE Begin
  <2>1. /\ pc' \in {"judging", "evaluating"} /\ (pc' = "evaluating" => JudgingValid) /\ at' = 1
        /\ UNCHANGED <<answers, judging>>
    BY <1>1 DEF Begin, Goto
  <2>2. pc' = "evaluating" => JudgingValid'
    BY <2>1, ValidStays
  <2>3. \A k \in 1 .. Len(Requirements) : ~ (k < at')
    BY <2>1
  <2>4. QED
    BY <2>1, <2>2, <2>3 DEF Behind, AtEvaluating, AtReporting
<1>2. CASE CommitJudging
  <2>1. /\ pc' = "evaluating" /\ at' = 1
        /\ judgingMark' = {[by |-> attempt, files |-> JudgingFiles]}
        /\ UNCHANGED <<answers, judgment, timing, itemMark, evaluations>>
    BY <1>2, Zenon DEF CommitJudging, Goto
  <2>2. JudgingFiles' = JudgingFiles
    BY <2>1 DEF JudgingFiles
  <2>3. The(judgingMark') = [by |-> attempt, files |-> JudgingFiles]
    BY <2>1, TheIs
  <2>4. JudgingValid'
    <3>1. The(judgingMark').files = JudgingFiles'
      BY <2>2, <2>3
    <3>2. judgingMark' # Missing
      BY <2>1 DEF Missing
    <3>3. QED
      BY <3>1, <3>2 DEF JudgingValid, Missing, The
  <2>5. \A k \in 1 .. Len(Requirements) : ~ (k < at')
    BY <2>1
  <2>6. QED
    BY <2>1, <2>4, <2>5 DEF Behind, AtEvaluating, AtReporting
<1>3. CASE SkipEvaluating
  <2>1. /\ pc = "evaluating" /\ pc' = "reporting" /\ EvaluatingValid
        /\ UNCHANGED <<answers, judging, judgingMark, evaluating>>
    BY <1>3, Zenon DEF SkipEvaluating, Goto, judging
  <2>2. JudgingValid' /\ EvaluatingValid'
    BY <2>1, ValidStays DEF Behind, AtEvaluating
  <2>3. QED
    BY <2>1, <2>2 DEF Behind, AtEvaluating, AtReporting
<1>4. CASE ReuseOutput
  <2>1. /\ pc = "evaluating" /\ pc' = "evaluating" /\ at' = at + 1 /\ at <= 3
        /\ OutputValid(Requirements[at])
        /\ UNCHANGED <<answers, judging, evaluations, output, outputMark, rows>>
    BY <1>0, <1>4 DEF ReuseOutput, judging, evaluating
  <2>2. JudgingValid'
    BY <2>1, ValidStays DEF Behind, AtEvaluating
  <2>3. ASSUME NEW k \in 1 .. Len(Requirements), k < at'
        PROVE  OutputValid(Requirements[k])'
    <3>1. k < at \/ k = at
      BY <1>0, <2>1, <2>3
    <3>2. OutputValid(Requirements[k])
      BY <2>1, <3>1 DEF Behind, AtEvaluating
    <3>3. QED
      BY <2>1, <3>2, ValidStays
  <2>4. QED
    BY <2>1, <2>2, <2>3 DEF Behind, AtEvaluating, AtReporting
<1>5. CASE RunEvaluator
  <2>1. /\ pc = "evaluating" /\ pc' = "evaluated" /\ at' = at /\ at <= 3
        /\ rows' = IF Requirements[at] = "analysis_rows" THEN Evaluated(Requirements[at]) ELSE rows
        /\ UNCHANGED <<answers, judging, evaluations, output, outputMark>>
    BY <1>0, <1>5 DEF RunEvaluator, judging, Goto
  <2>2. JudgingValid /\ JudgingValid'
    BY <2>1, ValidStays DEF Behind, AtEvaluating
  <2>3. at \in 1 .. Len(Requirements) /\ Requirements[at] \in Names
    BY <1>0, <2>1, RequirementsAre
  <2>4. Requirements[at] = "analysis_rows" => rows' = OutputOf("analysis_rows", evaluations)
    BY <2>1, <2>2, <2>3, EvaluatedIs
  <2>5. ASSUME NEW k \in 1 .. Len(Requirements), k < at
        PROVE  OutputValid(Requirements[k])'
    <3>1. k # at /\ Requirements[k] # Requirements[at]
      BY <1>0, <2>3, <2>5, RequirementsAre
    <3>2. Requirements[k] = "analysis_rows" => rows' = rows
      BY <2>1, <3>1
    <3>3. OutputValid(Requirements[k])
      BY <2>1, <2>5 DEF Behind, AtEvaluating
    <3>4. QED
      BY <2>1, <3>2, <3>3, ValidStays
  <2>6. Requirements[at'] = "analysis_rows" => rows' = OutputOf("analysis_rows", evaluations')
    BY <2>1, <2>4
  <2>7. QED
    BY <2>1, <2>2, <2>5, <2>6 DEF Behind, AtEvaluating, AtReporting, OutputOf, The
<1>6. CASE WriteOutput
  <2>1. /\ pc = "evaluated" /\ pc' = "outputting" /\ at' = at
        /\ output' = [output EXCEPT ![Requirements[at]] = Evaluated(Requirements[at])]
        /\ UNCHANGED <<answers, judging, evaluations, rows, outputMark>>
    BY <1>6 DEF WriteOutput, judging, Goto
  <2>2. JudgingValid /\ JudgingValid'
    BY <2>1, ValidStays DEF Behind, AtEvaluating
  <2>3. at \in 1 .. Len(Requirements) /\ Requirements[at] \in Names
    BY <1>0, <2>1, RequirementsAre DEF Counting
  <2>4. output'[Requirements[at]] = OutputOf(Requirements[at], evaluations)
    BY <2>1, <2>2, <2>3, EvaluatedIs DEF TypedFiles
  <2>5. Requirements[at] = "analysis_rows" => rows = OutputOf("analysis_rows", evaluations)
    BY <2>1 DEF Behind
  <2>6. ASSUME NEW k \in 1 .. Len(Requirements), k < at
        PROVE  OutputValid(Requirements[k])'
    <3>1. k # at /\ Requirements[k] # Requirements[at]
      BY <1>0, <2>3, <2>6, RequirementsAre
    <3>2. output'[Requirements[k]] = output[Requirements[k]]
      BY <2>1, <3>1, RequirementsAre DEF TypedFiles
    <3>3. OutputValid(Requirements[k])
      BY <2>1, <2>6 DEF Behind, AtEvaluating
    <3>4. OutputFiles(Requirements[k])' = OutputFiles(Requirements[k])
      BY <2>1, <3>2 DEF OutputFiles
    <3>5. QED
      BY <2>1, <3>3, <3>4, Zenon DEF OutputValid
  <2>7. output'[Requirements[at']] = OutputOf(Requirements[at'], evaluations')
    BY <2>1, <2>4
  <2>8. Requirements[at'] = "analysis_rows" => rows' = OutputOf("analysis_rows", evaluations')
    BY <2>1, <2>5
  <2>9. QED
    BY <2>1, <2>2, <2>6, <2>7, <2>8 DEF Behind, AtEvaluating, AtReporting, OutputOf, The
<1>7. CASE CommitOutput
  <2>1. /\ pc = "outputting" /\ pc' = "evaluating" /\ at' = at + 1
        /\ outputMark' = [outputMark EXCEPT ![Requirements[at]] = {OutputFiles(Requirements[at])}]
        /\ UNCHANGED <<answers, judging, evaluations, rows, output>>
    BY <1>7 DEF CommitOutput, judging, Goto
  <2>2. JudgingValid'
    BY <2>1, ValidStays DEF Behind, AtEvaluating
  <2>3. at \in 1 .. Len(Requirements) /\ Requirements[at] \in Names
    BY <1>0, <2>1, RequirementsAre DEF Counting
  <2>4. \A name : OutputFiles(name)' = OutputFiles(name)
    BY <2>1 DEF OutputFiles
  <2>5. ASSUME NEW k \in 1 .. Len(Requirements), k < at'
        PROVE  OutputValid(Requirements[k])'
    <3>1. CASE k = at
      <4>1. outputMark'[Requirements[at]] = {OutputFiles(Requirements[at])}
        BY <2>1, <2>3 DEF TypedFiles
      <4>2. QED
        BY <3>1, <4>1, <2>4, Zenon DEF OutputValid
    <3>2. CASE k < at
      <4>1. Requirements[k] # Requirements[at] /\ Requirements[k] \in Names
        BY <2>3, <3>2, RequirementsAre
      <4>2. outputMark'[Requirements[k]] = outputMark[Requirements[k]]
        BY <2>1, <4>1 DEF TypedFiles
      <4>3. OutputValid(Requirements[k])
        BY <2>1, <3>2 DEF Behind, AtEvaluating
      <4>4. QED
        BY <4>2, <4>3, <2>4, Zenon DEF OutputValid
    <3>3. QED
      BY <1>0, <2>1, <2>5, <3>1, <3>2
  <2>6. QED
    BY <2>1, <2>2, <2>5 DEF Behind, AtEvaluating, AtReporting
<1>8. CASE CommitEvaluating
  <2>1. /\ pc = "evaluating" /\ pc' = "reporting"
        /\ evaluatingMark' = {[by |-> attempt, files |-> EvaluatingFiles]}
        /\ UNCHANGED <<answers, judging, judgingMark, output, rows, outputMark>>
    BY <1>8, Zenon DEF CommitEvaluating, Goto, judging
  <2>2. JudgingValid'
    BY <2>1, ValidStays DEF Behind, AtEvaluating
  <2>3. EvaluatingFiles' = EvaluatingFiles
    BY <2>1 DEF EvaluatingFiles
  <2>4. The(evaluatingMark') = [by |-> attempt, files |-> EvaluatingFiles]
    BY <2>1, TheIs
  <2>5. The(evaluatingMark').files = EvaluatingFiles' /\ evaluatingMark' # Missing
    BY <2>1, <2>3, <2>4 DEF Missing
  <2>6. EvaluatingValid'
    BY <2>5 DEF EvaluatingValid, Missing, The
  <2>7. QED
    BY <2>1, <2>2, <2>6 DEF Behind, AtEvaluating, AtReporting
<1>9. CASE SkipReporting \/ WriteReports \/ CommitReporting
  <2>1. /\ pc \in AtReporting /\ pc' \in AtReporting
        /\ UNCHANGED <<answers, judging, judgingMark, evaluating, evaluations, timing, output>>
    BY <1>9, Zenon DEF SkipReporting, WriteReports, CommitReporting, Goto, AtReporting,
       judging, evaluating
  <2>2. JudgingValid /\ EvaluatingValid /\ JudgingValid' /\ EvaluatingValid'
    BY <2>1, ValidStays DEF Behind
  <2>3. CASE SkipReporting
    <3>1. report = {Shown} /\ report' = report
      BY <2>2, <2>3, ReportReused DEF SkipReporting, reporting
    <3>2. QED
      BY <2>1, <2>2, <3>1 DEF Behind, AtEvaluating, AtReporting
  <2>4. CASE WriteReports
    <3>1. report' = {Shown}
      BY <2>4 DEF WriteReports
    <3>2. QED
      BY <2>1, <2>2, <3>1 DEF Behind, AtEvaluating, AtReporting
  <2>5. CASE CommitReporting
    <3>1. report = {Shown} /\ report' = report
      BY <2>5 DEF CommitReporting, Goto, Behind
    <3>2. QED
      BY <2>1, <2>2, <3>1 DEF Behind, AtEvaluating, AtReporting
  <2>6. QED
    BY <1>9, <2>3, <2>4, <2>5
<1>10. CASE \/ ReuseVerdict \/ AskJudge \/ WriteTiming \/ CommitVerdict \/ WriteEvaluations
            \/ Interrupt \/ BetweenAttempts
  <2>1. pc' \notin AtEvaluating \cup AtReporting
    BY <1>10 DEF ReuseVerdict, AskJudge, WriteTiming, CommitVerdict, WriteEvaluations,
       Interrupt, BetweenAttempts, Goto, AtEvaluating, AtReporting
  <2>2. QED
    BY <2>1 DEF Behind, AtEvaluating, AtReporting
<1>11. CASE UNCHANGED vars
  <2>1. UNCHANGED <<pc, at, answers, judging, judgingMark, evaluating, evaluations, timing,
                    output, rows, outputMark, report>>
    BY <1>11, Zenon DEF vars, judging, evaluating, reporting
  <2>2. /\ JudgingValid' = JudgingValid /\ EvaluatingValid' = EvaluatingValid
        /\ \A name : OutputValid(name)' = OutputValid(name)
    BY <2>1, ValidStays
  <2>3. QED
    BY <2>1, <2>2 DEF Behind, OutputOf, The
<1>12. QED
  BY <1>1, <1>2, <1>3, <1>4, <1>5, <1>6, <1>7, <1>8, <1>9, <1>10, <1>11, Steps

LEMMA Initial ==
    ASSUME Assumed, Init
    PROVE  IInv
<1>1. /\ MaxFaults \in Nat /\ LastItem \in Nat /\ Len(Requirements) = 3
  BY Constants, RequirementsAre
<1>2. TypedFiles
  BY <1>1 DEF Init, TypedFiles, Answers, Done, Missing
<1>3. TypedProcess /\ Counting
  BY <1>1 DEF Init, TypedProcess, Counting, Places, AtJudging, AtEvaluating, AtReporting
<1>4. ItemFiles
  BY DEF Init, ItemFiles
<1>5. Gathering
  BY DEF Init, Gathering, AtJudging
<1>6. JudgingMarked /\ OutputMarked /\ EvaluatingMarked /\ ReportingMarked
  BY DEF Init, JudgingMarked, OutputMarked, EvaluatingMarked, ReportingMarked
<1>7. Behind
  BY DEF Init, Behind, AtEvaluating, AtReporting
<1>8. QED
  BY <1>2, <1>3, <1>4, <1>5, <1>6, <1>7 DEF IInv

LEMMA Inductive ==
    ASSUME Assumed, IInv, [Next]_vars
    PROVE  IInv'
<1>1. /\ TypedFiles /\ TypedProcess /\ ItemFiles /\ Counting /\ Gathering
      /\ JudgingMarked /\ OutputMarked /\ EvaluatingMarked /\ ReportingMarked /\ Behind
  BY DEF IInv
<1>2. TypedFiles' /\ TypedProcess' /\ Counting'
  BY <1>1, TypedFilesStep, TypedProcessStep
<1>3. ItemFiles' /\ Gathering'
  BY <1>1, ItemFilesStep, GatheringStep
<1>4. JudgingMarked' /\ OutputMarked' /\ EvaluatingMarked' /\ ReportingMarked'
  BY <1>1, JudgingMarkedStep, OutputMarkedStep, EvaluatingMarkedStep, ReportingMarkedStep
<1>5. Behind'
  BY <1>1, BehindStep
<1>6. QED
  BY <1>2, <1>3, <1>4, <1>5 DEF IInv

LEMMA Invariant ==
    ASSUME Assumed
    PROVE  Spec => []IInv
<1>1. Init => IInv
  BY Initial
<1>2. IInv /\ [Next]_vars => IInv'
  BY Inductive
<1>3. QED
  BY <1>1, <1>2, PTL DEF Spec

-----------------------------------------------------------------------------
(* The theorems. *)

\* Type correctness: the files hold verdicts on answers that were given, the
\* attempts are counted, and the count of an attempt stays within its items or
\* its evaluators.
THEOREM TypeCorrect ==
    ASSUME Assumed
    PROVE  Spec => []TypeOK
<1>1. ASSUME IInv PROVE TypeOK
  <2>1. \A x : IsFiniteSet({x}) /\ Cardinality({x}) = 1
    BY FS_Singleton
  <2>2. Cardinality({}) = 0
    BY FS_EmptySet
  <2>3. ASSUME NEW i \in Items
        PROVE  /\ judgment[i] \subseteq Verdicts /\ Cardinality(judgment[i]) <= 1
               /\ timing[i] \subseteq Attempts /\ Cardinality(timing[i]) <= 1
               /\ itemMark[i] \subseteq Verdicts \X Attempts
    <3>1. judgment[i] = {} \/ \E v : judgment[i] = {v}
      BY <1>1 DEF IInv, ItemFiles, IsVerdict, Missing
    <3>2. timing[i] = {} \/ \E t : timing[i] = {t}
      BY <1>1 DEF IInv, ItemFiles, Missing
    <3>3. /\ Cardinality(judgment[i]) = 0 \/ Cardinality(judgment[i]) = 1
          /\ Cardinality(timing[i]) = 0 \/ Cardinality(timing[i]) = 1
      BY <2>1, <2>2, <3>1, <3>2, Zenon
    <3>4. QED
      BY <1>1, <3>3 DEF IInv, TypedFiles
  <2>4. evaluations = Missing \/ The(evaluations) \in Evaluations
    BY <1>1, TheIs DEF IInv, TypedFiles
  <2>5. Cardinality(Items) = LastItem /\ LastItem \in Nat /\ Len(Requirements) = 3
    BY Constants, ItemsCounted, RequirementsAre
  <2>6. at \in 1 .. Cardinality(Items) + 1 \/ at \in 1 .. Len(Requirements) + 1
    BY <1>1, <2>5 DEF IInv, TypedProcess
  <2>7. /\ pc \in {"idle", "judging", "timing", "marking", "gathered", "evaluating",
                   "evaluated", "outputting", "reporting", "committing", "reported"}
        /\ answers \in Answers /\ attempt \in 0 .. MaxFaults + 1 /\ faults \in 0 .. MaxFaults
    BY <1>1 DEF IInv, TypedProcess, TypedFiles, Places, AtJudging, AtEvaluating, AtReporting
  <2>8. QED
    BY <2>3, <2>4, <2>6, <2>7 DEF TypeOK
<1>2. QED
  BY <1>1, Invariant, PTL

\* A reported run reports, for every question and judge, the verdict on the
\* answer the run holds now, as it is in the judgment files and with the time
\* that very verdict took: whatever was reused of earlier attempts, and whatever
\* was redone or lost between them.
THEOREM VerdictsReported ==
    ASSUME Assumed
    PROVE  Spec => []VerdictsAsJudged
<1>1. ASSUME IInv PROVE VerdictsAsJudged
  <2> SUFFICES ASSUME pc = "reported" PROVE VerdictsAsJudged
    BY DEF VerdictsAsJudged
  <2>1. JudgingMarked /\ JudgingValid
    BY <1>1 DEF IInv, Behind, AtReporting
  <2>2. /\ \A i \in Items : Settled(i, judgment, timing, answers)
        /\ EvaluationsOf(evaluations, judgment)
    BY <2>1, CurrentJudging
  <2>3. PICK e \in Evaluations :
          /\ evaluations = {e}
          /\ \A q \in Queries : \A j \in Judges : judgment[<<q, j>>] = {e[q].judges[j]}
    BY <2>2 DEF EvaluationsOf
  <2>4. The(evaluations) = e
    BY <2>3, TheIs
  <2>5. report = {[evaluations |-> evaluations, timing |-> timing, output |-> output]}
    BY <1>1 DEF IInv, Behind
  <2>6. The(report) = [evaluations |-> evaluations, timing |-> timing, output |-> output]
    BY <2>5, TheIs
  <2>7. The(report).evaluations = evaluations /\ The(report).timing = timing
    BY <2>6
  <2>8. ASSUME NEW i \in Items
        PROVE  /\ judgment[i] = {e[i[1]].judges[i[2]]}
               /\ e[i[1]].judges[i[2]].answer = AnswerOf(i)
               /\ e[i[1]].judges[i[2]].judge = i[2]
               /\ timing[i] = {e[i[1]].judges[i[2]].by}
    <3>1. i[1] \in Queries /\ i[2] \in Judges /\ i = <<i[1], i[2]>>
      BY DEF Items
    <3>2. judgment[i] = {e[i[1]].judges[i[2]]}
      BY <2>3, <3>1
    <3>3. PICK v \in Verdicts : /\ v.judge = i[2] /\ v.answer = answers[i[1]]
                                /\ judgment[i] = {v} /\ timing[i] = {v.by}
      BY <2>2 DEF Settled
    <3>4. e[i[1]].judges[i[2]] = v
      BY <3>2, <3>3
    <3>5. QED
      BY <3>2, <3>3, <3>4 DEF AnswerOf
  <2>9. QED
    BY <2>4, <2>7, <2>8 DEF VerdictsAsJudged
<1>2. QED
  BY <1>1, Invariant, PTL

\* The score that is reported is the primary judge's verdict, wherever it stands
\* among the judges of the run.
THEOREM ScoredByThePrimary ==
    ASSUME Assumed
    PROVE  Spec => []ScoreIsPrimary
<1>1. ASSUME IInv PROVE ScoreIsPrimary
  <2> SUFFICES ASSUME pc = "reported" PROVE ScoreIsPrimary
    BY DEF ScoreIsPrimary
  <2>1. JudgingMarked /\ JudgingValid
    BY <1>1 DEF IInv, Behind, AtReporting
  <2>2. PICK e \in Evaluations :
          /\ evaluations = {e}
          /\ \A q \in Queries : judgment[<<q, Primary>>] = {e[q].primary}
    BY <2>1, CurrentJudging DEF EvaluationsOf
  <2>3. The(evaluations) = e
    BY <2>2, TheIs
  <2>4. QED
    BY <2>2, <2>3 DEF ScoreIsPrimary
<1>2. QED
  BY <1>1, Invariant, PTL

\* What the evaluators publish was made from the evaluations that are reported
\* and from the predictions that were judged, those that read the files of the
\* predictions included, although no checkpoint of theirs names those files.
THEOREM EvaluatedOfTheReported ==
    ASSUME Assumed
    PROVE  Spec => []EvaluatedFromTheReported
<1>1. ASSUME IInv PROVE EvaluatedFromTheReported
  <2> SUFFICES ASSUME pc = "reported" PROVE EvaluatedFromTheReported
    BY DEF EvaluatedFromTheReported
  <2>1. /\ TypedFiles /\ JudgingMarked /\ EvaluatingMarked /\ JudgingValid /\ EvaluatingValid
        /\ report = {[evaluations |-> evaluations, timing |-> timing, output |-> output]}
    BY <1>1 DEF IInv, Behind, AtReporting
  <2>2. PICK m : /\ m.files.output = output /\ m.files.rows = rows
                 /\ EvaluatedOf(m.files, evaluations)
    BY <2>1, CurrentEvaluating
  <2>3. /\ \A name \in Names : output[name] = Evaluated(name)
        /\ rows = output["analysis_rows"]
    BY <2>1, <2>2, EvaluatedIs, RequirementsAre DEF EvaluatedOf
  <2>4. The(report) = [evaluations |-> evaluations, timing |-> timing, output |-> output]
    BY <2>1, TheIs
  <2>5. The(report).output = output
    BY <2>4
  <2>6. ASSUME NEW name \in Names
        PROVE  /\ The(output[name]).evaluations = evaluations
               /\ name \in ReadsPredictions => The(output[name]).answers = answers
    <3>1. The(output[name]) =
            [evaluations |-> evaluations,
             answers |-> IF name \in ReadsPredictions THEN answers ELSE [q \in Queries |-> 0]]
      BY <2>3, TheIs DEF Evaluated
    <3>2. QED
      BY <3>1
  <2>7. QED
    BY <2>3, <2>5, <2>6 DEF EvaluatedFromTheReported
<1>2. QED
  BY <1>1, Invariant, PTL

\* What is reported is, question by question and judge by judge, what was said of
\* the answers the run holds, with the scores and the outputs that follow from it.
THEOREM Reported ==
    ASSUME Assumed
    PROVE  Spec => []ReportedAsJudged
<1>1. VerdictsAsJudged /\ ScoreIsPrimary /\ EvaluatedFromTheReported => ReportedAsJudged
  BY DEF ReportedAsJudged
<1>2. QED
  BY <1>1, VerdictsReported, ScoredByThePrimary, EvaluatedOfTheReported, PTL

\* A verdict that is committed stands: while an attempt goes on, no judge is asked
\* again about an answer it has judged, whoever asked first.
THEOREM NoVerdictAskedTwice ==
    ASSUME Assumed
    PROVE  Spec => VerdictStands
<1>1. ASSUME IInv, [Next]_vars PROVE KeepsVerdicts
  <2> SUFFICES ASSUME pc \notin {"idle", "reported"}, NEW i \in Items,
                      NEW v \in judgment[i], NEW t \in timing[i],
                      itemMark[i] = {<<v, t>>}, v.answer = AnswerOf(i)
               PROVE  judgment'[i] = judgment[i]
    BY DEF KeepsVerdicts
  <2>1. TypedFiles /\ TypedProcess /\ ItemFiles
    BY <1>1 DEF IInv
  <2>2. judgment[i] = {v} /\ timing[i] = {t}
    BY <2>1 DEF ItemFiles, IsVerdict, Missing
  <2>3. ItemValid(i)
    <3>1. The(judgment[i]) = v
      BY <2>2, TheIs
    <3>2. itemMark[i] = judgment[i] \X timing[i] /\ itemMark[i] # Missing
      BY <2>2 DEF Missing
    <3>3. QED
      BY <3>1, <3>2 DEF ItemValid
  <2>4. CASE AskJudge
    <3>1. i # Item(at)
      BY <2>3, <2>4 DEF AskJudge
    <3>2. \E w : judgment' = [judgment EXCEPT ![Item(at)] = {w}]
      BY <2>4, Zenon DEF AskJudge
    <3>3. QED
      BY <2>1, <3>1, <3>2 DEF TypedFiles
  <2>5. CASE BetweenAttempts
    BY <2>5 DEF BetweenAttempts
  <2>6. CASE \/ Begin \/ ReuseVerdict \/ WriteTiming \/ CommitVerdict
             \/ WriteEvaluations \/ CommitJudging
             \/ SkipEvaluating \/ ReuseOutput \/ RunEvaluator \/ WriteOutput \/ CommitOutput
             \/ CommitEvaluating
             \/ SkipReporting \/ WriteReports \/ CommitReporting
             \/ Interrupt \/ UNCHANGED vars
    <3>1. judgment' = judgment
      BY <2>6, Zenon DEF Begin, ReuseVerdict, WriteTiming, CommitVerdict, WriteEvaluations,
         CommitJudging, SkipEvaluating, ReuseOutput, RunEvaluator, WriteOutput, CommitOutput,
         CommitEvaluating, SkipReporting, WriteReports, CommitReporting, Interrupt, vars, judging
    <3>2. QED
      BY <3>1
  <2>7. QED
    BY <1>1, <2>4, <2>5, <2>6, Steps
<1>2. QED
  BY <1>1, Invariant, PTL DEF Spec, VerdictStands

-----------------------------------------------------------------------------
-----------------------------------------------------------------------------
(* The calls of a provider client: its requests keep the distance its rate
   demands and are bounded in number, and what a judge says rests on complete
   replies, says no more than they did and is charged with every one of them:
   for every rate, every number of retries, of rounds and of criteria. *)

CallAssumed == AdapterAssumption /\ BoundAssumption

-----------------------------------------------------------------------------
(* The inductive invariant. *)

\* Requests of one round, and the rounds of a call.
PerRound == MaxRetries + 1
MostRounds == IF adapter = "beam" THEN Criteria ELSE Rounds

\* A call under way has used up the rounds that were replied to, and the tries
\* of the one that is not; before it waits for a slot, a try is left.
Spent ==
    /\ doing = "waiting" => tries < PerRound
    /\ doing = "sent" => tries >= 1
    /\ doing \in {"waiting", "sent"} =>
          Len(replies) < MostRounds /\ requests <= PerRound * Len(replies) + tries
    /\ doing = "received" =>
          /\ 1 <= Len(replies) /\ Len(replies) <= MostRounds
          /\ requests <= PerRound * Len(replies)
    /\ doing = "idle" => requests <= PerRound * MostRounds

\* The criteria that were judged each have their reply, which was accepted.
Judging ==
    /\ Len(scores) < Criteria
    /\ adapter = "beam" =>
          /\ doing \in {"waiting", "sent"} => Len(replies) = Len(scores)
          /\ doing = "received" => Len(replies) = Len(scores) + 1
          /\ doing # "idle" => \A i \in 1 .. Len(scores) : replies[i].complete

\* A call ends with its outcome, a transient error with its last try.
Ending ==
    /\ doing # "idle" => outcome.is = "none"
    /\ outcome.is \in Transient => tries = PerRound

Typed ==
    /\ adapter \in Adapters
    /\ doing \in {"idle", "waiting", "sent", "received"}
    /\ since \in 0 .. Interval /\ gap \in 0 .. Interval
    /\ tries \in 0 .. PerRound /\ calls \in 0 .. MaxCalls /\ requests \in Nat
    /\ replies \in Seq(Replies(adapter)) /\ scores \in Seq(0 .. 2)

CallInv == Typed /\ SpacedByRate /\ Spent /\ Judging /\ Ending /\ RestsOnComplete

-----------------------------------------------------------------------------
(* Arithmetic. *)

LEMMA CallConstants ==
    ASSUME CallAssumed
    PROVE  /\ MaxRetries \in Nat /\ MaxResponseRetries \in Nat /\ Interval \in Nat
           /\ Criteria \in Nat /\ Criteria >= 1 /\ MaxCalls \in Nat
           /\ PerRound \in Nat /\ PerRound >= 1
           /\ MostRounds \in Nat /\ MostRounds >= 1
BY DEF CallAssumed, BoundAssumption, PerRound, MostRounds, Rounds

LEMMA RoundMore ==
    ASSUME NEW k \in Nat, NEW n \in Nat
    PROVE  k * (n + 1) = k * n + k /\ k * n \in Nat
OBVIOUS

LEMMA MoreRounds ==
    ASSUME NEW k \in Nat, NEW m \in Nat, NEW n \in Nat, m <= n
    PROVE  k * m <= k * n
OBVIOUS

\* The tries of the rounds so far, of one more and of all there may be.
LEMMA RoundsOfCall ==
    ASSUME CallAssumed, Len(replies) \in Nat
    PROVE  /\ PerRound * (Len(replies) + 1) = PerRound * Len(replies) + PerRound
           /\ PerRound * Len(replies) \in Nat /\ PerRound * MostRounds \in Nat
           /\ Len(replies) <= MostRounds =>
                 PerRound * Len(replies) <= PerRound * MostRounds
           /\ Len(replies) < MostRounds =>
                 PerRound * Len(replies) + PerRound <= PerRound * MostRounds
<1>1. PerRound \in Nat /\ MostRounds \in Nat /\ Len(replies) + 1 \in Nat
  BY CallConstants
<1>2. /\ PerRound * (Len(replies) + 1) = PerRound * Len(replies) + PerRound
      /\ PerRound * Len(replies) \in Nat
  BY <1>1, RoundMore
<1>3. PerRound * MostRounds \in Nat
  BY <1>1, RoundMore
<1>4. Len(replies) <= MostRounds => PerRound * Len(replies) <= PerRound * MostRounds
  BY <1>1, MoreRounds
<1>5. ASSUME Len(replies) < MostRounds
      PROVE  PerRound * (Len(replies) + 1) <= PerRound * MostRounds
  <2>1. Len(replies) + 1 <= MostRounds
    BY <1>1, <1>5
  <2>2. QED
    BY <1>1, <2>1, MoreRounds
<1>6. QED
  BY <1>2, <1>3, <1>4, <1>5

\* As many as the subsets of so many things: a natural number.
LEMMA PowerOfTwo ==
    ASSUME NEW k \in Nat
    PROVE  2 ^ k \in Nat
<1>1. IsFiniteSet(1 .. k) /\ Cardinality(1 .. k) = k
  BY CountedTo
<1>2. IsFiniteSet(SUBSET (1 .. k)) /\ Cardinality(SUBSET (1 .. k)) = 2 ^ k
  BY <1>1, FS_SUBSET, Zenon
<1>3. QED
  BY <1>2, FS_CardinalityType, Zenon

LEMMA CappedIs ==
    ASSUME CallAssumed, NEW n \in Nat
    PROVE  Capped(n) \in 0 .. Interval
BY CallConstants DEF Capped, AtMost

LEMMA BackOffIs ==
    ASSUME NEW n \in Nat, n >= 1
    PROVE  BackOff(n) \in Nat
<1>1. n - 1 \in Nat
  OBVIOUS
<1>2. 2 ^ (n - 1) \in Nat
  BY <1>1, PowerOfTwo
<1>3. QED
  BY <1>2 DEF BackOff, AtMost

-----------------------------------------------------------------------------
(* Replies. *)

LEMMA ScoreIs == \A reply : Score(reply) \in 0 .. 2
<1>1. \A word : Meaning(word) \in {0, 1, 2}
  BY DEF Meaning
<1>2. QED
  BY <1>1 DEF Score

LEMMA AcceptedIsComplete ==
    ASSUME NEW reply, Accepted(reply), adapter # "answerer"
    PROVE  reply.complete
BY DEF Accepted

-----------------------------------------------------------------------------
(* One step of a call. *)

LEMMA CallStart == ASSUME CallAssumed, CallInit PROVE CallInv
<1>1. Typed /\ SpacedByRate
  BY CallConstants DEF CallInit, Typed, SpacedByRate
<1>2. Spent
  <2>1. 0 <= PerRound * MostRounds
    BY CallConstants, RoundMore
  <2>2. QED
    BY <2>1 DEF CallInit, Spent
<1>3. Judging /\ Ending /\ RestsOnComplete
  BY CallConstants DEF CallInit, Judging, Ending, RestsOnComplete, Transient
<1>4. QED
  BY <1>1, <1>2, <1>3 DEF CallInv

LEMMA BeginCallStep == ASSUME CallAssumed, CallInv, BeginCall PROVE CallInv'
<1>1. /\ adapter' = adapter /\ doing' = "waiting" /\ since' = since /\ gap' = gap
      /\ tries' = 0 /\ requests' = 0 /\ replies' = <<>> /\ scores' = <<>>
      /\ outcome' = [is |-> "none"] /\ calls' = calls + 1 /\ calls < MaxCalls
  BY DEF BeginCall, Becomes
<1>2. Typed' /\ SpacedByRate'
  BY <1>1, CallConstants DEF CallInv, Typed, SpacedByRate
<1>3. Spent'
  <2>1. PerRound * 0 \in Nat
    BY CallConstants, RoundMore
  <2>2. Len(replies') = 0 /\ MostRounds' = MostRounds
    BY <1>1 DEF MostRounds, Rounds
  <2>3. QED
    BY <1>1, <2>1, <2>2, CallConstants DEF Spent
<1>4. Judging' /\ Ending' /\ RestsOnComplete'
  BY <1>1, CallConstants DEF Judging, Ending, RestsOnComplete, Transient
<1>5. QED
  BY <1>2, <1>3, <1>4 DEF CallInv

LEMMA ScoreByRuleStep == ASSUME CallAssumed, CallInv, ScoreByRule PROVE CallInv'
<1>1. /\ adapter' = adapter /\ doing' = "idle" /\ since' = since /\ gap' = gap
      /\ tries' = 0 /\ requests' = 0 /\ replies' = <<>> /\ scores' = <<>>
      /\ outcome'.is = "result" /\ calls' = calls + 1 /\ calls < MaxCalls
  BY DEF ScoreByRule
<1>2. Typed' /\ SpacedByRate'
  BY <1>1, CallConstants DEF CallInv, Typed, SpacedByRate
<1>3. Spent'
  <2>1. PerRound * MostRounds \in Nat /\ MostRounds' = MostRounds
    BY <1>1, CallConstants, RoundMore DEF MostRounds, Rounds
  <2>2. QED
    BY <1>1, <2>1 DEF Spent
<1>4. Judging' /\ Ending' /\ RestsOnComplete'
  BY <1>1, CallConstants DEF Judging, Ending, RestsOnComplete, Transient
<1>5. QED
  BY <1>2, <1>3, <1>4 DEF CallInv

\* The slot makes up for what the back-off left of the distance.
LEMMA SendStep == ASSUME CallAssumed, CallInv, Send PROVE CallInv'
<1>1. /\ doing = "waiting" /\ doing' = "sent"
      /\ gap' = IF since < Interval THEN Interval ELSE since
      /\ since' = 0 /\ tries' = tries + 1 /\ requests' = requests + 1
      /\ UNCHANGED <<adapter, replies, scores, outcome, calls>>
  BY DEF Send, Becomes
<1>2. Typed' /\ SpacedByRate'
  BY <1>1, CallConstants DEF CallInv, Typed, Spent, SpacedByRate
<1>3. Spent'
  <2>1. /\ Len(replies) \in Nat /\ tries \in Nat /\ requests \in Nat
        /\ Len(replies) < MostRounds /\ requests <= PerRound * Len(replies) + tries
    BY <1>1 DEF CallInv, Typed, Spent
  <2>2. PerRound * Len(replies) \in Nat /\ MostRounds' = MostRounds
    BY <1>1, <2>1, CallConstants, RoundMore DEF MostRounds, Rounds
  <2>3. QED
    BY <1>1, <2>1, <2>2 DEF Spent
<1>4. Judging' /\ Ending' /\ RestsOnComplete'
  BY <1>1 DEF CallInv, Judging, Ending, RestsOnComplete, Transient
<1>5. QED
  BY <1>2, <1>3, <1>4 DEF CallInv

LEMMA RetryStep ==
    ASSUME CallAssumed, CallInv, NEW error, NEW delay \in 0 .. 1, Retry(error, delay)
    PROVE  CallInv'
<1>1. /\ doing = "sent" /\ doing' = "waiting" /\ tries < PerRound
      /\ since' = Capped(since + delay + BackOff(tries))
      /\ UNCHANGED <<adapter, gap, tries, requests, replies, scores, outcome, calls>>
  BY DEF Retry, PerRound
<1>2. Typed' /\ SpacedByRate'
  <2>1. since \in Nat /\ delay \in Nat /\ tries \in Nat /\ tries >= 1
    BY <1>1 DEF CallInv, Typed, Spent
  <2>2. BackOff(tries) \in Nat
    BY <2>1, BackOffIs
  <2>3. since' \in 0 .. Interval
    BY <1>1, <2>1, <2>2, CappedIs
  <2>4. QED
    BY <1>1, <2>3 DEF CallInv, Typed, SpacedByRate
<1>3. Spent'
  BY <1>1 DEF CallInv, Spent, MostRounds, Rounds
<1>4. Judging' /\ Ending' /\ RestsOnComplete'
  BY <1>1 DEF CallInv, Judging, Ending, RestsOnComplete, Transient
<1>5. QED
  BY <1>2, <1>3, <1>4 DEF CallInv

LEMMA FailStep ==
    ASSUME CallAssumed, CallInv, NEW error \in Transient \cup Permanent, NEW delay \in 0 .. 1,
           Fail(error, delay)
    PROVE  CallInv'
<1>1. /\ doing = "sent" /\ doing' = "idle" /\ (error \in Permanent \/ tries >= PerRound)
      /\ since' = Capped(since + delay) /\ outcome' = [is |-> error]
      /\ UNCHANGED <<adapter, gap, tries, requests, replies, scores, calls>>
  BY DEF Fail, GiveUp, PerRound
<1>2. Typed' /\ SpacedByRate'
  <2>1. since + delay \in Nat
    BY DEF CallInv, Typed
  <2>2. since' \in 0 .. Interval
    BY <1>1, <2>1, CappedIs
  <2>3. QED
    BY <1>1, <2>2 DEF CallInv, Typed, SpacedByRate
<1>3. Spent'
  <2>1. /\ Len(replies) \in Nat /\ tries \in Nat /\ requests \in Nat /\ tries <= PerRound
        /\ Len(replies) < MostRounds /\ requests <= PerRound * Len(replies) + tries
    BY <1>1, CallConstants DEF CallInv, Typed, Spent
  <2>2. /\ PerRound * Len(replies) \in Nat /\ PerRound * MostRounds \in Nat
        /\ PerRound * Len(replies) + PerRound <= PerRound * MostRounds
    BY <2>1, RoundsOfCall
  <2>3. PerRound \in Nat
    BY CallConstants
  <2>4. requests <= PerRound * MostRounds
    BY <2>1, <2>2, <2>3
  <2>5. QED
    BY <1>1, <2>4 DEF Spent, MostRounds, Rounds
<1>4. Ending'
  <2>1. error \in Transient => tries = PerRound
    <3>1. error \in Transient => error \notin Permanent
      BY DEF Transient, Permanent
    <3>2. tries \in 0 .. PerRound /\ PerRound \in Nat
      BY CallConstants DEF CallInv, Typed
    <3>3. QED
      BY <1>1, <3>1, <3>2
  <2>2. QED
    BY <1>1, <2>1 DEF Ending
<1>5. Judging' /\ RestsOnComplete'
  BY <1>1 DEF CallInv, Judging, RestsOnComplete, Transient, Permanent
<1>6. QED
  BY <1>2, <1>3, <1>4, <1>5 DEF CallInv

LEMMA ReceiveStep ==
    ASSUME CallAssumed, CallInv, NEW reply \in Replies(adapter), NEW delay \in 0 .. 1,
           Receive(reply, delay)
    PROVE  CallInv'
<1>1. /\ doing = "sent" /\ doing' = "received" /\ replies' = Append(replies, reply)
      /\ since' = Capped(since + delay)
      /\ UNCHANGED <<adapter, gap, tries, requests, scores, outcome, calls>>
  BY DEF Receive, Becomes
<1>2. /\ replies' \in Seq(Replies(adapter)) /\ Len(replies') = Len(replies) + 1
      /\ \A i \in 1 .. Len(replies) : replies'[i] = replies[i]
      /\ Len(replies) \in Nat
  BY <1>1 DEF CallInv, Typed
<1>3. Typed' /\ SpacedByRate'
  <2>1. since + delay \in Nat
    BY DEF CallInv, Typed
  <2>2. since' \in 0 .. Interval
    BY <1>1, <2>1, CappedIs
  <2>3. QED
    BY <1>1, <1>2, <2>2 DEF CallInv, Typed, SpacedByRate
<1>4. Spent'
  <2>1. /\ tries \in Nat /\ requests \in Nat /\ tries <= PerRound
        /\ Len(replies) < MostRounds /\ requests <= PerRound * Len(replies) + tries
    BY <1>1, CallConstants DEF CallInv, Typed, Spent
  <2>2. /\ PerRound * (Len(replies) + 1) = PerRound * Len(replies) + PerRound
        /\ PerRound * Len(replies) \in Nat
    BY <1>2, CallConstants, RoundMore
  <2>3. requests <= PerRound * (Len(replies) + 1)
    <3> DEFINE before == PerRound * Len(replies)
               after == PerRound * (Len(replies) + 1)
    <3>1. /\ before \in Nat /\ PerRound \in Nat /\ after = before + PerRound
          /\ requests \in Nat /\ tries \in Nat /\ tries <= PerRound
          /\ requests <= before + tries
      BY <2>1, <2>2, CallConstants
    <3> HIDE DEF before, after
    <3>2. requests <= after
      BY ONLY <3>1
    <3>3. QED
      BY ONLY <3>2 DEF after
  <2>4. MostRounds' = MostRounds
    BY <1>1 DEF MostRounds, Rounds
  <2>5. QED
    BY <1>1, <1>2, <2>1, <2>3, <2>4, CallConstants DEF Spent
<1>5. Judging'
  <2>1. Len(scores) \in Nat
    BY DEF CallInv, Typed
  <2>2. QED
    BY <1>1, <1>2, <2>1 DEF CallInv, Judging
<1>6. Ending' /\ RestsOnComplete'
  BY <1>1 DEF CallInv, Ending, RestsOnComplete, Transient
<1>7. QED
  BY <1>3, <1>4, <1>5, <1>6 DEF CallInv

\* An accepted reply is followed by the next criterion, or is the last.
LEMMA AcceptStep == ASSUME CallAssumed, CallInv, Accept PROVE CallInv'
<1>1. /\ doing = "received" /\ Accepted(LastReply)
      /\ UNCHANGED <<adapter, since, gap, requests, replies, calls>>
  BY DEF Accept
<1>2. /\ Len(replies) \in Nat /\ 1 <= Len(replies) /\ Len(replies) <= MostRounds
      /\ requests <= PerRound * Len(replies) /\ requests \in Nat /\ Len(scores) \in Nat
      /\ PerRound * Len(replies) \in Nat /\ PerRound * MostRounds \in Nat
      /\ PerRound * Len(replies) <= PerRound * MostRounds
      /\ MostRounds' = MostRounds /\ tries \in 0 .. PerRound
  <2>1. Len(replies) \in Nat /\ requests \in Nat /\ Len(scores) \in Nat /\ tries \in 0 .. PerRound
    BY DEF CallInv, Typed
  <2>2. /\ 1 <= Len(replies) /\ Len(replies) <= MostRounds
        /\ requests <= PerRound * Len(replies)
    BY <1>1 DEF CallInv, Spent
  <2>3. MostRounds' = MostRounds
    BY <1>1 DEF MostRounds, Rounds
  <2>4. /\ PerRound * Len(replies) \in Nat /\ PerRound * MostRounds \in Nat
        /\ PerRound * Len(replies) <= PerRound * MostRounds
    BY <2>1, <2>2, RoundsOfCall
  <2>5. QED
    BY <2>1, <2>2, <2>3, <2>4
<1>3. adapter # "answerer" => replies[Len(replies)].complete
  BY <1>1, AcceptedIsComplete DEF LastReply
<1>4. CASE NextCriterion
  <2>1. /\ doing' = "waiting" /\ tries' = 0 /\ scores' = Append(scores, Score(LastReply))
        /\ outcome' = outcome /\ adapter = "beam" /\ Len(scores) + 1 < Criteria
    BY <1>4 DEF Accept, NextCriterion
  <2>2. scores' \in Seq(0 .. 2) /\ Len(scores') = Len(scores) + 1
    BY <2>1, ScoreIs DEF CallInv, Typed
  <2>3. Typed' /\ SpacedByRate'
    BY <1>1, <2>1, <2>2, CallConstants DEF CallInv, Typed, SpacedByRate
  <2>4. Len(replies) = Len(scores) + 1
    BY <1>1, <2>1 DEF CallInv, Judging
  <2>5. Spent'
    BY <1>1, <1>2, <2>1, <2>4, CallConstants DEF Spent, MostRounds
  <2>6. Judging'
    <3>1. \A i \in 1 .. Len(scores) : replies[i].complete
      BY <1>1, <2>1 DEF CallInv, Judging
    <3>2. \A i \in 1 .. Len(scores) + 1 : i \in 1 .. Len(scores) \/ i = Len(replies)
      BY <1>2, <2>4
    <3>3. \A i \in 1 .. Len(scores) + 1 : replies[i].complete
      BY <1>3, <2>1, <3>1, <3>2
    <3>4. QED
      BY <1>1, <1>2, <2>1, <2>2, <2>4, <3>3 DEF Judging
  <2>7. Ending' /\ RestsOnComplete'
    BY <1>1, <2>1 DEF CallInv, Ending, RestsOnComplete, Transient
  <2>8. QED
    BY <2>3, <2>5, <2>6, <2>7 DEF CallInv
<1>5. CASE ~ NextCriterion
  <2>1. doing' = "idle" /\ tries' = tries /\ scores' = scores /\ outcome'.is = "result"
    BY <1>5 DEF Accept
  <2>2. Typed' /\ SpacedByRate' /\ Judging'
    BY <1>1, <2>1 DEF CallInv, Typed, SpacedByRate, Judging
  <2>3. Spent'
    <3>1. requests <= PerRound * MostRounds
      BY <1>2
    <3>2. requests' <= PerRound * MostRounds'
      BY <1>1, <1>2, <3>1
    <3>3. QED
      BY <2>1, <3>2 DEF Spent
  <2>4. Ending'
    BY <2>1 DEF Ending, Transient
  <2>5. RestsOnComplete'
    <3>1. CASE adapter = "beam"
      <4>1. Len(replies) = Criteria /\ Len(replies) = Len(scores) + 1
        BY <1>1, <1>2, <1>5, <3>1, CallConstants DEF CallInv, Judging, NextCriterion
      <4>2. \A i \in 1 .. Len(scores) : replies[i].complete
        BY <1>1, <3>1 DEF CallInv, Judging
      <4>3. \A i \in 1 .. Len(replies) : i \in 1 .. Len(scores) \/ i = Len(replies)
        BY <1>2, <4>1
      <4>4. QED
        BY <1>1, <1>3, <3>1, <4>1, <4>2, <4>3 DEF RestsOnComplete, UsedReplies
    <3>2. CASE adapter # "beam"
      BY <1>1, <1>3, <3>2 DEF RestsOnComplete, UsedReplies
    <3>3. QED
      BY <3>1, <3>2
  <2>6. QED
    BY <2>2, <2>3, <2>4, <2>5 DEF CallInv
<1>6. QED
  BY <1>4, <1>5

\* A reply that is not accepted is asked for again while there are rounds.
LEMMA RejectStep == ASSUME CallAssumed, CallInv, Reject PROVE CallInv'
<1>1. /\ doing = "received"
      /\ UNCHANGED <<adapter, since, gap, requests, replies, scores, calls>>
  BY DEF Reject
<1>2. /\ Len(replies) \in Nat /\ 1 <= Len(replies) /\ Len(replies) <= MostRounds
      /\ requests <= PerRound * Len(replies) /\ requests \in Nat /\ Len(scores) \in Nat
      /\ PerRound * Len(replies) \in Nat /\ PerRound * MostRounds \in Nat
      /\ PerRound * Len(replies) <= PerRound * MostRounds
      /\ MostRounds' = MostRounds
  <2>1. Len(replies) \in Nat /\ requests \in Nat /\ Len(scores) \in Nat
    BY DEF CallInv, Typed
  <2>2. /\ 1 <= Len(replies) /\ Len(replies) <= MostRounds
        /\ requests <= PerRound * Len(replies)
    BY <1>1 DEF CallInv, Spent
  <2>3. MostRounds' = MostRounds
    BY <1>1 DEF MostRounds, Rounds
  <2>4. /\ PerRound * Len(replies) \in Nat /\ PerRound * MostRounds \in Nat
        /\ PerRound * Len(replies) <= PerRound * MostRounds
    BY <2>1, <2>2, RoundsOfCall
  <2>5. QED
    BY <2>1, <2>2, <2>3, <2>4
<1>3. SpacedByRate'
  BY <1>1 DEF CallInv, SpacedByRate
<1>4. CASE Len(replies) < Rounds /\ doing' = "waiting" /\ tries' = 0 /\ outcome' = outcome
  <2>1. adapter # "beam" /\ Len(replies) < MostRounds
    BY <1>2, <1>4 DEF Rounds, MostRounds
  <2>2. Typed'
    BY <1>1, <1>4, CallConstants DEF CallInv, Typed
  <2>3. Spent'
    BY <1>1, <1>2, <1>4, <2>1, CallConstants DEF Spent
  <2>4. Judging' /\ Ending' /\ RestsOnComplete'
    BY <1>1, <1>4, <2>1 DEF CallInv, Judging, Ending, RestsOnComplete, UsedReplies, Transient
  <2>5. QED
    BY <1>3, <2>2, <2>3, <2>4 DEF CallInv
<1>5. CASE doing' = "idle" /\ outcome' = [is |-> "unusable"] /\ tries' = tries
  <2>1. Typed'
    BY <1>1, <1>5 DEF CallInv, Typed
  <2>2. Spent'
    <3>1. requests <= PerRound * MostRounds
      BY <1>2
    <3>2. requests' <= PerRound * MostRounds'
      BY <1>1, <1>2, <3>1
    <3>3. QED
      BY <1>5, <3>2 DEF Spent
  <2>3. outcome'.is = "unusable"
    BY <1>5
  <2>4. Judging' /\ Ending' /\ RestsOnComplete'
    BY <1>1, <1>5, <2>3 DEF CallInv, Judging, Ending, RestsOnComplete, Transient
  <2>5. QED
    BY <1>3, <2>1, <2>2, <2>4 DEF CallInv
<1>6. QED
  BY <1>4, <1>5 DEF Reject

LEMMA PassStep == ASSUME CallAssumed, CallInv, Pass PROVE CallInv'
<1>1. /\ since < Interval /\ since' = since + 1
      /\ UNCHANGED <<adapter, doing, gap, tries, requests, replies, scores, outcome, calls>>
  BY DEF Pass
<1>2. Typed' /\ SpacedByRate'
  BY <1>1, CallConstants DEF CallInv, Typed, SpacedByRate
<1>3. Spent' /\ Judging' /\ Ending' /\ RestsOnComplete'
  BY <1>1 DEF CallInv, Spent, Judging, Ending, RestsOnComplete, MostRounds, Rounds, UsedReplies
<1>4. QED
  BY <1>2, <1>3 DEF CallInv

LEMMA CallInductive == ASSUME CallAssumed, CallInv, [CallNext]_callVars PROVE CallInv'
<1>1. CASE UNCHANGED callVars
  BY <1>1 DEF callVars, CallInv, Typed, SpacedByRate, Spent, Judging, Ending, RestsOnComplete,
               MostRounds, Rounds, UsedReplies
<1>2. CASE Answered
  BY <1>2, RetryStep, FailStep, ReceiveStep DEF Answered
<1>3. CASE BeginCall \/ ScoreByRule \/ Send \/ Accept \/ Reject \/ Pass
  BY <1>3, BeginCallStep, ScoreByRuleStep, SendStep, AcceptStep, RejectStep, PassStep
<1>4. QED
  BY <1>1, <1>2, <1>3 DEF CallNext, Call

LEMMA CallInvariant == ASSUME CallAssumed PROVE CallSpec => []CallInv
<1>1. CallInit => CallInv
  BY CallStart
<1>2. CallInv /\ [CallNext]_callVars => CallInv'
  BY CallInductive
<1>3. QED
  BY <1>1, <1>2, PTL DEF CallSpec

-----------------------------------------------------------------------------
(* What a call counts and what a judge's result is made from. *)

Counts == [completed : Nat, failed : Nat, tokens : Nat]

\* What each reply adds to the sums.
TokensOf(rs) == [i \in DOMAIN rs |-> rs[i].tokens]
MeaningsOf(rs) == [i \in DOMAIN rs |-> Meaning(rs[i].word)]

\* The call of an answerer that ended with an empty reply.
EmptyAnswer == adapter = "answerer" /\ outcome.is = "unusable"

\* The metrics know of every reply but the one that was just received, and of
\* the tokens of all but an empty answer.
Booked ==
    /\ counted \in Counts
    /\ doing # "received" =>
          counted.tokens = IF EmptyAnswer THEN 0 ELSE Usage
    /\ adapter = "answerer" /\ doing # "idle" => counted.tokens = 0
    /\ doing = "received" => counted.tokens + LastReply.tokens = Usage
    /\ doing \in {"waiting", "sent"} => counted.completed + counted.failed = Len(replies)
    /\ doing = "received" => counted.completed + counted.failed + 1 = Len(replies)
    /\ outcome.is = "result" =>
          outcome.usage = Usage /\ counted.completed + counted.failed = Len(replies)

\* The scores of the criteria are what their replies say.
Scoring ==
    /\ adapter # "beam" => scores = <<>>
    /\ adapter = "beam" /\ doing # "idle" =>
          \A i \in 1 .. Len(scores) : scores[i] = Meaning(replies[i].word)

Reckoned == Booked /\ Scoring /\ VerdictOfReplies

LEMMA RepliesHave ==
    ASSUME CallInv
    PROVE  /\ Len(replies) \in Nat /\ DOMAIN replies = 1 .. Len(replies)
           /\ \A i \in DOMAIN replies : replies[i].tokens \in Nat
           /\ \A reply \in Replies(adapter) : reply.tokens \in Nat
<1>1. \A reply \in Replies(adapter) : reply.tokens \in Nat
  BY DEF Replies, Tokens
<1>2. QED
  BY <1>1 DEF CallInv, Typed

LEMMA MeaningIs == \A word : Meaning(word) \in 0 .. 2
BY DEF Meaning

LEMMA UsageIs == Usage = SumFunction(TokensOf(replies)) 
BY DEF Usage, Total, TokensOf

LEMMA SumOfNothing == SumFunction(<<>>) = 0
<1>1. DOMAIN <<>> = {}
  OBVIOUS
<1>2. QED
  BY <1>1, SumOfDomain, SumOfNone

LEMMA UsageOfNothing == ASSUME replies = <<>> PROVE Usage = 0
<1>1. TokensOf(replies) = <<>>
  BY DEF TokensOf
<1>2. QED
  BY <1>1, UsageIs, SumOfNothing

LEMMA UsageWithReply ==
    ASSUME CallInv, NEW reply \in Replies(adapter), replies' = Append(replies, reply)
    PROVE  Usage \in Int /\ Usage' = Usage + reply.tokens
<1>1. TokensOf(replies) \in Seq(Int) /\ reply.tokens \in Int
  <2>1. TokensOf(replies) \in [1 .. Len(replies) -> Int]
    BY RepliesHave DEF TokensOf
  <2>2. QED
    BY <2>1, RepliesHave
<1>2. TokensOf(replies') = Append(TokensOf(replies), reply.tokens)
  <2>1. DOMAIN replies' = 1 .. Len(replies) + 1
    BY DEF CallInv, Typed
  <2>2. \A i \in 1 .. Len(replies) : replies'[i] = replies[i]
    BY DEF CallInv, Typed
  <2>3. replies'[Len(replies) + 1] = reply
    BY DEF CallInv, Typed
  <2>4. /\ Len(TokensOf(replies)) = Len(replies)
        /\ \A i \in 1 .. Len(replies) : TokensOf(replies)[i] = replies[i].tokens
    BY RepliesHave DEF TokensOf
  <2>5. QED
    BY <1>1, <2>1, <2>2, <2>3, <2>4, RepliesHave DEF TokensOf
<1>3. SumFunction(Append(TokensOf(replies), reply.tokens))
          = SumFunction(TokensOf(replies)) + reply.tokens
      /\ SumFunction(TokensOf(replies)) \in Int
  BY <1>1, SumOfAppended
<1>4. Usage' = SumFunction(TokensOf(replies'))
  BY DEF Usage, Total, TokensOf
<1>5. QED
  BY <1>2, <1>3, <1>4, UsageIs, Zenon

\* A step that leaves the replies and the scores, and ends without a result.
LEMMA StepBetween ==
    ASSUME CallInv, Reckoned, replies' = replies, scores' = scores, adapter' = adapter,
           doing # "received", doing' # "received",
           doing # "idle" \/ doing' = "idle",
           \/ counted' = counted
           \/ doing' = "idle" /\ counted' = [counted EXCEPT !.failed = @ + 1],
           \/ outcome' = outcome /\ counted' = counted
           \/ doing # "idle" /\ doing' = "idle" /\ outcome'.is \notin {"result", "unusable"}
    PROVE  Reckoned'
<1>1. /\ counted' \in Counts
      /\ counted'.tokens = counted.tokens
  BY DEF Reckoned, Booked, Counts
<1>2. Usage' = Usage
  BY DEF Usage
<1>3. Booked'
  <2>1. CASE outcome' = outcome /\ counted' = counted
    BY <1>1, <1>2, <2>1 DEF CallInv, Typed, Reckoned, Booked, EmptyAnswer
  <2>2. CASE /\ doing # "idle" /\ doing' = "idle"
             /\ outcome'.is # "result" /\ outcome'.is # "unusable"
    <3>1. ~ EmptyAnswer /\ ~ EmptyAnswer'
      BY <2>2 DEF CallInv, Ending, EmptyAnswer
    <3>2. counted'.tokens = Usage'
      BY <1>1, <1>2, <3>1 DEF Reckoned, Booked
    <3>3. QED
      BY <1>1, <2>2, <3>1, <3>2 DEF Booked
  <2>3. QED
    BY <2>1, <2>2
<1>4. Scoring'
  BY DEF Reckoned, Scoring
<1>5. VerdictOfReplies'
  BY DEF Reckoned, VerdictOfReplies, UsedReplies
<1>6. QED
  BY <1>3, <1>4, <1>5 DEF Reckoned

LEMMA ReckonedAtStart ==
    ASSUME counted' = NoCount, replies' = <<>>, scores' = <<>>, doing' # "received",
           \/ outcome'.is = "none"
           \/ doing' = "idle" /\ outcome'.is = "result" /\ outcome'.usage = 0
    PROVE  Reckoned'
<1>1. Usage' = 0 /\ Len(replies') = 0 /\ Len(scores') = 0
  <2>1. TokensOf(replies') = <<>>
    BY DEF TokensOf
  <2>2. Usage' = SumFunction(TokensOf(replies'))
    BY DEF Usage, Total, TokensOf
  <2>3. QED
    BY <2>1, <2>2, SumOfNothing
<1>2. Booked'
  BY <1>1 DEF Booked, NoCount, Counts, EmptyAnswer
<1>3. Scoring' /\ VerdictOfReplies'
  BY <1>1 DEF Scoring, VerdictOfReplies
<1>4. QED
  BY <1>2, <1>3 DEF Reckoned

LEMMA ReckonedReceive ==
    ASSUME CallInv, Reckoned, NEW reply \in Replies(adapter), NEW delay \in 0 .. 1,
           Receive(reply, delay)
    PROVE  Reckoned'
<1>1. /\ doing = "sent" /\ doing' = "received" /\ replies' = Append(replies, reply)
      /\ UNCHANGED <<adapter, scores, counted, outcome>>
  BY DEF Receive, Becomes
<1>2. /\ Len(replies) \in Nat /\ Len(replies') = Len(replies) + 1
      /\ replies'[Len(replies')] = reply
      /\ \A i \in 1 .. Len(replies) : replies'[i] = replies[i]
  BY <1>1 DEF CallInv, Typed
<1>3. LastReply' = reply
  BY <1>2 DEF LastReply
<1>4. Usage \in Int /\ Usage' = Usage + reply.tokens
  BY <1>1, UsageWithReply
<1>5. outcome.is = "none"
  BY <1>1 DEF CallInv, Ending
<1>6. Booked'
  BY <1>1, <1>2, <1>3, <1>4, <1>5 DEF Reckoned, Booked, EmptyAnswer
<1>7. Scoring'
  <2>1. ASSUME adapter = "beam" PROVE Len(replies) = Len(scores)
    BY <1>1, <2>1 DEF CallInv, Judging
  <2>2. QED
    BY <1>1, <1>2, <2>1 DEF Reckoned, Scoring
<1>8. VerdictOfReplies'
  BY <1>1, <1>5 DEF VerdictOfReplies
<1>9. QED
  BY <1>6, <1>7, <1>8 DEF Reckoned

LEMMA OneMore ==
    ASSUME NEW c \in Counts, NEW kind \in {"completed", "failed"}
    PROVE  LET d == [c EXCEPT ![kind] = @ + 1] IN
               d \in Counts /\ d.tokens = c.tokens /\ d.completed + d.failed = c.completed + c.failed + 1
<1>1. [c EXCEPT ![kind] = @ + 1] \in Counts
  BY DEF Counts
<1>2. CASE kind = "completed"
  BY <1>1, <1>2 DEF Counts
<1>3. CASE kind = "failed"
  BY <1>1, <1>3 DEF Counts
<1>4. QED
  BY <1>2, <1>3

LEMMA MoreTokens ==
    ASSUME NEW c \in Counts, NEW n \in Nat
    PROVE  LET d == [c EXCEPT !.tokens = @ + n] IN
               /\ d \in Counts /\ d.tokens = c.tokens + n
               /\ d.completed = c.completed /\ d.failed = c.failed
BY DEF Counts

LEMMA OneCounted ==
    ASSUME NEW c \in Counts, NEW kind \in {"completed", "failed"}, NEW n \in Nat,
           NEW d, d = [c EXCEPT ![kind] = @ + 1, !.tokens = @ + n]
    PROVE  /\ d \in Counts /\ d.tokens = c.tokens + n
           /\ d.completed + d.failed = c.completed + c.failed + 1
<1> DEFINE e == [c EXCEPT ![kind] = @ + 1]
<1>1. d = [e EXCEPT !.tokens = @ + n]
  BY DEF Counts
<1>2. e \in Counts /\ e.tokens = c.tokens /\ e.completed + e.failed = c.completed + c.failed + 1
  BY OneMore
<1> HIDE DEF e
<1>3. d \in Counts /\ d.tokens = e.tokens + n /\ d.completed = e.completed /\ d.failed = e.failed
  BY ONLY n \in Nat, <1>1, <1>2 DEF Counts
<1>4. QED
  BY <1>2, <1>3

\* What the counts become when a reply is accepted or not.
LEMMA CountIs ==
    ASSUME CallInv, Reckoned, doing = "received", NEW kind \in {"completed", "failed"}, Count(kind)
    PROVE  /\ counted' \in Counts
           /\ counted'.tokens = IF adapter = "answerer" /\ kind = "failed" THEN 0 ELSE Usage
           /\ counted'.completed + counted'.failed = Len(replies)
<1>1. Len(replies) \in Nat /\ Len(replies) >= 1
  BY DEF CallInv, Typed, Spent
<1>2. LastReply.tokens \in Nat /\ Recorded(kind) \in Nat
  BY <1>1, RepliesHave DEF LastReply, Recorded
<1>3. /\ counted \in Counts
      /\ counted.tokens + LastReply.tokens = Usage
      /\ adapter = "answerer" => counted.tokens = 0
      /\ counted.completed + counted.failed + 1 = Len(replies)
  BY DEF Reckoned, Booked
<1>4. counted' = [counted EXCEPT ![kind] = @ + 1, !.tokens = @ + Recorded(kind)]
  BY DEF Count
<1>5. \A c \in Counts : \A n \in Nat : \A d :
          d = [c EXCEPT ![kind] = @ + 1, !.tokens = @ + n] =>
             /\ d \in Counts /\ d.tokens = c.tokens + n
             /\ d.completed + d.failed = c.completed + c.failed + 1
  BY OneCounted
<1>6. /\ counted' \in Counts
      /\ counted'.tokens = counted.tokens + Recorded(kind)
      /\ counted'.completed + counted'.failed = counted.completed + counted.failed + 1
  <2>1. \A n \in Nat : \A d :
           d = [counted EXCEPT ![kind] = @ + 1, !.tokens = @ + n] =>
              /\ d \in Counts /\ d.tokens = counted.tokens + n
              /\ d.completed + d.failed = counted.completed + counted.failed + 1
    BY ONLY <1>3, <1>5, Zenon
  <2>2. \A d :
           d = [counted EXCEPT ![kind] = @ + 1, !.tokens = @ + Recorded(kind)] =>
              /\ d \in Counts /\ d.tokens = counted.tokens + Recorded(kind)
              /\ d.completed + d.failed = counted.completed + counted.failed + 1
    BY ONLY <1>2, <2>1, Zenon
  <2>3. QED
    BY ONLY <1>4, <2>2, Zenon
<1>7. counted.tokens + Recorded(kind)
          = IF adapter = "answerer" /\ kind = "failed" THEN 0 ELSE Usage
  BY <1>3 DEF Recorded
<1>8. QED
  BY <1>3, <1>6, <1>7 DEF Counts

LEMMA ReckonedReject == ASSUME CallInv, Reckoned, Reject PROVE Reckoned'
<1>1. /\ doing = "received" /\ Count("failed") /\ UNCHANGED <<adapter, scores, replies>>
      /\ \/ doing' = "waiting" /\ outcome' = outcome /\ Len(replies) < Rounds
         \/ doing' = "idle" /\ outcome' = [is |-> "unusable"]
  BY DEF Reject
<1>2. outcome'.is # "result"
  <2>1. outcome.is = "none"
    BY <1>1 DEF CallInv, Ending
  <2>2. CASE outcome' = outcome
    BY <2>1, <2>2
  <2>3. CASE outcome' = [is |-> "unusable"]
    BY <2>3
  <2>4. QED
    BY <1>1, <2>2, <2>3
<1>3. /\ counted' \in Counts
      /\ counted'.tokens = IF adapter = "answerer" THEN 0 ELSE Usage
      /\ counted'.completed + counted'.failed = Len(replies)
  BY <1>1, CountIs
<1>4. Usage' = Usage
  BY <1>1 DEF Usage
<1>5. Booked'
  <2>1. CASE doing' = "waiting" /\ outcome' = outcome /\ Len(replies) < Rounds
    <3>1. adapter # "answerer"       \* which has one round
      BY <1>1, <2>1 DEF CallInv, Typed, Spent, Rounds
    <3>2. QED
      BY <1>1, <1>2, <1>3, <1>4, <2>1, <3>1 DEF Booked, EmptyAnswer
  <2>2. CASE doing' = "idle" /\ outcome' = [is |-> "unusable"]
    <3>1. EmptyAnswer' <=> adapter = "answerer"
      BY <1>1, <2>2 DEF EmptyAnswer
    <3>2. QED
      BY <1>1, <1>2, <1>3, <1>4, <2>2, <3>1 DEF Booked
  <2>3. QED
    BY <1>1, <2>1, <2>2
<1>6. Scoring'
  BY <1>1 DEF Reckoned, Scoring
<1>7. VerdictOfReplies'
  BY <1>2 DEF VerdictOfReplies
<1>8. QED
  BY <1>5, <1>6, <1>7 DEF Reckoned

-----------------------------------------------------------------------------
(* The score of a result. *)

LEMMA ScoreIsNoMore == \A reply : Score(reply) <= Meaning(reply.word)
BY MeaningIs DEF Score

\* BEAM's is what its replies say, one for each criterion.
LEMMA ScoreOfAll ==
    ASSUME CallInv, Reckoned, doing = "received", adapter = "beam"
    PROVE  Total(scores) + Score(LastReply) = SumFunction(MeaningsOf(replies))
<1>1. /\ Len(replies) = Len(scores) + 1 /\ Len(replies) \in Nat /\ Len(scores) \in Nat
      /\ scores \in Seq(0 .. 2) /\ DOMAIN replies = 1 .. Len(replies)
  BY DEF CallInv, Typed, Judging
<1>2. Score(LastReply) = Meaning(LastReply.word) /\ Score(LastReply) \in Int
  BY MeaningIs DEF Score
<1>3. scores \in Seq(Int)
  BY <1>1
<1>4. MeaningsOf(replies) = Append(scores, Score(LastReply))
  <2>1. \A i \in 1 .. Len(scores) : scores[i] = Meaning(replies[i].word)
    BY DEF Reckoned, Scoring
  <2>2. Score(LastReply) = Meaning(replies[Len(replies)].word)
    BY <1>2 DEF LastReply
  <2> DEFINE app == Append(scores, Score(LastReply))
  <2>3. /\ DOMAIN app = 1 .. Len(scores) + 1
        /\ \A i \in 1 .. Len(scores) : app[i] = scores[i]
        /\ app[Len(scores) + 1] = Score(LastReply)
    BY <1>1, <1>2
  <2>4. app = [i \in 1 .. Len(scores) + 1 |-> app[i]]
    BY <1>1, <1>2
  <2> HIDE DEF app
  <2>5. \A i \in 1 .. Len(scores) + 1 : app[i] = Meaning(replies[i].word)
    BY <1>1, <2>1, <2>2, <2>3
  <2>6. app = MeaningsOf(replies)
    BY <1>1, <2>4, <2>5 DEF MeaningsOf
  <2>7. QED
    BY <2>6 DEF app
<1>5. SumFunction(Append(scores, Score(LastReply))) = SumFunction(scores) + Score(LastReply)
  BY <1>2, <1>3, SumOfAppended
<1>6. QED
  BY <1>4, <1>5, Zenon DEF Total

\* That of the other judges is no more than the last reply says.
LEMMA ScoreOfLast ==
    ASSUME NEW f, NEW n \in Nat \ {0}, DOMAIN f = 1 .. n, f[n] \in Int,
           \A i \in 1 .. n : i # n => f[i] = 0
    PROVE  SumFunction(f) = f[n]
<1>1. Numbers(f, 1 .. n)
  BY FS_Interval DEF Numbers
<1> DEFINE rest == (1 .. n) \ {n}
<1>2. SumFunctionOnSet(f, 1 .. n) = f[n] + SumFunctionOnSet(f, rest)
  BY <1>1, SumWithout
<1>3. Numbers(f, rest) /\ \A i \in rest : f[i] = f[i] - f[i]
  BY <1>1, FS_Subset DEF Numbers
<1> HIDE DEF rest
<1>4. SumFunctionOnSet(f, rest) = SumFunctionOnSet(f, rest) - SumFunctionOnSet(f, rest)
  BY <1>3, SumOfDifferences
<1>5. SumFunctionOnSet(f, rest) \in Int
  BY <1>3, SumType
<1>6. SumFunctionOnSet(f, rest) = 0
  BY <1>4, <1>5
<1>7. SumFunction(f) = SumFunctionOnSet(f, 1 .. n)
  BY SumOfDomain
<1>8. QED
  BY <1>2, <1>6, <1>7

LEMMA ScoreOfReplies ==
    ASSUME CallInv, Reckoned, doing = "received", adapter # "answerer"
    PROVE  Total(scores) + Score(LastReply) <=
               Total([i \in DOMAIN replies |->
                         IF i \in UsedReplies THEN Meaning(replies[i].word) ELSE 0])
<1> DEFINE said == [i \in DOMAIN replies |->
                       IF i \in UsedReplies THEN Meaning(replies[i].word) ELSE 0]
<1>1. Len(replies) \in Nat /\ Len(replies) >= 1 /\ DOMAIN replies = 1 .. Len(replies)
  BY DEF CallInv, Typed, Spent
<1>2. CASE adapter = "beam"
  <2>1. said = MeaningsOf(replies)
    BY <1>1, <1>2 DEF UsedReplies, MeaningsOf
  <2>2. Total(scores) + Score(LastReply) = Total(said)
    BY <1>2, <2>1, ScoreOfAll DEF Total
  <2>3. Total(said) \in Int
    <3>1. Numbers(said, 1 .. Len(replies))
      BY <1>1, MeaningIs, FS_Interval DEF Numbers
    <3>2. SumFunctionOnSet(said, 1 .. Len(replies)) \in Int
      BY <3>1, SumType
    <3>3. DOMAIN said = 1 .. Len(replies)
      BY <1>1
    <3> HIDE DEF said
    <3>4. QED
      BY <3>2, <3>3, SumOfDomain DEF Total
  <2> HIDE DEF said
  <2>4. Total(scores) + Score(LastReply) <= Total(said)
    BY <2>2, <2>3
  <2>5. QED
    BY <2>4 DEF said
<1>3. CASE adapter # "beam"
  <2>1. Total(scores) = 0
    BY <1>3, SumOfNothing DEF Total, Reckoned, Scoring
  <2>2. /\ DOMAIN said = 1 .. Len(replies) /\ said[Len(replies)] = Meaning(LastReply.word)
        /\ \A i \in 1 .. Len(replies) : i # Len(replies) => said[i] = 0
    <3>1. UsedReplies = {Len(replies)}
      BY <1>3 DEF UsedReplies
    <3>2. Len(replies) \in DOMAIN replies
      BY <1>1
    <3>3. said[Len(replies)] = Meaning(replies[Len(replies)].word)
      BY <3>1, <3>2
    <3>4. \A i \in 1 .. Len(replies) : i # Len(replies) => said[i] = 0
      BY <1>1, <3>1
    <3>5. QED
      BY <1>1, <3>3, <3>4 DEF LastReply
  <2> HIDE DEF said
  <2>3. Meaning(LastReply.word) \in 0 .. 2 /\ Score(LastReply) \in 0 .. 2
        /\ Score(LastReply) <= Meaning(LastReply.word)
    BY MeaningIs, ScoreIs, ScoreIsNoMore
  <2>4. SumFunction(said) = Meaning(LastReply.word)
    <3>1. said[Len(replies)] \in Int /\ Len(replies) \in Nat \ {0}
      <4>1. Len(replies) \in Nat \ {0}
        BY <1>1
      <4>2. said[Len(replies)] \in Int
        BY <2>2, <2>3
      <4>3. QED
        BY <4>1, <4>2
    <3>2. SumFunction(said) = said[Len(replies)]
      BY <2>2, <3>1, ScoreOfLast
    <3>3. QED
      BY <2>2, <3>2
  <2>5. Total(scores) + Score(LastReply) <= Total(said)
    BY <2>1, <2>3, <2>4 DEF Total
  <2>6. QED
    BY <2>5 DEF said
<1>4. QED
  BY <1>2, <1>3

LEMMA ReckonedAccept == ASSUME CallInv, Reckoned, Accept PROVE Reckoned'
<1>1. /\ doing = "received" /\ Count("completed") /\ UNCHANGED <<adapter, replies>>
  BY DEF Accept
<1>2. /\ counted' \in Counts
      /\ counted'.tokens = Usage
      /\ counted'.completed + counted'.failed = Len(replies)
  BY <1>1, CountIs
<1>3. Usage' = Usage
  BY <1>1 DEF Usage
<1>4. CASE NextCriterion
  <2>1. /\ doing' = "waiting" /\ scores' = Append(scores, Score(LastReply))
        /\ outcome' = outcome /\ adapter = "beam"
    BY <1>4 DEF Accept, NextCriterion
  <2>2. outcome.is = "none"
    BY <1>1 DEF CallInv, Ending
  <2>3. Booked'
    BY <1>1, <1>2, <1>3, <2>1, <2>2 DEF Booked, EmptyAnswer
  <2>4. Scoring'
    <3>1. /\ Len(replies) = Len(scores) + 1 /\ scores \in Seq(0 .. 2)
          /\ \A i \in 1 .. Len(scores) : scores[i] = Meaning(replies[i].word)
      BY <1>1, <2>1 DEF CallInv, Typed, Judging, Reckoned, Scoring
    <3>2. Score(LastReply) = Meaning(replies[Len(replies)].word) /\ Score(LastReply) \in 0 .. 2
      BY <2>1, ScoreIs DEF Score, LastReply
    <3>3. /\ Len(scores') = Len(scores) + 1 /\ Len(scores) \in Nat
          /\ \A i \in 1 .. Len(scores) : scores'[i] = scores[i]
          /\ scores'[Len(scores) + 1] = Score(LastReply)
      BY <2>1, <3>1, <3>2
    <3>4. \A i \in 1 .. Len(scores') : scores'[i] = Meaning(replies[i].word)
      BY <3>1, <3>2, <3>3
    <3>5. QED
      BY <1>1, <2>1, <3>4 DEF Scoring
  <2>5. VerdictOfReplies'
    BY <2>1, <2>2 DEF VerdictOfReplies
  <2>6. QED
    BY <2>3, <2>4, <2>5 DEF Reckoned
<1>5. CASE ~ NextCriterion
  <2>1. /\ doing' = "idle" /\ scores' = scores
        /\ outcome' = [is |-> "result", usage |-> Usage,
                       score |-> IF adapter = "answerer" THEN 0
                                 ELSE Total(scores) + Score(LastReply)]
    BY <1>5 DEF Accept
  <2>2. /\ outcome'.usage = Usage
        /\ adapter # "answerer" => outcome'.score = Total(scores) + Score(LastReply)
    BY <2>1
  <2>3. Booked'
    BY <1>1, <1>2, <1>3, <2>1, <2>2 DEF Booked, EmptyAnswer
  <2>4. Scoring'
    BY <1>1, <2>1 DEF Reckoned, Scoring
  <2>5. VerdictOfReplies'
    <3>1. UsedReplies' = UsedReplies
      BY <1>1 DEF UsedReplies
    <3>2. QED
      BY <1>1, <2>2, <3>1, ScoreOfReplies DEF VerdictOfReplies
  <2>6. QED
    BY <2>3, <2>4, <2>5 DEF Reckoned
<1>6. QED
  BY <1>4, <1>5

LEMMA ReckonedStep == ASSUME CallAssumed, CallInv, Reckoned, [CallNext]_callVars PROVE Reckoned'
<1>1. CASE UNCHANGED callVars
  BY <1>1 DEF callVars, Reckoned, Booked, EmptyAnswer, Scoring, VerdictOfReplies, UsedReplies,
               Usage, LastReply
<1>2. CASE BeginCall
  <2>1. /\ counted' = NoCount /\ replies' = <<>> /\ scores' = <<>> /\ doing' = "waiting"
        /\ outcome'.is = "none"
    BY <1>2 DEF BeginCall, Becomes
  <2>2. QED
    BY <2>1, ReckonedAtStart
<1>3. CASE ScoreByRule
  <2>1. /\ counted' = NoCount /\ replies' = <<>> /\ scores' = <<>> /\ doing' = "idle"
        /\ outcome'.is = "result" /\ outcome'.usage = 0
    BY <1>3 DEF ScoreByRule
  <2>2. QED
    BY <2>1, ReckonedAtStart
<1>4. CASE Send \/ Pass
  <2>1. /\ replies' = replies /\ scores' = scores /\ adapter' = adapter
        /\ doing # "received" /\ doing' # "received" /\ (doing # "idle" \/ doing' = "idle")
        /\ outcome' = outcome /\ counted' = counted
    BY <1>4 DEF Send, Pass, Becomes
  <2>2. QED
    BY <2>1, StepBetween
<1>5. CASE Answered
  <2>1. PICK delay \in 0 .. 1 :
            \/ \E error \in Transient \cup Permanent : Retry(error, delay) \/ Fail(error, delay)
            \/ \E reply \in Replies(adapter) : Receive(reply, delay)
    BY <1>5 DEF Answered
  <2>2. CASE \E reply \in Replies(adapter) : Receive(reply, delay)
    BY <2>2, ReckonedReceive
  <2>3. ASSUME NEW error, Retry(error, delay) PROVE Reckoned'
    <3>1. /\ replies' = replies /\ scores' = scores /\ adapter' = adapter
          /\ doing = "sent" /\ doing' = "waiting" /\ outcome' = outcome /\ counted' = counted
      BY <2>3 DEF Retry
    <3>2. QED
      BY <3>1, StepBetween
  <2>4. ASSUME NEW error \in Transient \cup Permanent, Fail(error, delay) PROVE Reckoned'
    <3>1. /\ replies' = replies /\ scores' = scores /\ adapter' = adapter
          /\ doing = "sent" /\ doing' = "idle" /\ outcome' = [is |-> error]
          /\ counted' = counted \/ counted' = [counted EXCEPT !.failed = @ + 1]
      BY <2>4 DEF Fail, GiveUp
    <3>2. outcome'.is \notin {"result", "unusable"}
      BY <3>1 DEF Transient, Permanent
    <3>3. QED
      BY <3>1, <3>2, StepBetween
  <2>5. QED
    BY <2>1, <2>2, <2>3, <2>4
<1>6. CASE Accept \/ Reject
  BY <1>6, ReckonedAccept, ReckonedReject
<1>7. QED
  BY <1>1, <1>2, <1>3, <1>4, <1>5, <1>6 DEF CallNext, Call

LEMMA ReckonedInvariant == ASSUME CallAssumed PROVE CallSpec => []Reckoned
<1>1. ASSUME CallInit PROVE Reckoned
  <2>1. Usage = 0 /\ Len(replies) = 0 /\ Len(scores) = 0
    BY <1>1, UsageOfNothing DEF CallInit
  <2>2. QED
    BY <1>1, <2>1 DEF CallInit, NoCount, Counts, Reckoned, Booked, EmptyAnswer, Scoring,
                      VerdictOfReplies
<1>2. CallInv /\ Reckoned /\ [CallNext]_callVars => Reckoned'
  BY ReckonedStep
<1>3. QED
  BY <1>1, <1>2, CallInvariant, PTL DEF CallSpec

-----------------------------------------------------------------------------
(* The theorems about the calls. *)

\* The variables of a client keep their types.
THEOREM CallTypes == ASSUME CallAssumed PROVE CallSpec => []CallTypeOK
<1>1. ASSUME CallInv, Reckoned PROVE CallTypeOK
  <2>1. \A i \in DOMAIN replies : replies[i] \in Replies(adapter)
    BY <1>1 DEF CallInv, Typed
  <2>2. scores \in BoundedSeq(0 .. 2, Criteria)
    <3>1. /\ scores \in [1 .. Len(scores) -> 0 .. 2] /\ Len(scores) \in Nat
          /\ Len(scores) < Criteria /\ Criteria \in Nat
      BY <1>1, CallConstants DEF CallInv, Typed, Judging
    <3>2. Len(scores) \in 0 .. Criteria
      BY <3>1
    <3>3. QED
      BY <3>1, <3>2, Zenon DEF BoundedSeq, SeqOf
  <2>3. QED
    BY <1>1, <2>1, <2>2 DEF CallInv, Typed, PerRound, CallTypeOK, Reckoned, Booked, Counts
<1>2. QED
  BY <1>1, CallInvariant, ReckonedInvariant, PTL

\* The requests of a client keep their distance, over retries, rounds, criteria
\* and calls, and a call makes no more of them than its settings allow; it
\* reports a transient error only after its last try.
THEOREM Spaced == ASSUME CallAssumed PROVE CallSpec => []RequestsSpaced
<1>1. ASSUME CallInv PROVE RequestsSpaced
  <2>1. /\ Len(replies) \in Nat /\ tries \in Nat /\ requests \in Nat /\ tries <= PerRound
    BY <1>1, CallConstants DEF CallInv, Typed
  <2>2. /\ PerRound * Len(replies) \in Nat /\ PerRound * MostRounds \in Nat
        /\ PerRound \in Nat
    BY <2>1, CallConstants, RoundsOfCall
  <2>3. requests <= PerRound * MostRounds
    <3>1. CASE doing \in {"waiting", "sent"}
      <4>1. Len(replies) < MostRounds /\ requests <= PerRound * Len(replies) + tries
        BY <1>1, <3>1 DEF CallInv, Spent
      <4>2. PerRound * Len(replies) + PerRound <= PerRound * MostRounds
        BY <2>1, <4>1, RoundsOfCall
      <4>3. QED
        BY <2>1, <2>2, <4>1, <4>2
    <3>2. CASE doing = "received"
      <4>1. Len(replies) <= MostRounds /\ requests <= PerRound * Len(replies)
        BY <1>1, <3>2 DEF CallInv, Spent
      <4>2. PerRound * Len(replies) <= PerRound * MostRounds
        BY <2>1, <4>1, RoundsOfCall
      <4>3. QED
        BY <2>1, <2>2, <4>1, <4>2
    <3>3. CASE doing = "idle"
      BY <1>1, <3>3 DEF CallInv, Spent
    <3>4. QED
      BY <1>1, <3>1, <3>2, <3>3 DEF CallInv, Typed
  <2>4. RetriesAreBounded
    BY <1>1, <2>3 DEF CallInv, Ending, RetriesAreBounded, PerRound, MostRounds
  <2>5. QED
    BY <1>1, <2>4 DEF CallInv, RequestsSpaced
<1>2. QED
  BY <1>1, CallInvariant, PTL

\* What a judge says rests on replies that are complete, BEAM's on one for each
\* criterion of its rubric; it says no more for the answer than these replies did,
\* however often the judge was asked again.  The usage of a result, and what the
\* metrics are told of it, is that of every reply, those a judge rejected
\* included, each counted once; of the calls that fail it is only the answerer's
\* empty reply whose tokens the metrics are not told.
THEOREM Unflattered == ASSUME CallAssumed PROVE CallSpec => []NeverFlattered
<1>1. ASSUME CallInv, Reckoned PROVE NeverFlattered
  <2>1. RestsOnComplete /\ VerdictOfReplies
    BY <1>1 DEF CallInv, Reckoned
  <2>2. UsageIsOfEveryReply
    <3>1. outcome.is = "result" => doing = "idle" /\ ~ EmptyAnswer
      BY <1>1 DEF CallInv, Ending, EmptyAnswer
    <3>2. doing = "idle" => counted.tokens = IF EmptyAnswer THEN 0 ELSE Usage
      BY <1>1 DEF Reckoned, Booked
    <3>3. outcome.is = "result" =>
             /\ outcome.usage = Usage /\ counted.tokens = Usage
             /\ counted.completed + counted.failed = Len(replies)
      BY <1>1, <3>1, <3>2 DEF Reckoned, Booked
    <3>4. QED
      BY <3>2, <3>3 DEF UsageIsOfEveryReply, Usage, EmptyAnswer
  <2>3. QED
    BY <2>1, <2>2 DEF NeverFlattered
<1>2. QED
  BY <1>1, CallInvariant, ReckonedInvariant, PTL
=============================================================================
