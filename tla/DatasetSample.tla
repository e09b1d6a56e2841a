---------------------------- MODULE DatasetSample ----------------------------
(***************************************************************************)
(* How the sample of a dataset is drawn.  LoCoMo is a list of              *)
(* conversations with questions, of which conversations or questions are   *)
(* sampled, the questions per category if so declared; LongMemEval a list  *)
(* of records, sampled as they are or per type.  The groups are gone       *)
(* through in order, with one random generator; what it picks is any       *)
(* choice of the right size.  Fractions are exact here, and floating point *)
(* numbers in the code.                                                    *)
(***************************************************************************)
EXTENDS Integers, Sequences, SequencesExt, FiniteSets, FiniteSetsExt

CONSTANTS
    Groups,       \* categories of questions, or types of records: numbers from 1
    Payloads,     \* datasets: sequences of items, each <<>> or one sequence of groups
    Fractions,    \* <<numerator, denominator>>
    Units         \* what is sampled: "qa", "conversation", "record"

\* What is assumed of the constants; the instances check it.
SamplingAssumption ==
    /\ Groups \subseteq Nat \ {0} /\ Units \subseteq {"qa", "conversation", "record"}
    /\ \A f \in Fractions : f \in Nat \X Nat /\ 0 < f[1] /\ f[1] <= f[2]
    /\ \A p \in Payloads : \A i \in DOMAIN p :
          Len(p[i]) <= 1 /\ \A k \in DOMAIN p[i] : p[i][k] \in Seq(Groups)

Roundings == {"ceil", "floor", "round"}
Specs == [unit : Units, fraction : Fractions, rounding : Roundings, stratified : BOOLEAN]

VARIABLES
    payload, spec,
    pc,           \* "select", "build", "done"
    left,         \* groups to be gone through
    selected,     \* keys of what was picked
    counts,       \* of each group: its members and those picked
    sample,       \* the items of the sample
    manifest      \* the counts that are recorded, or none

vars == <<payload, spec, pc, left, selected, counts, sample, manifest>>

Greater(a, b) == IF a > b THEN a ELSE b
Least(a, b) == IF a < b THEN a ELSE b
IsObject(item) == item # <<>>
QuestionsOf(item) == IF IsObject(item) THEN item[1] ELSE <<>>

-----------------------------------------------------------------------------
\* Variant: rounded down, and without the lower bound.
MaybeEmpty(population, rounding) ==
    LET num == spec.fraction[1]  den == spec.fraction[2] IN
    Least(population, (population * num) \div den)

\* At least one of any, and a fraction of the rest.
SampleSize(population, rounding) ==
    LET num == spec.fraction[1]  den == spec.fraction[2]
        value == CASE rounding = "ceil" -> (population * num + den - 1) \div den
                   [] rounding = "floor" -> (population * num) \div den
                   [] OTHER -> (2 * population * num + den) \div (2 * den) IN
    IF population = 0 THEN 0 ELSE Least(population, Greater(1, value))

\* What can be picked: a question is its conversation's number and its own, a
\* conversation or a record its number and 0.
Candidates ==
    LET objects == {i \in DOMAIN payload : IsObject(payload[i])} IN
    IF spec.unit = "qa"
    THEN UNION {{<<i, q>> : q \in DOMAIN QuestionsOf(payload[i])} : i \in objects}
    ELSE {<<i, 0>> : i \in objects}

\* The group of a candidate, or 0 for all of them.
GroupOf(key) ==
    IF ~spec.stratified THEN 0
    ELSE LET all == QuestionsOf(payload[key[1]]) IN
         IF spec.unit = "qa" THEN all[key[2]] ELSE IF all = <<>> THEN 0 ELSE all[1]

Members(group) == {key \in Candidates : GroupOf(key) = group}

\* One group after the other, in their order.
Select ==
    /\ pc = "select" /\ left # {}
    /\ LET group == Min(left)
           size == SampleSize(Cardinality(Members(group)), spec.rounding) IN
       /\ \E picked \in kSubset(size, Members(group)) : selected' = selected \cup picked
       /\ counts' = [counts EXCEPT ![group] = <<Cardinality(Members(group)), size>>]
       /\ left' = left \ {group}
    /\ UNCHANGED <<payload, spec, pc, sample, manifest>>

EndSelect ==
    /\ pc = "select" /\ left = {} /\ pc' = "build"
    /\ UNCHANGED <<payload, spec, left, selected, counts, sample, manifest>>

\* The items that were picked, or have a question that was, in their order and
\* with those questions alone.
Sampled ==
    LET kept(i) ==
            IF spec.unit # "qa" THEN payload[i]
            ELSE LET all == QuestionsOf(payload[i])
                     numbers == SelectSeq([q \in DOMAIN all |-> q],
                                          LAMBDA q : <<i, q>> \in selected) IN
                 <<[k \in DOMAIN numbers |-> all[numbers[k]]]>>
        picked == SelectSeq([i \in DOMAIN payload |-> i],
                            LAMBDA i : \E key \in selected : key[1] = i) IN
    [k \in DOMAIN picked |-> kept(picked[k])]

QuestionCount(items) == FoldLeft(LAMBDA n, item : n + Len(QuestionsOf(item)), 0, items)

\* What is recorded of the choice: of its groups only if it was made by them.
SamplingManifest ==
    [population |-> Cardinality(Candidates), sample |-> Cardinality(selected),
     groups |-> IF spec.stratified THEN counts ELSE <<>>]

\* For conversations, the questions they have are counted too.
Build ==
    /\ pc = "build" /\ pc' = "done"
    /\ sample' = Sampled
    /\ manifest' = {SamplingManifest @@
                    [questions |-> IF spec.unit = "conversation"
                                   THEN <<QuestionCount(payload), QuestionCount(Sampled)>>
                                   ELSE <<>>]}
    /\ UNCHANGED <<payload, spec, left, selected, counts>>

\* Conversations are not sampled per group.
Init ==
    /\ payload \in Payloads
    /\ spec \in {s \in Specs : s.unit = "conversation" => ~s.stratified}
    /\ pc = "select" /\ left = {GroupOf(key) : key \in Candidates} /\ selected = {}
    /\ counts = [g \in Groups \cup {0} |-> <<0, 0>>]
    /\ sample = <<>> /\ manifest = {}

Next == Select \/ EndSelect \/ Build
Spec == Init /\ [][Next]_vars

-----------------------------------------------------------------------------
TypeOK ==
    /\ pc \in {"select", "build", "done"} /\ left \subseteq Groups \cup {0}
    /\ selected \subseteq Candidates
    /\ Cardinality(selected) = FoldSet(LAMBDA g, n : n + counts[g][2], 0, DOMAIN counts)
    /\ Cardinality(manifest) <= 1

\* Every group that the dataset has is in the sample, and with its share of it
\* but for less than one.
EveryGroupHasItsShare ==
    pc = "done" =>
        \A g \in {GroupOf(key) : key \in Candidates} :
            LET all == Cardinality(Members(g))
                picked == Cardinality(selected \cap Members(g))
                exact == all * spec.fraction[1]
                scaled == picked * spec.fraction[2] IN
            /\ 1 <= picked /\ picked <= all
            /\ scaled < exact + spec.fraction[2]
            /\ exact < scaled + spec.fraction[2]

\* The sample is what was picked and no more: it has as many questions as the
\* manifest says of each group, and no conversation without one.
SampleIsAsRecorded ==
    pc = "done" =>
        \A m \in manifest :
            LET holds(g) == FoldLeft(LAMBDA n, item : n + Len(SelectSeq(QuestionsOf(item),
                                                                LAMBDA h : h = g)), 0, sample) IN
            IF spec.unit = "qa"
            THEN /\ m.sample = QuestionCount(sample)
                 /\ \A i \in DOMAIN sample : QuestionsOf(sample[i]) # <<>>
                 /\ spec.stratified => \A g \in Groups : m.groups[g][2] = holds(g)
            ELSE m.sample = Len(sample) /\ \A i \in DOMAIN sample : IsObject(sample[i])

\* Sampling all of it loses nothing that could have been picked.
AllOfItIsAllOfIt ==
    pc = "done" /\ spec.fraction[1] = spec.fraction[2] =>
        /\ selected = Candidates
        /\ IF spec.unit = "qa" THEN QuestionCount(sample) = QuestionCount(payload)
           ELSE sample = SelectSeq(payload, IsObject)
=============================================================================
