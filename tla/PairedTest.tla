------------------------------ MODULE PairedTest ------------------------------
(***************************************************************************)
(* The significance of the declared comparisons: of each, Wilcoxon's       *)
(* signed-rank test of the differences between the units; over all of      *)
(* them, Holm's adjustment.  Where few differences are not zero the test   *)
(* counts the signs for every sum of ranks, and where there are more it    *)
(* approximates that distribution by a normal one.  Tied differences share *)
(* their ranks' mean, so ranks are kept doubled.                           *)
(*                                                                         *)
(* The differences are the floating point numbers that the test is given.  *)
(* It asks only for their signs and how their absolute values compare, so  *)
(* integers stand for them: equal ones are those that == finds equal.  Two *)
(* that would be equal in exact arithmetic, 1 - 2/3 and 2/3 - 1/3, need    *)
(* not be; what rounding made of them is an order like any other.  An      *)
(* exact p-value is a numerator over Denominator.  The normal deviate of   *)
(* an approximation is kept squared, a fraction; its erfc is left out.     *)
(***************************************************************************)
EXTENDS Integers, Sequences, SequencesExt, FiniteSets, FiniteSetsExt

CONSTANTS
    Comparisons,    \* how many are declared
    Units,          \* how many units each compares
    ExactLimit,     \* how many differences that are not zero the counting is for: 25
    MaxDifference   \* bound: how many absolute values differences have, but for zero

\* What is assumed of the constants; the instances check it.
CountAssumption ==
    /\ Comparisons \in Nat \ {0} /\ Units \in Nat \ {0}
    /\ ExactLimit \in Nat /\ MaxDifference \in Nat

Denominator == 2 ^ Units

VARIABLES
    differences,   \* of each comparison: those of its units
    pc,            \* "ranking", "counting", "adjusting", "done"
    at,            \* the comparison
    ranks,         \* doubled, of the differences ranked so far
    used,          \* ranks that the counts include
    counts,        \* how many sign patterns have a sum of ranks
    p,             \* numerators, of the comparisons tested
    z,             \* of each: of an approximation the deviate's square, else none
    order,         \* the comparisons by p
    adjusted       \* numerators, of the comparisons adjusted

loops == <<at, ranks, used, counts>>
vars == <<differences, pc, loops, p, z, order, adjusted>>

Least(a, b) == IF a < b THEN a ELSE b
Greater(a, b) == IF a > b THEN a ELSE b
Abs(x) == IF x < 0 THEN -x ELSE x
SumOf(s) == FoldLeft(LAMBDA x, y : x + y, 0, s)

-----------------------------------------------------------------------------
\* The differences that are not zero, the smallest first.
Nonzero(c) ==
    SortSeq(SelectSeq(differences[c], LAMBDA x : x # 0), LAMBDA x, y : Abs(x) < Abs(y))

\* Variant: each has a rank of its own.
NoTies(c, index) == index + 1

\* The end of the run of equal ones that begins after index: floating point
\* numbers are compared as they are.
TieEnd(c, index) ==
    LET d == Nonzero(c) IN
    Max({k \in index + 1 .. Len(d) : Abs(d[k]) = Abs(d[index + 1])})

\* The next run of equal differences gets its mean rank.
Rank ==
    /\ pc = "ranking" /\ at <= Comparisons
    /\ LET index == Len(ranks) IN
       IF index < Len(Nonzero(at))
       THEN LET end == TieEnd(at, index) IN
            /\ ranks' = ranks \o [k \in 1 .. end - index |-> index + 1 + end]
            /\ UNCHANGED pc
       ELSE pc' = "counting" /\ UNCHANGED ranks
    /\ UNCHANGED <<differences, at, used, counts, p, z, order, adjusted>>

\* A rank is in the sum or is not.
Extended(rank) ==
    [s \in DOMAIN counts \cup {s + rank : s \in DOMAIN counts} |->
        (IF s \in DOMAIN counts THEN counts[s] ELSE 0) +
        (IF s - rank \in DOMAIN counts THEN counts[s - rank] ELSE 0)]

Exact == Len(ranks) <= ExactLimit

Count ==
    /\ pc = "counting" /\ Exact /\ used < Len(ranks)
    /\ counts' = Extended(ranks[used + 1])
    /\ used' = used + 1
    /\ UNCHANGED <<differences, pc, at, ranks, p, z, order, adjusted>>

Positive(c) ==
    SumOf([k \in DOMAIN Nonzero(c) |-> IF Nonzero(c)[k] > 0 THEN ranks[k] ELSE 0])

\* The smaller of the sums of the ranks of either sign.
Statistic(c) == Least(Positive(c), SumOf(ranks) - Positive(c))

AsSmall(statistic) == {s \in DOMAIN counts : s <= statistic}

\* Twice the share of the patterns with a sum as small, and at most all.
ExactP ==
    LET n == Len(ranks)
        extreme == MapThenSumSet(LAMBDA s : counts[s], AsSmall(Statistic(at))) IN
    IF n = 0 THEN Denominator ELSE Least(Denominator, 2 * extreme * 2 ^ (Units - n))

\* How far the positive ranks' sum is from half of all, less the correction for
\* continuity, over the root of a quarter of the ranks' squares; all of it squared.
Deviate ==
    LET beyond == Greater(0, Abs(2 * Positive(at) - SumOf(ranks)) - 2) IN
    <<beyond * beyond, SumOf([k \in DOMAIN ranks |-> ranks[k] * ranks[k]])>>

\* The share of a normal distribution that is as far out: all of it where the
\* deviate is zero, and less elsewhere.  Bound: one value for less.
Tails(deviate) == IF deviate[1] = 0 THEN {Denominator} ELSE {Denominator \div 2}

Test ==
    /\ pc = "counting"
    /\ \/ /\ Exact /\ used = Len(ranks)
          /\ p' = Append(p, ExactP) /\ z' = Append(z, {})
       \/ /\ ~ Exact
          /\ z' = Append(z, {Deviate})
          /\ \E share \in Tails(Deviate) : p' = Append(p, share)
    /\ at' = at + 1 /\ ranks' = <<>> /\ used' = 0 /\ counts' = [s \in {0} |-> 1]
    /\ pc' = IF at = Comparisons THEN "adjusting" ELSE "ranking"
    /\ order' = IF at = Comparisons
                THEN SortSeq([c \in 1 .. Comparisons |-> c],
                             LAMBDA a, b : p'[a] < p'[b] \/ (p'[a] = p'[b] /\ a < b))
                ELSE order
    /\ UNCHANGED <<differences, adjusted>>

\* Holm's factor counts those that are left.
Holm(index, value) ==
    Greater(IF index = 0 THEN 0 ELSE adjusted[index],
            Least(Denominator, (Comparisons - index) * value))

Adjust ==
    /\ pc = "adjusting"
    /\ LET index == Len(adjusted) IN
       IF index < Comparisons
       THEN adjusted' = Append(adjusted, Holm(index, p[order[index + 1]])) /\ UNCHANGED pc
       ELSE pc' = "done" /\ UNCHANGED adjusted
    /\ UNCHANGED <<differences, loops, p, z, order>>

Init ==
    /\ differences \in [1 .. Comparisons -> [1 .. Units -> -MaxDifference .. MaxDifference]]
    /\ pc = "ranking" /\ at = 1 /\ ranks = <<>> /\ used = 0 /\ counts = [s \in {0} |-> 1]
    /\ p = <<>> /\ z = <<>> /\ order = <<>> /\ adjusted = <<>>

Next == Rank \/ Count \/ Test \/ Adjust
Spec == Init /\ [][Next]_vars

-----------------------------------------------------------------------------
\* The mean ranks of the nonzero differences add up to those of their places,
\* and every pattern of the signs counted so far is counted once.
TypeOK ==
    /\ at \in 1 .. Comparisons + 1 /\ Len(p) = at - 1
    /\ pc = "counting" => SumOf(ranks) = Len(ranks) * (Len(ranks) + 1)
    /\ MapThenSumSet(LAMBDA s : counts[s], DOMAIN counts) = 2 ^ used

\* The doubled mean rank of one of the differences, which are not zero, and how
\* far twice the sum of some ranks is from the sum of all.
RankOf(d, k) ==
    2 * Cardinality({j \in DOMAIN d : Abs(d[j]) < Abs(d[k])})
        + Cardinality({j \in DOMAIN d : Abs(d[j]) = Abs(d[k])}) + 1
Far(d, S) == Abs(2 * MapThenSumSet(LAMBDA k : RankOf(d, k), S) - Len(d) * (Len(d) + 1))
Observed(d) == Far(d, {k \in DOMAIN d : d[k] > 0})

\* Up to the limit a p-value is the share of the ways to give the differences
\* signs under which the sum of the positive ranks is as far from the middle as
\* it is, or farther: of the differences as they were computed, ties included
\* that rounding left.
PIsExact ==
    \A c \in DOMAIN p :
        LET d == SelectSeq(differences[c], LAMBDA x : x # 0) IN
        Len(d) <= ExactLimit =>
            p[c] = Cardinality({S \in SUBSET DOMAIN d : Far(d, S) >= Observed(d)})
                       * 2 ^ (Units - Len(d))

\* Beyond it a p-value is of the normal distribution that has the mean and, ties
\* included, the variance of the sums over all these ways, with half a rank for
\* continuity: everything where the sum is within half a rank of the middle.
NormalFits ==
    \A c \in DOMAIN p :
        LET d == SelectSeq(differences[c], LAMBDA x : x # 0)
            squares == MapThenSumSet(LAMBDA S : Far(d, S) * Far(d, S), SUBSET DOMAIN d) IN
        /\ Len(d) > ExactLimit <=> z[c] # {}
        /\ \A deviate \in z[c] :
              /\ deviate[2] * 2 ^ Len(d) = squares
              /\ deviate[1] = IF Observed(d) <= 2 THEN 0
                              ELSE (Observed(d) - 2) * (Observed(d) - 2)
              /\ p[c] = Denominator <=> Observed(d) <= 2

\* Whatever the level, a comparison's adjusted p is within it if and only if
\* Holm's procedure rejects it: each that has a p as small passes at the level
\* divided by the number of those that have a p as great as its own.
HolmIsStepDown ==
    pc = "done" =>
        \A i \in 1 .. Comparisons, level \in 0 .. Denominator - 1 :
            LET rejects(c) ==
                    \A d \in 1 .. Comparisons : p[d] <= p[c] =>
                        Cardinality({e \in 1 .. Comparisons : p[e] >= p[d]}) * p[d] <= level IN
            adjusted[i] <= level <=> rejects(order[i])
=============================================================================
