-------------------------------- MODULE Sums --------------------------------
(***************************************************************************)
(* What the proofs need of the sum of a function's values over a finite    *)
(* set, for every function and every finite set, and of the order of a     *)
(* set of numbers.  The sum is a fold; induction over the set is by a      *)
(* smallest counterexample.                                                *)
(***************************************************************************)
EXTENDS Integers, Sequences, FiniteSets, Functions, FiniteSetTheorems, WellFoundedInduction, TLAPS

Chosen(s) == CHOOSE x \in s : TRUE

\* What the fold adds to the sum of the rest.
Adds(f, s, sum) == IF s = {} THEN 0 ELSE f[Chosen(s)] + sum[s \ {Chosen(s)}]

IsSumOn(f, parts, sum) == sum = [s \in parts |-> Adds(f, s, sum)]

LEMMA SumIs ==
    ASSUME NEW f, NEW S
    PROVE  SumFunctionOnSet(f, S) = (CHOOSE sum : IsSumOn(f, SUBSET S, sum))[S]
BY DEF SumFunctionOnSet, FoldFunctionOnSet, MapThenFoldSet, IsSumOn, Adds, Chosen

LEMMA SumOfDomain == ASSUME NEW f PROVE SumFunction(f) = SumFunctionOnSet(f, DOMAIN f)
BY DEF SumFunction

LEMMA ChosenIn == ASSUME NEW s, s # {} PROVE Chosen(s) \in s
BY DEF Chosen

Less == {ss \in Nat \X Nat : ss[1] < ss[2]}

LEMMA LessWellFounded == IsWellFoundedOn(Less, Nat)
<1>1. Less = OpToRel(<, Nat)
  BY Zenon DEF OpToRel, Less
<1>2. QED
  BY <1>1, NatLessThanWellFounded, Zenon

\* Of a set of numbers that is not empty there is a smallest one.
LEMMA Smallest ==
    ASSUME NEW T \in SUBSET Nat, T # {}
    PROVE  \E n \in T : \A m \in T : n <= m
<1>1. PICK n \in T : \A m \in T : ~ (<<m, n>> \in Less)
  BY LessWellFounded, WFMin, Zenon
<1>2. ASSUME NEW m \in T PROVE n <= m
  <2>1. m \in Nat /\ n \in Nat /\ ~ (<<m, n>> \in Less)
    BY <1>1
  <2>2. ~ (m < n)
    BY <2>1 DEF Less
  <2>3. QED
    BY <2>1, <2>2
<1>3. QED
  BY <1>2

\* Of the sets that are not as claimed, there is one whose proper parts are.
LEMMA SmallestPart ==
    ASSUME NEW S, IsFiniteSet(S), NEW bad \in SUBSET SUBSET S, bad # {}
    PROVE  \E s \in bad : \A x \in s : s \ {x} \notin bad
<1> DEFINE sizes == {Cardinality(s) : s \in bad}
<1>1. \A s \in bad : IsFiniteSet(s) /\ Cardinality(s) \in Nat
  BY FS_Subset, FS_CardinalityType
<1>2. PICK n \in sizes : \A m \in sizes : n <= m
  BY <1>1, Smallest, sizes \in SUBSET Nat, sizes # {}
<1>3. PICK s \in bad : n = Cardinality(s)
  BY <1>2
<1>4. ASSUME NEW x \in s, s \ {x} \in bad PROVE FALSE
  <2>1. Cardinality(s \ {x}) = Cardinality(s) - 1
    BY <1>1, FS_RemoveElement
  <2>2. Cardinality(s \ {x}) \in sizes
    BY <1>4
  <2>3. QED
    <3>1. n <= Cardinality(s \ {x})
      BY <1>2, <2>2
    <3>2. Cardinality(s) \in Nat
      BY <1>1
    <3> HIDE DEF sizes
    <3>3. QED
      BY <1>3, <2>1, <3>1, <3>2
<1>5. QED
  BY <1>4

-----------------------------------------------------------------------------
(* The fold has a value. *)

Parts(S, n) == {s \in SUBSET S : Cardinality(s) <= n}

LEMMA SumOfParts ==
    ASSUME NEW f, NEW S, IsFiniteSet(S), NEW n \in Nat, NEW sum, IsSumOn(f, Parts(S, n), sum)
    PROVE  IsSumOn(f, Parts(S, n + 1), [s \in Parts(S, n + 1) |-> Adds(f, s, sum)])
<1> DEFINE next == [s \in Parts(S, n + 1) |-> Adds(f, s, sum)]
<1>1. ASSUME NEW s \in Parts(S, n + 1) PROVE Adds(f, s, sum) = Adds(f, s, next)
  <2>1. CASE s = {}
    BY <2>1 DEF Adds
  <2>2. CASE s # {}
    <3> DEFINE rest == s \ {Chosen(s)}
    <3>1. IsFiniteSet(s) /\ s \in SUBSET S /\ Cardinality(s) <= n + 1 /\ Cardinality(s) \in Nat
      BY FS_Subset, FS_CardinalityType DEF Parts
    <3>2. Cardinality(rest) = Cardinality(s) - 1
      BY <2>2, <3>1, ChosenIn, FS_RemoveElement
    <3>3. rest \in Parts(S, n) /\ rest \in Parts(S, n + 1)
      BY <3>1, <3>2 DEF Parts
    <3>4. sum[rest] = Adds(f, rest, sum)
      BY <3>3 DEF IsSumOn
    <3>5. next[rest] = Adds(f, rest, sum)
      BY <3>3
    <3>6. next[rest] = sum[rest]
      BY <3>4, <3>5
    <3>7. QED
      BY <2>2, <3>6 DEF Adds
  <2>3. QED
    BY <2>1, <2>2
<1>2. QED
  BY <1>1 DEF IsSumOn

LEMMA SumExists ==
    ASSUME NEW f, NEW S, IsFiniteSet(S)
    PROVE  \E sum : IsSumOn(f, SUBSET S, sum)
<1> DEFINE without == {n \in Nat : ~ \E sum : IsSumOn(f, Parts(S, n), sum)}
<1>1. 0 \notin without
  <2>1. \A s \in Parts(S, 0) : s = {}
    BY FS_Subset, FS_CardinalityType, FS_EmptySet DEF Parts
  <2>2. IsSumOn(f, Parts(S, 0), [s \in Parts(S, 0) |-> 0])
    BY <2>1 DEF IsSumOn, Adds
  <2>3. QED
    BY <2>2
<1>2. without = {}
  <2>1. SUFFICES ASSUME without # {} PROVE FALSE
    OBVIOUS
  <2>2. PICK n \in without : \A m \in without : n <= m
    BY <2>1, Smallest, without \in SUBSET Nat
  <2>3. n # 0 /\ n \in Nat
    BY <1>1
  <2>4. n - 1 \in Nat /\ n - 1 \notin without
    BY <2>2, <2>3
  <2>5. PICK sum : IsSumOn(f, Parts(S, n - 1), sum)
    BY <2>4
  <2>6. \E next : IsSumOn(f, Parts(S, (n - 1) + 1), next)
    BY <2>4, <2>5, SumOfParts
  <2>7. (n - 1) + 1 = n
    BY <2>3
  <2>8. QED
    BY <2>6, <2>7
<1>3. Parts(S, Cardinality(S)) = SUBSET S
  BY FS_Subset DEF Parts
<1>4. Cardinality(S) \notin without /\ Cardinality(S) \in Nat
  BY <1>2, FS_CardinalityType
<1>5. PICK sum : IsSumOn(f, Parts(S, Cardinality(S)), sum)
  BY <1>4
<1>6. QED
  BY <1>3, <1>5

-----------------------------------------------------------------------------
(* And does not depend on the set it is the fold over. *)

LEMMA SumsAgree ==
    ASSUME NEW f, NEW S, NEW R \in SUBSET S, IsFiniteSet(R),
           NEW g, NEW h, IsSumOn(f, SUBSET S, g), IsSumOn(f, SUBSET R, h)
    PROVE  g[R] = h[R]
<1> DEFINE bad == {s \in SUBSET R : g[s] # h[s]}
<1>1. SUFFICES ASSUME bad # {} PROVE FALSE
  OBVIOUS
<1>2. PICK s \in bad : \A x \in s : s \ {x} \notin bad
  BY <1>1, SmallestPart, bad \in SUBSET SUBSET R
<1>3. s \in SUBSET S /\ s \in SUBSET R /\ g[s] # h[s]
  OBVIOUS
<1>4. g[s] = Adds(f, s, g) /\ h[s] = Adds(f, s, h)
  BY <1>3 DEF IsSumOn
<1>5. CASE s = {}
  BY <1>3, <1>4, <1>5 DEF Adds
<1>6. CASE s # {}
  <2>1. Chosen(s) \in s
    BY <1>6, ChosenIn
  <2>2. g[s \ {Chosen(s)}] = h[s \ {Chosen(s)}]
    BY <1>2, <1>3, <2>1
  <2>3. QED
    BY <1>3, <1>4, <1>6, <2>2 DEF Adds
<1>7. QED
  BY <1>5, <1>6

LEMMA SumStep ==
    ASSUME NEW f, NEW S, IsFiniteSet(S), S # {}
    PROVE  /\ Chosen(S) \in S
           /\ SumFunctionOnSet(f, S) =
                  f[Chosen(S)] + SumFunctionOnSet(f, S \ {Chosen(S)})
<1> DEFINE rest == S \ {Chosen(S)}
           g == CHOOSE sum : IsSumOn(f, SUBSET S, sum)
           h == CHOOSE sum : IsSumOn(f, SUBSET rest, sum)
<1>1. Chosen(S) \in S
  BY ChosenIn
<1>2. IsFiniteSet(rest)
  BY FS_Subset
<1>3. IsSumOn(f, SUBSET S, g)
  BY SumExists
<1>4. IsSumOn(f, SUBSET rest, h)
  BY <1>2, SumExists
<1>5. g[rest] = h[rest]
  <2> HIDE DEF g, h
  <2>1. rest \in SUBSET S
    OBVIOUS
  <2> HIDE DEF rest
  <2>2. QED
    BY <1>2, <1>3, <1>4, <2>1, SumsAgree
<1>6. g[S] = f[Chosen(S)] + g[rest]
  <2> HIDE DEF g
  <2>1. g[S] = Adds(f, S, g)
    BY <1>3 DEF IsSumOn
  <2>2. QED
    BY <2>1 DEF Adds
<1>7. SumFunctionOnSet(f, S) = g[S] /\ SumFunctionOnSet(f, rest) = h[rest]
  BY SumIs
<1>8. QED
  BY <1>1, <1>5, <1>6, <1>7

LEMMA SumOfNone == ASSUME NEW f PROVE SumFunctionOnSet(f, {}) = 0
<1> DEFINE g == CHOOSE sum : IsSumOn(f, SUBSET {}, sum)
<1>1. IsSumOn(f, SUBSET {}, g)
  BY SumExists, FS_EmptySet
<1>2. g[{}] = 0
  <2> HIDE DEF g
  <2>1. g[{}] = Adds(f, {}, g)
    BY <1>1 DEF IsSumOn
  <2>2. QED
    BY <2>1 DEF Adds
<1>3. QED
  BY <1>2, SumIs

-----------------------------------------------------------------------------
(* Its algebra. *)

Numbers(f, S) == IsFiniteSet(S) /\ \A x \in S : f[x] \in Int

LEMMA SumType ==
    ASSUME NEW f, NEW S, Numbers(f, S)
    PROVE  SumFunctionOnSet(f, S) \in Int
<1> DEFINE bad == {s \in SUBSET S : SumFunctionOnSet(f, s) \notin Int}
<1>1. SUFFICES ASSUME bad # {} PROVE FALSE
  OBVIOUS
<1>2. PICK s \in bad : \A x \in s : s \ {x} \notin bad
  BY <1>1, SmallestPart, bad \in SUBSET SUBSET S DEF Numbers
<1>3. IsFiniteSet(s) /\ s \in SUBSET S /\ SumFunctionOnSet(f, s) \notin Int
  BY FS_Subset DEF Numbers
<1>4. s # {}
  BY <1>3, SumOfNone
<1>5. /\ Chosen(s) \in s
      /\ SumFunctionOnSet(f, s) = f[Chosen(s)] + SumFunctionOnSet(f, s \ {Chosen(s)})
  BY <1>3, <1>4, SumStep
<1>6. SumFunctionOnSet(f, s \ {Chosen(s)}) \in Int
  BY <1>2, <1>3, <1>5
<1>7. QED
  BY <1>3, <1>5, <1>6 DEF Numbers

\* Any element may be taken out first.
LEMMA SumWithout ==
    ASSUME NEW f, NEW S, Numbers(f, S), NEW x \in S
    PROVE  SumFunctionOnSet(f, S) = f[x] + SumFunctionOnSet(f, S \ {x})
<1> DEFINE bad == {s \in SUBSET S :
               \E y \in s : SumFunctionOnSet(f, s) # f[y] + SumFunctionOnSet(f, s \ {y})}
<1>1. SUFFICES ASSUME bad # {} PROVE FALSE
  OBVIOUS
<1>2. PICK s \in bad : \A y \in s : s \ {y} \notin bad
  BY <1>1, SmallestPart, bad \in SUBSET SUBSET S DEF Numbers
<1>3. PICK y \in s : SumFunctionOnSet(f, s) # f[y] + SumFunctionOnSet(f, s \ {y})
  BY <1>2
<1>4. \A t \in SUBSET S : IsFiniteSet(t) /\ Numbers(f, t)
  BY FS_Subset DEF Numbers
<1>5. s \in SUBSET S /\ s # {}
  BY <1>3
<1> DEFINE z == Chosen(s)
<1>6. z \in s /\ SumFunctionOnSet(f, s) = f[z] + SumFunctionOnSet(f, s \ {z})
  BY <1>4, <1>5, SumStep
<1>7. y # z
  BY <1>3, <1>6
<1> DEFINE rest == (s \ {y}) \ {z}
<1> HIDE DEF z
<1>8. SumFunctionOnSet(f, s \ {z}) = f[y] + SumFunctionOnSet(f, (s \ {z}) \ {y})
  BY <1>2, <1>3, <1>5, <1>6, <1>7
<1>9. SumFunctionOnSet(f, s \ {y}) = f[z] + SumFunctionOnSet(f, rest)
  BY <1>2, <1>3, <1>5, <1>6, <1>7
<1>10. (s \ {z}) \ {y} = rest
  OBVIOUS
<1>11. f[y] \in Int /\ f[z] \in Int /\ SumFunctionOnSet(f, rest) \in Int
  <2>1. rest \in SUBSET S /\ y \in S /\ z \in S
    BY <1>5, <1>6
  <2>2. QED
    BY <1>4, <2>1, SumType DEF Numbers
<1> HIDE DEF rest
<1>12. f[z] + (f[y] + SumFunctionOnSet(f, rest)) = f[y] + (f[z] + SumFunctionOnSet(f, rest))
  BY <1>11
<1>13. SumFunctionOnSet(f, s) = f[y] + SumFunctionOnSet(f, s \ {y})
  BY <1>6, <1>8, <1>9, <1>10, <1>12, Zenon
<1>14. QED
  BY <1>3, <1>13

\* A sum over a set with one element more.
LEMMA SumWith ==
    ASSUME NEW f, NEW S, NEW x, x \notin S, Numbers(f, S), f[x] \in Int
    PROVE  /\ Numbers(f, S \cup {x})
           /\ SumFunctionOnSet(f, S \cup {x}) = f[x] + SumFunctionOnSet(f, S)
<1>1. Numbers(f, S \cup {x})
  BY FS_AddElement DEF Numbers
<1>2. (S \cup {x}) \ {x} = S
  OBVIOUS
<1>3. SumFunctionOnSet(f, S \cup {x}) = f[x] + SumFunctionOnSet(f, (S \cup {x}) \ {x})
  BY <1>1, SumWithout
<1>4. QED
  BY <1>1, <1>2, <1>3

\* The sum is of the values on the set only.
LEMMA SumsOfTheSame ==
    ASSUME NEW f, NEW g, NEW S, IsFiniteSet(S), \A x \in S : f[x] = g[x]
    PROVE  SumFunctionOnSet(f, S) = SumFunctionOnSet(g, S)
<1> DEFINE bad == {s \in SUBSET S : SumFunctionOnSet(f, s) # SumFunctionOnSet(g, s)}
<1>1. SUFFICES ASSUME bad # {} PROVE FALSE
  OBVIOUS
<1>2. PICK s \in bad : \A x \in s : s \ {x} \notin bad
  BY <1>1, SmallestPart, bad \in SUBSET SUBSET S
<1>3. IsFiniteSet(s) /\ s \in SUBSET S /\ SumFunctionOnSet(f, s) # SumFunctionOnSet(g, s)
  BY FS_Subset
<1>4. s # {}
  BY <1>3, SumOfNone
<1>5. /\ Chosen(s) \in s
      /\ SumFunctionOnSet(f, s) = f[Chosen(s)] + SumFunctionOnSet(f, s \ {Chosen(s)})
      /\ SumFunctionOnSet(g, s) = g[Chosen(s)] + SumFunctionOnSet(g, s \ {Chosen(s)})
  BY <1>3, <1>4, SumStep
<1>6. SumFunctionOnSet(f, s \ {Chosen(s)}) = SumFunctionOnSet(g, s \ {Chosen(s)})
  BY <1>2, <1>3, <1>5
<1>7. QED
  BY <1>3, <1>5, <1>6

\* The sum of what is no greater is no greater.
LEMMA SumsInOrder ==
    ASSUME NEW f, NEW g, NEW S, Numbers(f, S), Numbers(g, S), \A x \in S : f[x] <= g[x]
    PROVE  SumFunctionOnSet(f, S) <= SumFunctionOnSet(g, S)
<1> DEFINE bad == {s \in SUBSET S : ~ (SumFunctionOnSet(f, s) <= SumFunctionOnSet(g, s))}
<1>1. SUFFICES ASSUME bad # {} PROVE FALSE
  OBVIOUS
<1>2. PICK s \in bad : \A x \in s : s \ {x} \notin bad
  BY <1>1, SmallestPart, bad \in SUBSET SUBSET S DEF Numbers
<1>3. s \in SUBSET S /\ ~ (SumFunctionOnSet(f, s) <= SumFunctionOnSet(g, s))
  OBVIOUS
<1>4. \A t \in SUBSET S : Numbers(f, t) /\ Numbers(g, t) /\ IsFiniteSet(t)
  BY FS_Subset DEF Numbers
<1>5. s # {}
  BY <1>3, SumOfNone
<1> DEFINE x == Chosen(s)
           rest == s \ {x}
<1>6. /\ x \in s
      /\ SumFunctionOnSet(f, s) = f[x] + SumFunctionOnSet(f, rest)
      /\ SumFunctionOnSet(g, s) = g[x] + SumFunctionOnSet(g, rest)
  BY <1>3, <1>4, <1>5, SumStep
<1> HIDE DEF x
<1>7. SumFunctionOnSet(f, rest) <= SumFunctionOnSet(g, rest)
  BY <1>2, <1>3, <1>6
<1>8. /\ SumFunctionOnSet(f, rest) \in Int /\ SumFunctionOnSet(g, rest) \in Int
      /\ f[x] \in Int /\ g[x] \in Int /\ f[x] <= g[x]
  <2>1. rest \in SUBSET S /\ x \in S
    BY <1>3, <1>6
  <2>2. QED
    BY <1>4, <2>1, SumType DEF Numbers
<1> HIDE DEF rest
<1>9. QED
  BY <1>3, <1>6, <1>7, <1>8

\* The sum of differences is the difference of the sums.
LEMMA SumOfDifferences ==
    ASSUME NEW f, NEW g, NEW h, NEW S, Numbers(f, S), Numbers(g, S),
           \A x \in S : h[x] = f[x] - g[x]
    PROVE  SumFunctionOnSet(h, S) = SumFunctionOnSet(f, S) - SumFunctionOnSet(g, S)
<1> DEFINE bad == {s \in SUBSET S :
        SumFunctionOnSet(h, s) # SumFunctionOnSet(f, s) - SumFunctionOnSet(g, s)}
<1>1. SUFFICES ASSUME bad # {} PROVE FALSE
  OBVIOUS
<1>2. PICK s \in bad : \A x \in s : s \ {x} \notin bad
  BY <1>1, SmallestPart, bad \in SUBSET SUBSET S DEF Numbers
<1>3. /\ s \in SUBSET S
      /\ SumFunctionOnSet(h, s) # SumFunctionOnSet(f, s) - SumFunctionOnSet(g, s)
  OBVIOUS
<1>4. \A t \in SUBSET S : Numbers(f, t) /\ Numbers(g, t) /\ IsFiniteSet(t)
  BY FS_Subset DEF Numbers
<1>5. s # {}
  BY <1>3, SumOfNone
<1> DEFINE x == Chosen(s)
           rest == s \ {x}
<1>6. /\ x \in s
      /\ SumFunctionOnSet(f, s) = f[x] + SumFunctionOnSet(f, rest)
      /\ SumFunctionOnSet(g, s) = g[x] + SumFunctionOnSet(g, rest)
      /\ SumFunctionOnSet(h, s) = h[x] + SumFunctionOnSet(h, rest)
  BY <1>3, <1>4, <1>5, SumStep
<1> HIDE DEF x
<1>7. SumFunctionOnSet(h, rest) = SumFunctionOnSet(f, rest) - SumFunctionOnSet(g, rest)
  BY <1>2, <1>3, <1>6
<1>8. /\ SumFunctionOnSet(f, rest) \in Int /\ SumFunctionOnSet(g, rest) \in Int
      /\ f[x] \in Int /\ g[x] \in Int /\ h[x] = f[x] - g[x]
  <2>1. rest \in SUBSET S /\ x \in S
    BY <1>3, <1>6
  <2>2. QED
    BY <1>4, <2>1, SumType DEF Numbers
<1> HIDE DEF rest
<1>9. QED
  BY <1>3, <1>6, <1>7, <1>8

\* The sum of a sequence that one number was appended to.
LEMMA SumOfAppended ==
    ASSUME NEW s \in Seq(Int), NEW n \in Int
    PROVE  /\ SumFunction(s) \in Int
           /\ SumFunction(Append(s, n)) = SumFunction(s) + n
<1>1. Len(s) \in Nat /\ DOMAIN s = 1 .. Len(s) /\ \A i \in 1 .. Len(s) : s[i] \in Int
  OBVIOUS
<1>2. Numbers(s, DOMAIN s)
  BY <1>1, FS_Interval DEF Numbers
<1>3. DOMAIN Append(s, n) = DOMAIN s \cup {Len(s) + 1}
  BY <1>1
<1>4. /\ Append(s, n)[Len(s) + 1] = n /\ Len(s) + 1 \notin DOMAIN s
      /\ \A i \in DOMAIN s : Append(s, n)[i] = s[i]
  BY <1>1
<1>5. Numbers(Append(s, n), DOMAIN s)
  BY <1>2, <1>4 DEF Numbers
<1>6. SumFunctionOnSet(Append(s, n), DOMAIN s) = SumFunctionOnSet(s, DOMAIN s)
  BY <1>2, <1>4, SumsOfTheSame DEF Numbers
<1>7. SumFunctionOnSet(Append(s, n), DOMAIN s \cup {Len(s) + 1})
          = n + SumFunctionOnSet(Append(s, n), DOMAIN s)
  BY <1>4, <1>5, SumWith
<1>8. SumFunctionOnSet(s, DOMAIN s) \in Int
  BY <1>2, SumType
<1>9. /\ SumFunction(s) = SumFunctionOnSet(s, DOMAIN s)
      /\ SumFunction(Append(s, n)) = n + SumFunctionOnSet(s, DOMAIN s)
  BY <1>3, <1>6, <1>7, SumOfDomain, Zenon
<1>10. QED
  BY <1>8, <1>9

\* The sum of a sequence of which one number was changed.
LEMMA SumOfChanged ==
    ASSUME NEW s \in Seq(Int), NEW t \in Seq(Int), NEW K \in DOMAIN s,
           DOMAIN t = DOMAIN s, \A i \in DOMAIN s : i # K => t[i] = s[i]
    PROVE  SumFunction(t) = SumFunction(s) + (t[K] - s[K])
<1> DEFINE others == DOMAIN s \ {K}
<1>1. /\ Len(s) \in Nat /\ DOMAIN s = 1 .. Len(s)
      /\ \A i \in DOMAIN s : s[i] \in Int /\ t[i] \in Int
  OBVIOUS
<1>2. Numbers(s, DOMAIN s) /\ Numbers(t, DOMAIN s)
  <2>1. IsFiniteSet(1 .. Len(s))
    BY <1>1, FS_Interval
  <2>2. QED
    BY <1>1, <2>1 DEF Numbers
<1>3. IsFiniteSet(others)
  BY <1>2, FS_Subset DEF Numbers
<1>4. /\ SumFunctionOnSet(s, DOMAIN s) = s[K] + SumFunctionOnSet(s, others)
      /\ SumFunctionOnSet(t, DOMAIN s) = t[K] + SumFunctionOnSet(t, others)
  BY <1>2, SumWithout
<1>5. SumFunctionOnSet(s, others) = SumFunctionOnSet(t, others)
  BY <1>3, SumsOfTheSame
<1>6. Numbers(s, others)
  BY <1>1, <1>3 DEF Numbers
<1>7. SumFunctionOnSet(s, others) \in Int
  BY <1>6, SumType
<1>8. /\ SumFunction(s) = SumFunctionOnSet(s, DOMAIN s)
      /\ SumFunction(t) = SumFunctionOnSet(t, DOMAIN s)
  BY SumOfDomain, Zenon
<1> HIDE DEF others
<1>9. QED
  BY <1>1, <1>4, <1>5, <1>7, <1>8

-----------------------------------------------------------------------------
(* Positions in their order. *)

Upto(K, i) == {j \in K : j <= i}

\* Of the numbers of a set there is a first, a second and so on.
LEMMA InOrder ==
    ASSUME NEW K \in SUBSET Nat, IsFiniteSet(K), NEW k \in 1 .. Cardinality(K)
    PROVE  \E i \in K : Cardinality(Upto(K, i)) = k
<1> DEFINE count == [i \in K |-> Cardinality(Upto(K, i))]
           all == 1 .. Cardinality(K)
<1>1. Cardinality(K) \in Nat
  BY FS_CardinalityType
<1>2. \A i \in K : IsFiniteSet(Upto(K, i)) /\ Cardinality(Upto(K, i)) \in all
  <2>1. SUFFICES ASSUME NEW i \in K
                 PROVE  IsFiniteSet(Upto(K, i)) /\ Cardinality(Upto(K, i)) \in all
    OBVIOUS
  <2>2. Upto(K, i) \subseteq K /\ i \in Upto(K, i)
    BY DEF Upto
  <2>3. /\ IsFiniteSet(Upto(K, i)) /\ Cardinality(Upto(K, i)) \in Nat
        /\ Cardinality(Upto(K, i)) <= Cardinality(K)
    BY <2>2, FS_Subset, FS_CardinalityType
  <2>4. Cardinality(Upto(K, i)) # 0
    BY <2>2, <2>3, FS_EmptySet
  <2>5. QED
    BY <1>1, <2>3, <2>4
<1>3. \A i, j \in K : i < j => Cardinality(Upto(K, i)) < Cardinality(Upto(K, j))
  <2>1. SUFFICES ASSUME NEW i \in K, NEW j \in K, i < j
                 PROVE  Cardinality(Upto(K, i)) < Cardinality(Upto(K, j))
    OBVIOUS
  <2>2. Upto(K, i) \subseteq Upto(K, j) /\ j \in Upto(K, j) /\ j \notin Upto(K, i)
    <3>1. i \in Nat /\ j \in Nat /\ \A x \in K : x \in Nat
      OBVIOUS
    <3>2. \A x \in K : x <= i => x <= j
      BY <2>1, <3>1
    <3>3. j <= j /\ ~ (j <= i)
      BY <2>1, <3>1
    <3>4. QED
      BY <3>2, <3>3 DEF Upto
  <2>3. Upto(K, i) # Upto(K, j)
    BY <2>2
  <2>4. /\ Cardinality(Upto(K, i)) <= Cardinality(Upto(K, j))
        /\ Cardinality(Upto(K, i)) # Cardinality(Upto(K, j))
    BY <1>2, <2>2, <2>3, FS_Subset
  <2>5. QED
    BY <1>2, <2>4
<1>4. count \in Injection(K, all)
  <2>1. count \in [K -> all]
    BY <1>2
  <2>2. \A i, j \in K : count[i] = count[j] => i = j
    <3>1. SUFFICES ASSUME NEW i \in K, NEW j \in K, count[i] = count[j], i # j PROVE FALSE
      OBVIOUS
    <3>2. i < j \/ j < i
      BY <3>1
    <3>3. Cardinality(Upto(K, i)) = Cardinality(Upto(K, j))
      BY <3>1
    <3>4. Cardinality(Upto(K, i)) \in Nat /\ Cardinality(Upto(K, j)) \in Nat
      BY <1>2
    <3>5. QED
      BY <1>3, <3>2, <3>3, <3>4
  <2>3. QED
    BY <2>1, <2>2 DEF Injection, IsInjective
<1>5. IsFiniteSet(all) /\ Cardinality(all) = Cardinality(K)
  <2>1. 1 \in Int /\ Cardinality(K) \in Int
    BY <1>1
  <2> DEFINE c == Cardinality(K)
  <2> HIDE DEF c
  <2>2. IsFiniteSet(1 .. c) /\ Cardinality(1 .. c) = (IF 1 > c THEN 0 ELSE c - 1 + 1)
    BY <2>1, FS_Interval, Zenon DEF c
  <2>3. QED
    BY <1>1, <2>2 DEF c
<1>6. count \in Surjection(K, all)
  BY <1>4, <1>5, FS_Injection
<1>7. QED
  BY <1>6 DEF Surjection
=============================================================================
