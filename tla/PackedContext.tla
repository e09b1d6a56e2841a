---------------------------- MODULE PackedContext ----------------------------
(***************************************************************************)
(* How what was retrieved is packed into the answerer's context: whole     *)
(* memories in their ranks until one does not fit, and of the first, if it *)
(* is too long by itself, as much as fits, found by a binary search over   *)
(* the places where its text may be cut.                                   *)
(*                                                                         *)
(* The tokenizer is external, and nothing is assumed of it: the memories   *)
(* are given by the tokens of the first so many of them together, and of   *)
(* the first memory as it is rendered with its text up to each place.      *)
(***************************************************************************)
EXTENDS Integers, Sequences

CONSTANTS
    Retrievals,    \* [joined, cuts]: tokens of the first so many memories, and
                   \* of the first one up to each place, no text to all of it
    Budgets

ASSUME RetrievalAssumption ==
    /\ Budgets \subseteq Nat
    /\ \A r \in Retrievals :
          /\ r.joined \in Seq(Nat) /\ r.cuts \in Seq(Nat) /\ Len(r.cuts) > 0
          /\ Len(r.joined) > 0 => r.joined[1] = r.cuts[Len(r.cuts)]

VARIABLES
    items,         \* what was retrieved
    budget,
    packing,       \* "pack", "search", "done", "failed"
    included,      \* how many memories are in the text
    text,          \* its tokens
    low, high,     \* of the search: the place to cut is one of these
    cut            \* the first memory was cut

input == <<items, budget>>
packVars == <<input, packing, included, text, low, high, cut>>

More == included < Len(items.joined)
NextFits == items.joined[included + 1] <= budget

-----------------------------------------------------------------------------
\* Variant: the text so far is compared, without the next memory.
IncludeLate ==
    /\ packing = "pack" /\ More /\ text <= budget
    /\ included' = included + 1 /\ text' = items.joined[included + 1]
    /\ UNCHANGED <<input, packing, low, high, cut>>

\* The next memory fits as it is.
Include ==
    /\ packing = "pack" /\ More /\ NextFits
    /\ included' = included + 1 /\ text' = items.joined[included + 1]
    /\ UNCHANGED <<input, packing, low, high, cut>>

\* After the last memory, and at one that does not fit after others.
StopPacking ==
    /\ packing = "pack" /\ IF More THEN included > 0 /\ ~NextFits ELSE TRUE
    /\ packing' = "done"
    /\ UNCHANGED <<input, included, text, low, high, cut>>

\* The first memory does not fit: without its text it must.
Truncate ==
    /\ packing = "pack" /\ More /\ included = 0 /\ ~NextFits
    /\ packing' = IF items.cuts[1] <= budget THEN "search" ELSE "failed"
    /\ low' = 1 /\ high' = Len(items.cuts)
    /\ UNCHANGED <<input, included, text, cut>>

\* Variant: a place that just fits does not.
SearchStrict ==
    LET middle == (low + high + 1) \div 2 IN
    /\ packing = "search" /\ low < high
    /\ IF items.cuts[middle] < budget
       THEN low' = middle /\ UNCHANGED high
       ELSE high' = middle - 1 /\ UNCHANGED low
    /\ UNCHANGED <<input, packing, included, text, cut>>

Search ==
    LET middle == (low + high + 1) \div 2 IN
    /\ packing = "search" /\ low < high
    /\ IF items.cuts[middle] <= budget
       THEN low' = middle /\ UNCHANGED high
       ELSE high' = middle - 1 /\ UNCHANGED low
    /\ UNCHANGED <<input, packing, included, text, cut>>

\* What was found is rendered, counted once more, and the only one.
EndSearch ==
    /\ packing = "search" /\ low = high
    /\ IF items.cuts[low] <= budget
       THEN packing' = "done" /\ included' = 1 /\ text' = items.cuts[low] /\ cut' = TRUE
       ELSE packing' = "failed" /\ UNCHANGED <<included, text, cut>>
    /\ UNCHANGED <<input, low, high>>

PackInit ==
    /\ items \in Retrievals /\ budget \in Budgets
    /\ packing = "pack" /\ included = 0 /\ text = 0 /\ low = 1 /\ high = 1 /\ cut = FALSE

PackNext == Include \/ StopPacking \/ Truncate \/ Search \/ EndSearch
PackSpec == PackInit /\ [][PackNext]_packVars
PackFairSpec == PackSpec /\ WF_packVars(PackNext)

-----------------------------------------------------------------------------
PackTypeOK ==
    /\ packing \in {"pack", "search", "done", "failed"}
    /\ included \in 0 .. Len(items.joined) /\ text \in Nat /\ cut \in BOOLEAN
    /\ low \in 1 .. Len(items.cuts) /\ high \in low .. Len(items.cuts)

\* The context never has more tokens than the budget, the memory that was cut
\* for it included; and only labels that do not fit make the packing fail.
BudgetHeld ==
    /\ text <= budget
    /\ packing = "failed" => items.cuts[1] > budget

Monotone == \A i, j \in 1 .. Len(items.cuts) : i <= j => items.cuts[i] <= items.cuts[j]

\* A memory that was cut has at the next place more tokens than the budget, and
\* at every later place if longer texts have no fewer tokens.
CutAtLargest ==
    cut => /\ low < Len(items.cuts) /\ items.cuts[low + 1] > budget
           /\ Monotone => \A i \in low + 1 .. Len(items.cuts) : items.cuts[i] > budget

\* Whatever was retrieved, the best of it is in the context, and the first that
\* is left out would not have fitted after the others.
BestFirst ==
    packing = "done" =>
        /\ Len(items.joined) > 0 => included >= 1
        /\ ~cut => /\ included > 0 => text = items.joined[included]
                   /\ More => ~NextFits

\* The context is as much of what was retrieved, in its order, as fits: whole
\* memories, or the largest part of the first.
LargestPrefix == CutAtLargest /\ BestFirst

\* The search ends, and the packing.
Packed == packing \in {"done", "failed"}
=============================================================================
