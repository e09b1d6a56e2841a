---------------------------- MODULE MCJudgedItems -----------------------------
(***************************************************************************)
(* The judging: two questions and two judges, of whom the second is the    *)
(* primary one, so that the order of the judges and the score are          *)
(* different things; and two calls of each provider client, with a rate    *)
(* limit longer than the first back-off. A behaviour is of one of the two, *)
(* while the other is at its start.                                        *)
(***************************************************************************)
EXTENDS JudgedItems, ProviderCalls

VARIABLE part   \* "items" or "calls"

all == <<part, vars, callVars>>

ASSUME ItemAssumption == SizeAssumption /\ PrimaryAssumption
ASSUME CallAssumption == AdapterAssumption /\ BoundAssumption

-----------------------------------------------------------------------------
MCInit ==
    /\ Init /\ CallInit
    /\ \/ part = "items" /\ adapter = "answerer"
       \/ part = "calls"

InItems(step) == part = "items" /\ step /\ UNCHANGED <<part, callVars>>
InCalls(step) == part = "calls" /\ step /\ UNCHANGED <<part, vars>>

MCNext == InItems(Next) \/ InCalls(CallNext)

\* As in the modules: an attempt goes on and is repeated, and a call goes on.
MCFairness == WF_all(InItems(Attempt)) /\ WF_all(InCalls(Call))

MCSpec == MCInit /\ [][MCNext]_all /\ MCFairness

-----------------------------------------------------------------------------
\* Whatever is interrupted, lost or redone, the run is reported in the end; and a
\* call ends, with a result or an error.
AllJudged == <>[](part = "calls" \/ AllReported) /\ []<>(part = "items" \/ Idle)
=============================================================================
