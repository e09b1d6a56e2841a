---------------------------- MODULE MCRetrievalQA -----------------------------
(***************************************************************************)
(* The predictions of a schema 3 run: its runner over two units of two     *)
(* queries, for every kind of framework, and the packing of a query's      *)
(* context, of a first memory of up to five places to cut and up to two    *)
(* more. A behaviour is of one of the two, while the other is at its       *)
(* start.                                                                  *)
(***************************************************************************)
EXTENDS RetrievalQA, PackedContext

MCCuts == UNION {[1 .. n -> 0 .. 4] : n \in 1 .. 5}
MCNothing == [joined |-> <<>>, cuts |-> <<0>>]
MCRetrievals ==
    {MCNothing} \cup {[joined |-> <<c[Len(c)]>> \o rest, cuts |-> c] :
                         c \in MCCuts, rest \in {<<>>, <<3>>, <<5, 2>>}}

VARIABLE part   \* "packing" or "runner"

all == <<part, vars, packVars>>

ASSUME RunnerAssumption == SizeAssumption /\ KindsAssumption /\ FaultsAssumption

-----------------------------------------------------------------------------
MCInit ==
    /\ Init /\ PackInit
    /\ \/ part = "packing" /\ kind = "index" /\ ~beam /\ retention = "keep"
       \/ part = "runner" /\ items = MCNothing /\ budget = 0

InPacking(step) == part = "packing" /\ step /\ UNCHANGED <<part, vars>>
InRunner(step) == part = "runner" /\ step /\ UNCHANGED <<part, packVars>>

MCNext == InPacking(PackNext) \/ InRunner(Next)

\* As in the modules: the operator resumes and the process goes on.
MCFairness == WF_all(InPacking(PackNext) \/ InRunner(Step)) /\ WF_all(InRunner(Start))

MCSpec == MCInit /\ [][MCNext]_all /\ MCFairness

-----------------------------------------------------------------------------
\* The packing ends, and the run gets predicted, however often it is killed,
\* fails, is stopped or damaged, unless a manifest declares other resources.
AllPredicted == <>[](IF part = "runner" THEN Predicted ELSE Packed)
=============================================================================
