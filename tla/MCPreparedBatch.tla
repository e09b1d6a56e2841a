--------------------------- MODULE MCPreparedBatch ---------------------------
(***************************************************************************)
(* Two launches of a batch of two entries, in three settings: in every mix *)
(* of full and predict-only and with two faults; with configs that are     *)
(* edited and prepared again; and, for what must happen, full ones.        *)
(***************************************************************************)
EXTENDS PreparedBatch

CONSTANTS w1, w2

VARIABLE setting

Settings == {"modes", "edits", "ends"}
FaultsOf == [modes |-> 2, edits |-> 0, ends |-> 1]

Launched(w) == pc[w] # "unused" \/ launcher[w] # "none"

MCInit ==
    /\ Init /\ setting \in Settings
    /\ setting # "edits" => config = [e \in Entries |-> 1]
    /\ setting # "modes" => mode = [w \in Workers |-> "full"]

MCNext ==
    /\ Next /\ UNCHANGED setting
    /\ setting # "edits" => UNCHANGED config /\ (prepared = Unlocked \/ UNCHANGED preparing)
    /\ faults' <= FaultsOf[setting]
    /\ Launched(w2)' => Launched(w1)'   \* launches are alike: w1's comes first

MCSpec == MCInit /\ [][MCNext]_<<setting, vars>> /\ Fairness

\* Workers end and full batches are published, in the setting for it.
BatchEnds == setting = "ends" => BatchCompletes
=============================================================================
