----------------------------- MODULE MCUnitMemory -----------------------------
(***************************************************************************)
(* The memory of a unit under each framework: one run of two units on the  *)
(* server (DMF or Mem0), two runs that share the server, LightMem and      *)
(* A-MEM. A behaviour is of one of these parts, and the server and its     *)
(* runs are at their start in the last two.                                *)
(***************************************************************************)
EXTENDS UnitMemory, EmbeddedUnits

ASSUME ServerAssumption == SizeAssumption /\ SettingsAssumption /\ FaultsAssumption
ASSUME EmbeddedAssumption

all == <<unitVars, vars>>

-----------------------------------------------------------------------------
MCInit ==
    /\ Init
    /\ part \in {"units", "shared", "lightmem", "amem"} /\ EmbeddedInit
    /\ part = "shared" => schema = 2
    /\ part \in {"lightmem", "amem"} =>
          framework = "dmf" /\ schema = 2 /\ retention = "keep"

OnServer(step) == step /\ UNCHANGED unitVars
\* The first run has the server for itself.
InUnits(step) == part = "units" /\ OnServer(step)
\* Bounds: each run does its first unit, and at most one thing goes wrong.
InShared(step) ==
    /\ part = "shared" /\ OnServer(step)
    /\ faults' <= 1 /\ \A r \in Runs : unit'[r] = 1

MCNext ==
    \/ InUnits(Step("r1") \/ Mishap("r1"))
    \/ InUnits(Server \/ \E q \in late : Arrive(q))
    \/ InShared(Next)
    \/ EmbeddedNext /\ UNCHANGED vars

\* The step that goes on with a unit.
Onward ==
    \/ InUnits(Step("r1"))
    \/ (InLightMem(LightMem!Step) \/ InAMem(AMem!Step)) /\ UNCHANGED vars

\* As in the modules: the process goes on, or is started again; the server
\* finishes its deletions.
MCFairness == WF_all(Onward) /\ WF_all(InUnits(Server))

MCSpec == MCInit /\ [][MCNext]_all /\ MCFairness

-----------------------------------------------------------------------------
\* Whatever a killed or failed attempt left on the server and the disk, the unit
\* is committed, or asked, in the end.
EveryUnitIsDone ==
    <>[](\/ part = "units" /\ \A u \in Units : checkpoint[<<"r1", u>>] = "COMMITTED"
         \/ part = "lightmem" /\ LightMem!Asked
         \/ part = "amem" /\ AMem!Asked
         \/ part = "shared")
=============================================================================
