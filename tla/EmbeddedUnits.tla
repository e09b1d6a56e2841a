---------------------------- MODULE EmbeddedUnits ----------------------------
(***************************************************************************)
(* The frameworks that keep a unit's memory in the run directory, LightMem *)
(* and A-MEM: what both answer questions from. A behaviour is of one of    *)
(* them, or of neither, and what the other one has is unused.              *)
(***************************************************************************)

CONSTANTS
    \* events of a unit, entries and faults with LightMem
    LightMemEvents, LightMemEntries, LightMemFaults,
    \* events of a unit, the limits of an answer and faults with A-MEM
    AMemEvents, DirectResults, LinkedResults, MaxResults, AMemFaults

VARIABLES
    part,   \* what a behaviour is of
    stage, mishaps, root, index, manifest, at, lineage, handle, retrieved,
    candidates, actions, asked,
    notes, decided, evolved, swallowed

embeddedVars == <<stage, mishaps, root, index, manifest, at, lineage, handle, retrieved>>
lightMemVars == <<candidates, actions, asked>>
aMemVars == <<notes, decided, evolved, swallowed>>
unitVars == <<part, embeddedVars, lightMemVars, aMemVars>>

LightMem == INSTANCE LightMemUnit WITH
    pc <- stage, faults <- mishaps,
    LastEvent <- LightMemEvents, MaxEntries <- LightMemEntries, MaxFaults <- LightMemFaults
AMem == INSTANCE AMemUnit WITH
    pc <- stage, faults <- mishaps, LastEvent <- AMemEvents, MaxFaults <- AMemFaults

EmbeddedAssumption == LightMem!BoundAssumption /\ AMem!BoundAssumption

Unused == "unused"
EmbeddedVarsUnused ==
    /\ stage = Unused /\ mishaps = Unused
    /\ root = Unused /\ index = Unused
    /\ manifest = Unused /\ at = Unused /\ lineage = Unused
    /\ handle = Unused /\ retrieved = Unused
LightMemVarsUnused ==
    /\ candidates = Unused /\ actions = Unused
    /\ asked = Unused
AMemVarsUnused ==
    /\ notes = Unused /\ decided = Unused
    /\ evolved = Unused /\ swallowed = Unused

-----------------------------------------------------------------------------
EmbeddedInit ==
    \/ part \notin {"lightmem", "amem"}
       /\ EmbeddedVarsUnused /\ LightMemVarsUnused /\ AMemVarsUnused
    \/ part = "lightmem" /\ LightMem!Init /\ AMemVarsUnused
    \/ part = "amem" /\ AMem!Init /\ LightMemVarsUnused

InLightMem(step) == part = "lightmem" /\ step /\ UNCHANGED <<part, aMemVars>>
InAMem(step) == part = "amem" /\ step /\ UNCHANGED <<part, lightMemVars>>

EmbeddedNext == InLightMem(LightMem!Next) \/ InAMem(AMem!Next)

EmbeddedSpec == EmbeddedInit /\ [][EmbeddedNext]_unitVars

-----------------------------------------------------------------------------
\* The frameworks in the run directory answer from the memory as it was made, in
\* LightMem with every update as decided, in A-MEM with every evolution carried
\* out, and what is said of its origin is so: LightMem names the event an entry
\* still reads as, A-MEM's links lead to notes, none of which is ranked twice.
OriginsAreExact ==
    /\ part = "lightmem" => /\ LightMem!TypeOK /\ LightMem!UpdatesTookEffect
                            /\ LightMem!AnsweredAsPrepared /\ LightMem!LineageIsExact
    /\ part = "amem" => /\ AMem!TypeOK /\ AMem!EvolutionCarriedOut
                        /\ AMem!SearchedAsEvolved /\ AMem!LinksLead /\ AMem!RankedOnce
=============================================================================
