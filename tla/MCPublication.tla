---------------------------- MODULE MCPublication ----------------------------
(***************************************************************************)
(* One run of two artifacts in three settings: read by two derivations, an *)
(* export and the API; exported twice at once; and with attempts killed at *)
(* every step and damaged files, more than fit in with the readers.        *)
(***************************************************************************)
EXTENDS Publication

CONSTANTS x1, x2, d1, d2

VARIABLE setting

FaultsOf == [readers |-> 2, exports |-> 1, kills |-> 4]
Active ==
    [readers |-> {d1, d2, x1}, exports |-> {x1, x2}, kills |-> {}]

MCInit == Init /\ setting \in DOMAIN FaultsOf

MCNext ==
    /\ Next /\ UNCHANGED setting
    /\ faults' <= FaultsOf[setting]
    /\ \A d \in Derivers \ Active[setting] : dpc'[d] = "idle"
    /\ \A x \in Exporters \ Active[setting] : xpc'[x] = "idle"

MCSpec == MCInit /\ [][MCNext]_<<setting, vars>> /\ WF_vars(Attempt)
=============================================================================
