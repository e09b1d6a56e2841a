---------------------------- MODULE PublishedRun ----------------------------
(***************************************************************************)
(* What the publication of a run promises, whatever becomes of the files:  *)
(* a run has at most one published content, chosen once, and everyone who  *)
(* is given a result of the run is given that content.  Publication shows  *)
(* how the run directory keeps this promise.                               *)
(***************************************************************************)
CONSTANTS Contents, Readers, Nothing   \* Nothing is not a content

VARIABLES published,   \* the content of the run, or Nothing so far
          given        \* the content each reader was last given, or Nothing

vars == <<published, given>>

Init == published = Nothing /\ given = [r \in Readers |-> Nothing]

Publish ==
    /\ published = Nothing
    /\ published' \in Contents
    /\ UNCHANGED given

Read(r) ==
    /\ published # Nothing
    /\ given' = [given EXCEPT ![r] = published]
    /\ UNCHANGED published

Next == Publish \/ \E r \in Readers : Read(r)

Spec == Init /\ [][Next]_vars
=============================================================================
