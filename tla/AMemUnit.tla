------------------------------ MODULE AMemUnit ------------------------------
(***************************************************************************)
(* How the A-MEM adapter makes a unit's memory and lets it be queried.     *)
(* Every event becomes a note with an ID derived from it.  The library     *)
(* asks its model whether the memory evolves with the note: the note is    *)
(* linked to others, or a neighbour's context is rewritten, in the notes   *)
(* the process holds; the index on disk follows when it is consolidated.   *)
(* The library swallows errors, so the adapter looks for them after each   *)
(* note.  Links are the model's words: they may name anything.             *)
(*                                                                         *)
(* A note's text is how often it was rewritten, and its ID the event's     *)
(* number; 0 is an ID no note has.                                         *)
(***************************************************************************)
EXTENDS Integers, Sequences, SequencesExt, FiniteSets

CONSTANTS
    LastEvent,      \* number of events of the unit
    DirectResults, LinkedResults, MaxResults,   \* of the profile and the run
    MaxFaults       \* bound: kills, errors reported or swallowed, damage

\* What is assumed of the constants; the instances check it.
BoundAssumption ==
    /\ LastEvent \in Nat /\ MaxFaults \in Nat
    /\ DirectResults \in Nat \ {0} /\ LinkedResults \in Nat \ {0} /\ MaxResults \in Nat \ {0}

Ids == 1 .. LastEvent
None == [n \in {} |-> 0]

VARIABLES
    root,       \* the directory exists
    index,      \* the notes on disk
    manifest,   \* lineage.json: the notes' IDs and the digest of the index, or none
    \* the engine
    pc,         \* "idle", "clean", "adding", "prepared"
    at,         \* the event to add
    notes,      \* the notes the process holds
    lineage,    \* the IDs of the notes added
    decided,    \* the notes with which the model had the memory evolve
    evolved,    \* those with which it did
    swallowed,  \* the library met an error and went on
    handle,     \* the evidence as prepared, or none
    retrieved,  \* what a query was answered with, or none
    faults

disk == <<root, index, manifest>>
engine == <<at, notes, lineage, decided, evolved, swallowed, handle>>
vars == <<disk, pc, engine, retrieved, faults>>

Goto(from, to) == pc = from /\ pc' = to
Fault == faults < MaxFaults /\ faults' = faults + 1
Least(a, b) == IF a < b THEN a ELSE b

-----------------------------------------------------------------------------
\* The index of the private client is closed and the directory removed.
Cleanup ==
    /\ root' = FALSE /\ index' = None /\ manifest' = {}
    /\ at' = 1 /\ notes' = None /\ lineage' = {}
    /\ decided' = {} /\ evolved' = {} /\ swallowed' = FALSE /\ handle' = {}

Clean == Goto("idle", "clean") /\ Cleanup /\ UNCHANGED <<retrieved, faults>>

\* A directory that is there already is refused.
Begin ==
    /\ Goto("clean", "adding")
    /\ ~root /\ root' = TRUE
    /\ UNCHANGED <<index, manifest, engine, retrieved, faults>>

\* An error was recorded, or a decision not carried out.
NotDone == swallowed \/ decided # evolved

\* What a call of the model records of its decision, once it has the right form.
Decided(yes) == IF yes THEN decided \cup {at} ELSE decided

\* A note with the links the model suggests, and a neighbour it rewrites.
Evolved(id, links, rewritten) ==
    [n \in DOMAIN notes \cup {id} |->
        IF n = id THEN [text |-> 0, links |-> links]
        ELSE [notes[n] EXCEPT !.text = IF n = rewritten THEN @ + 1 ELSE @]]

\* The library stores the note; the others on disk are as they were.
Stored(id, note) ==
    [n \in DOMAIN index \cup {id} |-> IF n = id THEN note ELSE index[n]]

\* The note's analysis, the decision on it and its storage.  What an error
\* leaves undone is not said by the return value.
AddNote ==
    /\ pc = "adding" /\ at \in Ids
    /\ ~NotDone
    /\ \E yes \in BOOLEAN, links \in BoundedSeq(Ids \cup {0}, 2), other \in Ids \cup {0} :
          /\ ~yes => links = <<>> /\ other = 0
          /\ decided' = Decided(yes)
          /\ \/ /\ notes' = Evolved(at, links, other)
                /\ evolved' = decided'
                /\ UNCHANGED <<swallowed, faults>>
             \/ /\ Fault /\ notes' = Evolved(at, <<>>, 0)
                /\ swallowed' \in {TRUE, ~yes} /\ UNCHANGED evolved
    /\ index' = Stored(at, notes'[at])
    /\ lineage' = lineage \cup {at}
    /\ at' = at + 1
    /\ UNCHANGED <<root, manifest, pc, handle, retrieved>>

\* The links that name another note, each once, in their order.
ValidLinks(id) ==
    LET all == notes[id].links
        first(i) == \A j \in 1 .. i - 1 : all[j] # all[i]
        kept == {i \in DOMAIN all : all[i] \in lineage \ {id} /\ first(i)} IN
    [k \in 1 .. Cardinality(kept) |->
        all[CHOOSE i \in kept : Cardinality({j \in kept : j <= i}) = k]]

\* The collection is built again from the notes the process holds.
Consolidated(pruned) == pruned

Evidence(ids, state) == {[lineage |-> ids, digest |-> state]}

Finish ==
    LET pruned == [id \in DOMAIN notes |-> [notes[id] EXCEPT !.links = ValidLinks(id)]]
        state == Consolidated(pruned) IN
    /\ at > LastEvent /\ ~NotDone
    /\ Goto("adding", "prepared")
    /\ notes' = pruned /\ index' = state
    /\ manifest' = Evidence(lineage, state) /\ handle' = Evidence(lineage, state)
    /\ UNCHANGED <<root, at, lineage, decided, evolved, swallowed, retrieved, faults>>

Refuse ==
    /\ Goto("adding", "idle") /\ NotDone /\ Cleanup
    /\ UNCHANGED <<retrieved, faults>>

Fail ==
    /\ Goto("adding", "idle") /\ Fault /\ Cleanup
    /\ UNCHANGED retrieved

-----------------------------------------------------------------------------
\* The index and the lineage file are as prepared.
Verified == manifest = handle /\ \A h \in handle : h.digest = index

Full(ranked, direct) == Len(ranked) >= MaxResults \/ Len(ranked) - direct >= LinkedResults

\* The notes the search finds, then those they link to, in the order of the
\* links, up to the limits.
Ranked(found) ==
    LET links == FlattenSeq([i \in DOMAIN found |-> notes[found[i]].links])
        ranked[k \in 0 .. Len(links)] ==
            IF k = 0 THEN found
            ELSE IF \/ Full(ranked[k - 1], Len(found))
                    \/ links[k] \notin lineage \/ Contains(ranked[k - 1], links[k])
            THEN ranked[k - 1] ELSE Append(ranked[k - 1], links[k])
    IN  ranked[Len(links)]

Searches ==
    LET count == Least(Least(DirectResults, MaxResults), Cardinality(lineage)) IN
    {s \in [1 .. count -> lineage] : \A i, j \in 1 .. count : s[i] = s[j] => i = j}

Retrieve ==
    /\ pc = "prepared" /\ Verified /\ retrieved = {}
    /\ \E found \in Searches :
          retrieved' = {[direct |-> found, ranked |-> Ranked(found)]}
    /\ UNCHANGED <<disk, pc, engine, faults>>

\* The runner starts the unit again.
RefuseQuery ==
    /\ Goto("prepared", "idle") /\ ~Verified
    /\ UNCHANGED <<disk, engine, retrieved, faults>>

\* The process is killed: the directory stays, the engine does not.
Kill ==
    /\ pc # "idle" /\ retrieved = {} /\ Fault
    /\ pc' = "idle"
    /\ at' = 1 /\ notes' = None /\ lineage' = {}
    /\ decided' = {} /\ evolved' = {} /\ swallowed' = FALSE /\ handle' = {}
    /\ UNCHANGED <<disk, retrieved>>

\* A note of the index is lost, or the lineage file is.
Damage ==
    /\ pc = "prepared" /\ retrieved = {} /\ Fault
    /\ \/ manifest' = {} /\ UNCHANGED index
       \/ /\ \E id \in DOMAIN index : index' = [n \in DOMAIN index \ {id} |-> index[n]]
          /\ UNCHANGED manifest
    /\ UNCHANGED <<root, pc, engine, retrieved>>

-----------------------------------------------------------------------------
Init ==
    /\ root = FALSE /\ index = None /\ manifest = {}
    /\ pc = "idle" /\ at = 1 /\ notes = None /\ lineage = {}
    /\ decided = {} /\ evolved = {} /\ swallowed = FALSE
    /\ handle = {} /\ retrieved = {} /\ faults = 0

Step == Clean \/ Begin \/ AddNote \/ Finish \/ Refuse \/ Retrieve \/ RefuseQuery

Next == Step \/ Fail \/ Kill \/ Damage

\* The runner goes on with the unit, in this attempt or the next.
Spec == Init /\ [][Next]_vars /\ WF_vars(Step)

-----------------------------------------------------------------------------
TypeOK ==
    /\ root \in BOOLEAN /\ lineage \subseteq Ids
    /\ DOMAIN index \subseteq Ids /\ DOMAIN notes = lineage
    /\ \A id \in lineage :
          notes[id].text \in Nat /\ notes[id].links \in BoundedSeq(Ids \cup {0}, 2)
    /\ evolved \subseteq decided /\ decided \subseteq lineage /\ swallowed \in BOOLEAN
    /\ pc \in {"idle", "clean", "adding", "prepared"} /\ at \in 1 .. LastEvent + 1
    /\ index # None => root
    /\ \A h \in handle : \A id \in h.lineage : ToSet(h.digest[id].links) \subseteq Ids

\* No query is answered from a memory that an error kept from evolving.
EvolutionCarriedOut == retrieved # {} => decided = evolved /\ ~swallowed

\* What is searched on disk is the memory as it evolved, the neighbours that
\* later notes rewrote included, and as it was prepared.
SearchedAsEvolved == retrieved # {} => index = notes /\ \A h \in handle : index = h.digest

\* Every link that is followed leads to another note of the unit, and once.
LinksLead ==
    retrieved # {} =>
        \A id \in lineage :
            LET links == notes[id].links IN
            /\ IsInjective(links)
            /\ \A i \in DOMAIN links : links[i] \in lineage \ {id}

\* An answer's memories are those found, then some of those they link to,
\* none twice and no more than the limits allow.
RankedOnce ==
    \A r \in retrieved :
        LET n == Len(r.direct) IN
        /\ IsInjective(r.ranked) /\ SubSeq(r.ranked, 1, n) = r.direct
        /\ Len(r.ranked) <= MaxResults /\ Len(r.ranked) - n <= LinkedResults
        /\ \A k \in n + 1 .. Len(r.ranked) :
              \E i \in 1 .. n : Contains(notes[r.direct[i]].links, r.ranked[k])

\* Whatever fails, reported or not, the unit is prepared and asked in the end.
Asked == retrieved # {}
=============================================================================
