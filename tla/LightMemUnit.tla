---------------------------- MODULE LightMemUnit ----------------------------
(***************************************************************************)
(* How the LightMem adapter makes a unit's memory and lets it be queried.  *)
(* The library extracts entries from every event, links each to the ones   *)
(* it may have to be merged with, and has its manager delete, rewrite or   *)
(* keep them.  It reports little of what fails inside it, so the adapter   *)
(* checks after each step what became of the index, and keeps the source   *)
(* of an entry only while its text is the one extracted from that source.  *)
(*                                                                         *)
(* An entry is the event it was extracted from and whether it was          *)
(* rewritten; the index is a directory of the run and survives a kill, the *)
(* engine and its handle do not.  The runner around it is in RetrievalQA:  *)
(* here it cleans up, prepares and asks, and starts again after a failure. *)
(***************************************************************************)
EXTENDS Integers, FiniteSets, FiniteSetsExt

CONSTANTS
    LastEvent,    \* number of events of the unit
    MaxEntries,   \* bound: entries of the index
    MaxFaults     \* bound: kills, errors, silent failures, damage

\* What is assumed of the constants; the instances check it.
BoundAssumption ==
    LastEvent \in Nat \ {0} /\ MaxEntries \in Nat /\ MaxFaults \in Nat

Events == 1 .. LastEvent
Ids == 1 .. MaxEntries
Entries == [event : Events, rewritten : BOOLEAN, stamped : BOOLEAN]
Actions == {"delete", "update", "ignore"}
None == [n \in {} |-> 0]

VARIABLES
    root,        \* the directory exists
    index,       \* the entries by ID
    manifest,    \* lineage.json: lineage and digest, or none
    \* the engine and the handle
    pc,          \* "idle", "clean", "adding", "queued", "updated", "prepared"
    at,          \* the event to add
    lineage,
    candidates,  \* entries that another one's queue names, above the threshold
    actions,     \* what the manager said of each
    asked,       \* its calls
    handle,      \* lineage and digest as prepared, or none
    retrieved,   \* what a query was answered from, or none
    faults

disk == <<root, index, manifest>>
engine == <<at, lineage, candidates, actions, asked, handle>>
vars == <<disk, pc, engine, retrieved, faults>>

Goto(from, to) == pc = from /\ pc' = to
Fault == faults < MaxFaults /\ faults' = faults + 1
Drop(f, keys) == [x \in DOMAIN f \ keys |-> f[x]]
Evidence(links, entries) == {[lineage |-> links, digest |-> entries]}

-----------------------------------------------------------------------------
\* The engine is closed and the directory removed.
Cleanup ==
    /\ root' = FALSE /\ index' = None /\ manifest' = {}
    /\ at' = 1 /\ lineage' = None /\ candidates' = {} /\ actions' = None
    /\ asked' = 0 /\ handle' = {}

Clean == Goto("idle", "clean") /\ Cleanup /\ UNCHANGED <<retrieved, faults>>

\* A directory that is there already is refused.
Begin ==
    /\ Goto("clean", "adding")
    /\ ~root /\ root' = TRUE
    /\ UNCHANGED <<index, manifest, engine, retrieved, faults>>

\* An entry without a time gets the event's, or no queue would be built for it.
Stamped(entries) == [id \in DOMAIN entries |-> [entries[id] EXCEPT !.stamped = TRUE]]

\* The library extracts some entries from an event; those that are new are the
\* event's.
AddEvent ==
    /\ pc = "adding" /\ at \in Events
    /\ \E n \in 0 .. 2, stamped \in BOOLEAN :
          LET last == Cardinality(DOMAIN index)
              new == (last + 1) .. (last + n)
              extracted == [id \in new |-> [event |-> at, rewritten |-> FALSE,
                                            stamped |-> stamped]]
              stored == Stamped(extracted) IN
          /\ last + n <= MaxEntries
          /\ index' = [id \in DOMAIN index \cup new |->
                          IF id \in new THEN stored[id] ELSE index[id]]
          /\ lineage' = [id \in DOMAIN lineage \cup new |->
                            IF id \in new THEN at ELSE lineage[id]]
    /\ at' = at + 1
    /\ UNCHANGED <<root, manifest, pc, candidates, actions, asked, handle, retrieved, faults>>

\* Every entry has a queue, or the preparation fails; the library builds none
\* for an entry without a time.
BuildQueue ==
    /\ at > LastEvent /\ \A id \in DOMAIN index : index[id].stamped
    /\ Goto("adding", "queued")
    /\ candidates' \in SUBSET DOMAIN index
    /\ UNCHANGED <<disk, at, lineage, actions, asked, handle, retrieved, faults>>

-----------------------------------------------------------------------------
\* The manager's decision and its effect, which the library may fail to have.
Applied(id, action) ==
    CASE action = "delete" -> Drop(index, {id})
      [] action = "update" -> [index EXCEPT ![id].rewritten = TRUE]
      [] OTHER -> index

Update(id) ==
    /\ pc = "queued" /\ id \in candidates \ DOMAIN actions
    /\ \E action \in Actions :
          /\ actions' = [x \in DOMAIN actions \cup {id} |->
                            IF x = id THEN action ELSE actions[x]]
          /\ \/ index' = Applied(id, action) /\ UNCHANGED faults
             \/ Fault /\ \E other \in Actions \ {action} : index' = Applied(id, other)
    /\ asked' = asked + 1
    /\ UNCHANGED <<root, manifest, pc, at, lineage, candidates, handle, retrieved>>

\* The library has been through the queue, or says so.
EndUpdates ==
    /\ Goto("queued", "updated")
    /\ \/ DOMAIN actions = candidates /\ UNCHANGED faults
       \/ DOMAIN actions # candidates /\ Fault
    /\ UNCHANGED <<disk, engine, retrieved>>

\* Each candidate was asked about once, and its entry is as decided.
AllCommitted ==
    /\ asked = Cardinality(candidates) /\ DOMAIN actions = candidates
    /\ \A id \in candidates :
          IF actions[id] = "delete" THEN id \notin DOMAIN index
          ELSE /\ id \in DOMAIN index
               /\ index[id].rewritten = (actions[id] = "update")

\* Variant: the source of a rewritten entry is kept.
StillThere == [id \in DOMAIN lineage \cap DOMAIN index |-> lineage[id]]

\* The sources of the entries that are there and read as they were extracted.
Exact ==
    [id \in {i \in DOMAIN lineage \cap DOMAIN index :
                ~(i \in candidates /\ index[i].rewritten)} |-> lineage[id]]

Commit ==
    /\ AllCommitted
    /\ Goto("updated", "prepared")
    /\ lineage' = Exact
    /\ manifest' = Evidence(Exact, index) /\ handle' = Evidence(Exact, index)
    /\ UNCHANGED <<root, index, at, candidates, actions, asked, retrieved, faults>>

\* A failed check, or an exception of the library, takes the directory along.
Refuse ==
    /\ \/ pc = "adding" /\ at > LastEvent /\ \E id \in DOMAIN index : ~index[id].stamped
       \/ pc = "updated" /\ ~AllCommitted
    /\ pc' = "idle" /\ Cleanup
    /\ UNCHANGED <<retrieved, faults>>

Fail ==
    /\ pc \in {"adding", "queued", "updated"} /\ Fault
    /\ pc' = "idle" /\ Cleanup
    /\ UNCHANGED retrieved

-----------------------------------------------------------------------------
\* The index and the lineage file are as prepared.
Verified == manifest = handle /\ \A h \in handle : h.digest = index

Retrieve ==
    /\ pc = "prepared" /\ Verified /\ retrieved = {}
    /\ retrieved' = {[index |-> index, lineage |-> lineage, actions |-> actions,
                      candidates |-> candidates]}
    /\ UNCHANGED <<disk, pc, engine, faults>>

\* The runner starts the unit again.
RefuseQuery ==
    /\ Goto("prepared", "idle") /\ ~Verified
    /\ UNCHANGED <<disk, engine, retrieved, faults>>

\* The process is killed: the directory stays, the engine does not.
Kill ==
    /\ pc \notin {"idle"} /\ retrieved = {} /\ Fault
    /\ pc' = "idle"
    /\ at' = 1 /\ lineage' = None /\ candidates' = {} /\ actions' = None
    /\ asked' = 0 /\ handle' = {}
    /\ UNCHANGED <<disk, retrieved>>

\* An entry is lost or altered, or the lineage file is.
Damage ==
    /\ pc = "prepared" /\ retrieved = {} /\ Fault
    /\ \/ manifest' = {} /\ UNCHANGED index
       \/ /\ \E id \in DOMAIN index :
                index' \in {Drop(index, {id}),
                            [index EXCEPT ![id].rewritten = ~index[id].rewritten]}
          /\ UNCHANGED manifest
    /\ UNCHANGED <<root, pc, engine, retrieved>>

-----------------------------------------------------------------------------
Init ==
    /\ root = FALSE /\ index = None /\ manifest = {}
    /\ pc = "idle" /\ at = 1 /\ lineage = None /\ candidates = {}
    /\ actions = None /\ asked = 0 /\ handle = {}
    /\ retrieved = {} /\ faults = 0

Step ==
    \/ Clean \/ Begin \/ AddEvent \/ BuildQueue \/ (\E id \in Ids : Update(id))
    \/ EndUpdates \/ Commit \/ Refuse \/ Retrieve \/ RefuseQuery

Next == Step \/ Fail \/ Kill \/ Damage

\* The runner goes on with the unit, in this attempt or the next.
Spec == Init /\ [][Next]_vars /\ WF_vars(Step)

-----------------------------------------------------------------------------
TypeOK ==
    /\ root \in BOOLEAN /\ DOMAIN index \subseteq Ids
    /\ \A id \in DOMAIN index : index[id] \in Entries
    /\ \A id \in DOMAIN lineage : lineage[id] \in Events
    /\ DOMAIN actions \subseteq candidates /\ asked \in 0 .. MaxEntries
    /\ pc \in {"idle", "clean", "adding", "queued", "updated", "prepared"}
    /\ index # None => root
    /\ \A h \in handle : DOMAIN h.lineage \subseteq DOMAIN h.digest

\* A query that names the source of a memory names the event it was extracted
\* from, and the memory reads as it did then.
LineageIsExact ==
    \A r \in retrieved : \A id \in DOMAIN r.lineage :
        /\ id \in DOMAIN r.index
        /\ r.index[id].event = r.lineage[id] /\ ~r.index[id].rewritten

\* No query is answered from a memory whose update stopped half-way: every
\* entry that was to be decided on was, and is as decided.
UpdatesTookEffect ==
    \A r \in retrieved :
        /\ DOMAIN r.actions = r.candidates
        /\ \A id \in r.candidates :
              (id \in DOMAIN r.index) = (r.actions[id] # "delete")
        /\ \A id \in r.candidates \cap DOMAIN r.index :
              r.index[id].rewritten = (r.actions[id] = "update")

\* What a query is answered from is the memory as it was prepared, whatever
\* happened to the directory since.
AnsweredAsPrepared == \A r \in retrieved : \E h \in handle : r.index = h.digest

\* Whatever fails, silently or not, the unit is prepared and asked in the end.
Asked == retrieved # {}
=============================================================================
