--------------------------- MODULE DirectoryIndex ---------------------------
(***************************************************************************)
(* The index of the folders under a dataset type, and the walk that        *)
(* refreshes it and then archives or purges the sources whose folder is    *)
(* gone.  A walk is a message without a claim: any number may run at once, *)
(* each an element of Walks from the request that sends it.                *)
(***************************************************************************)
EXTENDS SourceDatasets

CONSTANT Walks      \* bound: requests, messages and walks at one time

VARIABLES
    reindex,        \* status of dataset_type_reindexes, NONE while there is no row
    index,          \* dataset_directory_index
    walks           \* what each request or walk has done, seen and still to do

indexVars == <<reindex, index, walks>>

Idle == [phase |-> "idle", seen |-> {}, todo |-> {}]

Set(w, phase, seen, todo) ==
    walks' = [walks EXCEPT ![w] = [phase |-> phase, seen |-> seen, todo |-> todo]]

\* The row says RUNNING, but its heartbeat is old: nobody walks.
Stale == \A w \in Walks : walks[w].phase # "walked"

\* dispatchDirectoryReindex: the row is locked, unless there is none to lock yet.
RequestReindex(w) ==
    /\ walks[w].phase = "idle"
    /\ \/ /\ reindex = "NONE"
          /\ Set(w, "asked", {}, {})
          /\ UNCHANGED reindex
       \/ /\ reindex \in {"COMPLETED", "FAILED"}
          /\ reindex' = "RUNNING"
          /\ Set(w, "sent", {}, {})
    /\ UNCHANGED index

\* dispatchPeriodicReindexes reads which types are due, for all of them at once ...
FindDue(w) ==
    /\ walks[w].phase = "idle"
    /\ reindex = "RUNNING" => Stale
    /\ Set(w, "asked", {}, {})
    /\ UNCHANGED <<reindex, index>>

\* ... and sets each to RUNNING in a transaction of its own, whatever it is by then.
Upsert(w) ==
    /\ walks[w].phase = "asked"
    /\ reindex' = "RUNNING"
    /\ Set(w, "sent", {}, {})
    /\ UNCHANGED index

\* Reindexer.run: RUNNING again, and the folders that are there.
Walk(w) ==
    /\ walks[w].phase = "sent"
    /\ reindex' = "RUNNING"
    /\ Set(w, "walked", {s \in Sources : onDisk[s]}, {})
    /\ UNCHANGED index

\* The type has no path, or it is not a directory.
FailWalk(w) ==
    /\ walks[w].phase = "sent"
    /\ reindex' = "FAILED"
    /\ Set(w, "idle", {}, {})
    /\ UNCHANGED index

\* Mutant of Publish: what is no longer there stays in the index.
PublishAdded(w) ==
    /\ walks[w].phase = "walked"
    /\ index' = index \cup walks[w].seen
    /\ reindex' = "COMPLETED"
    /\ Set(w, "published", walks[w].seen, {})

\* The index becomes what this walk saw, whatever others saw meanwhile.
Publish(w) ==
    /\ walks[w].phase = "walked"
    /\ index' = walks[w].seen
    /\ reindex' = "COMPLETED"
    /\ Set(w, "published", walks[w].seen, {})

\* _reconcile_missing reads the registered rows; the ones being scanned are left alone.
ReadRows(w) ==
    /\ walks[w].phase = "published"
    /\ Set(w, "reconciling", {},
           {s \in Sources : Registered(s) /\ ~source[s].archived /\ s \notin walks[w].seen
                               /\ source[s].status # "SCANNING"})
    /\ UNCHANGED <<reindex, index>>

Forget(w, s) == Set(w, walks[w].phase, {}, walks[w].todo \ {s})

AutoArchivable(s) == Registered(s) /\ ~source[s].archived /\ source[s].status # "SCANNING"

\* A folder that is still missing: archive what a training dataset refers to.
ArchiveMissing(w, s) ==
    /\ walks[w].phase = "reconciling" /\ s \in walks[w].todo /\ ~onDisk[s]
    /\ Forget(w, s)
    /\ source' = IF AutoArchivable(s)
                 THEN [source EXCEPT ![s].status = "ARCHIVED", ![s].archived = TRUE]
                 ELSE source
    /\ UNCHANGED <<scans, classes, onDisk, moves, outlived, reindex, index>>

\* Nothing refers to it, as far as this transaction has seen: it will be purged.
DecidePurge(w, s) ==
    /\ walks[w].phase = "reconciling" /\ s \in walks[w].todo /\ ~onDisk[s]
    /\ Set(w, "purging", {s}, walks[w].todo \ {s})
    /\ UNCHANGED <<reindex, index>>

\* The row and its scans are deleted, by id; deleted twice is deleted.
Purge(w) ==
    /\ walks[w].phase = "purging"
    /\ \E s \in walks[w].seen :
          /\ source' = [source EXCEPT ![s] = [status |-> "PURGED", archived |-> FALSE, latest |-> 0]]
          /\ scans' = [scans EXCEPT ![s] = [k \in DOMAIN @ |-> [@[k] EXCEPT !.status = "PURGED"]]]
    /\ Set(w, "reconciling", {}, walks[w].todo)
    /\ UNCHANGED <<classes, onDisk, moves, outlived, reindex, index>>

\* A folder that is back is left alone; after the last row the walk is over.
Skip(w) ==
    /\ walks[w].phase = "reconciling"
    /\ IF walks[w].todo = {}
       THEN Set(w, "idle", {}, {})
       ELSE \E s \in walks[w].todo : onDisk[s] /\ Forget(w, s)
    /\ UNCHANGED <<reindex, index>>

\* A message that stays unacknowledged is handed to another worker; one that died
\* leaves it to be handed over; one that Redis lost never comes.
Redeliver(w, v) ==
    /\ walks[w].phase \in {"walked", "reconciling"}
    /\ walks[v].phase = "idle"
    /\ Set(v, "sent", {}, {})
    /\ UNCHANGED <<reindex, index>>

CrashWalk(w) ==
    /\ walks[w].phase \in {"walked", "published", "reconciling", "purging"}
    /\ Set(w, "sent", {}, {})
    /\ UNCHANGED <<reindex, index>>

LoseMessage(w) ==
    /\ walks[w].phase = "sent"
    /\ Set(w, "idle", {}, {})
    /\ UNCHANGED <<reindex, index>>

-----------------------------------------------------------------------------
IndexInit ==
    /\ reindex = "NONE" /\ index = {}
    /\ walks = [w \in Walks |-> Idle]

IndexAlone(w) ==
    \/ RequestReindex(w) \/ FindDue(w) \/ Upsert(w)
    \/ Walk(w) \/ FailWalk(w) \/ Publish(w) \/ ReadRows(w) \/ Skip(w)
    \/ \E v \in Walks : Redeliver(w, v)
    \/ CrashWalk(w) \/ LoseMessage(w)

IndexTypeOK ==
    /\ reindex \in {"NONE", "RUNNING", "COMPLETED", "FAILED"}
    /\ index \subseteq Sources
    /\ walks \in [Walks -> [phase : {"idle", "asked", "sent", "walked", "published",
                                     "reconciling", "purging"},
                            seen : SUBSET Sources, todo : SUBSET Sources]]

\* "the index matches reality" (Reindexer.run): once folders no longer come and go, the
\* index becomes and stays what is on disk, whichever walks overlap, crash or are lost.
IndexConverges == <>[](index = {s \in Sources : onDisk[s]})
=============================================================================
