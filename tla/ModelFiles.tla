----------------------------- MODULE ModelFiles -----------------------------
(***************************************************************************)
(* The models of the dataset types and the weights behind them.  Rows are  *)
(* written by ingest tasks, by trainings and by the scan of the Model      *)
(* Roots; files are placed by the first two, found by the third and        *)
(* unlinked by messages that deletions send.  Nothing but its path ties a  *)
(* row to its file: two names may share a slug, and two types a root.      *)
(***************************************************************************)
EXTENDS Integers, Sequences, FiniteSets

CONSTANTS
    Types,        \* dataset types
    Root,         \* of a type: its Model Root, perhaps another's as well
    Asked,        \* names asked for
    Slug,         \* of a name: what _sanitize leaves of it
    Contents,     \* checksums of weights
    Tasks,        \* ingest tasks
    Trainings,    \* attempts that store their weights
    Walks         \* scans of a Model Root

\* <slug>_<checksum>.pt, and the same with a suffix of the writer's own.
Stems == {Slug[a] : a \in Asked} \X Contents \X ({"plain"} \cup Tasks \cup Trainings)

Paths == {Root[d] : d \in Types} \X {"trained", "uploaded", "downloaded"} \X Stems

\* A name is unique in its type.  A scan names a model after its file.
Requested == Types \X Asked
Names == Requested \cup (Types \X Stems)

VARIABLES
    models,       \* by name: status, path, a stored artifact or not
    files,        \* the paths in the Model Roots
    tasks,        \* model_ingest_tasks, each with its execution, worker and upload
    trainings,    \* what a training has stored
    walks,        \* the scans under way
    unlinks       \* delete messages on their way, by path

fileVars == <<models, files, tasks, trainings, walks, unlinks>>

NoModel == [status |-> "NONE", path |-> <<>>, stored |-> FALSE]

Known(d) == {models[n].path : n \in {n \in Names : n[1] = d /\ models[n].status # "NONE"}}

\* Mutant of Free: the name of a deleted model can be used again.
FreeAgain(n) == models[n].status # "AVAILABLE"

\* uq_models_dataset_type_name: the name of a deleted model stays taken.
Free(n) == models[n].status = "NONE"

Register(n, p, stored) ==
    models' = [models EXCEPT ![n] = [status |-> "AVAILABLE", path |-> p, stored |-> stored]]

\* _target_relative_path: what is there already is not written over.
Target(dir, n, x, writer) ==
    LET Path(suffix) == <<Root[n[1]], dir, <<Slug[n[2]], x, suffix>>>>
    IN  IF Path("plain") \in files THEN Path(writer) ELSE Path("plain")

-----------------------------------------------------------------------------
(* Ingest *)

TaskEnded == {"COMPLETED", "FAILED"}

\* ingestFromUrl, uploadModel: an upload is stored before the task.
Request(t, n, uploaded) ==
    /\ tasks[t].status = "NONE"
    /\ tasks' = [tasks EXCEPT ![t].status = "QUEUED", ![t].execution = "ASSIGNED",
                              ![t].name = n, ![t].uploaded = uploaded, ![t].object = uploaded]
    /\ UNCHANGED <<models, files, trainings, walks, unlinks>>

\* The claim.  _load follows, outside the try block.
ClaimIngest(t) ==
    /\ tasks[t].execution = "ASSIGNED"
    /\ tasks' = [tasks EXCEPT ![t].status = "VALIDATING", ![t].execution = "RUNNING",
                              ![t].worker = "fetching"]
    /\ UNCHANGED <<models, files, trainings, walks, unlinks>>

\* _fetch, _validate_file and _assert_task_matches are through, the name is free, and a
\* path is chosen.
Choose(t, x) ==
    /\ tasks[t].worker = "fetching"
    /\ Free(tasks[t].name)
    /\ LET dir == IF tasks[t].uploaded THEN "uploaded" ELSE "downloaded"
       IN  tasks' = [tasks EXCEPT ![t].worker = "placing", ![t].path = Target(dir, tasks[t].name, x, t)]
    /\ UNCHANGED <<models, files, trainings, walks, unlinks>>

\* A look whether it is still free ...
LookAgain(t) ==
    /\ tasks[t].worker = "placing" /\ tasks[t].path \notin files
    /\ tasks' = [tasks EXCEPT ![t].worker = "renaming"]
    /\ UNCHANGED <<models, files, trainings, walks, unlinks>>

\* ... and the rename to it, over whatever has come there since.
Place(t) ==
    /\ tasks[t].worker = "renaming"
    /\ files' = files \cup {tasks[t].path}
    /\ tasks' = [tasks EXCEPT ![t].worker = "placed"]
    /\ UNCHANGED <<models, trainings, walks, unlinks>>

\* Model, task and execution in one transaction, by id.
CompleteIngest(t) ==
    /\ tasks[t].worker = "placed" /\ Free(tasks[t].name)
    /\ Register(tasks[t].name, tasks[t].path, FALSE)
    /\ tasks' = [tasks EXCEPT ![t].status = "COMPLETED", ![t].execution = "SUCCEEDED",
                              ![t].worker = "ended"]
    /\ UNCHANGED <<files, trainings, walks, unlinks>>

\* Any step may fail, the insert on a name that is taken by now.  A file that was
\* placed stays.
FailIngest(t) ==
    /\ tasks[t].worker \in {"fetching", "placing", "renaming", "placed"}
    /\ tasks' = [tasks EXCEPT ![t].status = "FAILED", ![t].execution = "FAILED", ![t].worker = "ended"]
    /\ UNCHANGED <<models, files, trainings, walks, unlinks>>

\* _cleanup_temp_object, after either end.
CleanUp(t) ==
    /\ tasks[t].worker = "ended"
    /\ tasks' = [tasks EXCEPT ![t].worker = "gone", ![t].object = FALSE]
    /\ UNCHANGED <<models, files, trainings, walks, unlinks>>

\* The worker dies, or _load raises.
CrashIngest(t) ==
    /\ tasks[t].worker \notin {"none", "gone"}
    /\ tasks' = [tasks EXCEPT ![t].worker = "gone"]
    /\ UNCHANGED <<models, files, trainings, walks, unlinks>>

\* reconcile: dead or slow - an ingest has no heartbeat but its progress.
LoseIngest(t) ==
    /\ tasks[t].execution = "RUNNING"
    /\ tasks' = [tasks EXCEPT ![t].execution = "LOST",
                     ![t].status = IF @ \in TaskEnded THEN @ ELSE "FAILED"]
    /\ UNCHANGED <<models, files, trainings, walks, unlinks>>

-----------------------------------------------------------------------------
(* Training: the artifact is what lasts, the copy in the Model Root is dropped. *)

\* _store_and_register uploads the artifact, chooses a path ...
Store(j, n, x) ==
    /\ trainings[j].phase = "none"
    /\ trainings' = [trainings EXCEPT ![j] = [phase |-> "storing", name |-> n,
                                              path |-> Target("trained", n, x, j)]]
    /\ UNCHANGED <<models, files, tasks, walks, unlinks>>

\* ... and renames the copy to it, without another look.
StoreCopy(j) ==
    /\ trainings[j].phase = "storing"
    /\ files' = files \cup {trainings[j].path}
    /\ trainings' = [trainings EXCEPT ![j].phase = "stored"]
    /\ UNCHANGED <<models, tasks, walks, unlinks>>

\* Mutant of RegisterTrained: without the artifact.
RegisterTrainedFile(j) ==
    /\ trainings[j].phase = "stored" /\ Free(trainings[j].name)
    /\ Register(trainings[j].name, trainings[j].path, FALSE)
    /\ trainings' = [trainings EXCEPT ![j].phase = "ended"]
    /\ UNCHANGED <<files, tasks, walks, unlinks>>

\* _complete.
RegisterTrained(j) ==
    /\ trainings[j].phase = "stored" /\ Free(trainings[j].name)
    /\ Register(trainings[j].name, trainings[j].path, TRUE)
    /\ trainings' = [trainings EXCEPT ![j].phase = "ended"]
    /\ UNCHANGED <<files, tasks, walks, unlinks>>

\* _fail: a name that is taken, a job that left RUNNING, a rejected transaction.
FailTrained(j) ==
    /\ trainings[j].phase = "stored"
    /\ trainings' = [trainings EXCEPT ![j].phase = "ended"]
    /\ UNCHANGED <<models, files, tasks, walks, unlinks>>

\* finally: the copy is removed, if it is still there.
DropCopy(j) ==
    /\ trainings[j].phase = "ended"
    /\ files' = files \ {trainings[j].path}
    /\ trainings' = [trainings EXCEPT ![j].phase = "gone"]
    /\ UNCHANGED <<models, tasks, walks, unlinks>>

\* The worker dies, or raises before it knows of a copy to remove.
CrashTrained(j) ==
    /\ trainings[j].phase \in {"storing", "stored", "ended"}
    /\ trainings' = [trainings EXCEPT ![j].phase = "gone"]
    /\ UNCHANGED <<models, files, tasks, walks, unlinks>>

-----------------------------------------------------------------------------
(* The scan of the Model Roots, one type after the other *)

IdleWalk == [phase |-> "idle", type |-> "none", known |-> {}, path |-> <<>>, walked |-> {}]

\* _scan_one reads the paths registered for its type, the archived ones too, once.
Scan(w, d) ==
    /\ walks[w].phase = "idle"
    /\ walks' = [walks EXCEPT ![w] = [phase |-> "walking", type |-> d, known |-> Known(d),
                                      path |-> <<>>, walked |-> {}]]
    /\ UNCHANGED <<models, files, tasks, trainings, unlinks>>

\* A file it does not know is read: metadata, size, checksum.
ReadFile(w, p) ==
    /\ walks[w].phase = "walking"
    /\ p \in files \ (walks[w].known \cup walks[w].walked)
    /\ p[1] = Root[walks[w].type]
    /\ walks' = [walks EXCEPT ![w].phase = "read", ![w].path = p, ![w].walked = @ \cup {p}]
    /\ UNCHANGED <<models, files, tasks, trainings, unlinks>>

\* _register, unless the name is taken.
RegisterFound(w) ==
    /\ walks[w].phase = "read"
    /\ LET n == <<walks[w].type, walks[w].path[3]>>
       IN  IF Free(n) THEN Register(n, walks[w].path, FALSE) ELSE UNCHANGED models
    /\ walks' = [walks EXCEPT ![w].phase = "walking", ![w].path = <<>>]
    /\ UNCHANGED <<files, tasks, trainings, unlinks>>

\* The walk is over, or its worker dies; nothing waits for it.
EndScan(w) ==
    /\ walks[w].phase # "idle"
    /\ walks' = [walks EXCEPT ![w] = IdleWalk]
    /\ UNCHANGED <<models, files, tasks, trainings, unlinks>>

-----------------------------------------------------------------------------
(* ModelDeleter: a message may come late and more than once. *)

Unlink(p) ==
    /\ p \in unlinks
    /\ files' = files \ {p}
    /\ \/ unlinks' = unlinks \ {p}
       \/ UNCHANGED unlinks
    /\ UNCHANGED <<models, tasks, trainings, walks>>

-----------------------------------------------------------------------------
FilesInit ==
    /\ models = [n \in Names |-> NoModel]
    /\ files = {} /\ unlinks = {}
    /\ tasks = [t \in Tasks |-> [status |-> "NONE", execution |-> "NONE", worker |-> "none",
                                 name |-> <<>>, path |-> <<>>, uploaded |-> FALSE, object |-> FALSE]]
    /\ trainings = [j \in Trainings |-> [phase |-> "none", name |-> <<>>, path |-> <<>>]]
    /\ walks = [w \in Walks |-> IdleWalk]

IngestWork(t) ==
    \/ ClaimIngest(t) \/ (\E x \in Contents : Choose(t, x)) \/ LookAgain(t) \/ Place(t)
    \/ CompleteIngest(t) \/ FailIngest(t) \/ CleanUp(t)

FilesNext ==
    \/ \E t \in Tasks :
          \/ \E n \in Requested, uploaded \in BOOLEAN : Request(t, n, uploaded)
          \/ IngestWork(t) \/ CrashIngest(t) \/ LoseIngest(t)
    \/ \E j \in Trainings :
          \/ \E n \in Requested, x \in Contents : Store(j, n, x)
          \/ StoreCopy(j) \/ RegisterTrained(j) \/ FailTrained(j) \/ DropCopy(j) \/ CrashTrained(j)
    \/ \E w \in Walks :
          \/ \E d \in Types : Scan(w, d)
          \/ (\E p \in files : ReadFile(w, p)) \/ RegisterFound(w) \/ EndScan(w)
    \/ \E p \in unlinks : Unlink(p)
=============================================================================
