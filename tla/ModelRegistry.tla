--------------------------- MODULE ModelRegistry ---------------------------
(***************************************************************************)
(* Models with their conversions: requested and deleted by the API, worked *)
(* on by Converter, failed by the scheduler.  Deleting a model deletes its *)
(* conversions with it, at work or not, and sends the message that unlinks *)
(* its file.                                                               *)
(***************************************************************************)
EXTENDS ModelFiles

CONSTANT Conversions      \* conversion requests

VARIABLES
    conversions,  \* model_conversions, each with its execution and worker
    archives,     \* the rows of OPENVINO_ZIP artifacts, by conversion
    deleting      \* transactions of deleteModel: the name, and the archives it has read

vars == <<fileVars, conversions, archives, deleting>>

Active == {"QUEUED", "RUNNING"}

Locked(n) == \E d \in deleting : d.name = n

RowOpen(c) == conversions[c].worker = "committing"

-----------------------------------------------------------------------------
(* The API *)

\* create reads the model ...
Convert(c, n) ==
    /\ conversions[c].status = "NONE" /\ conversions[c].model = <<>>
    /\ models[n].status = "AVAILABLE"
    /\ conversions' = [conversions EXCEPT ![c].model = n]
    /\ UNCHANGED <<fileVars, archives, deleting>>

\* ... and inserts conversion and execution.  The foreign key waits for a deletion of the
\* model under way and is content with what it leaves.
InsertConversion(c) ==
    /\ conversions[c].status = "NONE" /\ conversions[c].model # <<>>
    /\ ~Locked(conversions[c].model)
    /\ conversions' = [conversions EXCEPT ![c].status = "QUEUED", ![c].execution = "ASSIGNED"]
    /\ UNCHANGED <<fileVars, archives, deleting>>

Removable(c) == conversions[c].status \in {"SUCCEEDED", "FAILED"}

\* remove: the archive, then the conversion.
RemoveConversion(c) ==
    /\ Removable(c) /\ ~RowOpen(c)
    /\ archives' = archives \ {c}
    /\ conversions' = [conversions EXCEPT ![c].status = "REMOVED"]
    /\ UNCHANGED <<fileVars, deleting>>

\* deleteModel locks the model, reads its conversions and which archives they have ...
ReadConversions(n) ==
    /\ models[n].status = "AVAILABLE" /\ ~Locked(n)
    /\ deleting' = deleting \cup {[name |-> n,
            archives |-> {c \in Conversions : conversions[c].model = n /\ conversions[c].status = "SUCCEEDED"}]}
    /\ UNCHANGED <<fileVars, conversions, archives>>

\* ... and deletes these archives and all conversions, once no worker holds one of them.
DeleteModel ==
    \E d \in deleting :
        /\ \A c \in Conversions : conversions[c].model = d.name => ~RowOpen(c)
        /\ archives' = archives \ d.archives
        /\ conversions' = [c \in Conversions |->
               IF conversions[c].model = d.name /\ conversions[c].status # "NONE"
               THEN [conversions[c] EXCEPT !.status = "REMOVED"] ELSE conversions[c]]
        /\ models' = [models EXCEPT ![d.name].status = "DELETED"]
        /\ unlinks' = unlinks \cup {models[d.name].path}
        /\ deleting' = deleting \ {d}
        /\ UNCHANGED <<files, tasks, trainings, walks>>

-----------------------------------------------------------------------------
(* Converter *)

Go(c, step) == conversions' = [conversions EXCEPT ![c].worker = step]

\* The claim, of a conversion that is QUEUED.
Claim(c) ==
    /\ conversions[c].execution = "ASSIGNED" /\ conversions[c].worker = "none"
    /\ IF conversions[c].status = "QUEUED"
       THEN conversions' = [conversions EXCEPT ![c].status = "RUNNING", ![c].execution = "RUNNING",
                                               ![c].worker = "fetching"]
       ELSE Go(c, "refused")
    /\ UNCHANGED <<fileVars, archives, deleting>>

\* Rolled back; the execution is cancelled in a transaction of its own.
CancelRefused(c) ==
    /\ conversions[c].worker = "refused"
    /\ conversions' = [conversions EXCEPT ![c].execution = "CANCELLED", ![c].worker = "gone"]
    /\ UNCHANGED <<fileVars, archives, deleting>>

\* fetch_model_file: the file, or the artifact; without either the conversion fails.
Fetch(c) ==
    LET m == models[conversions[c].model]
    IN  /\ conversions[c].worker = "fetching"
        /\ Go(c, IF m.path \in files \/ m.stored THEN "exported" ELSE "error")
        /\ UNCHANGED <<fileVars, archives, deleting>>

RaiseError(c) ==
    /\ conversions[c].worker \in {"fetching", "exported"}
    /\ Go(c, "error")
    /\ UNCHANGED <<fileVars, archives, deleting>>

\* Mutant of Begin: the conversion is completed whatever became of it.
BeginAnyway(c) ==
    /\ conversions[c].worker = "exported"
    /\ Go(c, "committing")
    /\ UNCHANGED <<fileVars, archives, deleting>>

\* _complete inserts the archive and updates a conversion that is RUNNING, or rolls back.
Begin(c) ==
    /\ conversions[c].worker = "exported"
    /\ Go(c, IF conversions[c].status = "RUNNING" THEN "committing" ELSE "error")
    /\ UNCHANGED <<fileVars, archives, deleting>>

Commit(c) ==
    /\ RowOpen(c)
    /\ archives' = archives \cup {c}
    /\ conversions' = [conversions EXCEPT ![c].status = IF @ = "REMOVED" THEN @ ELSE "SUCCEEDED",
                                          ![c].execution = "SUCCEEDED", ![c].worker = "gone"]
    /\ UNCHANGED <<fileVars, deleting>>

\* _fail: the conversion if it is RUNNING, the execution by id.
Fail(c) ==
    /\ conversions[c].worker = "error"
    /\ conversions' = [conversions EXCEPT ![c].status = IF @ = "RUNNING" THEN "FAILED" ELSE @,
                                          ![c].execution = "FAILED", ![c].worker = "gone"]
    /\ UNCHANGED <<fileVars, archives, deleting>>

Crash(c) ==
    /\ conversions[c].worker \notin {"none", "gone"}
    /\ Go(c, "gone")
    /\ UNCHANGED <<fileVars, archives, deleting>>

-----------------------------------------------------------------------------
(* The scheduler *)

\* reconcile: the worker is dead, slow or cut off.
Lose(c) ==
    /\ conversions[c].execution = "RUNNING" /\ ~RowOpen(c)
    /\ conversions' = [conversions EXCEPT ![c].execution = "LOST",
                                          ![c].status = IF @ = "RUNNING" THEN "FAILED" ELSE @]
    /\ UNCHANGED <<fileVars, archives, deleting>>

-----------------------------------------------------------------------------
Init ==
    /\ FilesInit
    /\ conversions = [c \in Conversions |-> [status |-> "NONE", model |-> <<>>,
                                             execution |-> "NONE", worker |-> "none"]]
    /\ archives = {} /\ deleting = {}

ConversionWork(c) ==
    Claim(c) \/ CancelRefused(c) \/ Fetch(c) \/ Begin(c) \/ Commit(c) \/ Fail(c)

Next ==
    \/ FilesNext /\ UNCHANGED <<conversions, archives, deleting>>
    \/ \E n \in Names : ReadConversions(n) \/ \E c \in Conversions : Convert(c, n)
    \/ DeleteModel
    \/ \E c \in Conversions :
          \/ InsertConversion(c) \/ RemoveConversion(c)
          \/ ConversionWork(c) \/ RaiseError(c) \/ Crash(c) \/ Lose(c)

Spec == Init /\ [][Next]_vars

-----------------------------------------------------------------------------
(* Properties *)

TypeOK ==
    /\ models \in [Names -> [status : {"NONE", "AVAILABLE", "DELETED"}, path : Paths \cup {<<>>},
                             stored : BOOLEAN]]
    /\ files \subseteq Paths /\ unlinks \subseteq Paths
    /\ tasks \in [Tasks -> [status : {"NONE", "QUEUED", "VALIDATING", "COMPLETED", "FAILED"},
                            execution : {"NONE", "ASSIGNED", "RUNNING", "SUCCEEDED", "FAILED", "LOST"},
                            worker : {"none", "fetching", "placing", "renaming", "placed", "ended", "gone"},
                            name : Requested \cup {<<>>}, path : Paths \cup {<<>>},
                            uploaded : BOOLEAN, object : BOOLEAN]]
    /\ trainings \in [Trainings -> [phase : {"none", "storing", "stored", "ended", "gone"},
                                    name : Requested \cup {<<>>}, path : Paths \cup {<<>>}]]
    /\ walks \in [Walks -> [phase : {"idle", "walking", "read"}, type : Types \cup {"none"},
                            known : SUBSET (Paths \cup {<<>>}), path : Paths \cup {<<>>},
                            walked : SUBSET Paths]]
    /\ conversions \in [Conversions -> [status : Active \cup {"NONE", "SUCCEEDED", "FAILED", "REMOVED"},
                            model : Names \cup {<<>>},
                            execution : {"NONE", "ASSIGNED", "RUNNING", "SUCCEEDED", "FAILED",
                                         "CANCELLED", "LOST"},
                            worker : {"none", "refused", "fetching", "exported", "committing",
                                      "error", "gone"}]]
    /\ archives \subseteq Conversions
    /\ \A d \in deleting : d.name \in Names /\ d.archives \subseteq Conversions

\* An AVAILABLE model can be used: its weights are in the Model Root or in the object
\* store, whatever is ingested, trained, scanned and deleted around it, and however late
\* the messages come.  Two sorts of model are on their own: one the scan made of a
\* training's copy, which the training removes, and one whose file another model had as
\* well that has been deleted: by a slug, a root or a scan the two came to share it, and
\* the deletion, or a message of it that comes again, does not ask whose it is now.
WeightsAreThere ==
    \A n \in Names : models[n].status = "AVAILABLE" =>
        \/ models[n].path \in files \/ models[n].stored
        \/ n \in Types \X Stems /\ models[n].path[2] = "trained"
        \/ \E o \in Names : models[o].status = "DELETED" /\ models[o].path = models[n].path

\* What is at work can be found by the scheduler when its worker dies.
WorkIsFound ==
    /\ \A t \in Tasks : tasks[t].status = "VALIDATING" => tasks[t].execution = "RUNNING"
    /\ \A c \in Conversions : conversions[c].status = "RUNNING" => conversions[c].execution = "RUNNING"

\* A COMPLETED ingest has its model, with the file it placed, although a training or
\* another ingest of the same name may pass the same check of the name at the same time.
CompletedHasItsModel ==
    \A t \in Tasks : tasks[t].status = "COMPLETED" =>
        models[tasks[t].name].path = tasks[t].path /\ ~Free(tasks[t].name)

\* A SUCCEEDED conversion has its archive; an archive whose conversion is gone is one of a
\* model that was deleted while the worker committed.
ArchivesAreOwned ==
    \A c \in Conversions :
        /\ conversions[c].status = "SUCCEEDED" => c \in archives
        /\ c \in archives => \/ conversions[c].status = "SUCCEEDED"
                             \/ models[conversions[c].model].status = "DELETED"
=============================================================================
