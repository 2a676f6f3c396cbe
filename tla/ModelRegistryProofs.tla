------------------------ MODULE ModelRegistryProofs ------------------------
(***************************************************************************)
(* Proofs about ModelFiles and ModelRegistry, for any types, roots, names, *)
(* slugs, contents, ingests, trainings, scans and conversions.             *)
(***************************************************************************)
EXTENDS ModelRegistry, TLAPS

Model == [status : {"NONE", "AVAILABLE", "DELETED"}, path : Paths \cup {<<>>}, stored : BOOLEAN]
Task == [status : {"NONE", "QUEUED", "VALIDATING", "COMPLETED", "FAILED"},
         execution : {"NONE", "ASSIGNED", "RUNNING", "SUCCEEDED", "FAILED", "LOST"},
         worker : {"none", "fetching", "placing", "renaming", "placed", "ended", "gone"},
         name : Requested \cup {<<>>}, path : Paths \cup {<<>>},
         uploaded : BOOLEAN, object : BOOLEAN]
Training == [phase : {"none", "storing", "stored", "ended", "gone"},
             name : Requested \cup {<<>>}, path : Paths \cup {<<>>}]
Found == [phase : {"idle", "walking", "read"}, type : Types \cup {"none"},
          known : SUBSET (Paths \cup {<<>>}), path : Paths \cup {<<>>}, walked : SUBSET Paths]
Conversion == [status : Active \cup {"NONE", "SUCCEEDED", "FAILED", "REMOVED"},
               model : Names \cup {<<>>},
               execution : {"NONE", "ASSIGNED", "RUNNING", "SUCCEEDED", "FAILED", "CANCELLED", "LOST"},
               worker : {"none", "refused", "fetching", "exported", "committing", "error", "gone"}]

FileTypes ==
    /\ models \in [Names -> Model] /\ files \in SUBSET Paths /\ unlinks \in SUBSET Paths
    /\ tasks \in [Tasks -> Task] /\ trainings \in [Trainings -> Training]
    /\ walks \in [Walks -> Found]

-----------------------------------------------------------------------------
(* What keeps the weights of a model *)

Trained(p) == p[2] = "trained"

\* A model of this path was deleted.
WasDeleted(p) == \E o \in Names : models[o].status = "DELETED" /\ models[o].path = p

\* A file is there, is a training's copy, or has belonged to a model that was deleted.
Lasting(p) == p \in files \/ Trained(p) \/ WasDeleted(p)

ModelOK(n) ==
    /\ models[n].status # "NONE" =>
          models[n].path \in Paths /\ (models[n].stored \/ n \in Types \X Stems \/ ~Trained(models[n].path))
    /\ models[n].status = "AVAILABLE" => models[n].stored \/ Lasting(models[n].path)

\* Where an ingest stands, and what a COMPLETED one has left.
TaskOK(t) ==
    LET k == tasks[t] IN
    /\ k.status = "NONE" => k.worker = "none" /\ k.execution = "NONE"
    /\ k.status # "NONE" => k.name \in Requested
    /\ k.status = "VALIDATING" => k.execution = "RUNNING"
    /\ k.execution = "ASSIGNED" => k.status = "QUEUED"
    /\ k.worker \in {"placing", "renaming", "placed"} => k.path \in Paths /\ ~Trained(k.path)
    /\ k.worker = "placed" => Lasting(k.path)
    /\ k.status = "COMPLETED" =>
          /\ k.worker \in {"ended", "gone"}
          /\ models[k.name].path = k.path /\ models[k.name].status # "NONE"

TrainingOK(j) ==
    trainings[j].phase \in {"storing", "stored", "ended"} =>
        /\ trainings[j].name \in Requested
        /\ trainings[j].path \in Paths /\ Trained(trainings[j].path)

WalkOK(w) ==
    /\ walks[w].phase # "idle" => walks[w].type \in Types
    /\ walks[w].phase = "read" => walks[w].path \in Paths /\ Lasting(walks[w].path)

FileInv ==
    /\ FileTypes
    /\ \A n \in Names : ModelOK(n)
    /\ \A p \in unlinks : WasDeleted(p)
    /\ \A t \in Tasks : TaskOK(t)
    /\ \A j \in Trainings : TrainingOK(j)
    /\ \A w \in Walks : WalkOK(w)

-----------------------------------------------------------------------------
(* What no step takes back *)

\* A row stays, with its path; a deleted one stays deleted.
RowsKept ==
    \A n \in Names : models[n].status # "NONE" =>
        /\ models'[n].status # "NONE" /\ models'[n].path = models[n].path
        /\ models'[n].stored = models[n].stored
        /\ models[n].status = "DELETED" => models'[n].status = "DELETED"

\* Files are removed that are copies of a training or belonged to a deleted model.
FilesKept == \A p \in files \ files' : Trained(p) \/ WasDeleted(p)

\* What lasts goes on lasting.
LEMMA LastingKept ==
    ASSUME RowsKept, FilesKept, NEW p, Lasting(p)
    PROVE  Lasting(p)'
BY DEF RowsKept, FilesKept, Lasting, WasDeleted, Trained

\* A row that is not new keeps its weights, or its excuse.
LEMMA ModelKept ==
    ASSUME RowsKept, FilesKept, NEW n \in Names, ModelOK(n), models[n].status # "NONE",
           models'[n].status = "AVAILABLE" => models[n].status = "AVAILABLE"
    PROVE  ModelOK(n)'
<1>1. \A p : Lasting(p) => Lasting(p)'
  BY LastingKept
<1> QED
  BY <1>1 DEF RowsKept, ModelOK, Trained

\* A step is judged by the rows, tasks, trainings and walks it changes.
LEMMA FileStep ==
    ASSUME FileInv, FileTypes', RowsKept, FilesKept,
           \A n \in Names : models[n].status = "NONE" => models'[n] = models[n] \/ ModelOK(n)',
           \A n \in Names : models[n].status # "NONE" /\ models'[n].status = "AVAILABLE" =>
               models[n].status = "AVAILABLE",
           \A p \in unlinks' \ unlinks : WasDeleted(p)',
           \A t \in Tasks : tasks'[t] = tasks[t] \/ TaskOK(t)',
           \A j \in Trainings : trainings'[j] = trainings[j] \/ TrainingOK(j)',
           \A w \in Walks : walks'[w] = walks[w] \/ WalkOK(w)'
    PROVE  FileInv'
<1>1. ASSUME NEW n \in Names
      PROVE  ModelOK(n)'
  <2>1. CASE models[n].status = "NONE" /\ models'[n] = models[n]
    BY <2>1 DEF ModelOK
  <2>2. CASE models[n].status # "NONE"
    BY <2>2, ModelKept DEF FileInv
  <2> QED
    BY <2>1, <2>2
<1>2. \A p \in unlinks' : WasDeleted(p)'
  BY DEF FileInv, WasDeleted, RowsKept
<1>3. ASSUME NEW t \in Tasks
      PROVE  TaskOK(t)'
  <2>1. CASE tasks'[t] = tasks[t]
    <3>1. TaskOK(t) /\ tasks[t].name \in Requested \cup {<<>>}
      BY DEF FileInv, FileTypes, Task
    <3>2. \A p : Lasting(p) => Lasting(p)'
      BY LastingKept
    <3>3. Requested \subseteq Names
      BY DEF Names
    <3> QED
      BY <2>1, <3>1, <3>2, <3>3 DEF TaskOK, RowsKept, Trained
  <2> QED
    BY <2>1
<1>4. \A j \in Trainings : TrainingOK(j)'
  BY DEF FileInv, TrainingOK, Trained
<1>5. ASSUME NEW w \in Walks
      PROVE  WalkOK(w)'
  <2>1. CASE walks'[w] = walks[w]
    BY <2>1, LastingKept DEF FileInv, WalkOK
  <2> QED
    BY <2>1
<1> QED
  BY <1>1, <1>2, <1>3, <1>4, <1>5 DEF FileInv

\* A step of one ingest that leaves the models alone and takes no file away.
LEMMA TaskStep ==
    ASSUME FileInv, NEW t \in Tasks, NEW k \in Task, tasks' = [tasks EXCEPT ![t] = k],
           UNCHANGED <<models, trainings, walks, unlinks>>,
           files' \in SUBSET Paths, files \subseteq files', TaskOK(t)'
    PROVE  FileInv'
<1>1. FileTypes'
  BY DEF FileInv, FileTypes
<1>2. RowsKept /\ FilesKept
  BY DEF RowsKept, FilesKept
<1>3. \A s \in Tasks : tasks'[s] = tasks[s] \/ TaskOK(s)'
  BY DEF FileInv, FileTypes
<1> QED
  BY <1>1, <1>2, <1>3, FileStep

\* A model is registered under a name that is free, with weights that last or are stored.
LEMMA RegisterStep ==
    ASSUME FileInv, NEW n \in Names, Free(n), NEW p \in Paths, NEW stored \in BOOLEAN,
           Register(n, p, stored), Lasting(p) \/ stored, stored \/ n \in Types \X Stems \/ ~Trained(p),
           tasks' \in [Tasks -> Task], trainings' \in [Trainings -> Training], walks' \in [Walks -> Found],
           UNCHANGED <<files, unlinks>>,
           \A t \in Tasks : tasks'[t] = tasks[t] \/ TaskOK(t)',
           \A j \in Trainings : trainings'[j] = trainings[j] \/ TrainingOK(j)',
           \A w \in Walks : walks'[w] = walks[w] \/ WalkOK(w)'
    PROVE  FileInv' /\ RowsKept
<1> DEFINE m == [status |-> "AVAILABLE", path |-> p, stored |-> stored]
<1>1. m \in Model /\ m.status = "AVAILABLE" /\ m.path = p /\ m.stored = stored
  BY DEF Model
<1>2. models' = [models EXCEPT ![n] = m]
  BY DEF Register
<1> HIDE DEF m
<1>3. models'[n] = m /\ \A o \in Names : o # n => models'[o] = models[o]
  BY <1>2 DEF FileInv, FileTypes
<1>4. FileTypes'
  BY <1>1, <1>2 DEF FileInv, FileTypes
<1>5. RowsKept /\ FilesKept
  BY <1>3 DEF Free, RowsKept, FilesKept
<1>6. Lasting(p) => Lasting(p)'
  BY <1>5, LastingKept
<1>7. ModelOK(n)'
  BY <1>1, <1>3, <1>6 DEF ModelOK, Trained
<1>8. \A o \in Names : models[o].status = "NONE" => models'[o] = models[o] \/ ModelOK(o)'
  BY <1>3, <1>7
<1>9. \A o \in Names : models[o].status # "NONE" /\ models'[o].status = "AVAILABLE" => models[o].status = "AVAILABLE"
  BY <1>3 DEF Free
<1> QED
  BY <1>4, <1>5, <1>8, <1>9, FileStep

\* Where a file goes.
LEMMA TargetPath ==
    ASSUME NEW dir \in {"trained", "uploaded", "downloaded"}, NEW n \in Requested, NEW x \in Contents,
           NEW writer \in Tasks \cup Trainings
    PROVE  Target(dir, n, x, writer) \in Paths /\ Target(dir, n, x, writer)[2] = dir
BY DEF Target, Paths, Stems, Requested

\* An ingest goes on, fails or is lost.
LEMMA IngestPreserves ==
    ASSUME FileInv, NEW t \in Tasks,
           \/ \E n \in Requested, uploaded \in BOOLEAN : Request(t, n, uploaded)
           \/ ClaimIngest(t) \/ (\E x \in Contents : Choose(t, x)) \/ LookAgain(t) \/ Place(t)
           \/ FailIngest(t) \/ CleanUp(t) \/ CrashIngest(t) \/ LoseIngest(t)
    PROVE  FileInv'
<1>1. PICK k : k = tasks[t]
  OBVIOUS
<1>2. k \in Task /\ TaskOK(t) /\ tasks \in [Tasks -> Task] /\ files \in SUBSET Paths
  BY <1>1 DEF FileInv, FileTypes
<1>3. ASSUME NEW l \in Task, tasks' = [tasks EXCEPT ![t] = l] PROVE tasks'[t] = l
  BY <1>2, <1>3
<1>4. ASSUME UNCHANGED <<models, files>>, NEW p, Lasting(p) PROVE Lasting(p)'
  BY <1>4 DEF Lasting, WasDeleted, Trained
<1>5. ASSUME NEW n \in Requested, NEW uploaded \in BOOLEAN, Request(t, n, uploaded)
      PROVE  FileInv'
  <2> DEFINE l == [k EXCEPT !.status = "QUEUED", !.execution = "ASSIGNED", !.name = n,
                            !.uploaded = uploaded, !.object = uploaded]
  <2>1. /\ l \in Task /\ l.status = "QUEUED" /\ l.execution = "ASSIGNED" /\ l.name = n
        /\ l.worker = k.worker
    BY <1>2 DEF Task
  <2>2. tasks' = [tasks EXCEPT ![t] = l]
    BY <1>1, <1>2, <1>5 DEF Request
  <2> HIDE DEF l
  <2>3. k.worker = "none" /\ UNCHANGED <<models, files, trainings, walks, unlinks>>
    BY <1>1, <1>2, <1>5 DEF Request, TaskOK
  <2>4. TaskOK(t)'
    BY <1>3, <2>1, <2>2, <2>3 DEF TaskOK
  <2> QED
    BY <1>2, <2>1, <2>2, <2>3, <2>4, TaskStep
<1>6. CASE ClaimIngest(t)
  <2> DEFINE l == [k EXCEPT !.status = "VALIDATING", !.execution = "RUNNING", !.worker = "fetching"]
  <2>1. /\ l \in Task /\ l.status = "VALIDATING" /\ l.execution = "RUNNING" /\ l.name = k.name
        /\ l.worker = "fetching"
    BY <1>2 DEF Task
  <2>2. tasks' = [tasks EXCEPT ![t] = l]
    BY <1>1, <1>2, <1>6 DEF ClaimIngest
  <2> HIDE DEF l
  <2>3. k.status = "QUEUED" /\ UNCHANGED <<models, files, trainings, walks, unlinks>>
    BY <1>1, <1>2, <1>6 DEF ClaimIngest, TaskOK
  <2>4. TaskOK(t)'
    BY <1>1, <1>2, <1>3, <2>1, <2>2, <2>3 DEF TaskOK
  <2> QED
    BY <1>2, <2>1, <2>2, <2>3, <2>4, TaskStep
<1>7. ASSUME NEW x \in Contents, Choose(t, x)
      PROVE  FileInv'
  <2> DEFINE dir == IF k.uploaded THEN "uploaded" ELSE "downloaded"
             p == Target(dir, k.name, x, t)
             l == [k EXCEPT !.worker = "placing", !.path = p]
  <2>1. k.name \in Requested /\ k.status \notin {"NONE", "COMPLETED"} /\ k.worker = "fetching"
    BY <1>1, <1>2, <1>7 DEF Choose, TaskOK
  <2>2. p \in Paths /\ ~Trained(p)
    BY <2>1, TargetPath DEF Trained
  <2>3. tasks' = [tasks EXCEPT ![t].worker = "placing", ![t].path = p]
    BY <1>1, <1>7 DEF Choose
  <2> HIDE DEF p
  <2>4. /\ l \in Task /\ l.status = k.status /\ l.execution = k.execution /\ l.name = k.name
        /\ l.worker = "placing" /\ l.path = p
    BY <1>2, <2>2 DEF Task
  <2>5. tasks' = [tasks EXCEPT ![t] = l]
    BY <1>1, <1>2, <2>3
  <2> HIDE DEF l
  <2>6. UNCHANGED <<models, files, trainings, walks, unlinks>>
    BY <1>7 DEF Choose
  <2>7. TaskOK(t)'
    BY <1>1, <1>2, <1>3, <2>1, <2>2, <2>4, <2>5 DEF TaskOK, Trained
  <2> QED
    BY <1>2, <2>4, <2>5, <2>6, <2>7, TaskStep
<1>8. CASE LookAgain(t) \/ Place(t)
  <2>1. PICK step \in {"renaming", "placed"} :
            /\ tasks' = [tasks EXCEPT ![t].worker = step] /\ files \subseteq files' /\ files' \subseteq files \cup {k.path}
            /\ step = "placed" => k.path \in files'
            /\ k.worker \in {"placing", "renaming"} /\ UNCHANGED <<models, trainings, walks, unlinks>>
    BY <1>1, <1>8 DEF LookAgain, Place
  <2> DEFINE l == [k EXCEPT !.worker = step]
  <2>2. /\ l \in Task /\ l.status = k.status /\ l.execution = k.execution /\ l.name = k.name
        /\ l.worker = step /\ l.path = k.path
    BY <1>2 DEF Task
  <2>3. tasks' = [tasks EXCEPT ![t] = l]
    BY <1>1, <1>2, <2>1
  <2> HIDE DEF l
  <2>4. k.path \in Paths /\ ~Trained(k.path) /\ files' \in SUBSET Paths
    BY <1>1, <1>2, <2>1 DEF TaskOK
  <2>5. TaskOK(t)'
    BY <1>1, <1>2, <1>3, <2>1, <2>2, <2>3, <2>4 DEF TaskOK, Lasting, Trained
  <2> QED
    BY <1>2, <2>1, <2>2, <2>3, <2>4, <2>5, TaskStep
<1>9. CASE FailIngest(t) \/ CleanUp(t) \/ CrashIngest(t)
  <2>1. PICK l \in Task :
            /\ tasks' = [tasks EXCEPT ![t] = l] /\ l.name = k.name /\ l.path = k.path
            /\ l.worker \in {"ended", "gone"}
            /\ \/ l.status = k.status /\ l.execution = k.execution /\ k.worker # "none"
               \/ l.status = "FAILED" /\ l.execution = "FAILED" /\ k.status # "NONE"
    <3>1. CASE FailIngest(t)
      <4> DEFINE l == [k EXCEPT !.status = "FAILED", !.execution = "FAILED", !.worker = "ended"]
      <4>1. l \in Task /\ l.name = k.name /\ l.path = k.path /\ l.worker = "ended"
            /\ l.status = "FAILED" /\ l.execution = "FAILED"
        BY <1>2 DEF Task
      <4>2. tasks' = [tasks EXCEPT ![t] = l] /\ k.status # "NONE"
        BY <1>1, <1>2, <3>1 DEF FailIngest, TaskOK
      <4> HIDE DEF l
      <4> QED
        BY <4>1, <4>2
    <3>2. CASE CleanUp(t)
      <4> DEFINE l == [k EXCEPT !.worker = "gone", !.object = FALSE]
      <4>1. l \in Task /\ l.name = k.name /\ l.path = k.path /\ l.worker = "gone"
            /\ l.status = k.status /\ l.execution = k.execution
        BY <1>2 DEF Task
      <4>2. tasks' = [tasks EXCEPT ![t] = l] /\ k.worker # "none"
        BY <1>1, <1>2, <3>2 DEF CleanUp
      <4> HIDE DEF l
      <4> QED
        BY <4>1, <4>2
    <3>3. CASE CrashIngest(t)
      <4> DEFINE l == [k EXCEPT !.worker = "gone"]
      <4>1. l \in Task /\ l.name = k.name /\ l.path = k.path /\ l.worker = "gone"
            /\ l.status = k.status /\ l.execution = k.execution
        BY <1>2 DEF Task
      <4>2. tasks' = [tasks EXCEPT ![t] = l] /\ k.worker # "none"
        BY <1>1, <1>2, <3>3 DEF CrashIngest
      <4> HIDE DEF l
      <4> QED
        BY <4>1, <4>2
    <3> QED
      BY <1>9, <3>1, <3>2, <3>3
  <2>2. UNCHANGED <<models, files, trainings, walks, unlinks>>
    BY <1>9 DEF FailIngest, CleanUp, CrashIngest
  <2>3. TaskOK(t)'
    BY <1>1, <1>2, <1>3, <2>1, <2>2 DEF TaskOK
  <2> QED
    BY <1>2, <2>1, <2>2, <2>3, TaskStep
<1>10. CASE LoseIngest(t)
  <2> DEFINE status == IF k.status \in TaskEnded THEN k.status ELSE "FAILED"
             l == [k EXCEPT !.execution = "LOST", !.status = status]
  <2>1. /\ l \in Task /\ l.status = status /\ l.execution = "LOST" /\ l.name = k.name
        /\ l.worker = k.worker /\ l.path = k.path
    BY <1>2 DEF Task
  <2>2. tasks' = [tasks EXCEPT ![t] = l]
    BY <1>1, <1>2, <1>10 DEF LoseIngest
  <2> HIDE DEF l
  <2>3. k.execution = "RUNNING" /\ UNCHANGED <<models, files, trainings, walks, unlinks>>
    BY <1>1, <1>10 DEF LoseIngest
  <2>4. k.worker = "placed" => Lasting(k.path)'
    BY <1>1, <1>2, <1>4, <2>3 DEF TaskOK
  <2>5. TaskOK(t)'
    BY <1>1, <1>2, <1>3, <2>1, <2>2, <2>3, <2>4 DEF TaskOK, TaskEnded, Trained, Lasting, WasDeleted
  <2> QED
    BY <1>2, <2>1, <2>2, <2>3, <2>5, TaskStep
<1> QED
  BY <1>5, <1>6, <1>7, <1>8, <1>9, <1>10

\* An ingest registers its model under a name that is free now.
LEMMA CompletePreserves ==
    ASSUME FileInv, NEW t \in Tasks, CompleteIngest(t)
    PROVE  FileInv' /\ RowsKept
<1>1. PICK k : k = tasks[t]
  OBVIOUS
<1>2. k \in Task /\ TaskOK(t) /\ tasks \in [Tasks -> Task]
  BY <1>1 DEF FileInv, FileTypes
<1> DEFINE l == [k EXCEPT !.status = "COMPLETED", !.execution = "SUCCEEDED", !.worker = "ended"]
<1>3. /\ l \in Task /\ l.status = "COMPLETED" /\ l.execution = "SUCCEEDED" /\ l.name = k.name
      /\ l.worker = "ended" /\ l.path = k.path
  BY <1>2 DEF Task
<1>4. tasks' = [tasks EXCEPT ![t] = l]
  BY <1>1, <1>2 DEF CompleteIngest
<1> HIDE DEF l
<1>5. k.worker = "placed" /\ k.status # "NONE" /\ Free(k.name) /\ Register(k.name, k.path, FALSE)
      /\ UNCHANGED <<files, trainings, walks, unlinks>>
  BY <1>1, <1>2 DEF CompleteIngest, TaskOK
<1>6. k.name \in Requested /\ k.name \in Names /\ k.path \in Paths /\ ~Trained(k.path) /\ Lasting(k.path)
  BY <1>1, <1>2, <1>5 DEF TaskOK, Names
<1>7. models'[k.name].path = k.path /\ models'[k.name].status = "AVAILABLE"
  BY <1>5, <1>6 DEF Register, FileInv, FileTypes
<1>8. TaskOK(t)'
  BY <1>2, <1>3, <1>4, <1>6, <1>7 DEF TaskOK
<1>9. \A s \in Tasks : tasks'[s] = tasks[s] \/ TaskOK(s)'
  BY <1>2, <1>4, <1>8
<1>10. /\ tasks' \in [Tasks -> Task] /\ trainings' \in [Trainings -> Training] /\ walks' \in [Walks -> Found]
       /\ UNCHANGED <<files, unlinks>>
  BY <1>2, <1>3, <1>4, <1>5 DEF FileInv, FileTypes
<1>11. /\ \A j \in Trainings : trainings'[j] = trainings[j]
       /\ \A w \in Walks : walks'[w] = walks[w]
  BY <1>5
<1> QED
  BY <1>5, <1>6, <1>9, <1>10, <1>11, RegisterStep

\* A training stores a copy, registers it with its artifact, and drops the copy.
LEMMA TrainingPreserves ==
    ASSUME FileInv, NEW j \in Trainings,
           \/ \E n \in Requested, x \in Contents : Store(j, n, x)
           \/ StoreCopy(j) \/ RegisterTrained(j) \/ FailTrained(j) \/ DropCopy(j) \/ CrashTrained(j)
    PROVE  FileInv' /\ RowsKept
<1>1. PICK k : k = trainings[j]
  OBVIOUS
<1>2. k \in Training /\ TrainingOK(j) /\ trainings \in [Trainings -> Training] /\ files \in SUBSET Paths
  BY <1>1 DEF FileInv, FileTypes
<1>3. ASSUME NEW l \in Training, trainings' = [trainings EXCEPT ![j] = l],
             l.phase \in {"storing", "stored", "ended"} =>
                 l.name \in Requested /\ l.path \in Paths /\ Trained(l.path),
             UNCHANGED <<models, tasks, walks, unlinks>>,
             files' \in SUBSET Paths, \A p \in files \ files' : Trained(p)
      PROVE  FileInv' /\ RowsKept
  <2>1. trainings'[j] = l /\ \A i \in Trainings : i # j => trainings'[i] = trainings[i]
    BY <1>2, <1>3
  <2>2. TrainingOK(j)'
    BY <1>3, <2>1 DEF TrainingOK, Trained
  <2>3. FileTypes'
    BY <1>3 DEF FileInv, FileTypes
  <2>4. RowsKept /\ FilesKept
    BY <1>3 DEF RowsKept, FilesKept
  <2>5. \A i \in Trainings : trainings'[i] = trainings[i] \/ TrainingOK(i)'
    BY <2>1, <2>2
  <2> QED
    BY <1>3, <2>3, <2>4, <2>5, FileStep
<1>4. ASSUME NEW n \in Requested, NEW x \in Contents, Store(j, n, x)
      PROVE  FileInv' /\ RowsKept
  <2> DEFINE p == Target("trained", n, x, j)
             l == [phase |-> "storing", name |-> n, path |-> p]
  <2>1. p \in Paths /\ Trained(p)
    BY TargetPath DEF Trained
  <2>2. trainings' = [trainings EXCEPT ![j] = l] /\ UNCHANGED <<models, files, tasks, walks, unlinks>>
    BY <1>4 DEF Store
  <2> HIDE DEF p
  <2>3. l \in Training /\ l.name \in Requested /\ l.path \in Paths /\ Trained(l.path)
    BY <2>1 DEF Training
  <2> HIDE DEF l
  <2> QED
    BY <1>2, <1>3, <2>2, <2>3
<1>5. CASE StoreCopy(j) \/ FailTrained(j) \/ DropCopy(j) \/ CrashTrained(j)
  <2>1. PICK phase \in {"stored", "ended", "gone"} : trainings' = [trainings EXCEPT ![j].phase = phase]
    BY <1>5 DEF StoreCopy, FailTrained, DropCopy, CrashTrained
  <2> DEFINE l == [k EXCEPT !.phase = phase]
  <2>2. l \in Training /\ l.name = k.name /\ l.path = k.path
    BY <1>2 DEF Training
  <2>3. trainings' = [trainings EXCEPT ![j] = l]
    BY <1>1, <1>2, <2>1
  <2> HIDE DEF l
  <2>4. k.name \in Requested /\ k.path \in Paths /\ Trained(k.path)
    BY <1>1, <1>2, <1>5 DEF TrainingOK, StoreCopy, FailTrained, DropCopy, CrashTrained
  <2>5. files' \in {files, files \cup {k.path}, files \ {k.path}} /\ UNCHANGED <<models, tasks, walks, unlinks>>
    BY <1>1, <1>5 DEF StoreCopy, FailTrained, DropCopy, CrashTrained
  <2>6. files' \in SUBSET Paths /\ \A p \in files \ files' : Trained(p)
    BY <1>2, <2>4, <2>5
  <2> QED
    BY <1>3, <2>2, <2>3, <2>4, <2>5, <2>6
<1>6. CASE RegisterTrained(j)
  <2> DEFINE l == [k EXCEPT !.phase = "ended"]
  <2>1. l \in Training /\ l.name = k.name /\ l.path = k.path /\ l.phase = "ended"
    BY <1>2 DEF Training
  <2>2. trainings' = [trainings EXCEPT ![j] = l]
    BY <1>1, <1>2, <1>6 DEF RegisterTrained
  <2> HIDE DEF l
  <2>3. /\ k.name \in Requested /\ k.path \in Paths /\ Trained(k.path) /\ k.name \in Names
        /\ Free(k.name) /\ Register(k.name, k.path, TRUE) /\ UNCHANGED <<files, tasks, walks, unlinks>>
    BY <1>1, <1>2, <1>6 DEF RegisterTrained, TrainingOK, Names
  <2>4. trainings'[j] = l /\ \A i \in Trainings : i # j => trainings'[i] = trainings[i]
    BY <1>2, <2>2
  <2>5. TrainingOK(j)'
    BY <2>1, <2>3, <2>4 DEF TrainingOK, Trained
  <2>6. \A i \in Trainings : trainings'[i] = trainings[i] \/ TrainingOK(i)'
    BY <2>4, <2>5
  <2>7. /\ tasks' \in [Tasks -> Task] /\ trainings' \in [Trainings -> Training] /\ walks' \in [Walks -> Found]
    BY <1>2, <2>1, <2>2, <2>3 DEF FileInv, FileTypes
  <2>8. /\ \A t \in Tasks : tasks'[t] = tasks[t]
        /\ \A w \in Walks : walks'[w] = walks[w]
    BY <2>3
  <2>9. TRUE \in BOOLEAN
    OBVIOUS
  <2> QED
    BY <2>3, <2>6, <2>7, <2>8, <2>9, RegisterStep
<1> QED
  BY <1>4, <1>5, <1>6

\* What a scan of the Model Root does: it reads, and registers under a file's own name.
LEMMA ScanPreserves ==
    ASSUME FileInv, NEW w \in Walks,
           \/ \E d \in Types : Scan(w, d)
           \/ (\E p \in files : ReadFile(w, p)) \/ RegisterFound(w) \/ EndScan(w)
    PROVE  FileInv' /\ RowsKept
<1>1. PICK k : k = walks[w]
  OBVIOUS
<1>2. k \in Found /\ WalkOK(w) /\ walks \in [Walks -> Found] /\ files \in SUBSET Paths
  BY <1>1 DEF FileInv, FileTypes
<1>3. ASSUME NEW l \in Found, walks' = [walks EXCEPT ![w] = l],
             l.phase = "read" => l.path \in files, l.phase # "idle" => l.type \in Types,
             UNCHANGED <<models, files, tasks, trainings, unlinks>>
      PROVE  FileInv' /\ RowsKept
  <2>1. walks'[w] = l /\ \A v \in Walks : v # w => walks'[v] = walks[v]
    BY <1>2, <1>3
  <2>2. WalkOK(w)'
    BY <1>2, <1>3, <2>1 DEF WalkOK, Lasting
  <2>3. FileTypes'
    BY <1>3 DEF FileInv, FileTypes
  <2>4. RowsKept /\ FilesKept
    BY <1>3 DEF RowsKept, FilesKept
  <2>5. \A v \in Walks : walks'[v] = walks[v] \/ WalkOK(v)'
    BY <2>1, <2>2
  <2> QED
    BY <1>3, <2>3, <2>4, <2>5, FileStep
<1>4. IdleWalk \in Found /\ IdleWalk.phase = "idle"
  BY DEF IdleWalk, Found
<1>5. CASE EndScan(w)
  BY <1>3, <1>4, <1>5 DEF EndScan
<1>6. ASSUME NEW d \in Types, Scan(w, d)
      PROVE  FileInv' /\ RowsKept
  <2> DEFINE l == [phase |-> "walking", type |-> d, known |-> Known(d), path |-> <<>>, walked |-> {}]
  <2>1. Known(d) \in SUBSET (Paths \cup {<<>>})
    <3>1. \A n \in Names : models[n].path \in Paths \cup {<<>>}
      BY DEF FileInv, FileTypes, Model
    <3> QED
      BY <3>1 DEF Known
  <2>2. l \in Found /\ l.phase = "walking" /\ l.type = d
    BY <2>1 DEF Found
  <2>3. walks' = [walks EXCEPT ![w] = l] /\ UNCHANGED <<models, files, tasks, trainings, unlinks>>
    BY <1>6 DEF Scan
  <2> HIDE DEF l
  <2> QED
    BY <1>3, <2>2, <2>3
<1>7. ASSUME NEW p \in files, ReadFile(w, p)
      PROVE  FileInv' /\ RowsKept
  <2> DEFINE l == [k EXCEPT !.phase = "read", !.path = p, !.walked = @ \cup {p}]
  <2>1. p \in Paths
    BY <1>2
  <2>2. l \in Found /\ l.path = p /\ l.type = k.type
    BY <1>2, <2>1 DEF Found
  <2>3. walks' = [walks EXCEPT ![w] = l] /\ UNCHANGED <<models, files, tasks, trainings, unlinks>>
        /\ k.type \in Types
    BY <1>1, <1>2, <1>7 DEF ReadFile, WalkOK
  <2> HIDE DEF l
  <2> QED
    BY <1>3, <1>7, <2>2, <2>3
<1>8. CASE RegisterFound(w)
  <2> DEFINE l == [k EXCEPT !.phase = "walking", !.path = <<>>]
  <2>1. l \in Found /\ l.phase = "walking" /\ l.type = k.type
    BY <1>2 DEF Found
  <2>2. walks' = [walks EXCEPT ![w] = l] /\ UNCHANGED <<files, tasks, trainings, unlinks>>
    BY <1>1, <1>2, <1>8 DEF RegisterFound
  <2> HIDE DEF l
  <2>3. k.path \in Paths /\ Lasting(k.path) /\ k.type \in Types
    BY <1>1, <1>2, <1>8 DEF RegisterFound, WalkOK
  <2>4. PICK n \in Types \X Stems : n = <<k.type, k.path[3]>>
    BY <2>3 DEF Paths
  <2>5. n \in Names
    BY DEF Names
  <2>6. CASE Free(n)
    <3>1. Register(n, k.path, FALSE)
      BY <1>1, <1>8, <2>4, <2>6 DEF RegisterFound
    <3>2. \A v \in Walks : walks'[v] = walks[v] \/ WalkOK(v)'
      BY <1>2, <2>1, <2>2, <2>3 DEF WalkOK
    <3>3. /\ tasks' \in [Tasks -> Task] /\ trainings' \in [Trainings -> Training] /\ walks' \in [Walks -> Found]
      BY <1>2, <2>1, <2>2 DEF FileInv, FileTypes
    <3>4. /\ \A t \in Tasks : tasks'[t] = tasks[t]
          /\ \A j \in Trainings : trainings'[j] = trainings[j]
      BY <2>2
    <3>5. FALSE \in BOOLEAN
      OBVIOUS
    <3> QED
      BY <2>2, <2>3, <2>4, <2>5, <2>6, <3>1, <3>2, <3>3, <3>4, <3>5, RegisterStep
  <2>7. CASE ~Free(n)
    <3>1. UNCHANGED models
      BY <1>1, <1>8, <2>4, <2>7 DEF RegisterFound
    <3> QED
      BY <1>3, <2>1, <2>2, <2>3, <3>1
  <2> QED
    BY <2>6, <2>7
<1> QED
  BY <1>5, <1>6, <1>7, <1>8

\* A late or repeated message unlinks a file of a deleted model.
LEMMA UnlinkPreserves ==
    ASSUME FileInv, NEW p \in unlinks, Unlink(p)
    PROVE  FileInv' /\ RowsKept
<1>1. FileTypes'
  BY DEF Unlink, FileInv, FileTypes
<1>2. RowsKept
  BY DEF Unlink, RowsKept
<1>3. FilesKept
  BY DEF Unlink, FilesKept, FileInv
<1>4. UNCHANGED <<models, tasks, trainings, walks>> /\ unlinks' \subseteq unlinks
  BY DEF Unlink
<1> QED
  BY <1>1, <1>2, <1>3, <1>4, FileStep

\* Every step of ModelFiles keeps its invariant and takes back no row.
LEMMA FilesNextPreserves ==
    ASSUME FileInv, FilesNext
    PROVE  FileInv' /\ RowsKept
<1>1. ASSUME NEW t \in Tasks,
             \/ \E n \in Requested, uploaded \in BOOLEAN : Request(t, n, uploaded)
             \/ IngestWork(t) \/ CrashIngest(t) \/ LoseIngest(t)
      PROVE  FileInv' /\ RowsKept
  <2>1. CASE CompleteIngest(t)
    BY <2>1, CompletePreserves
  <2>2. CASE ~CompleteIngest(t)
    <3>1. UNCHANGED models
      BY <1>1, <2>2 DEF Request, IngestWork, ClaimIngest, Choose, LookAgain, Place, FailIngest, CleanUp,
                        CrashIngest, LoseIngest
    <3> QED
      BY <1>1, <2>2, <3>1, IngestPreserves DEF IngestWork, RowsKept
  <2> QED
    BY <2>1, <2>2
<1> QED
  BY <1>1, TrainingPreserves, ScanPreserves, UnlinkPreserves DEF FilesNext

-----------------------------------------------------------------------------
(* Conversions *)

\* A conversion is RUNNING as long as its execution is and its worker may commit; it has
\* an archive once it SUCCEEDED, and without it only if its model was deleted.
ConversionOK(c) ==
    LET v == conversions[c] IN
    /\ v.status = "NONE" => v.worker = "none" /\ v.execution = "NONE" /\ c \notin archives
    /\ v.status # "NONE" => v.model \in Names
    /\ v.status = "RUNNING" => v.execution = "RUNNING"
    /\ v.worker = "committing" => v.status = "RUNNING"
    /\ v.worker = "refused" => v.status # "RUNNING"
    /\ v.status = "SUCCEEDED" => c \in archives
    /\ c \in archives => v.status = "SUCCEEDED" \/ models[v.model].status = "DELETED"

\* A deletion under way is of a model that is there, and takes archives of its own.
DeletionOK(d) ==
    /\ d.name \in Names /\ d.archives \in SUBSET Conversions /\ models[d.name].status = "AVAILABLE"
    /\ \A c \in d.archives : conversions[c].model = d.name /\ conversions[c].status # "NONE"

ConversionInv ==
    /\ conversions \in [Conversions -> Conversion]
    /\ archives \in SUBSET Conversions
    /\ \A c \in Conversions : ConversionOK(c)
    /\ \A d \in deleting : DeletionOK(d)
    /\ \A d, e \in deleting : d.name = e.name => d = e

\* Steps of the files: rows that are AVAILABLE stay, deleted ones too.
LEMMA FilesAside ==
    ASSUME FileInv, ConversionInv, UNCHANGED <<conversions, archives, deleting>>, RowsKept,
           \A n \in Names : models[n].status = "AVAILABLE" => models'[n].status = "AVAILABLE"
    PROVE  ConversionInv'
<1>1. \A c \in Conversions : ConversionOK(c)'
  <2>1. \A c \in Conversions : c \in archives => conversions[c].status # "NONE"
    BY DEF ConversionInv, ConversionOK
  <2> QED
    BY <2>1 DEF ConversionInv, ConversionOK, RowsKept
<1>2. \A d \in deleting' : DeletionOK(d)'
  BY DEF ConversionInv, DeletionOK
<1> QED
  BY <1>1, <1>2 DEF ConversionInv

\* A step of one conversion that leaves the models alone.
LEMMA ConversionStep ==
    ASSUME ConversionInv, NEW c \in Conversions, NEW v \in Conversion,
           conversions' = [conversions EXCEPT ![c] = v], UNCHANGED <<models, deleting>>,
           archives' \in SUBSET Conversions, archives' \ {c} = archives \ {c},
           ConversionOK(c)', conversions[c].status # "NONE" => v.status # "NONE" /\ v.model = conversions[c].model
    PROVE  ConversionInv'
<1>1. conversions'[c] = v /\ \A e \in Conversions : e # c => conversions'[e] = conversions[e]
  BY DEF ConversionInv
<1>2. conversions' \in [Conversions -> Conversion]
  BY DEF ConversionInv
<1>3. \A e \in Conversions : ConversionOK(e)'
  <2>1. ASSUME NEW e \in Conversions, e # c
        PROVE  ConversionOK(e)'
    <3>1. ConversionOK(e) /\ conversions'[e] = conversions[e] /\ (e \in archives' <=> e \in archives)
      BY <1>1, <2>1 DEF ConversionInv
    <3> QED
      BY <3>1 DEF ConversionOK
  <2> QED
    BY <2>1
<1>4. \A d \in deleting' : DeletionOK(d)'
  BY <1>1 DEF ConversionInv, DeletionOK
<1> QED
  BY <1>2, <1>3, <1>4 DEF ConversionInv

\* A conversion is asked for, converted, fails, is removed or lost.
LEMMA ConversionPreserves ==
    ASSUME ConversionInv, NEW c \in Conversions,
           \/ \E n \in Names : Convert(c, n)
           \/ InsertConversion(c) \/ RemoveConversion(c) \/ ConversionWork(c)
           \/ RaiseError(c) \/ Crash(c) \/ Lose(c)
    PROVE  ConversionInv'
<1>1. PICK v : v = conversions[c]
  OBVIOUS
<1>2. /\ v \in Conversion /\ ConversionOK(c) /\ conversions \in [Conversions -> Conversion]
      /\ archives \in SUBSET Conversions
  BY <1>1 DEF ConversionInv
<1>3. UNCHANGED <<models, deleting>>
  BY DEF Convert, InsertConversion, RemoveConversion, ConversionWork, RaiseError, Crash, Lose, Claim,
         CancelRefused, Fetch, Begin, Commit, Fail, fileVars
<1>4. ASSUME NEW u \in Conversion, conversions' = [conversions EXCEPT ![c] = u]
      PROVE  conversions'[c] = u
  BY <1>2, <1>4
<1>5. ASSUME NEW n \in Names, Convert(c, n)
      PROVE  ConversionInv'
  <2> DEFINE u == [v EXCEPT !.model = n]
  <2>1. u \in Conversion /\ u.status = v.status /\ u.worker = v.worker /\ u.execution = v.execution
        /\ u.model = n
    BY <1>2 DEF Conversion
  <2>2. conversions' = [conversions EXCEPT ![c] = u]
    BY <1>1, <1>2, <1>5 DEF Convert
  <2> HIDE DEF u
  <2>3. v.status = "NONE" /\ UNCHANGED archives
    BY <1>1, <1>5 DEF Convert
  <2>4. ConversionOK(c)'
    BY <1>1, <1>2, <1>4, <2>1, <2>2, <2>3 DEF ConversionOK
  <2> QED
    BY <1>1, <1>2, <1>3, <2>1, <2>2, <2>3, <2>4, ConversionStep
<1>6. CASE InsertConversion(c)
  <2> DEFINE u == [v EXCEPT !.status = "QUEUED", !.execution = "ASSIGNED"]
  <2>1. u \in Conversion /\ u.status = "QUEUED" /\ u.worker = v.worker /\ u.execution = "ASSIGNED"
        /\ u.model = v.model
    BY <1>2 DEF Conversion, Active
  <2>2. conversions' = [conversions EXCEPT ![c] = u]
    BY <1>1, <1>2, <1>6 DEF InsertConversion
  <2> HIDE DEF u
  <2>3. v.status = "NONE" /\ v.model \in Names /\ UNCHANGED archives
    BY <1>1, <1>2, <1>6 DEF InsertConversion, Conversion
  <2>4. ConversionOK(c)'
    BY <1>1, <1>2, <1>4, <2>1, <2>2, <2>3 DEF ConversionOK
  <2> QED
    BY <1>1, <1>2, <1>3, <2>1, <2>2, <2>3, <2>4, ConversionStep
<1>7. CASE RemoveConversion(c)
  <2> DEFINE u == [v EXCEPT !.status = "REMOVED"]
  <2>1. u \in Conversion /\ u.status = "REMOVED" /\ u.worker = v.worker /\ u.execution = v.execution
        /\ u.model = v.model
    BY <1>2 DEF Conversion
  <2>2. conversions' = [conversions EXCEPT ![c] = u]
    BY <1>1, <1>2, <1>7 DEF RemoveConversion
  <2> HIDE DEF u
  <2>3. v.status # "NONE" /\ v.worker # "committing" /\ archives' = archives \ {c}
    BY <1>1, <1>7 DEF RemoveConversion, Removable, RowOpen
  <2>4. ConversionOK(c)'
    BY <1>1, <1>2, <1>4, <2>1, <2>2, <2>3 DEF ConversionOK
  <2> QED
    BY <1>1, <1>2, <1>3, <2>1, <2>2, <2>3, <2>4, ConversionStep
<1>8. ASSUME NEW step \in {"refused", "exported", "committing", "error", "gone"}, Go(c, step),
             UNCHANGED archives, v.status # "NONE",
             step = "refused" => v.status # "RUNNING",
             step = "committing" => v.status = "RUNNING"
      PROVE  ConversionInv'
  <2> DEFINE u == [v EXCEPT !.worker = step]
  <2>1. u \in Conversion /\ u.status = v.status /\ u.worker = step /\ u.execution = v.execution
        /\ u.model = v.model
    BY <1>2 DEF Conversion
  <2>2. conversions' = [conversions EXCEPT ![c] = u]
    BY <1>1, <1>2, <1>8 DEF Go
  <2> HIDE DEF u
  <2>3. ConversionOK(c)'
    BY <1>1, <1>2, <1>3, <1>4, <1>8, <2>1, <2>2 DEF ConversionOK
  <2> QED
    BY <1>1, <1>2, <1>3, <1>8, <2>1, <2>2, <2>3, ConversionStep
<1>9. CASE Fetch(c) \/ RaiseError(c) \/ Begin(c) \/ Crash(c) \/ (Claim(c) /\ v.status # "QUEUED")
  <2>1. v.status # "NONE" /\ UNCHANGED archives
    BY <1>1, <1>2, <1>9 DEF Fetch, RaiseError, Begin, Crash, Claim, ConversionOK
  <2>2. CASE Claim(c) /\ v.status # "QUEUED"
    <3>1. v.execution = "ASSIGNED" /\ Go(c, "refused")
      BY <1>1, <2>2 DEF Claim
    <3>2. v.status # "RUNNING"
      BY <1>1, <1>2, <3>1 DEF ConversionOK
    <3> QED
      BY <1>8, <2>1, <3>1, <3>2
  <2>3. CASE Begin(c)
    BY <1>1, <1>8, <2>1, <2>3 DEF Begin
  <2>4. CASE Fetch(c) \/ RaiseError(c) \/ Crash(c)
    <3>1. Go(c, "exported") \/ Go(c, "error") \/ Go(c, "gone")
      BY <2>4 DEF Fetch, RaiseError, Crash
    <3> QED
      BY <1>8, <2>1, <3>1
  <2> QED
    BY <1>9, <2>2, <2>3, <2>4
<1>10. ASSUME NEW status \in {"RUNNING", "SUCCEEDED", "FAILED", v.status},
              NEW execution \in {"RUNNING", "SUCCEEDED", "FAILED", "CANCELLED", "LOST"},
              NEW worker \in {"fetching", "gone", v.worker},
              conversions' = [conversions EXCEPT ![c].status = status, ![c].execution = execution,
                                                 ![c].worker = worker],
              archives' \in SUBSET Conversions, archives' \ {c} = archives \ {c}, v.status # "NONE",
              worker \notin {"committing", "refused"} \/ (worker = v.worker /\ status # "RUNNING" /\ worker = "refused"),
              status = "RUNNING" => execution = "RUNNING",
              status = "SUCCEEDED" => c \in archives',
              c \in archives' => status = "SUCCEEDED" \/ models[v.model].status = "DELETED"
       PROVE  ConversionInv'
  <2> DEFINE u == [v EXCEPT !.status = status, !.execution = execution, !.worker = worker]
  <2>1. u \in Conversion /\ u.status = status /\ u.worker = worker /\ u.execution = execution
        /\ u.model = v.model
    BY <1>2 DEF Conversion, Active
  <2>2. conversions' = [conversions EXCEPT ![c] = u]
    BY <1>1, <1>2, <1>10
  <2> HIDE DEF u
  <2>3. ConversionOK(c)'
    BY <1>1, <1>2, <1>3, <1>4, <1>10, <2>1, <2>2 DEF ConversionOK
  <2> QED
    BY <1>1, <1>2, <1>3, <1>10, <2>1, <2>2, <2>3, ConversionStep
<1>11. CASE Claim(c) /\ v.status = "QUEUED"
  <2>1. /\ conversions' = [conversions EXCEPT ![c].status = "RUNNING", ![c].execution = "RUNNING",
                                              ![c].worker = "fetching"]
        /\ UNCHANGED archives
    BY <1>1, <1>11 DEF Claim
  <2>2. c \in archives => models[v.model].status = "DELETED"
    BY <1>1, <1>2, <1>11 DEF ConversionOK
  <2> QED
    BY <1>2, <1>10, <1>11, <2>1, <2>2
<1>12. CASE Commit(c)
  <2>1. v.status = "RUNNING" /\ archives' = archives \cup {c}
    BY <1>1, <1>2, <1>12 DEF Commit, RowOpen, ConversionOK
  <2>2. conversions' = [conversions EXCEPT ![c].status = "SUCCEEDED", ![c].execution = "SUCCEEDED",
                                           ![c].worker = "gone"]
    BY <1>1, <1>2, <1>12, <2>1 DEF Commit
  <2> QED
    BY <1>2, <1>10, <2>1, <2>2
<1>13. CASE Fail(c) \/ CancelRefused(c) \/ Lose(c)
  <2>1. v.status # "NONE" /\ UNCHANGED archives
    BY <1>1, <1>2, <1>13 DEF Fail, CancelRefused, Lose, ConversionOK
  <2> DEFINE status == IF v.status = "RUNNING" THEN "FAILED" ELSE v.status
  <2>2. /\ status # "RUNNING" /\ status \in {"RUNNING", "SUCCEEDED", "FAILED", v.status}
        /\ status = "SUCCEEDED" => c \in archives
        /\ c \in archives => status = "SUCCEEDED" \/ models[v.model].status = "DELETED"
    BY <1>1, <1>2 DEF ConversionOK
  <2>3. CASE Fail(c)
    <3>1. conversions' = [conversions EXCEPT ![c].status = status, ![c].execution = "FAILED", ![c].worker = "gone"]
      BY <1>1, <1>2, <2>3 DEF Fail
    <3> HIDE DEF status
    <3> QED
      BY <1>2, <1>10, <2>1, <2>2, <3>1
  <2>4. CASE CancelRefused(c)
    <3>1. status = v.status
      BY <1>1, <1>2, <2>4 DEF CancelRefused, ConversionOK
    <3>2. conversions' = [conversions EXCEPT ![c].status = status, ![c].execution = "CANCELLED", ![c].worker = "gone"]
      BY <1>1, <1>2, <2>4, <3>1 DEF CancelRefused
    <3> HIDE DEF status
    <3> QED
      BY <1>2, <1>10, <2>1, <2>2, <3>2
  <2>5. CASE Lose(c)
    <3>1. conversions' = [conversions EXCEPT ![c].status = status, ![c].execution = "LOST", ![c].worker = v.worker]
      BY <1>1, <1>2, <2>5 DEF Lose
    <3>2. v.worker # "committing"
      BY <1>1, <2>5 DEF Lose, RowOpen
    <3> HIDE DEF status
    <3>3. v.worker \in {"fetching", "gone", v.worker}
      OBVIOUS
    <3> QED
      BY <1>2, <1>10, <2>1, <2>2, <3>1, <3>2, <3>3
  <2> QED
    BY <1>13, <2>3, <2>4, <2>5
<1> QED
  BY <1>5, <1>6, <1>7, <1>9, <1>11, <1>12, <1>13 DEF ConversionWork

-----------------------------------------------------------------------------
(* Deletions *)

\* A step of ModelFiles registers a model under a free name or leaves the models alone.
LEMMA AvailableKept ==
    ASSUME FileInv, FilesNext, NEW n \in Names, models[n].status = "AVAILABLE"
    PROVE  models'[n].status = "AVAILABLE"
<1>1. UNCHANGED models \/ \E m, p, stored : Free(m) /\ Register(m, p, stored)
  BY DEF FilesNext, Request, IngestWork, ClaimIngest, Choose, LookAgain, Place, CompleteIngest, FailIngest, CleanUp,
         CrashIngest, LoseIngest, Store, StoreCopy, RegisterTrained, FailTrained, DropCopy, CrashTrained,
         Scan, ReadFile, RegisterFound, EndScan, Unlink
<1> QED
  BY <1>1 DEF Free, Register, FileInv, FileTypes

\* deleteModel reads the conversions of a model that is there.
LEMMA ReadPreserves ==
    ASSUME ConversionInv, NEW n \in Names, ReadConversions(n)
    PROVE  ConversionInv'
<1> DEFINE own == {c \in Conversions : conversions[c].model = n /\ conversions[c].status = "SUCCEEDED"}
<1>1. own \in SUBSET Conversions /\ \A c \in own : conversions[c].model = n /\ conversions[c].status # "NONE"
  OBVIOUS
<1>2. deleting' = deleting \cup {[name |-> n, archives |-> own]} /\ UNCHANGED <<models, conversions, archives>>
      /\ models[n].status = "AVAILABLE" /\ ~Locked(n)
  BY DEF ReadConversions, fileVars
<1> HIDE DEF own
<1>3. PICK d : d = [name |-> n, archives |-> own]
  OBVIOUS
<1>4. DeletionOK(d)'
  BY <1>1, <1>2, <1>3 DEF DeletionOK
<1>5. \A e \in deleting : DeletionOK(e)' /\ e.name # n
  BY <1>2 DEF ConversionInv, DeletionOK, Locked
<1>6. \A c \in Conversions : ConversionOK(c)'
  BY <1>2 DEF ConversionInv, ConversionOK
<1> QED
  <2>1. deleting' = deleting \cup {d} /\ d.name = n
    BY <1>2, <1>3
  <2> QED
    BY <1>2, <1>4, <1>5, <1>6, <2>1 DEF ConversionInv

\* The model, its conversions and the archives that were read are deleted.
LEMMA DeletePreserves ==
    ASSUME FileInv, ConversionInv, DeleteModel
    PROVE  FileInv' /\ ConversionInv'
<1>1. PICK d \in deleting :
        /\ \A c \in Conversions : conversions[c].model = d.name => ~RowOpen(c)
        /\ archives' = archives \ d.archives
        /\ conversions' = [c \in Conversions |->
               IF conversions[c].model = d.name /\ conversions[c].status # "NONE"
               THEN [conversions[c] EXCEPT !.status = "REMOVED"] ELSE conversions[c]]
        /\ models' = [models EXCEPT ![d.name].status = "DELETED"]
        /\ unlinks' = unlinks \cup {models[d.name].path}
        /\ deleting' = deleting \ {d}
        /\ UNCHANGED <<files, tasks, trainings, walks>>
  BY DEF DeleteModel
<1>2. PICK n \in Names : n = d.name /\ models[n].status = "AVAILABLE" /\ DeletionOK(d)
  BY DEF ConversionInv, DeletionOK
<1> DEFINE m == [models[n] EXCEPT !.status = "DELETED"]
<1>3. models[n] \in Model /\ models[n].path \in Paths
  BY <1>2 DEF FileInv, FileTypes, ModelOK
<1>4. m \in Model /\ m.status = "DELETED" /\ m.path = models[n].path /\ m.stored = models[n].stored
  BY <1>3 DEF Model
<1>5. models' = [models EXCEPT ![n] = m]
  BY <1>1, <1>2, <1>3
<1> HIDE DEF m
<1>6. models'[n] = m /\ \A o \in Names : o # n => models'[o] = models[o]
  BY <1>5 DEF FileInv, FileTypes
<1>7. RowsKept /\ FilesKept
  BY <1>1, <1>2, <1>4, <1>6 DEF RowsKept, FilesKept
<1>8. FileInv'
  <2>1. FileTypes'
    BY <1>1, <1>2, <1>3, <1>4, <1>5 DEF FileInv, FileTypes
  <2>2. \A p \in unlinks' \ unlinks : WasDeleted(p)'
    BY <1>1, <1>2, <1>4, <1>6 DEF WasDeleted
  <2>3. \A o \in Names : models[o].status = "NONE" => models'[o] = models[o]
    BY <1>2, <1>6
  <2>4. \A o \in Names : models[o].status # "NONE" /\ models'[o].status = "AVAILABLE" => models[o].status = "AVAILABLE"
    BY <1>4, <1>6
  <2> QED
    BY <1>1, <1>7, <2>1, <2>2, <2>3, <2>4, FileStep
<1>9. ASSUME NEW c \in Conversions
      PROVE  /\ conversions'[c] \in Conversion
             /\ conversions'[c].model = conversions[c].model
             /\ conversions'[c].worker = conversions[c].worker
             /\ conversions'[c].execution = conversions[c].execution
             /\ conversions'[c].status = IF conversions[c].model = n /\ conversions[c].status # "NONE"
                                         THEN "REMOVED" ELSE conversions[c].status
  <2>1. conversions[c] \in Conversion
    BY DEF ConversionInv
  <2>2. conversions'[c] = IF conversions[c].model = n /\ conversions[c].status # "NONE"
                          THEN [conversions[c] EXCEPT !.status = "REMOVED"] ELSE conversions[c]
    BY <1>1, <1>2
  <2> QED
    BY <2>1, <2>2 DEF Conversion
<1>10. conversions' \in [Conversions -> Conversion]
  BY <1>1, <1>9
<1>11. ASSUME NEW c \in Conversions
       PROVE  ConversionOK(c)'
  <2>1. ConversionOK(c) /\ (conversions[c].model = n => conversions[c].worker # "committing")
    BY <1>1, <1>2 DEF ConversionInv, RowOpen
  <2>2. CASE conversions[c].model = n /\ conversions[c].status # "NONE"
    <3>1. /\ conversions'[c].status = "REMOVED" /\ conversions'[c].worker # "committing"
          /\ conversions'[c].model = n
      BY <1>9, <2>1, <2>2
    <3>2. models'[n].status = "DELETED"
      BY <1>4, <1>6
    <3> QED
      BY <3>1, <3>2 DEF ConversionOK
  <2>3. CASE conversions[c].model # n /\ conversions[c].status # "NONE"
    <3>1. c \notin d.archives
      BY <1>2, <2>3 DEF DeletionOK
    <3>2. models'[conversions[c].model] = models[conversions[c].model]
      BY <1>6, <2>1, <2>3 DEF ConversionOK
    <3> QED
      BY <1>1, <1>9, <2>1, <2>3, <3>1, <3>2 DEF ConversionOK
  <2>4. CASE conversions[c].status = "NONE"
    BY <1>1, <1>9, <2>1, <2>4 DEF ConversionOK
  <2> QED
    BY <2>2, <2>3, <2>4
<1>12. ASSUME NEW e \in deleting'
       PROVE  DeletionOK(e)'
  <2>1. e \in deleting /\ e.name # n /\ DeletionOK(e)
    BY <1>1, <1>2, <1>12 DEF ConversionInv
  <2> QED
    BY <1>6, <1>9, <2>1 DEF DeletionOK
<1> QED
  BY <1>1, <1>8, <1>10, <1>11, <1>12 DEF ConversionInv

-----------------------------------------------------------------------------
(* The theorems *)

RegistryInv == FileInv /\ ConversionInv

\* No models, no files, nothing under way.
LEMMA InitRegistry == Init => RegistryInv
<1> SUFFICES ASSUME Init PROVE RegistryInv
  OBVIOUS
<1>1. FileInv
  <2>1. NoModel \in Model /\ NoModel.status = "NONE" /\ IdleWalk \in Found /\ IdleWalk.phase = "idle"
    BY DEF NoModel, Model, IdleWalk, Found
  <2>2. FileTypes
    <3>1. models \in [Names -> Model] /\ walks \in [Walks -> Found] /\ files = {} /\ unlinks = {}
      BY <2>1 DEF Init, FilesInit
    <3>2. tasks \in [Tasks -> Task]
      BY DEF Init, FilesInit, Task
    <3>3. trainings \in [Trainings -> Training]
      BY DEF Init, FilesInit, Training
    <3> QED
      BY <3>1, <3>2, <3>3 DEF FileTypes
  <2> QED
    BY <2>1, <2>2 DEF Init, FilesInit, FileInv, ModelOK, TaskOK, TrainingOK, WalkOK
<1>2. ConversionInv
  BY DEF Init, ConversionInv, Conversion, ConversionOK
<1> QED
  BY <1>1, <1>2 DEF RegistryInv

\* Every step keeps it.
LEMMA NextRegistry == RegistryInv /\ [Next]_vars => RegistryInv'
<1> SUFFICES ASSUME RegistryInv, [Next]_vars PROVE RegistryInv'
  OBVIOUS
<1>1. FileInv /\ ConversionInv
  BY DEF RegistryInv
<1>2. ASSUME UNCHANGED fileVars PROVE FileInv'
  <2>1. UNCHANGED <<models, files, tasks, trainings, walks, unlinks>>
    BY <1>2 DEF fileVars
  <2>2. FileTypes' /\ RowsKept /\ FilesKept
    BY <1>1, <2>1 DEF FileInv, FileTypes, RowsKept, FilesKept
  <2> QED
    BY <1>1, <2>1, <2>2, FileStep
<1>3. CASE UNCHANGED vars
  <2>1. UNCHANGED fileVars /\ UNCHANGED <<conversions, archives, deleting>> /\ UNCHANGED models
    BY <1>3 DEF vars, fileVars
  <2>2. ConversionInv'
    BY <1>1, <2>1 DEF ConversionInv, ConversionOK, DeletionOK
  <2> QED
    BY <1>2, <2>1, <2>2 DEF RegistryInv
<1>4. CASE FilesNext /\ UNCHANGED <<conversions, archives, deleting>>
  BY <1>1, <1>4, FilesNextPreserves, AvailableKept, FilesAside DEF RegistryInv
<1>5. CASE \E n \in Names : ReadConversions(n)
  BY <1>1, <1>2, <1>5, ReadPreserves DEF RegistryInv, ReadConversions
<1>6. CASE DeleteModel
  BY <1>1, <1>6, DeletePreserves DEF RegistryInv
<1>7. ASSUME NEW c \in Conversions,
             \/ \E n \in Names : Convert(c, n)
             \/ InsertConversion(c) \/ RemoveConversion(c) \/ ConversionWork(c)
             \/ RaiseError(c) \/ Crash(c) \/ Lose(c)
      PROVE  RegistryInv'
  <2>1. UNCHANGED fileVars
    BY <1>7 DEF Convert, InsertConversion, RemoveConversion, ConversionWork, RaiseError, Crash, Lose, Claim,
                CancelRefused, Fetch, Begin, Commit, Fail
  <2> QED
    BY <1>1, <1>2, <1>7, <2>1, ConversionPreserves DEF RegistryInv
<1> QED
  BY <1>3, <1>4, <1>5, <1>6, <1>7 DEF Next

\* The invariant, of every behaviour.
LEMMA RegistrySafe == Spec => []RegistryInv
BY InitRegistry, NextRegistry, PTL DEF Spec

\* An AVAILABLE model has weights, for any number of writers, scans and late messages and
\* whatever names share a slug or types a root - unless the scan made it of a training's
\* copy, or a deleted model had the same file.
THEOREM WeightsLast == Spec => []WeightsAreThere
<1>1. RegistryInv => WeightsAreThere
  BY DEF RegistryInv, FileInv, ModelOK, WeightsAreThere, Lasting, Trained, WasDeleted
<1> QED
  BY <1>1, RegistrySafe, PTL

\* What says it is at work has an execution the scheduler looks at.
THEOREM WorkIsExecuted == Spec => []WorkIsFound
<1>1. RegistryInv => WorkIsFound
  BY DEF RegistryInv, FileInv, ConversionInv, TaskOK, ConversionOK, WorkIsFound
<1> QED
  BY <1>1, RegistrySafe, PTL

\* A COMPLETED ingest has registered the file it placed.
THEOREM CompletedIsRegistered == Spec => []CompletedHasItsModel
<1>1. RegistryInv => CompletedHasItsModel
  BY DEF RegistryInv, FileInv, TaskOK, CompletedHasItsModel, Free
<1> QED
  BY <1>1, RegistrySafe, PTL

\* Archives and SUCCEEDED conversions go together, but for the ones a deletion overtook.
THEOREM ArchivesFollow == Spec => []ArchivesAreOwned
<1>1. RegistryInv => ArchivesAreOwned
  BY DEF RegistryInv, ConversionInv, ConversionOK, ArchivesAreOwned
<1> QED
  BY <1>1, RegistrySafe, PTL
=============================================================================
