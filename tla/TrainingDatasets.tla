-------------------------- MODULE TrainingDatasets --------------------------
(***************************************************************************)
(* A training dataset next to the sources it is built from: configured and *)
(* submitted by the API, built or validated by dataset-worker, failed by   *)
(* the scheduler, deleted.  Every build of the dataset uses the same       *)
(* staging directory and ends in the same target directory.                *)
(***************************************************************************)
EXTENDS DirectoryIndex

CONSTANT MaxBuilds      \* bound: executions of the dataset

VARIABLES
    dataset,    \* the training_datasets row
    builds,     \* its executions by attempt, each with its worker
    staging,    \* who wrote in .building/<id>: pairs of attempt and "part" or "whole"
    target,     \* the directory of the dataset: none, whole or mixed
    deletes     \* delete messages on their way

datasetVars == <<dataset, builds, staging, target, deletes>>

vars == <<sourceVars, indexVars, datasetVars>>

SourcesUnchanged == UNCHANGED <<sourceVars, indexVars>>

Running == {"BUILDING", "VALIDATING"}

Attempts == DOMAIN builds

Referenced(s) == s \in dataset.sources

-----------------------------------------------------------------------------
(* The API *)

\* configureBuild: sources that are READY now, whose latest class lists agree.
ConfigureBuild(S) ==
    /\ dataset.origin = "BUILT" /\ ~dataset.archived /\ dataset.status # "BUILDING"
    /\ S # {}
    /\ \A s \in S : source[s].status = "READY" /\ ~source[s].archived
    /\ \A s, t \in S : scans[s][source[s].latest].classes = scans[t][source[t].latest].classes
    /\ dataset' = [dataset EXCEPT !.status = "DRAFT", !.sources = S]
    /\ SourcesUnchanged /\ UNCHANGED <<builds, staging, target, deletes>>

\* The latest scan of the source is completed, whatever its verdict.
Submittable(s) == source[s].latest # 0 /\ scans[s][source[s].latest].status = "COMPLETED"

\* submit: a new execution.
Submit ==
    /\ ~dataset.archived /\ dataset.status \in {"DRAFT", "INVALID"}
    /\ dataset.origin = "BUILT" => dataset.sources # {} /\ \A s \in dataset.sources : Submittable(s)
    /\ Len(builds) < MaxBuilds
    /\ builds' = Append(builds, [execution |-> "ASSIGNED", worker |-> "none", used |-> {}])
    /\ dataset' = [dataset EXCEPT !.status = IF dataset.origin = "BUILT" THEN "BUILDING" ELSE "VALIDATING"]
    /\ SourcesUnchanged /\ UNCHANGED <<staging, target, deletes>>

\* Mutant of Deletable: a build under way does not matter.
DeletableAnyTime == dataset.status # "DELETED"

Deletable == dataset.status \notin Running \cup {"DELETED"}

\* deleteDataset: only what was built here is removed from disk.
Delete ==
    /\ Deletable
    /\ dataset' = [dataset EXCEPT !.status = "DELETED", !.archived = TRUE]
    /\ deletes' = IF dataset.origin = "BUILT" THEN 1 ELSE 0
    /\ SourcesUnchanged /\ UNCHANGED <<builds, staging, target>>

-----------------------------------------------------------------------------
(* The worker *)

At(k, step) == builds[k].worker = step

Go(k, step) == builds' = [builds EXCEPT ![k].worker = step]

\* The claim; builder and validation begin with the same guarded update.
ClaimBuild(k) ==
    /\ builds[k].execution = "ASSIGNED"
    /\ builds' = [builds EXCEPT ![k].execution = "RUNNING",
                     ![k].worker = IF dataset.origin = "BUILT" THEN "loading" ELSE "validating"]
    /\ SourcesUnchanged /\ UNCHANGED <<dataset, staging, target, deletes>>

\* _load reads sources and latest scans.  It is called outside the try block: a source
\* that is gone or being scanned again ends the worker and leaves the execution RUNNING.
Load(k) ==
    /\ At(k, "loading")
    /\ IF \A s \in dataset.sources : source[s].latest # 0
                                        /\ scans[s][source[s].latest].status = "COMPLETED"
       THEN builds' = [builds EXCEPT ![k].worker = "collecting",
                          ![k].used = {<<s, source[s].latest>> : s \in dataset.sources}]
       ELSE Go(k, "gone")
    /\ SourcesUnchanged /\ UNCHANGED <<dataset, staging, target, deletes>>

\* Mutant of Clear: files of an earlier build are left.
ClearNothing(k) == staging' = staging \cup {<<k, "part">>}

\* rmtree(staging), then the first files.
Clear(k) == staging' = {<<k, "part">>}

\* _collect_pairs found every folder as it was scanned: the staging directory is ours.
Stage(k) ==
    /\ At(k, "collecting")
    /\ \A u \in builds[k].used : onDisk[u[1]]
    /\ Clear(k)
    /\ Go(k, "staging")
    /\ SourcesUnchanged /\ UNCHANGED <<dataset, target, deletes>>

\* The last file is written and _validate finds every one of them.
Fill(k) ==
    /\ At(k, "staging") /\ <<k, "part">> \in staging
    /\ staging' = (staging \ {<<k, "part">>}) \cup {<<k, "whole">>}
    /\ Go(k, "filled")
    /\ SourcesUnchanged /\ UNCHANGED <<dataset, target, deletes>>

\* The target must not exist, the staging directory must.
Movable(k) == target = "none" /\ staging # {}

\* rename(staging, target).
Move(k) ==
    /\ At(k, "filled") /\ Movable(k)
    /\ target' = IF staging = {<<k, "whole">>} THEN "whole" ELSE "mixed"
    /\ staging' = {}
    /\ Go(k, "moved")
    /\ SourcesUnchanged /\ UNCHANGED <<dataset, deletes>>

\* Any step may fail: the staging directory is removed ...
BuildError(k) ==
    /\ builds[k].worker \in {"collecting", "staging", "filled", "moved"}
    /\ staging' = {}
    /\ Go(k, "failing")
    /\ SourcesUnchanged /\ UNCHANGED <<dataset, target, deletes>>

\* ... and _fail marks dataset and execution, by id.
FailBuild(k) ==
    /\ builds[k].worker \in {"failing", "validating"}
    /\ builds' = [builds EXCEPT ![k].execution = "FAILED", ![k].worker = "gone"]
    /\ dataset' = [dataset EXCEPT !.status = "INVALID"]
    /\ SourcesUnchanged /\ UNCHANGED <<staging, target, deletes>>

\* _complete: the row learns its directory, by id.  A build whose artifacts another one
\* has stored already breaks uq_primary_artifact_per_owner and ends in BuildError.
CompleteBuild(k) ==
    /\ At(k, "moved") /\ \A l \in Attempts : builds[l].execution # "SUCCEEDED"
    /\ builds' = [builds EXCEPT ![k].execution = "SUCCEEDED", ![k].worker = "gone"]
    /\ dataset' = [dataset EXCEPT !.status = "READY", !.path = TRUE]
    /\ SourcesUnchanged /\ UNCHANGED <<staging, target, deletes>>

\* _complete_training_dataset of a registered directory.
CompleteValidation(k) ==
    /\ At(k, "validating")
    /\ builds' = [builds EXCEPT ![k].execution = "SUCCEEDED", ![k].worker = "gone"]
    /\ dataset' = [dataset EXCEPT !.status = "READY"]
    /\ SourcesUnchanged /\ UNCHANGED <<staging, target, deletes>>

CrashBuild(k) ==
    /\ builds[k].worker \notin {"none", "gone"}
    /\ Go(k, "gone")
    /\ SourcesUnchanged /\ UNCHANGED <<dataset, staging, target, deletes>>

\* TrainingDatasetDeleter: without a path there is nothing to remove.
RemoveDirectory ==
    /\ deletes > 0
    /\ deletes' = 0
    /\ target' = IF dataset.path THEN "none" ELSE target
    /\ SourcesUnchanged /\ UNCHANGED <<dataset, builds, staging>>

-----------------------------------------------------------------------------
(* The scheduler *)

\* Mutant of LoseBuild: only the execution is marked.
LoseBuildAlone(k) ==
    /\ builds[k].execution = "RUNNING"
    /\ builds[k].worker \notin {"none", "gone"} => MayOutlive
    /\ builds' = [builds EXCEPT ![k].execution = "LOST"]
    /\ outlived' = (outlived \/ builds[k].worker \notin {"none", "gone"})
    /\ UNCHANGED <<source, scans, classes, onDisk, moves, indexVars, dataset, staging, target, deletes>>

\* reconcile: whichever execution is lost, the dataset that is running is failed.
LoseBuild(k) ==
    /\ builds[k].execution = "RUNNING"
    /\ builds[k].worker \notin {"none", "gone"} => MayOutlive
    /\ builds' = [builds EXCEPT ![k].execution = "LOST"]
    /\ dataset' = IF dataset.status \in Running THEN [dataset EXCEPT !.status = "INVALID"] ELSE dataset
    /\ outlived' = (outlived \/ builds[k].worker \notin {"none", "gone"})
    /\ UNCHANGED <<source, scans, classes, onDisk, moves, indexVars, staging, target, deletes>>

-----------------------------------------------------------------------------
Init ==
    /\ SourceInit /\ IndexInit
    /\ dataset \in [origin : {"BUILT", "REGISTERED"}, status : {"DRAFT"}, archived : {FALSE},
                    sources : {{}}, path : {FALSE}]
    /\ builds = <<>> /\ staging = {} /\ target = "none" /\ deletes = 0

BuildWork(k) ==
    \/ ClaimBuild(k) \/ Load(k) \/ Stage(k) \/ Fill(k) \/ Move(k)
    \/ BuildError(k) \/ FailBuild(k) \/ CompleteBuild(k) \/ CompleteValidation(k)

\* The walk of the directory index looks at the references when it gets to a row.
Reconcile(w, s) ==
    \/ Referenced(s) /\ ArchiveMissing(w, s)
    \/ ~Referenced(s) /\ DecidePurge(w, s) /\ UNCHANGED sourceVars

Next ==
    \/ SourceNext /\ UNCHANGED <<indexVars, datasetVars>>
    \/ \E w \in Walks :
          \/ IndexAlone(w) /\ UNCHANGED <<sourceVars, datasetVars>>
          \/ Purge(w) /\ UNCHANGED datasetVars
          \/ \E s \in Sources : Reconcile(w, s) /\ UNCHANGED datasetVars
    \/ \E S \in SUBSET Sources : ConfigureBuild(S)
    \/ Submit \/ Delete \/ RemoveDirectory
    \/ \E k \in Attempts : BuildWork(k) \/ CrashBuild(k) \/ LoseBuild(k)

Spec == Init /\ [][Next]_vars

(* Fairness.  Live workers go on, the scheduler notices what does not.  Some *)
(* walk of those that can be sent, made and published is, though crashes and *)
(* lost messages take them back in between (strong fairness).               *)
Fairness ==
    /\ \A s \in Sources : \A k \in 1 .. MaxScans :
          WF_vars(k \in DOMAIN scans[s] /\ (ScanWork(s, k) \/ LoseScan(s, k))
                     /\ UNCHANGED <<indexVars, datasetVars>>)
    /\ \A k \in 1 .. MaxBuilds : WF_vars(k \in Attempts /\ (BuildWork(k) \/ LoseBuild(k)))
    /\ SF_vars(\E w \in Walks : (FindDue(w) \/ Upsert(w)) /\ UNCHANGED <<sourceVars, datasetVars>>)
    /\ SF_vars(\E w \in Walks : Walk(w) /\ UNCHANGED <<sourceVars, datasetVars>>)
    /\ SF_vars(\E w \in Walks : Publish(w) /\ UNCHANGED <<sourceVars, datasetVars>>)
    /\ \A w \in Walks :
          WF_vars(\/ (ReadRows(w) \/ Skip(w)) /\ UNCHANGED <<sourceVars, datasetVars>>
                  \/ (Purge(w) \/ \E s \in Sources : Reconcile(w, s)) /\ UNCHANGED datasetVars)

FairSpec == Spec /\ Fairness

-----------------------------------------------------------------------------
(* Properties *)

TypeOK ==
    /\ SourceTypeOK /\ IndexTypeOK
    /\ dataset \in [origin : {"BUILT", "REGISTERED"},
                    status : Running \cup {"DRAFT", "READY", "INVALID", "DELETED"},
                    archived : BOOLEAN, sources : SUBSET Sources, path : BOOLEAN]
    /\ builds \in Seq([execution : ExecutionStatus,
                       worker : {"none", "loading", "validating", "collecting", "staging", "filled",
                                 "moved", "failing", "gone"},
                       used : SUBSET (Sources \X (1 .. MaxScans))])
    /\ staging \subseteq Attempts \X {"part", "whole"}
    /\ target \in {"none", "whole", "mixed"} /\ deletes \in 0 .. 1

\* A dataset that is BUILDING or VALIDATING has an execution that will end it or whose
\* loss will: it can never be stuck beyond resubmission and deletion.
RunningHasExecution ==
    dataset.status \in Running =>
        \E k \in Attempts : builds[k].execution \in {"ASSIGNED", "RUNNING"}

\* While no worker outlives its timeout, a built dataset that says READY has its whole
\* directory: crashes, errors and rebuilds leave no half of one behind a READY row.
ReadyIsWhole ==
    ~outlived /\ dataset.origin = "BUILT" /\ dataset.status = "READY" =>
        dataset.path /\ target = "whole"

\* While no worker outlives its timeout, deleted and archived stay what they are: no
\* scan or build under way when they were decided writes its result over them.
DeletedStays ==
    [][~outlived' =>
          /\ dataset.status = "DELETED" => dataset'.status = "DELETED"
          /\ \A s \in Sources : source[s].archived => source'[s].status \in {"ARCHIVED", "PURGED"}]_vars

\* A dataset never stays BUILDING or VALIDATING.
BuildsEnd == dataset.status \in Running ~> dataset.status \notin Running
=============================================================================
