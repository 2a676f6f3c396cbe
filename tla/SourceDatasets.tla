--------------------------- MODULE SourceDatasets ---------------------------
(***************************************************************************)
(* Source datasets: their rows, the scans dispatched for them, and what    *)
(* dataset-worker, API and scheduler do to both.  An execution is claimed  *)
(* once; every later update of the worker goes by id, without a look at    *)
(* the status it overwrites.                                               *)
(***************************************************************************)
EXTENDS Integers, Sequences, FiniteSets

CONSTANTS
    Sources,      \* the folders that may be registered
    ClassLists,   \* class lists that contradict each other
    MaxScans,     \* bound: scans of one source
    MaxMoves,     \* bound: times a folder appears or disappears
    MayOutlive    \* a slow scan or build may be declared lost

ASSUME SourcesAssumption ==
    /\ MaxScans \in Nat /\ MaxMoves \in Nat
    /\ MayOutlive \in BOOLEAN

VARIABLES
    source,       \* source_datasets: status, archived_at, latest_scan_id
    scans,        \* source_dataset_scans by version, each with its execution and worker
    classes,      \* the class list a scan would find now
    onDisk,       \* the folders that exist
    moves,        \* how often a folder came or went
    outlived      \* a worker was declared lost while it went on

sourceVars == <<source, scans, classes, onDisk, moves, outlived>>

ScanStatus == {"PENDING", "RUNNING", "COMPLETED", "FAILED", "PURGED"}
ExecutionStatus == {"ASSIGNED", "RUNNING", "SUCCEEDED", "FAILED", "LOST"}

NewScan == [status |-> "PENDING", execution |-> "ASSIGNED", worker |-> "none",
            verdict |-> "none", classes |-> "none"]

Registered(s) == source[s].status \notin {"NONE", "PURGED"}

ScanActive(s) ==
    \E k \in DOMAIN scans[s] : scans[s][k].status \in {"PENDING", "RUNNING"}

-----------------------------------------------------------------------------
(* The API *)

\* Mutant of DispatchScan: without the unique index.
DispatchAnotherScan(s) ==
    /\ Len(scans[s]) < MaxScans
    /\ scans' = [scans EXCEPT ![s] = Append(@, NewScan)]
    /\ source' = [source EXCEPT ![s].status = "SCANNING", ![s].latest = Len(scans[s]) + 1]

\* dispatchScan; uq_active_scan_per_source refuses a second scan under way.
DispatchScan(s) ==
    /\ ~ScanActive(s)
    /\ Len(scans[s]) < MaxScans
    /\ scans' = [scans EXCEPT ![s] = Append(@, NewScan)]
    /\ source' = [source EXCEPT ![s].status = "SCANNING", ![s].latest = Len(scans[s]) + 1]

\* register: the row and its first scan in one transaction.
Register(s) ==
    /\ source[s].status = "NONE"
    /\ DispatchScan(s)
    /\ UNCHANGED <<classes, onDisk, moves, outlived>>

\* rescan.
Rescan(s) ==
    /\ Registered(s) /\ ~source[s].archived
    /\ DispatchScan(s)
    /\ UNCHANGED <<classes, onDisk, moves, outlived>>

\* setClassesOverride: the class list and a rescan, or neither.
SetClassesOverride(s, names) ==
    /\ Registered(s) /\ ~source[s].archived
    /\ classes' = [classes EXCEPT ![s] = names]
    /\ DispatchScan(s)
    /\ UNCHANGED <<onDisk, moves, outlived>>

Archivable(s) == Registered(s) /\ ~source[s].archived /\ source[s].status # "SCANNING"

\* archive.
Archive(s) ==
    /\ Archivable(s)
    /\ source' = [source EXCEPT ![s].status = "ARCHIVED", ![s].archived = TRUE]
    /\ UNCHANGED <<scans, classes, onDisk, moves, outlived>>

-----------------------------------------------------------------------------
(* The worker *)

SetScan(s, k, status, execution, worker, verdict, names) ==
    scans' = [scans EXCEPT ![s][k] = [status |-> status, execution |-> execution,
                  worker |-> worker, verdict |-> verdict, classes |-> names]]

\* _handle: the claim, and RUNNING for execution and scan.
ClaimScan(s, k) ==
    LET scan == scans[s][k]
    IN  /\ scan.execution = "ASSIGNED"
        /\ SetScan(s, k, IF scan.status = "PURGED" THEN "PURGED" ELSE "RUNNING",
                   "RUNNING", "scanning", "none", "none")
        /\ UNCHANGED <<source, classes, onDisk, moves, outlived>>

\* _complete: scan, source and execution by id.  The rows of a purged scan are gone,
\* what refers to them cannot be inserted, and only the execution is marked.
CompleteScan(s, k, verdict) ==
    LET scan == scans[s][k]
    IN  /\ scan.worker = "scanning" /\ onDisk[s]
        /\ scan.status # "PURGED"
        /\ SetScan(s, k, "COMPLETED", "SUCCEEDED", "gone", verdict, classes[s])
        /\ source' = [source EXCEPT ![s].status = verdict]
        /\ UNCHANGED <<classes, onDisk, moves, outlived>>

\* _fail, after an error of the scan or a folder that is missing.
FailScan(s, k) ==
    LET scan == scans[s][k]
        purged == scan.status = "PURGED"
    IN  /\ scan.worker = "scanning"
        /\ SetScan(s, k, IF purged THEN "PURGED" ELSE "FAILED", "FAILED", "gone", "none", "none")
        /\ source' = IF purged THEN source ELSE [source EXCEPT ![s].status = "INVALID"]
        /\ UNCHANGED <<classes, onDisk, moves, outlived>>

CrashScan(s, k) ==
    /\ scans[s][k].worker = "scanning"
    /\ scans' = [scans EXCEPT ![s][k].worker = "gone"]
    /\ UNCHANGED <<source, classes, onDisk, moves, outlived>>

-----------------------------------------------------------------------------
(* The scheduler *)

\* Mutant of FreedSource: only the scan is failed.
FreedNoSource(s, k) == source

\* The source of a lost scan: REGISTERED again, if it still waits for that scan.
FreedSource(s, k) ==
    IF source[s].status = "SCANNING" /\ source[s].latest = k
    THEN [source EXCEPT ![s].status = "REGISTERED"] ELSE source

\* reconcileStaleExecutions: a worker that is gone, or one that is slow.
LoseScan(s, k) ==
    LET scan == scans[s][k]
        active == scan.status \in {"PENDING", "RUNNING"}
    IN  /\ scan.execution = "RUNNING"
        /\ scan.worker = "scanning" => MayOutlive
        /\ scans' = [scans EXCEPT ![s][k].execution = "LOST",
                        ![s][k].status = IF active THEN "FAILED" ELSE scan.status]
        /\ source' = IF active THEN FreedSource(s, k) ELSE source
        /\ outlived' = (outlived \/ scan.worker = "scanning")
        /\ UNCHANGED <<classes, onDisk, moves>>

-----------------------------------------------------------------------------
\* Folders come and go without the program's doing.
MoveFolder(s) ==
    /\ moves < MaxMoves
    /\ moves' = moves + 1
    /\ onDisk' = [onDisk EXCEPT ![s] = ~@]
    /\ UNCHANGED <<source, scans, classes, outlived>>

SourceInit ==
    /\ source = [s \in Sources |-> [status |-> "NONE", archived |-> FALSE, latest |-> 0]]
    /\ scans = [s \in Sources |-> <<>>]
    /\ classes \in [Sources -> ClassLists]
    /\ onDisk = [s \in Sources |-> TRUE]
    /\ moves = 0 /\ outlived = FALSE

ScanWork(s, k) ==
    \/ ClaimScan(s, k)
    \/ \E verdict \in {"READY", "INVALID"} : CompleteScan(s, k, verdict)
    \/ FailScan(s, k)

SourceNext ==
    \E s \in Sources :
        \/ Register(s) \/ Rescan(s) \/ Archive(s) \/ MoveFolder(s)
        \/ \E names \in ClassLists : SetClassesOverride(s, names)
        \/ \E k \in DOMAIN scans[s] : ScanWork(s, k) \/ CrashScan(s, k) \/ LoseScan(s, k)

-----------------------------------------------------------------------------
(* Properties *)

SourceTypeOK ==
    /\ source \in [Sources -> [status : {"NONE", "REGISTERED", "SCANNING", "READY", "INVALID",
                                         "ARCHIVED", "PURGED"},
                               archived : BOOLEAN, latest : 0 .. MaxScans]]
    /\ scans \in [Sources -> Seq([status : ScanStatus, execution : ExecutionStatus,
                              worker : {"none", "scanning", "gone"},
                              verdict : {"none", "READY", "INVALID"},
                              classes : ClassLists \cup {"none"}])]
    /\ classes \in [Sources -> ClassLists]
    /\ onDisk \in [Sources -> BOOLEAN]
    /\ moves \in 0 .. MaxMoves /\ outlived \in BOOLEAN

\* A source that says SCANNING has the scan it waits for: an execution that will end it,
\* or whose loss frees it - through rescans, overrides, late workers and lost scans.
ScanningIsUnderway ==
    \A s \in Sources : source[s].status = "SCANNING" =>
        /\ source[s].latest \in DOMAIN scans[s]
        /\ scans[s][source[s].latest].status \in {"PENDING", "RUNNING"}
        /\ scans[s][source[s].latest].execution \in {"ASSIGNED", "RUNNING"}

\* While no worker outlives its timeout, the status of a source is the verdict of its
\* latest scan, and no scan is under way behind it.
StatusIsLatest ==
    \A s \in Sources : ~outlived /\ source[s].status \in {"READY", "INVALID"} =>
        LET scan == scans[s][source[s].latest]
        IN  \/ scan.status = "COMPLETED" /\ scan.verdict = source[s].status
            \/ scan.status = "FAILED" /\ source[s].status = "INVALID"
=============================================================================
