-------------------------------- MODULE Runs --------------------------------
(***************************************************************************)
(* Both kinds of run: a behaviour is one of an inference run or one of a   *)
(* benchmark run, over the same variables.                                 *)
(***************************************************************************)
EXTENDS InferenceRun, BenchmarkRun

VARIABLES
    kind,         \* job_type of the parts
    overlapped,   \* history: since the run was last queued a transaction was open beside
                  \* another, or was open when it was queued
    misled        \* history: a verdict counted before a retry was written after it

runsVars == <<vars, kind, overlapped, misled>>

RunsInit ==
    /\ Init
    /\ kind \in {"inference", "benchmark"}
    /\ overlapped = FALSE
    /\ misled = FALSE

Overlap ==
    overlapped' = IF retries' # retries THEN open' # {}
                  ELSE overlapped \/ Cardinality(open') > 1

\* The commit of a transaction that counted before the last retry changes the run.
Mislead ==
    misled' = \/ misled
              \/ /\ runStatus' # runStatus
                 /\ \E t \in open \ open' : t.round # retries

RunsNext ==
    /\ \/ kind = "inference" /\ InferenceNext
       \/ kind = "benchmark" /\ BenchmarkNext
    /\ UNCHANGED kind
    /\ Overlap
    /\ Mislead

RunsSpec == RunsInit /\ [][RunsNext]_runsVars

-----------------------------------------------------------------------------
(* Properties of both kinds *)

Lifecycle == INSTANCE RunLifecycle WITH run <- runStatus, part <- partStatus

\* A retry may come between the count of a transaction that ends no part any more and its
\* update of the run (inferencer.py:475-497).  If parts are claimed again before that update,
\* what was counted of the round before is written over the new one: the run is misled, and the
\* next three properties speak of it no more.

\* Both kinds implement RunLifecycle until they are misled: although parts are counted before
\* the run is locked, what users see is parts that end one at a time, a stop that reaches every
\* part, and a verdict that is right when it is given.
AsPromised == Lifecycle!Init /\ [][Lifecycle!Next \/ misled']_(Lifecycle!vars)

\* A run that is over has no part left that waits or works, whichever of the workers, the
\* scheduler and the user ended it, and in whatever order they counted - unless it is misled.
OverMeansEnded ==
    ~misled /\ runStatus \notin {"QUEUED", "RUNNING", "STOPPING"} =>
        \A p \in Parts : partStatus[p] \in ENDED

\* The verdict of a run that is not misled stays true (_finalize_run, finalizeBenchmarkOnLost):
\* what was counted before the run was locked holds when it is written, and no late worker, loss
\* or stop takes it back.  Of a STOPPED run the stopped parts may still fail.
VerdictIsTrue ==
    ~misled /\ runStatus \in {"COMPLETED", "PARTIALLY_FAILED", "FAILED"} =>
        /\ \A p \in Parts : partStatus[p] \in {"COMPLETED", "FAILED"}
        /\ runStatus = Lifecycle!Outcome(partStatus)

-----------------------------------------------------------------------------
(* Properties of one kind *)

\* A dataset asked to stop has an execution that will notice, or whose loss ends it.
StoppingHasExecution ==
    kind = "inference" => \A p \in Parts : partStatus[p] = "STOPPING" =>
        \E k \in DOMAIN executions[p] : executions[p][k].status \in {"ASSIGNED", "RUNNING"}

\* "A completed dataset keeps its results and its ZIP" (retry): no late worker, loss
\* or retry takes it back, and only deletion removes its ZIP.
CompletedKeepsItsZip ==
    [][kind = "inference" =>
          \A p \in Parts : partStatus[p] = "COMPLETED" =>
              /\ partStatus'[p] = "COMPLETED"
              /\ artifact'[p] = artifact[p] \/ runStatus' = "DELETED"]_runsVars

\* inferencer.py:7, "The last job of a run to finish finalises the run", holds of a run that has
\* begun and whose jobs finish one after the other: RUNNING or STOPPING with no transaction open,
\* it has a dataset left, unless two were ended at once and each counted the other as pending.
\* A retried run that is still QUEUED is not spoken of: late workers may fail all its datasets.
SerialEndsFinalise ==
    kind = "inference" /\ ~overlapped /\ runStatus \in {"RUNNING", "STOPPING"} /\ open = {} =>
        \E p \in Parts : partStatus[p] \notin ENDED

\* The metrics of a COMPLETED evaluation are stored, whichever attempt made them.
CompletedHasMetrics ==
    kind = "benchmark" => \A p \in Parts : partStatus[p] = "COMPLETED" => artifact[p] # 0
=============================================================================
