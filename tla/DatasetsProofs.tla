--------------------------- MODULE DatasetsProofs ---------------------------
(***************************************************************************)
(* Proofs about SourceDatasets, DirectoryIndex and TrainingDatasets, for   *)
(* any sources, walks and bounds, and for workers that outlive their       *)
(* timeout where the property allows them.                                 *)
(***************************************************************************)
EXTENDS TrainingDatasets, SequenceTheorems, TLAPS

Scan == [status : ScanStatus, execution : ExecutionStatus,
         worker : {"none", "scanning", "gone"},
         verdict : {"none", "READY", "INVALID"},
         classes : ClassLists \cup {"none"}]
Source == [status : {"NONE", "REGISTERED", "SCANNING", "READY", "INVALID", "ARCHIVED", "PURGED"},
           archived : BOOLEAN, latest : 0 .. MaxScans]

-----------------------------------------------------------------------------
(* Sources and their scans *)

\* What is so of a source even when workers outlive their timeout: ScanningIsUnderway.
Underway(s) ==
    source[s].status = "SCANNING" =>
        /\ source[s].latest \in DOMAIN scans[s]
        /\ scans[s][source[s].latest].status \in {"PENDING", "RUNNING"}
        /\ scans[s][source[s].latest].execution \in {"ASSIGNED", "RUNNING"}

\* While none does, only the scan a source waits for is under way; a purged source has
\* purged scans only; a worker that scans has the execution.
ScanOK(s, k) ==
    LET scan == scans[s][k]
    IN  /\ scan.status \in {"PENDING", "RUNNING"} =>
              source[s].status = "SCANNING" /\ source[s].latest = k
        /\ scan.status = "PURGED" => source[s].status = "PURGED"
        /\ scan.execution = "ASSIGNED" \/ scan.worker = "scanning" =>
              scan.status \in {"PENDING", "RUNNING", "PURGED"}
        /\ scan.worker = "scanning" => scan.execution = "RUNNING"

\* The status of a source is the verdict of its latest scan, and archived is ARCHIVED.
SourceOK(s) ==
    /\ \A k \in DOMAIN scans[s] : ScanOK(s, k)
    /\ source[s].status = "PURGED" => \A k \in DOMAIN scans[s] : scans[s][k].status = "PURGED"
    /\ source[s].status \in {"READY", "INVALID"} =>
          /\ source[s].latest \in DOMAIN scans[s]
          /\ LET scan == scans[s][source[s].latest]
             IN  \/ scan.status = "COMPLETED" /\ scan.verdict = source[s].status
                 \/ scan.status = "FAILED" /\ source[s].status = "INVALID"
    /\ source[s].archived => source[s].status = "ARCHIVED"

SourceInv ==
    /\ SourceTypeOK
    /\ \A s \in Sources : Underway(s) /\ (~outlived => SourceOK(s))

\* A step that changes one source and its scans is judged by that source alone.
LEMMA OneSource ==
    ASSUME SourceInv, SourceTypeOK', outlived => outlived', NEW s \in Sources,
           \A t \in Sources \ {s} : source'[t] = source[t] /\ scans'[t] = scans[t],
           Underway(s)', ~outlived' => SourceOK(s)'
    PROVE  SourceInv'
BY DEF SourceInv, Underway, SourceOK, ScanOK

\* Writing one scan leaves the others, and the sources, as they are.
LEMMA ScanWritten ==
    ASSUME SourceTypeOK, NEW s \in Sources, NEW k \in DOMAIN scans[s], NEW scan \in Scan,
           scans' = [scans EXCEPT ![s][k] = scan]
    PROVE  /\ scans' \in [Sources -> Seq(Scan)]
           /\ scans'[s][k] = scan
           /\ DOMAIN scans'[s] = DOMAIN scans[s]
           /\ \A l \in DOMAIN scans[s] : l # k => scans'[s][l] = scans[s][l]
           /\ \A t \in Sources \ {s} : scans'[t] = scans[t]
<1>1. scans \in [Sources -> Seq(Scan)]
  BY DEF SourceTypeOK, Scan
<1> DEFINE written == [scans[s] EXCEPT ![k] = scan]
<1>2. scans' = [scans EXCEPT ![s] = written]
  OBVIOUS
<1>3. /\ written \in Seq(Scan) /\ written[k] = scan /\ DOMAIN written = DOMAIN scans[s]
      /\ \A l \in DOMAIN scans[s] : l # k => written[l] = scans[s][l]
  BY <1>1
<1> HIDE DEF written
<1> QED
  BY <1>1, <1>2, <1>3

\* A new scan comes after the others.
LEMMA Dispatched ==
    ASSUME SourceInv, NEW s \in Sources, DispatchScan(s), ~outlived => ~source[s].archived,
           source[s].status # "PURGED", classes' \in [Sources -> ClassLists],
           UNCHANGED <<onDisk, moves, outlived>>
    PROVE  SourceInv'
<1> DEFINE n == Len(scans[s]) + 1
           longer == Append(scans[s], NewScan)
           row == [source[s] EXCEPT !.status = "SCANNING", !.latest = n]
<1>1. scans \in [Sources -> Seq(Scan)] /\ source \in [Sources -> Source]
  BY DEF SourceInv, SourceTypeOK, Scan, Source
<1>2. NewScan \in Scan /\ NewScan.status = "PENDING" /\ NewScan.execution = "ASSIGNED"
      /\ NewScan.worker = "none"
  BY DEF NewScan, Scan, ScanStatus, ExecutionStatus
<1>3. n \in 1 .. MaxScans
  BY <1>1, SourcesAssumption DEF DispatchScan
<1>4. /\ longer \in Seq(Scan) /\ longer[n] = NewScan
      /\ DOMAIN longer = DOMAIN scans[s] \cup {n} /\ n \notin DOMAIN scans[s]
      /\ \A k \in DOMAIN scans[s] : longer[k] = scans[s][k]
  BY <1>1, <1>2
<1> HIDE DEF n
<1>5. /\ row \in Source /\ row.status = "SCANNING" /\ row.latest = n
      /\ row.archived = source[s].archived
  <2>1. source[s] \in Source /\ n \in 0 .. MaxScans
    BY <1>1, <1>3
  <2> QED
    BY <2>1 DEF Source
<1>6. scans' = [scans EXCEPT ![s] = longer] /\ source' = [source EXCEPT ![s] = row]
  <2>1. source' = [source EXCEPT ![s].status = "SCANNING", ![s].latest = n]
    BY DEF DispatchScan, n
  <2>2. source' = [source EXCEPT ![s] = row]
    BY <1>1, <2>1
  <2> QED
    BY <2>2 DEF DispatchScan
<1>7. \A k \in DOMAIN scans[s] : scans[s][k].status \notin {"PENDING", "RUNNING"}
  BY DEF DispatchScan, ScanActive
<1> HIDE DEF longer, row
<1>8. /\ scans'[s] = longer /\ source'[s] = row
      /\ \A t \in Sources \ {s} : source'[t] = source[t] /\ scans'[t] = scans[t]
  BY <1>1, <1>6
<1>9. SourceTypeOK'
  BY <1>1, <1>4, <1>5, <1>6 DEF SourceInv, SourceTypeOK, Scan, Source
<1>10. Underway(s)'
  BY <1>2, <1>4, <1>5, <1>8 DEF Underway
<1>11. ASSUME ~outlived'
       PROVE  SourceOK(s)'
  <2>1. SourceOK(s) /\ \A k \in DOMAIN scans[s] : ScanOK(s, k)
    BY <1>11 DEF SourceInv, SourceOK
  <2>2. \A k \in DOMAIN longer : ScanOK(s, k)'
    BY <1>2, <1>4, <1>5, <1>7, <1>8, <2>1 DEF ScanOK
  <2> QED
    BY <1>5, <1>8, <1>11, <2>2 DEF SourceOK
<1> QED
  BY <1>8, <1>9, <1>10, <1>11, OneSource

\* A step of a source that writes one scan: what has to be so of the scan and the row.
LEMMA ScanStep ==
    ASSUME SourceInv, NEW s \in Sources, NEW k \in DOMAIN scans[s], NEW scan \in Scan, NEW row \in Source,
           scans' = [scans EXCEPT ![s][k] = scan], source' = [source EXCEPT ![s] = row],
           outlived' \in BOOLEAN, outlived => outlived', UNCHANGED <<classes, onDisk, moves>>,
           row.status = "SCANNING" =>
              /\ row = source[s]
              /\ row.latest = k => scan.status \in {"PENDING", "RUNNING"} /\ scan.execution \in {"ASSIGNED", "RUNNING"},
           ~outlived' => SourceOK(s)'
    PROVE  SourceInv'
<1>1. /\ scans' \in [Sources -> Seq(Scan)]
      /\ scans'[s][k] = scan
      /\ DOMAIN scans'[s] = DOMAIN scans[s]
      /\ \A l \in DOMAIN scans[s] : l # k => scans'[s][l] = scans[s][l]
      /\ \A t \in Sources \ {s} : scans'[t] = scans[t]
  BY ScanWritten DEF SourceInv
<1>2. source \in [Sources -> Source]
  BY DEF SourceInv, SourceTypeOK, Source
<1>3. source'[s] = row /\ \A t \in Sources \ {s} : source'[t] = source[t]
  BY <1>2
<1>4. SourceTypeOK'
  BY <1>1, <1>2 DEF SourceInv, SourceTypeOK, Scan, Source
<1>5. Underway(s)'
  BY <1>1, <1>3 DEF SourceInv, Underway
<1> QED
  BY <1>1, <1>3, <1>4, <1>5, OneSource

\* The same, with what SourceOK asks of the scan that was written and of the row.
LEMMA ScanStepOK ==
    ASSUME SourceInv, NEW s \in Sources, NEW k \in DOMAIN scans[s], NEW scan \in Scan, NEW row \in Source,
           scans' = [scans EXCEPT ![s][k] = scan], source' = [source EXCEPT ![s] = row],
           SourceOK(s),
           row.status = "SCANNING" => row = source[s],
           row.status = "PURGED" => row = source[s] /\ scan.status = "PURGED",
           row.archived => row.status = "ARCHIVED",
           row # source[s] =>
              /\ source[s].latest = k /\ source[s].status = "SCANNING"
              /\ scan.status \notin {"PENDING", "RUNNING"},
           scan.status \in {"PENDING", "RUNNING"} => row.status = "SCANNING" /\ row.latest = k,
           scan.status = "PURGED" => row.status = "PURGED",
           scan.execution = "ASSIGNED" \/ scan.worker = "scanning" =>
              scan.status \in {"PENDING", "RUNNING", "PURGED"},
           scan.worker = "scanning" => scan.execution = "RUNNING",
           row.status \in {"READY", "INVALID"} /\ row.latest = k =>
              \/ scan.status = "COMPLETED" /\ scan.verdict = row.status
              \/ scan.status = "FAILED" /\ row.status = "INVALID",
           row.latest = source[s].latest
    PROVE  SourceOK(s)'
<1>1. /\ scans'[s][k] = scan
      /\ DOMAIN scans'[s] = DOMAIN scans[s]
      /\ \A l \in DOMAIN scans[s] : l # k => scans'[s][l] = scans[s][l]
  BY ScanWritten DEF SourceInv
<1>2. source'[s] = row
  BY DEF SourceInv, SourceTypeOK
<1>3. \A l \in DOMAIN scans[s] : ScanOK(s, l)
  BY DEF SourceOK
<1>4. ASSUME NEW l \in DOMAIN scans[s]
      PROVE  ScanOK(s, l)'
  <2>1. CASE l = k
    BY <1>1, <1>2, <2>1 DEF ScanOK
  <2>2. CASE l # k
    <3>1. CASE row = source[s]
      BY <1>1, <1>2, <1>3, <2>2, <3>1 DEF ScanOK
    <3>2. CASE row # source[s]
      BY <1>1, <1>2, <1>3, <2>2, <3>2 DEF ScanOK
    <3> QED
      BY <3>1, <3>2
  <2> QED
    BY <2>1, <2>2
<1>5. row.status = "PURGED" => \A l \in DOMAIN scans[s] : scans'[s][l].status = "PURGED"
  BY <1>1 DEF SourceOK
<1>6. row.status \in {"READY", "INVALID"} =>
          /\ row.latest \in DOMAIN scans[s]
          /\ LET now == scans'[s][row.latest]
             IN  \/ now.status = "COMPLETED" /\ now.verdict = row.status
                 \/ now.status = "FAILED" /\ row.status = "INVALID"
  BY <1>1 DEF SourceOK
<1> QED
  BY <1>1, <1>2, <1>4, <1>5, <1>6 DEF SourceOK

\* What the worker writes of a scan.
LEMMA WrittenScan ==
    ASSUME SourceInv, NEW s \in Sources, NEW k \in DOMAIN scans[s],
           NEW status \in ScanStatus, NEW execution \in ExecutionStatus,
           NEW worker \in {"none", "scanning", "gone"}, NEW verdict \in {"none", "READY", "INVALID"},
           NEW names \in ClassLists \cup {"none"}
    PROVE  [status |-> status, execution |-> execution, worker |-> worker,
            verdict |-> verdict, classes |-> names] \in Scan
BY DEF Scan

\* A claim turns ASSIGNED into RUNNING.
LEMMA ClaimPreserves ==
    ASSUME SourceInv, NEW s \in Sources, NEW k \in DOMAIN scans[s], ClaimScan(s, k)
    PROVE  SourceInv'
<1> DEFINE status == IF scans[s][k].status = "PURGED" THEN "PURGED" ELSE "RUNNING"
           scan == [status |-> status, execution |-> "RUNNING", worker |-> "scanning",
                    verdict |-> "none", classes |-> "none"]
<1>1. scan \in Scan
  BY DEF Scan, ScanStatus, ExecutionStatus
<1>2. scans' = [scans EXCEPT ![s][k] = scan]
  BY DEF ClaimScan, SetScan
<1>3. /\ scan.execution = "RUNNING" /\ scan.worker = "scanning"
      /\ scan.status = IF scans[s][k].status = "PURGED" THEN "PURGED" ELSE "RUNNING"
  OBVIOUS
<1> HIDE DEF scan
<1>4. source[s] \in Source /\ source' = [source EXCEPT ![s] = source[s]]
  BY DEF ClaimScan, SourceInv, SourceTypeOK, Source
<1>5. UNCHANGED <<classes, onDisk, moves, outlived>> /\ scans[s][k].execution = "ASSIGNED"
  BY DEF ClaimScan
<1>6. source[s].status = "SCANNING" /\ source[s].latest = k => scan.status = "RUNNING"
  BY <1>3 DEF SourceInv, Underway
<1>7. ASSUME ~outlived'
      PROVE  SourceOK(s)'
  <2>1. SourceOK(s) /\ ScanOK(s, k)
    BY <1>5, <1>7 DEF SourceInv, SourceOK
  <2>2. scan.status # "PURGED" => source[s].status = "SCANNING" /\ source[s].latest = k
    BY <1>3, <1>5, <2>1 DEF ScanOK
  <2>3. scan.status = "PURGED" <=> source[s].status = "PURGED"
    BY <1>3, <1>5, <2>1 DEF ScanOK, SourceOK
  <2> QED
    BY <1>1, <1>2, <1>3, <1>4, <2>1, <2>2, <2>3, ScanStepOK DEF SourceOK
<1> QED
  BY <1>1, <1>2, <1>3, <1>4, <1>5, <1>6, <1>7, ScanStep DEF SourceInv, SourceTypeOK

\* A scan completes or fails: the source takes its verdict.
LEMMA ResultPreserves ==
    ASSUME SourceInv, NEW s \in Sources, NEW k \in DOMAIN scans[s],
           NEW scan \in Scan, scan.worker = "gone", scan.execution \notin {"ASSIGNED", "RUNNING"},
           NEW status \in {"READY", "INVALID"},
           scans[s][k].worker = "scanning", scans[s][k].status # "PURGED",
           scans' = [scans EXCEPT ![s][k] = scan], source' = [source EXCEPT ![s].status = status],
           \/ scan.status = "COMPLETED" /\ scan.verdict = status
           \/ scan.status = "FAILED" /\ status = "INVALID",
           UNCHANGED <<classes, onDisk, moves, outlived>>
    PROVE  SourceInv'
<1> DEFINE row == [source[s] EXCEPT !.status = status]
<1>1. source \in [Sources -> Source] /\ source[s] \in Source
  BY DEF SourceInv, SourceTypeOK, Source
<1>2. /\ row \in Source /\ row.status = status /\ row.latest = source[s].latest
      /\ row.archived = source[s].archived
  BY <1>1 DEF Source
<1>3. source' = [source EXCEPT ![s] = row]
  BY <1>1
<1> HIDE DEF row
<1>4. ASSUME ~outlived'
      PROVE  SourceOK(s)'
  <2>1. SourceOK(s) /\ ScanOK(s, k)
    BY <1>4 DEF SourceInv, SourceOK
  <2>2. source[s].status = "SCANNING" /\ source[s].latest = k
    BY <2>1 DEF ScanOK
  <2>3. ~source[s].archived
    BY <2>1, <2>2 DEF SourceOK
  <2> QED
    BY <1>2, <1>3, <2>1, <2>2, <2>3, ScanStepOK
<1> QED
  BY <1>2, <1>3, <1>4, ScanStep DEF SourceInv, SourceTypeOK

\* A step that leaves the row and the status of the scan as they are: the execution ends,
\* or the worker is gone.
LEMMA QuietPreserves ==
    ASSUME SourceInv, NEW s \in Sources, NEW k \in DOMAIN scans[s],
           NEW scan \in Scan, scan.worker # "scanning", scan.status = scans[s][k].status,
           scan.verdict = scans[s][k].verdict,
           \/ scan.execution = scans[s][k].execution
           \/ scan.execution # "ASSIGNED" /\ scan.status \notin {"PENDING", "RUNNING"},
           scans' = [scans EXCEPT ![s][k] = scan], UNCHANGED <<source, classes, onDisk, moves>>,
           outlived' \in BOOLEAN, outlived => outlived'
    PROVE  SourceInv'
<1>1. source[s] \in Source /\ source' = [source EXCEPT ![s] = source[s]]
  BY DEF SourceInv, SourceTypeOK, Source
<1>2. source[s].status = "SCANNING" /\ source[s].latest = k =>
          scan.status \in {"PENDING", "RUNNING"} /\ scan.execution \in {"ASSIGNED", "RUNNING"}
  BY DEF SourceInv, Underway
<1>3. ASSUME ~outlived'
      PROVE  SourceOK(s)'
  <2>1. SourceOK(s) /\ ScanOK(s, k)
    BY <1>3 DEF SourceInv, SourceOK
  <2>2. /\ scan.status \in {"PENDING", "RUNNING"} =>
                source[s].status = "SCANNING" /\ source[s].latest = k
        /\ scan.status = "PURGED" => source[s].status = "PURGED"
        /\ scan.execution = "ASSIGNED" => scan.status \in {"PENDING", "RUNNING", "PURGED"}
    BY <2>1 DEF ScanOK
  <2>3. /\ source[s].status = "PURGED" => scan.status = "PURGED"
        /\ source[s].archived => source[s].status = "ARCHIVED"
        /\ source[s].status \in {"READY", "INVALID"} /\ source[s].latest = k =>
              \/ scan.status = "COMPLETED" /\ scan.verdict = source[s].status
              \/ scan.status = "FAILED" /\ source[s].status = "INVALID"
    BY <2>1 DEF SourceOK
  <2> QED
    BY <1>1, <2>1, <2>2, <2>3, ScanStepOK
<1> QED
  BY <1>1, <1>2, <1>3, ScanStep DEF SourceInv, SourceTypeOK

\* The worker of a scan: completes, fails, dies.
LEMMA WorkerPreserves ==
    ASSUME SourceInv, NEW s \in Sources, NEW k \in DOMAIN scans[s],
           \/ \E verdict \in {"READY", "INVALID"} : CompleteScan(s, k, verdict)
           \/ FailScan(s, k) \/ CrashScan(s, k)
    PROVE  SourceInv'
<1>1. scans[s] \in Seq(Scan) /\ scans[s][k] \in Scan
  <2>1. scans[s] \in Seq(Scan)
    BY DEF SourceInv, SourceTypeOK, Scan
  <2> QED
    BY <2>1
<1>2. ASSUME NEW verdict \in {"READY", "INVALID"}, CompleteScan(s, k, verdict)
      PROVE  SourceInv'
  <2> DEFINE scan == [status |-> "COMPLETED", execution |-> "SUCCEEDED", worker |-> "gone",
                      verdict |-> verdict, classes |-> classes[s]]
  <2>1. classes[s] \in ClassLists
    BY DEF SourceInv, SourceTypeOK
  <2>2. scan \in Scan
    BY <2>1 DEF Scan, ScanStatus, ExecutionStatus
  <2>3. scans' = [scans EXCEPT ![s][k] = scan] /\ source' = [source EXCEPT ![s].status = verdict]
    BY <1>2 DEF CompleteScan, SetScan
  <2> QED
    BY <1>2, <2>2, <2>3, ResultPreserves DEF CompleteScan
<1>3. CASE FailScan(s, k) /\ scans[s][k].status # "PURGED"
  <2> DEFINE scan == [status |-> "FAILED", execution |-> "FAILED", worker |-> "gone",
                      verdict |-> "none", classes |-> "none"]
  <2>1. scan \in Scan
    BY DEF Scan, ScanStatus, ExecutionStatus
  <2>2. scans' = [scans EXCEPT ![s][k] = scan] /\ source' = [source EXCEPT ![s].status = "INVALID"]
    BY <1>3 DEF FailScan, SetScan
  <2> QED
    BY <1>3, <2>1, <2>2, ResultPreserves DEF FailScan
<1>4. CASE FailScan(s, k) /\ scans[s][k].status = "PURGED"
  <2> DEFINE scan == [status |-> "PURGED", execution |-> "FAILED", worker |-> "gone",
                      verdict |-> "none", classes |-> "none"]
  <2>1. scan \in Scan /\ scan.status = "PURGED" /\ scan.worker = "gone" /\ scan.execution = "FAILED"
    BY DEF Scan, ScanStatus, ExecutionStatus
  <2>2. scans' = [scans EXCEPT ![s][k] = scan] /\ UNCHANGED <<source, classes, onDisk, moves, outlived>>
    BY <1>4 DEF FailScan, SetScan
  <2>3. source[s] \in Source /\ source' = [source EXCEPT ![s] = source[s]]
    BY <2>2 DEF SourceInv, SourceTypeOK, Source
  <2>4. source[s].status = "SCANNING" => source[s].latest # k
    BY <1>4 DEF SourceInv, Underway
  <2> HIDE DEF scan
  <2>5. ASSUME ~outlived'
        PROVE  SourceOK(s)'
    <3>1. SourceOK(s) /\ ScanOK(s, k) /\ source[s].status = "PURGED"
      BY <1>4, <2>2, <2>5 DEF SourceInv, SourceOK, ScanOK
    <3>2. ~source[s].archived
      BY <3>1 DEF SourceOK
    <3> QED
      BY <2>1, <2>2, <2>3, <3>1, <3>2, ScanStepOK
  <2> QED
    BY <2>1, <2>2, <2>3, <2>4, <2>5, ScanStep DEF SourceInv, SourceTypeOK
<1>5. CASE CrashScan(s, k)
  <2> DEFINE scan == [scans[s][k] EXCEPT !.worker = "gone"]
  <2>1. /\ scan \in Scan /\ scan.worker = "gone" /\ scan.status = scans[s][k].status
        /\ scan.verdict = scans[s][k].verdict /\ scan.execution = scans[s][k].execution
    BY <1>1 DEF Scan
  <2>2. scans' = [scans EXCEPT ![s][k] = scan]
    BY <1>1, <1>5 DEF CrashScan, SourceInv, SourceTypeOK
  <2>3. UNCHANGED <<source, classes, onDisk, moves, outlived>> /\ outlived \in BOOLEAN
    BY <1>5 DEF CrashScan, SourceInv, SourceTypeOK
  <2> HIDE DEF scan
  <2> QED
    BY <2>1, <2>2, <2>3, QuietPreserves
<1> QED
  BY <1>2, <1>3, <1>4, <1>5

\* The scheduler loses a scan: the source that waited for it is free again.
LEMMA LosePreserves ==
    ASSUME SourceInv, NEW s \in Sources, NEW k \in DOMAIN scans[s], LoseScan(s, k)
    PROVE  SourceInv'
<1> DEFINE old == scans[s][k]
           active == old.status \in {"PENDING", "RUNNING"}
           status == IF active THEN "FAILED" ELSE old.status
           scan == [old EXCEPT !.execution = "LOST", !.status = status]
           row == [source[s] EXCEPT !.status = "REGISTERED"]
<1>1. scans[s] \in Seq(Scan) /\ source[s] \in Source
  BY DEF SourceInv, SourceTypeOK, Scan, Source
<1>2. old \in Scan
  BY <1>1
<1>3. scans' = [scans EXCEPT ![s][k] = scan]
  <2>1. scans' = [scans EXCEPT ![s][k].execution = "LOST", ![s][k].status = status]
    BY DEF LoseScan
  <2> QED
    BY <1>1, <2>1 DEF SourceInv, SourceTypeOK
<1>4. /\ scan \in Scan /\ scan.status = status /\ scan.execution = "LOST"
      /\ scan.worker = old.worker /\ scan.verdict = old.verdict
  BY <1>2 DEF Scan, ScanStatus, ExecutionStatus
<1>5. /\ UNCHANGED <<classes, onDisk, moves>>
      /\ outlived' = (outlived \/ old.worker = "scanning")
      /\ old.execution = "RUNNING"
      /\ source' = IF active THEN FreedSource(s, k) ELSE source
  BY DEF LoseScan
<1>6. outlived' \in BOOLEAN /\ (outlived => outlived') /\ (~outlived' => ~outlived /\ old.worker # "scanning")
  BY <1>5 DEF SourceInv, SourceTypeOK
<1> HIDE DEF scan
<1>7. CASE ~active
  <2>1. UNCHANGED source /\ scan.status = old.status
    BY <1>4, <1>5, <1>7
  <2>2. source' = [source EXCEPT ![s] = source[s]]
    BY <2>1 DEF SourceInv, SourceTypeOK
  <2>3. source[s].status = "SCANNING" => source[s].latest # k
    BY <1>7 DEF SourceInv, Underway
  <2>4. ASSUME ~outlived'
        PROVE  SourceOK(s)'
    <3>1. SourceOK(s) /\ ScanOK(s, k) /\ scan.worker # "scanning"
      BY <1>4, <1>6, <2>4 DEF SourceInv, SourceOK
    <3>2. /\ source[s].archived => source[s].status = "ARCHIVED"
          /\ source[s].status = "PURGED" => scan.status = "PURGED"
          /\ scan.status = "PURGED" => source[s].status = "PURGED"
          /\ source[s].status \in {"READY", "INVALID"} /\ source[s].latest = k =>
                \/ scan.status = "COMPLETED" /\ scan.verdict = source[s].status
                \/ scan.status = "FAILED" /\ source[s].status = "INVALID"
      BY <1>4, <2>1, <3>1 DEF SourceOK, ScanOK
    <3> QED
      BY <1>1, <1>3, <1>4, <1>7, <2>1, <2>2, <3>1, <3>2, ScanStepOK
  <2> QED
    BY <1>1, <1>3, <1>4, <1>5, <1>6, <2>2, <2>3, <2>4, ScanStep
<1>8. CASE active /\ source[s].status = "SCANNING" /\ source[s].latest = k
  <2>1. source' = [source EXCEPT ![s].status = "REGISTERED"]
    BY <1>5, <1>8 DEF FreedSource
  <2>2. source' = [source EXCEPT ![s] = row]
    BY <2>1 DEF SourceInv, SourceTypeOK
  <2>3. /\ row \in Source /\ row.status = "REGISTERED" /\ row.latest = source[s].latest
        /\ row.archived = source[s].archived
    BY <1>1 DEF Source
  <2> HIDE DEF row
  <2>4. ASSUME ~outlived'
        PROVE  SourceOK(s)'
    <3>1. SourceOK(s) /\ scan.worker # "scanning"
      BY <1>4, <1>6, <2>4 DEF SourceInv
    <3>2. ~source[s].archived
      BY <1>8, <3>1 DEF SourceOK
    <3> QED
      BY <1>3, <1>4, <1>8, <2>2, <2>3, <3>1, <3>2, ScanStepOK
  <2> QED
    BY <1>3, <1>4, <1>5, <1>6, <2>2, <2>3, <2>4, ScanStep
<1>9. CASE active /\ ~(source[s].status = "SCANNING" /\ source[s].latest = k)
  <2>1. UNCHANGED source
    BY <1>5, <1>9 DEF FreedSource
  <2>2. source' = [source EXCEPT ![s] = source[s]]
    BY <2>1 DEF SourceInv, SourceTypeOK
  <2>3. outlived'
    BY <1>6, <1>9 DEF SourceInv, SourceOK, ScanOK
  <2> QED
    BY <1>1, <1>3, <1>4, <1>5, <1>6, <1>9, <2>2, <2>3, ScanStep
<1> QED
  BY <1>7, <1>8, <1>9

\* A source that is not being scanned is archived, by a user or by a walk.
LEMMA ArchivePreserves ==
    ASSUME SourceInv, NEW s \in Sources, ~source[s].archived,
           source[s].status \notin {"SCANNING", "PURGED", "NONE"},
           source' = [source EXCEPT ![s].status = "ARCHIVED", ![s].archived = TRUE],
           UNCHANGED <<scans, classes, onDisk, moves, outlived>>
    PROVE  SourceInv'
<1> DEFINE row == [source[s] EXCEPT !.status = "ARCHIVED", !.archived = TRUE]
<1>1. source \in [Sources -> Source] /\ source[s] \in Source
  BY DEF SourceInv, SourceTypeOK, Source
<1>2. row \in Source /\ row.status = "ARCHIVED" /\ row.archived = TRUE
  BY <1>1 DEF Source
<1>3. source' = [source EXCEPT ![s] = row]
  BY <1>1
<1> HIDE DEF row
<1>4. source'[s] = row /\ \A t \in Sources \ {s} : source'[t] = source[t]
  BY <1>1, <1>3
<1>5. SourceTypeOK'
  BY <1>1, <1>2, <1>3 DEF SourceInv, SourceTypeOK, Source
<1>6. ASSUME ~outlived'
      PROVE  SourceOK(s)'
  <2>1. SourceOK(s)
    BY <1>6 DEF SourceInv
  <2> QED
    BY <1>2, <1>4, <2>1 DEF SourceOK, ScanOK
<1>7. Underway(s)'
  BY <1>2, <1>4 DEF Underway
<1> QED
  BY <1>4, <1>5, <1>6, <1>7, OneSource

\* A purge takes the row and its scans.
LEMMA PurgePreserves ==
    ASSUME SourceInv, NEW s \in Sources,
           source' = [source EXCEPT ![s] = [status |-> "PURGED", archived |-> FALSE, latest |-> 0]],
           scans' = [scans EXCEPT ![s] = [k \in DOMAIN @ |-> [@[k] EXCEPT !.status = "PURGED"]]],
           UNCHANGED <<classes, onDisk, moves, outlived>>
    PROVE  SourceInv'
<1> DEFINE row == [status |-> "PURGED", archived |-> FALSE, latest |-> 0]
           purged == [k \in DOMAIN scans[s] |-> [scans[s][k] EXCEPT !.status = "PURGED"]]
<1>1. scans \in [Sources -> Seq(Scan)] /\ source \in [Sources -> Source] /\ scans[s] \in Seq(Scan)
  BY DEF SourceInv, SourceTypeOK, Scan, Source
<1>2. row \in Source /\ row.status = "PURGED" /\ row.archived = FALSE
  BY SourcesAssumption DEF Source
<1>3. ASSUME NEW k \in DOMAIN scans[s]
      PROVE  /\ purged[k] \in Scan /\ purged[k].status = "PURGED"
             /\ purged[k].execution = scans[s][k].execution /\ purged[k].worker = scans[s][k].worker
  <2>1. scans[s][k] \in Scan
    BY <1>1
  <2> QED
    BY <2>1 DEF Scan, ScanStatus
<1>4. DOMAIN purged = DOMAIN scans[s]
  OBVIOUS
<1>5. purged \in Seq(Scan)
  <2>1. DOMAIN scans[s] = 1 .. Len(scans[s]) /\ Len(scans[s]) \in Nat
    BY <1>1
  <2>2. purged \in [1 .. Len(scans[s]) -> Scan]
    BY <1>3, <2>1
  <2> HIDE DEF purged
  <2> QED
    BY <2>1, <2>2, SeqDef
<1>6. scans' = [scans EXCEPT ![s] = purged] /\ source' = [source EXCEPT ![s] = row]
  BY <1>1
<1> HIDE DEF row, purged
<1>7. /\ source'[s] = row /\ scans'[s] = purged
      /\ \A t \in Sources \ {s} : source'[t] = source[t] /\ scans'[t] = scans[t]
  BY <1>1, <1>6
<1>8. SourceTypeOK'
  <2>1. scans' \in [Sources -> Seq(Scan)] /\ source' \in [Sources -> Source]
    BY <1>1, <1>2, <1>5, <1>6
  <2> QED
    BY <2>1 DEF SourceInv, SourceTypeOK, Scan, Source
<1>9. ASSUME ~outlived'
      PROVE  SourceOK(s)'
  <2>1. \A k \in DOMAIN scans[s] : ScanOK(s, k)
    BY <1>9 DEF SourceInv, SourceOK
  <2> QED
    BY <1>2, <1>3, <1>4, <1>7, <2>1 DEF SourceOK, ScanOK
<1>10. Underway(s)'
  BY <1>2, <1>7 DEF Underway
<1> QED
  BY <1>7, <1>8, <1>9, <1>10, OneSource

\* Nothing happens to the sources.
LEMMA SourcesKept ==
    ASSUME SourceInv, UNCHANGED sourceVars
    PROVE  SourceInv'
<1>1. SourceTypeOK'
  BY DEF sourceVars, SourceInv, SourceTypeOK
<1> QED
  BY <1>1 DEF sourceVars, SourceInv, Underway, SourceOK, ScanOK

\* Every step of SourceDatasets.
LEMMA SourceNextPreserves ==
    ASSUME SourceInv, SourceNext
    PROVE  SourceInv'
<1>1. PICK s \in Sources :
          \/ Register(s) \/ Rescan(s) \/ Archive(s) \/ MoveFolder(s)
          \/ \E names \in ClassLists : SetClassesOverride(s, names)
          \/ \E k \in DOMAIN scans[s] : ScanWork(s, k) \/ CrashScan(s, k) \/ LoseScan(s, k)
  BY DEF SourceNext
<1>2. source[s] \in Source /\ classes \in [Sources -> ClassLists]
  BY DEF SourceInv, SourceTypeOK, Source
<1>3. CASE Register(s)
  <2>1. ~outlived => ~source[s].archived
    BY <1>3 DEF Register, SourceInv, SourceOK
  <2> QED
    BY <1>2, <1>3, <2>1, Dispatched DEF Register
<1>4. CASE Rescan(s)
  BY <1>2, <1>4, Dispatched DEF Rescan, Registered
<1>5. CASE \E names \in ClassLists : SetClassesOverride(s, names)
  BY <1>2, <1>5, Dispatched DEF SetClassesOverride, Registered
<1>6. CASE Archive(s)
  BY <1>6, ArchivePreserves DEF Archive, Archivable, Registered
<1>7. CASE MoveFolder(s)
  <2>1. moves' \in 0 .. MaxMoves
    BY <1>7, SourcesAssumption DEF MoveFolder, SourceInv, SourceTypeOK
  <2>2. SourceTypeOK'
    BY <1>7, <2>1 DEF MoveFolder, SourceInv, SourceTypeOK
  <2> QED
    BY <1>7, <2>2 DEF MoveFolder, SourceInv, Underway, SourceOK, ScanOK
<1>8. CASE \E k \in DOMAIN scans[s] : ScanWork(s, k) \/ CrashScan(s, k) \/ LoseScan(s, k)
  BY <1>8, ClaimPreserves, WorkerPreserves, LosePreserves DEF ScanWork
<1> QED
  BY <1>1, <1>3, <1>4, <1>5, <1>6, <1>7, <1>8

-----------------------------------------------------------------------------
(* Walks *)

Phase == {"idle", "asked", "sent", "walked", "published", "reconciling", "purging"}

\* A walk set to sets of sources is a walk.
LEMMA WalkSet ==
    ASSUME IndexTypeOK, NEW w \in Walks, NEW phase \in Phase,
           NEW seen \in SUBSET Sources, NEW todo \in SUBSET Sources, Set(w, phase, seen, todo)
    PROVE  walks' \in [Walks -> [phase : Phase, seen : SUBSET Sources, todo : SUBSET Sources]]
BY DEF IndexTypeOK, Set, Phase

\* What a walk has seen and has to do are sources, whatever the walk does.
LEMMA IndexTypes ==
    ASSUME IndexTypeOK, NEW w \in Walks,
           \/ IndexAlone(w) \/ Purge(w)
           \/ \E s \in Sources : ArchiveMissing(w, s) \/ DecidePurge(w, s)
    PROVE  IndexTypeOK'
<1>1. /\ walks \in [Walks -> [phase : Phase, seen : SUBSET Sources, todo : SUBSET Sources]]
      /\ walks[w].phase \in Phase /\ walks[w].seen \in SUBSET Sources /\ walks[w].todo \in SUBSET Sources
      /\ {} \in SUBSET Sources /\ index \in SUBSET Sources
      /\ reindex \in {"NONE", "RUNNING", "COMPLETED", "FAILED"}
  BY DEF IndexTypeOK, Phase
<1>2. \A s : walks[w].todo \ {s} \in SUBSET Sources
  BY <1>1
<1>3. SUFFICES /\ walks' \in [Walks -> [phase : Phase, seen : SUBSET Sources, todo : SUBSET Sources]]
               /\ index' \in SUBSET Sources /\ reindex' \in {"NONE", "RUNNING", "COMPLETED", "FAILED"}
  BY DEF IndexTypeOK, Phase
<1>4. CASE \E v \in Walks : Redeliver(w, v)
  BY <1>1, <1>4, WalkSet DEF Redeliver, Phase
<1>5. CASE RequestReindex(w) \/ FindDue(w) \/ Upsert(w) \/ FailWalk(w) \/ CrashWalk(w) \/ LoseMessage(w)
  BY <1>1, <1>5, WalkSet DEF RequestReindex, FindDue, Upsert, FailWalk, CrashWalk, LoseMessage, Phase
<1>6. CASE Walk(w) \/ Publish(w)
  <2>1. {s \in Sources : onDisk[s]} \in SUBSET Sources
    OBVIOUS
  <2> QED
    BY <1>1, <1>6, <2>1, WalkSet DEF Walk, Publish, Phase
<1>7. CASE ReadRows(w)
  <2> DEFINE rows == {s \in Sources : Registered(s) /\ ~source[s].archived /\ s \notin walks[w].seen
                                        /\ source[s].status # "SCANNING"}
  <2>1. rows \in SUBSET Sources /\ Set(w, "reconciling", {}, rows) /\ UNCHANGED <<reindex, index>>
    BY <1>7 DEF ReadRows
  <2> HIDE DEF rows
  <2> QED
    BY <1>1, <2>1, WalkSet DEF Phase
<1>8. CASE Skip(w)
  <2>1. CASE Set(w, "idle", {}, {})
    BY <1>1, <1>8, <2>1, WalkSet DEF Skip, Phase
  <2>2. CASE \E s \in walks[w].todo : Forget(w, s)
    BY <1>1, <1>2, <1>8, <2>2, WalkSet DEF Skip, Forget
  <2> QED
    BY <1>8, <2>1, <2>2 DEF Skip
<1>9. CASE Purge(w)
  BY <1>1, <1>9, WalkSet DEF Purge, Phase
<1>10. CASE \E s \in Sources : ArchiveMissing(w, s) \/ DecidePurge(w, s)
  <2>1. PICK s \in Sources : ArchiveMissing(w, s) \/ DecidePurge(w, s)
    BY <1>10
  <2>2. PICK todo \in SUBSET Sources : todo = walks[w].todo \ {s}
    BY <1>2
  <2>3. CASE ArchiveMissing(w, s)
    <3>1. Set(w, walks[w].phase, {}, todo) /\ UNCHANGED <<reindex, index>>
      BY <2>2, <2>3 DEF ArchiveMissing, Forget
    <3> QED
      BY <1>1, <3>1, WalkSet
  <2>4. CASE DecidePurge(w, s)
    <3>1. Set(w, "purging", {s}, todo) /\ UNCHANGED <<reindex, index>>
      BY <2>2, <2>4 DEF DecidePurge
    <3>2. {s} \in SUBSET Sources /\ "purging" \in Phase
      BY DEF Phase
    <3> QED
      BY <1>1, <3>1, <3>2, WalkSet
  <2> QED
    BY <2>1, <2>3, <2>4
<1> QED
  BY <1>4, <1>5, <1>6, <1>7, <1>8, <1>9, <1>10 DEF IndexAlone

\* What a walk does to the sources.
LEMMA WalkPreserves ==
    ASSUME SourceInv, IndexTypeOK, NEW w \in Walks,
           \/ Purge(w)
           \/ \E s \in Sources : ArchiveMissing(w, s)
    PROVE  SourceInv'
<1>1. CASE Purge(w)
  <2>1. PICK s \in walks[w].seen :
            /\ source' = [source EXCEPT ![s] = [status |-> "PURGED", archived |-> FALSE, latest |-> 0]]
            /\ scans' = [scans EXCEPT ![s] = [k \in DOMAIN @ |-> [@[k] EXCEPT !.status = "PURGED"]]]
    BY <1>1 DEF Purge
  <2>2. s \in Sources /\ UNCHANGED <<classes, onDisk, moves, outlived>>
    BY <1>1 DEF Purge, IndexTypeOK
  <2> QED
    BY <2>1, <2>2, PurgePreserves
<1>2. ASSUME NEW s \in Sources, ArchiveMissing(w, s)
      PROVE  SourceInv'
  <2>1. CASE AutoArchivable(s)
    BY <1>2, <2>1, ArchivePreserves DEF ArchiveMissing, AutoArchivable, Registered
  <2>2. CASE ~AutoArchivable(s)
    <3>1. UNCHANGED sourceVars
      BY <1>2, <2>2 DEF ArchiveMissing, sourceVars
    <3> QED
      BY <3>1, SourcesKept
  <2> QED
    BY <2>1, <2>2
<1> QED
  BY <1>1, <1>2

-----------------------------------------------------------------------------
(* The dataset and its builds *)

Dataset == [origin : {"BUILT", "REGISTERED"},
            status : Running \cup {"DRAFT", "READY", "INVALID", "DELETED"},
            archived : BOOLEAN, sources : SUBSET Sources, path : BOOLEAN]
Build == [execution : ExecutionStatus,
          worker : {"none", "loading", "validating", "collecting", "staging", "filled",
                    "moved", "failing", "gone"},
          used : SUBSET (Sources \X (1 .. MaxScans))]

DatasetTypeOK ==
    /\ dataset \in Dataset /\ builds \in Seq(Build)
    /\ staging \subseteq Attempts \X {"part", "whole"}
    /\ target \in {"none", "whole", "mixed"} /\ deletes \in 0 .. 1

\* What is validated was registered, what is built was not.
OriginOK ==
    /\ \A k \in Attempts : builds[k].worker = "validating" => dataset.origin = "REGISTERED"
    /\ dataset.origin = "BUILT" => dataset.status # "VALIDATING"

Active(k) == builds[k].execution \in {"ASSIGNED", "RUNNING"}
Working(k) == builds[k].worker \notin {"none", "gone"}

\* While no worker outlives its timeout, an execution under way is the only one and the
\* dataset is running; its worker alone writes in the staging directory.
BuildOK(k) ==
    /\ Active(k) => dataset.status \in Running /\ \A l \in Attempts : Active(l) => l = k
    /\ Working(k) => builds[k].execution = "RUNNING"
    /\ builds[k].worker = "staging" => staging = {<<k, "part">>}
    /\ builds[k].worker = "filled" => staging = {<<k, "whole">>}
    /\ builds[k].worker = "moved" => target = "whole"

\* Deleted is archived, and what is removed from disk is deleted.
RowOK ==
    /\ deletes > 0 => dataset.status = "DELETED"
    /\ dataset.status = "DELETED" => dataset.archived
    /\ dataset.origin = "BUILT" /\ dataset.status = "READY" => dataset.path /\ target = "whole"

DatasetInv ==
    /\ DatasetTypeOK /\ OriginOK /\ RunningHasExecution
    /\ ~outlived => RowOK /\ \A k \in Attempts : BuildOK(k)

\* Writing one build leaves the others as they are.
LEMMA BuildWritten ==
    ASSUME DatasetTypeOK, NEW k \in Attempts, NEW b \in Build, builds' = [builds EXCEPT ![k] = b]
    PROVE  /\ builds' \in Seq(Build) /\ Attempts' = Attempts
           /\ builds'[k] = b /\ \A l \in Attempts : l # k => builds'[l] = builds[l]
BY DEF DatasetTypeOK, Attempts

\* A worker goes on: its execution is not touched.
LEMMA WorkerGoes ==
    ASSUME DatasetTypeOK, NEW k \in Attempts,
           NEW step \in {"none", "loading", "validating", "collecting", "staging", "filled",
                         "moved", "failing", "gone"},
           Go(k, step)
    PROVE  /\ builds' \in Seq(Build) /\ Attempts' = Attempts
           /\ builds'[k].worker = step /\ builds'[k].execution = builds[k].execution
           /\ \A l \in Attempts : l # k => builds'[l] = builds[l]
<1> DEFINE b == [builds[k] EXCEPT !.worker = step]
<1>1. builds[k] \in Build
  BY DEF DatasetTypeOK, Attempts
<1>2. b \in Build /\ b.worker = step /\ b.execution = builds[k].execution
  BY <1>1 DEF Build
<1>3. builds' = [builds EXCEPT ![k] = b]
  BY <1>1 DEF Go
<1> HIDE DEF b
<1> QED
  BY <1>2, <1>3, BuildWritten

\* An execution ends, and with it the work on it.
LEMMA ExecutionEnds ==
    ASSUME DatasetTypeOK, NEW k \in Attempts, NEW status \in ExecutionStatus,
           builds' = [builds EXCEPT ![k].execution = status, ![k].worker = "gone"]
    PROVE  /\ builds' \in Seq(Build) /\ Attempts' = Attempts
           /\ builds'[k].worker = "gone" /\ builds'[k].execution = status
           /\ \A l \in Attempts : l # k => builds'[l] = builds[l]
<1> DEFINE b == [builds[k] EXCEPT !.execution = status, !.worker = "gone"]
<1>1. builds[k] \in Build
  BY DEF DatasetTypeOK, Attempts
<1>2. b \in Build /\ b.worker = "gone" /\ b.execution = status
  BY <1>1 DEF Build
<1>3. builds' = [builds EXCEPT ![k] = b]
  BY <1>1 DEF DatasetTypeOK
<1> HIDE DEF b
<1> QED
  BY <1>2, <1>3, BuildWritten

\* The worker is not the first, and the dataset is still running: what goes on without
\* touching row or executions.
LEMMA GoPreserves ==
    ASSUME DatasetInv, NEW k \in Attempts,
           NEW step \in {"collecting", "staging", "filled", "moved", "failing", "gone"},
           builds' \in Seq(Build), Attempts' = Attempts,
           builds'[k].worker = step, builds'[k].execution = builds[k].execution,
           \A l \in Attempts : l # k => builds'[l] = builds[l],
           step = "gone" \/ Working(k),
           UNCHANGED <<dataset, deletes, outlived>>,
           staging' \subseteq Attempts \X {"part", "whole"}, target' \in {"none", "whole", "mixed"},
           step = "staging" => staging' = {<<k, "part">>},
           step = "filled" => staging' = {<<k, "whole">>},
           step = "moved" => target' = "whole",
           step = "gone" => UNCHANGED <<staging, target>>,
           step # "moved" => target' = target
    PROVE  DatasetInv'
<1>1. /\ builds' \in Seq(Build) /\ Attempts' = Attempts
      /\ builds'[k].worker = step /\ builds'[k].execution = builds[k].execution
      /\ \A l \in Attempts : l # k => builds'[l] = builds[l]
  OBVIOUS
<1>2. DatasetTypeOK'
  BY <1>1 DEF DatasetInv, DatasetTypeOK
<1>3. OriginOK'
  BY <1>1 DEF DatasetInv, OriginOK
<1>4. RunningHasExecution'
  BY <1>1 DEF DatasetInv, RunningHasExecution, Attempts
<1>5. ASSUME ~outlived'
      PROVE  RowOK' /\ \A l \in Attempts' : BuildOK(l)'
  <2>1. RowOK /\ \A l \in Attempts : BuildOK(l)
    BY <1>5 DEF DatasetInv
  <2>2. RowOK'
    BY <2>1 DEF RowOK
  <2>3. ASSUME NEW l \in Attempts
        PROVE  BuildOK(l)'
    <3>1. BuildOK(k) /\ BuildOK(l) /\ \A m \in Attempts : Active(m)' <=> Active(m)
      BY <1>1, <2>1 DEF Active
    <3>2. CASE l = k
      BY <1>1, <3>1, <3>2 DEF BuildOK, Active, Working
    <3>3. CASE l # k /\ step = "gone"
      BY <1>1, <3>1, <3>3 DEF BuildOK, Active, Working
    <3>4. CASE l # k /\ Working(k)
      <4>1. ~Working(l)
        BY <3>1, <3>4 DEF BuildOK, Active
      <4> QED
        BY <1>1, <3>1, <3>4, <4>1 DEF BuildOK, Active, Working
    <3> QED
      BY <3>2, <3>3, <3>4
  <2> QED
    BY <1>1, <2>2, <2>3
<1> QED
  BY <1>2, <1>3, <1>4, <1>5 DEF DatasetInv

\* A worker ends its execution with the status of the dataset, or the scheduler loses one.
LEMMA EndPreserves ==
    ASSUME DatasetInv, NEW k \in Attempts, NEW row \in Dataset,
           builds' \in Seq(Build), Attempts' = Attempts,
           ~Active(k)', ~Working(k)' \/ outlived',
           builds'[k].worker = "gone" \/ builds'[k].worker = builds[k].worker,
           \A l \in Attempts : l # k => builds'[l] = builds[l],
           dataset' = row, row.origin = dataset.origin, row.archived = dataset.archived,
           row.status \notin Running,
           row = dataset \/ row.status = "READY" \/ row.status = "INVALID",
           ~outlived' => Active(k),
           ~outlived' /\ row # dataset /\ row.status = "READY" /\ row.origin = "BUILT" =>
              row.path /\ target = "whole",
           outlived => outlived', UNCHANGED <<staging, target, deletes>>
    PROVE  DatasetInv'
<1>1. DatasetTypeOK'
  BY DEF DatasetInv, DatasetTypeOK
<1>2. OriginOK'
  BY DEF DatasetInv, OriginOK, Running
<1>3. RunningHasExecution'
  BY DEF RunningHasExecution
<1>4. ASSUME ~outlived'
      PROVE  RowOK' /\ \A l \in Attempts' : BuildOK(l)'
  <2>1. RowOK /\ \A l \in Attempts : BuildOK(l)
    BY <1>4 DEF DatasetInv
  <2>2. row # dataset => dataset.status \in Running
    BY <1>4, <2>1 DEF BuildOK
  <2>3. RowOK'
    BY <1>4, <2>1, <2>2 DEF RowOK, Running
  <2>4. \A l \in Attempts : ~Active(l)'
    BY <1>4, <2>1 DEF BuildOK, Active
  <2>5. ASSUME NEW l \in Attempts
        PROVE  BuildOK(l)'
    <3>1. BuildOK(l)
      BY <2>1
    <3>2. CASE l = k
      BY <1>4, <2>4, <3>1, <3>2 DEF BuildOK, Working
    <3>3. CASE l # k
      BY <2>4, <3>1, <3>3 DEF BuildOK, Working, Active
    <3> QED
      BY <3>2, <3>3
  <2> QED
    BY <2>3, <2>5
<1> QED
  BY <1>1, <1>2, <1>3, <1>4 DEF DatasetInv

\* Once a worker has outlived its timeout only types and executions are at stake.
LEMMA LatePreserves ==
    ASSUME DatasetInv, outlived, NEW k \in Attempts,
           builds' \in Seq(Build), Attempts' = Attempts,
           builds'[k].worker # "validating", builds'[k].execution = builds[k].execution,
           \A l \in Attempts : l # k => builds'[l] = builds[l],
           UNCHANGED <<dataset, deletes, outlived>>,
           staging' \subseteq Attempts \X {"part", "whole"}, target' \in {"none", "whole", "mixed"}
    PROVE  DatasetInv'
<1>1. DatasetTypeOK'
  BY DEF DatasetInv, DatasetTypeOK
<1>2. OriginOK'
  BY DEF DatasetInv, OriginOK
<1>3. RunningHasExecution'
  BY DEF DatasetInv, RunningHasExecution, Attempts
<1> QED
  BY <1>1, <1>2, <1>3 DEF DatasetInv

\* Steps of a worker that write no row.
LEMMA WorkPreserves ==
    ASSUME DatasetInv, SourceTypeOK, NEW k \in Attempts,
           Load(k) \/ Stage(k) \/ Fill(k) \/ Move(k) \/ BuildError(k) \/ CrashBuild(k)
    PROVE  DatasetInv'
<1>1. /\ DatasetTypeOK /\ (~outlived => BuildOK(k)) /\ builds[k] \in Build
      /\ staging \subseteq Attempts \X {"part", "whole"} /\ target \in {"none", "whole", "mixed"}
  BY DEF DatasetInv, DatasetTypeOK, Attempts
<1>2. UNCHANGED <<dataset, deletes, outlived>>
  BY DEF Load, Stage, Fill, Move, BuildError, CrashBuild, SourcesUnchanged, sourceVars
<1>3. CASE CrashBuild(k) \/ (Load(k) /\ Go(k, "gone"))
  <2>1. Go(k, "gone") /\ UNCHANGED <<staging, target>>
    BY <1>3 DEF CrashBuild, Load
  <2> QED
    BY <1>1, <1>2, <2>1, WorkerGoes, GoPreserves
<1>4. CASE Load(k) /\ ~Go(k, "gone")
  <2> DEFINE used == {<<s, source[s].latest>> : s \in dataset.sources}
             b == [builds[k] EXCEPT !.worker = "collecting", !.used = used]
  <2>1. /\ \A s \in dataset.sources : source[s].latest # 0
        /\ builds' = [builds EXCEPT ![k].worker = "collecting", ![k].used = used]
    BY <1>4 DEF Load
  <2>2. used \in SUBSET (Sources \X (1 .. MaxScans))
    <3>1. ASSUME NEW s \in dataset.sources
          PROVE  s \in Sources /\ source[s].latest \in 1 .. MaxScans
      <4>1. s \in Sources
        BY <1>1 DEF DatasetTypeOK, Dataset
      <4>2. source[s].latest \in 0 .. MaxScans
        BY <4>1 DEF SourceTypeOK
      <4> QED
        BY <2>1, <4>1, <4>2, SourcesAssumption
    <3> QED
      BY <3>1
  <2> HIDE DEF used
  <2>3. b \in Build /\ b.worker = "collecting" /\ b.execution = builds[k].execution
    BY <1>1, <2>2 DEF Build
  <2>4. builds' = [builds EXCEPT ![k] = b]
    BY <1>1, <2>1 DEF DatasetTypeOK
  <2> HIDE DEF b
  <2>5. /\ builds' \in Seq(Build) /\ Attempts' = Attempts
        /\ builds'[k] = b /\ \A l \in Attempts : l # k => builds'[l] = builds[l]
    BY <1>1, <2>3, <2>4, BuildWritten
  <2>6. UNCHANGED <<staging, target>> /\ Working(k)
    BY <1>4 DEF Load, At, Working
  <2> QED
    BY <1>1, <1>2, <2>3, <2>5, <2>6, GoPreserves
<1>5. CASE Stage(k)
  <2>1. /\ Go(k, "staging") /\ Working(k) /\ staging' = {<<k, "part">>} /\ UNCHANGED target
    BY <1>5 DEF Stage, Clear, At, Working
  <2>2. staging' \subseteq Attempts \X {"part", "whole"}
    BY <2>1
  <2> QED
    BY <1>1, <1>2, <2>1, <2>2, WorkerGoes, GoPreserves
<1>6. CASE Fill(k) /\ ~outlived
  <2>1. /\ Go(k, "filled") /\ Working(k) /\ staging = {<<k, "part">>} /\ UNCHANGED target
        /\ staging' = (staging \ {<<k, "part">>}) \cup {<<k, "whole">>}
    BY <1>1, <1>6 DEF Fill, At, Working, BuildOK
  <2>2. staging' = {<<k, "whole">>} /\ staging' \subseteq Attempts \X {"part", "whole"}
    BY <2>1
  <2> QED
    BY <1>1, <1>2, <2>1, <2>2, WorkerGoes, GoPreserves
<1>7. CASE Fill(k) /\ outlived
  <2>1. /\ Go(k, "filled") /\ Working(k) /\ UNCHANGED target
        /\ staging' = (staging \ {<<k, "part">>}) \cup {<<k, "whole">>}
    BY <1>7 DEF Fill, At, Working
  <2>2. staging' \subseteq Attempts \X {"part", "whole"}
    BY <1>1, <2>1
  <2>3. /\ builds' \in Seq(Build) /\ Attempts' = Attempts
        /\ builds'[k].worker = "filled" /\ builds'[k].execution = builds[k].execution
        /\ \A l \in Attempts : l # k => builds'[l] = builds[l]
    BY <1>1, <2>1, WorkerGoes
  <2> QED
    BY <1>1, <1>2, <1>7, <2>1, <2>2, <2>3, LatePreserves
<1>8. CASE Move(k) /\ ~outlived
  <2>1. /\ Go(k, "moved") /\ Working(k) /\ staging' = {} /\ target' = "whole"
    BY <1>1, <1>8 DEF Move, At, Working, BuildOK
  <2> QED
    BY <1>1, <1>2, <2>1, WorkerGoes, GoPreserves
<1>9. CASE Move(k) /\ outlived
  <2>1. Go(k, "moved") /\ staging' = {} /\ target' \in {"whole", "mixed"}
    BY <1>9 DEF Move
  <2>2. /\ builds' \in Seq(Build) /\ Attempts' = Attempts
        /\ builds'[k].worker = "moved" /\ builds'[k].execution = builds[k].execution
        /\ \A l \in Attempts : l # k => builds'[l] = builds[l]
    BY <1>1, <2>1, WorkerGoes
  <2> QED
    BY <1>2, <1>9, <2>1, <2>2, LatePreserves
<1>10. CASE BuildError(k)
  <2>1. Go(k, "failing") /\ Working(k) /\ staging' = {} /\ UNCHANGED target
    BY <1>10 DEF BuildError, Working
  <2> QED
    BY <1>1, <1>2, <2>1, WorkerGoes, GoPreserves
<1> QED
  BY <1>3, <1>4, <1>5, <1>6, <1>7, <1>8, <1>9, <1>10

\* A claim: the execution is under way as before, with a worker.
LEMMA ClaimBuildPreserves ==
    ASSUME DatasetInv, NEW k \in Attempts, ClaimBuild(k)
    PROVE  DatasetInv'
<1> DEFINE worker == IF dataset.origin = "BUILT" THEN "loading" ELSE "validating"
           b == [builds[k] EXCEPT !.execution = "RUNNING", !.worker = worker]
<1>1. builds[k] \in Build /\ DatasetTypeOK /\ dataset \in Dataset
  BY DEF DatasetInv, DatasetTypeOK, Attempts
<1>2. b \in Build /\ b.execution = "RUNNING" /\ b.worker = worker
  BY <1>1 DEF Build, ExecutionStatus
<1>3. builds' = [builds EXCEPT ![k] = b]
  <2>1. builds' = [builds EXCEPT ![k].execution = "RUNNING", ![k].worker = worker]
    BY DEF ClaimBuild
  <2> QED
    BY <1>1, <2>1 DEF DatasetTypeOK
<1> HIDE DEF b
<1>4. /\ builds' \in Seq(Build) /\ Attempts' = Attempts
      /\ builds'[k] = b /\ \A l \in Attempts : l # k => builds'[l] = builds[l]
  BY <1>1, <1>2, <1>3, BuildWritten
<1>5. /\ UNCHANGED <<dataset, staging, target, deletes, outlived>>
      /\ builds[k].execution = "ASSIGNED"
  BY DEF ClaimBuild, SourcesUnchanged, sourceVars
<1>6. DatasetTypeOK'
  BY <1>4, <1>5 DEF DatasetInv, DatasetTypeOK
<1>7. OriginOK'
  BY <1>1, <1>2, <1>4, <1>5 DEF DatasetInv, OriginOK, Dataset
<1>8. RunningHasExecution'
  BY <1>2, <1>4, <1>5 DEF DatasetInv, RunningHasExecution, Attempts
<1>9. ASSUME ~outlived'
      PROVE  RowOK' /\ \A l \in Attempts' : BuildOK(l)'
  <2>1. RowOK /\ \A l \in Attempts : BuildOK(l)
    BY <1>5, <1>9 DEF DatasetInv
  <2>2. RowOK'
    BY <1>5, <2>1 DEF RowOK
  <2>3. \A l \in Attempts : Active(l)' <=> Active(l)
    BY <1>2, <1>4, <1>5 DEF Active
  <2>4. \A l \in Attempts : BuildOK(l)'
    BY <1>2, <1>4, <1>5, <2>1, <2>3 DEF BuildOK, Working
  <2> QED
    BY <1>4, <2>2, <2>4
<1> QED
  BY <1>6, <1>7, <1>8, <1>9 DEF DatasetInv

\* A worker completes or fails.
LEMMA CompletionPreserves ==
    ASSUME DatasetInv, NEW k \in Attempts,
           FailBuild(k) \/ CompleteBuild(k) \/ CompleteValidation(k)
    PROVE  DatasetInv'
<1> DEFINE failed == [dataset EXCEPT !.status = "INVALID"]
           built == [dataset EXCEPT !.status = "READY", !.path = TRUE]
           valid == [dataset EXCEPT !.status = "READY"]
<1>1. DatasetTypeOK /\ dataset \in Dataset
  BY DEF DatasetInv, DatasetTypeOK
<1>2. UNCHANGED <<staging, target, deletes, outlived>> /\ Working(k)
  BY DEF FailBuild, CompleteBuild, CompleteValidation, SourcesUnchanged, sourceVars, Working, At
<1>3. ~outlived' => Active(k)
  BY <1>2 DEF DatasetInv, BuildOK, Active
<1>4. ASSUME NEW status \in {"FAILED", "SUCCEEDED"},
             builds' = [builds EXCEPT ![k].execution = status, ![k].worker = "gone"]
      PROVE  /\ builds' \in Seq(Build) /\ Attempts' = Attempts
             /\ builds'[k].worker = "gone" /\ ~Active(k)' /\ ~Working(k)'
             /\ \A l \in Attempts : l # k => builds'[l] = builds[l]
  <2>1. status \in ExecutionStatus
    BY DEF ExecutionStatus
  <2> QED
    BY <1>1, <1>4, <2>1, ExecutionEnds DEF Active, Working
<1>5. CASE FailBuild(k)
  <2>1. failed \in Dataset /\ failed.origin = dataset.origin /\ failed.archived = dataset.archived
        /\ failed.status = "INVALID"
    BY <1>1 DEF Dataset
  <2>2. dataset' = failed
    BY <1>5 DEF FailBuild
  <2>3. builds' = [builds EXCEPT ![k].execution = "FAILED", ![k].worker = "gone"]
    BY <1>5 DEF FailBuild
  <2>4. "INVALID" \notin Running
    BY DEF Running
  <2> HIDE DEF failed
  <2> QED
    BY <1>2, <1>3, <1>4, <2>1, <2>2, <2>3, <2>4, EndPreserves
<1>6. CASE CompleteBuild(k)
  <2>1. built \in Dataset /\ built.origin = dataset.origin /\ built.archived = dataset.archived
        /\ built.status = "READY" /\ built.path
    BY <1>1 DEF Dataset
  <2>2. dataset' = built
    BY <1>6 DEF CompleteBuild
  <2>3. builds' = [builds EXCEPT ![k].execution = "SUCCEEDED", ![k].worker = "gone"]
    BY <1>6 DEF CompleteBuild
  <2>4. "READY" \notin Running
    BY DEF Running
  <2>5. ~outlived' => target = "whole"
    BY <1>2, <1>6 DEF DatasetInv, BuildOK, CompleteBuild, At
  <2> HIDE DEF built
  <2> QED
    BY <1>2, <1>3, <1>4, <2>1, <2>2, <2>3, <2>4, <2>5, EndPreserves
<1>7. CASE CompleteValidation(k)
  <2>1. valid \in Dataset /\ valid.origin = dataset.origin /\ valid.archived = dataset.archived
        /\ valid.status = "READY"
    BY <1>1 DEF Dataset
  <2>2. dataset' = valid
    BY <1>7 DEF CompleteValidation
  <2>3. builds' = [builds EXCEPT ![k].execution = "SUCCEEDED", ![k].worker = "gone"]
    BY <1>7 DEF CompleteValidation
  <2>4. "READY" \notin Running
    BY DEF Running
  <2>5. dataset.origin # "BUILT"
    BY <1>7 DEF DatasetInv, OriginOK, CompleteValidation, At
  <2> HIDE DEF valid
  <2> QED
    BY <1>2, <1>3, <1>4, <2>1, <2>2, <2>3, <2>4, <2>5, EndPreserves
<1> QED
  BY <1>5, <1>6, <1>7

\* The scheduler loses an execution: a running dataset is failed.
LEMMA LoseBuildPreserves ==
    ASSUME DatasetInv, SourceTypeOK, NEW k \in Attempts, LoseBuild(k)
    PROVE  DatasetInv'
<1> DEFINE b == [builds[k] EXCEPT !.execution = "LOST"]
           failed == [dataset EXCEPT !.status = "INVALID"]
<1>1. builds[k] \in Build /\ DatasetTypeOK /\ dataset \in Dataset
  BY DEF DatasetInv, DatasetTypeOK, Attempts
<1>2. b \in Build /\ b.execution = "LOST" /\ b.worker = builds[k].worker
  BY <1>1 DEF Build, ExecutionStatus
<1>3. builds' = [builds EXCEPT ![k] = b]
  BY <1>1 DEF LoseBuild, DatasetTypeOK
<1> HIDE DEF b
<1>4. /\ builds' \in Seq(Build) /\ Attempts' = Attempts
      /\ builds'[k] = b /\ \A l \in Attempts : l # k => builds'[l] = builds[l]
  BY <1>1, <1>2, <1>3, BuildWritten
<1>5. /\ UNCHANGED <<staging, target, deletes>> /\ builds[k].execution = "RUNNING"
      /\ outlived' = (outlived \/ Working(k))
      /\ dataset' = IF dataset.status \in Running THEN failed ELSE dataset
  BY DEF LoseBuild, Working
<1>6. failed \in Dataset /\ failed.origin = dataset.origin /\ failed.archived = dataset.archived
      /\ failed.status = "INVALID" /\ "INVALID" \notin Running
  BY <1>1 DEF Dataset, Running
<1>7. (outlived => outlived') /\ (~Working(k)' \/ outlived') /\ ~Active(k)' /\ Active(k)
  BY <1>2, <1>4, <1>5 DEF Working, Active
<1> HIDE DEF failed
<1>8. CASE dataset.status \in Running
  BY <1>1, <1>2, <1>4, <1>5, <1>6, <1>7, <1>8, EndPreserves
<1>9. CASE dataset.status \notin Running
  BY <1>1, <1>2, <1>4, <1>5, <1>6, <1>7, <1>9, EndPreserves
<1> QED
  BY <1>8, <1>9

\* Configuration and deletion wait for the build that is under way, and removal follows deletion.
LEMMA RowPreserves ==
    ASSUME DatasetInv, Delete \/ RemoveDirectory \/ \E S \in SUBSET Sources : ConfigureBuild(S)
    PROVE  DatasetInv'
<1>1. dataset \in Dataset /\ DatasetTypeOK /\ OriginOK
  BY DEF DatasetInv, DatasetTypeOK
<1>2. UNCHANGED <<builds, staging, outlived>> /\ Attempts' = Attempts
  BY DEF Delete, RemoveDirectory, ConfigureBuild, SourcesUnchanged, sourceVars, Attempts
<1>3. CASE RemoveDirectory
  <2>1. UNCHANGED dataset /\ deletes' = 0 /\ target' \in {"none", target} /\ deletes > 0
    BY <1>3 DEF RemoveDirectory
  <2>2. DatasetTypeOK'
    BY <1>1, <1>2, <2>1 DEF DatasetTypeOK
  <2>3. OriginOK' /\ RunningHasExecution'
    BY <1>2, <2>1 DEF DatasetInv, OriginOK, RunningHasExecution, Attempts
  <2>4. ASSUME ~outlived'
        PROVE  RowOK' /\ \A k \in Attempts : BuildOK(k)'
    <3>1. RowOK /\ \A k \in Attempts : BuildOK(k)
      BY <1>2, <2>4 DEF DatasetInv
    <3>2. dataset.status = "DELETED" /\ "DELETED" \notin Running
      BY <2>1, <3>1 DEF RowOK, Running
    <3>3. \A k \in Attempts : ~Active(k) /\ ~Working(k)
      BY <3>1, <3>2 DEF BuildOK, Active
    <3> QED
      BY <1>2, <2>1, <3>1, <3>2, <3>3 DEF RowOK, BuildOK, Active, Working
  <2> QED
    BY <1>2, <2>2, <2>3, <2>4 DEF DatasetInv
<1>4. ASSUME NEW row \in Dataset, dataset' = row, row.status \in {"DRAFT", "DELETED"},
             row.origin = dataset.origin, dataset.status \notin Running,
             row.status = "DELETED" => row.archived /\ deletes' \in 0 .. 1,
             row.status = "DRAFT" => ~dataset.archived /\ deletes' = deletes,
             UNCHANGED target
      PROVE  DatasetInv'
  <2>1. DatasetTypeOK'
    BY <1>1, <1>2, <1>4 DEF DatasetTypeOK
  <2>2. OriginOK' /\ RunningHasExecution'
    BY <1>1, <1>2, <1>4 DEF OriginOK, RunningHasExecution, Running
  <2>3. ASSUME ~outlived'
        PROVE  RowOK' /\ \A k \in Attempts : BuildOK(k)'
    <3>1. RowOK /\ \A k \in Attempts : BuildOK(k)
      BY <1>2, <2>3 DEF DatasetInv
    <3>2. \A k \in Attempts : ~Active(k) /\ ~Working(k)
      BY <1>4, <3>1 DEF BuildOK, Active
    <3>3. \A k \in Attempts : BuildOK(k)'
      BY <1>2, <1>4, <3>2 DEF BuildOK, Active, Working
    <3>4. deletes \in 0 .. 1
      BY <1>1 DEF DatasetTypeOK
    <3> QED
      BY <1>4, <3>1, <3>3, <3>4 DEF RowOK
  <2> QED
    BY <1>2, <2>1, <2>2, <2>3 DEF DatasetInv
<1>5. CASE Delete
  <2> DEFINE row == [dataset EXCEPT !.status = "DELETED", !.archived = TRUE]
  <2>1. row \in Dataset /\ row.status = "DELETED" /\ row.archived /\ row.origin = dataset.origin
    BY <1>1 DEF Dataset
  <2>2. dataset' = row /\ deletes' \in 0 .. 1 /\ UNCHANGED target /\ dataset.status \notin Running
    BY <1>5 DEF Delete, Deletable
  <2> HIDE DEF row
  <2> QED
    BY <1>4, <2>1, <2>2
<1>6. ASSUME NEW S \in SUBSET Sources, ConfigureBuild(S)
      PROVE  DatasetInv'
  <2> DEFINE row == [dataset EXCEPT !.status = "DRAFT", !.sources = S]
  <2>1. row \in Dataset /\ row.status = "DRAFT" /\ row.origin = dataset.origin
    BY <1>1 DEF Dataset
  <2>2. /\ dataset' = row /\ UNCHANGED <<target, deletes>> /\ ~dataset.archived
        /\ dataset.status # "BUILDING" /\ dataset.origin = "BUILT"
    BY <1>6 DEF ConfigureBuild
  <2>3. dataset.status \notin Running
    BY <1>1, <2>2 DEF OriginOK, Running
  <2> HIDE DEF row
  <2> QED
    BY <1>4, <2>1, <2>2, <2>3
<1> QED
  BY <1>3, <1>5, <1>6

\* A submission is the only execution under way.
LEMMA SubmitPreserves ==
    ASSUME DatasetInv, Submit
    PROVE  DatasetInv'
<1> DEFINE n == Len(builds) + 1
           b == [execution |-> "ASSIGNED", worker |-> "none", used |-> {}]
           status == IF dataset.origin = "BUILT" THEN "BUILDING" ELSE "VALIDATING"
           row == [dataset EXCEPT !.status = status]
<1>1. /\ dataset \in Dataset /\ builds \in Seq(Build) /\ DatasetTypeOK /\ OriginOK
      /\ staging \subseteq Attempts \X {"part", "whole"}
  BY DEF DatasetInv, DatasetTypeOK
<1>2. b \in Build /\ b.execution = "ASSIGNED" /\ b.worker = "none"
  BY DEF Build, ExecutionStatus
<1>3. /\ row \in Dataset /\ row.status = status /\ row.status \in Running
      /\ row.origin = dataset.origin /\ row.archived = dataset.archived
  BY <1>1 DEF Dataset, Running
<1>4. /\ builds' = Append(builds, b) /\ dataset' = row
      /\ UNCHANGED <<staging, target, deletes, outlived>>
      /\ dataset.status \in {"DRAFT", "INVALID"} /\ ~dataset.archived
  BY DEF Submit, SourcesUnchanged, sourceVars
<1> HIDE DEF b, row
<1>5. /\ builds' \in Seq(Build) /\ builds'[n] = b /\ n \notin Attempts
      /\ Attempts' = Attempts \cup {n}
      /\ \A k \in Attempts : builds'[k] = builds[k]
  BY <1>1, <1>2, <1>4 DEF Attempts
<1>6. DatasetTypeOK'
  <2>1. staging' \subseteq Attempts' \X {"part", "whole"}
    BY <1>1, <1>4, <1>5
  <2> QED
    BY <1>1, <1>3, <1>4, <1>5, <2>1 DEF DatasetTypeOK
<1>7. OriginOK'
  BY <1>1, <1>2, <1>3, <1>4, <1>5 DEF OriginOK
<1>8. RunningHasExecution'
  BY <1>2, <1>5 DEF RunningHasExecution
<1>9. ASSUME ~outlived'
      PROVE  RowOK' /\ \A k \in Attempts' : BuildOK(k)'
  <2>1. RowOK /\ \A k \in Attempts : BuildOK(k)
    BY <1>4, <1>9 DEF DatasetInv
  <2>2. dataset.status \notin Running
    BY <1>4 DEF Running
  <2>3. \A k \in Attempts : ~Active(k) /\ ~Working(k)
    BY <2>1, <2>2 DEF BuildOK, Active
  <2>4. RowOK'
    BY <1>3, <1>4, <2>1 DEF RowOK, Running
  <2>5. \A k \in Attempts' : Active(k)' => k = n
    BY <1>5, <2>3 DEF Active
  <2>6. \A k \in Attempts' : ~Working(k)'
    BY <1>2, <1>5, <2>3 DEF Working
  <2>7. dataset'.status \in Running
    BY <1>3, <1>4
  <2>8. \A k \in Attempts' : BuildOK(k)'
    BY <2>5, <2>6, <2>7 DEF BuildOK, Working
  <2> QED
    BY <2>4, <2>8
<1> QED
  BY <1>6, <1>7, <1>8, <1>9 DEF DatasetInv

-----------------------------------------------------------------------------
(* The theorems *)

DatasetsInv == SourceInv /\ IndexTypeOK /\ DatasetInv

\* Steps that leave the dataset alone; a worker outlived is more than before.
LEMMA DatasetKept ==
    ASSUME DatasetInv, UNCHANGED datasetVars, outlived => outlived'
    PROVE  DatasetInv'
<1>1. DatasetTypeOK' /\ OriginOK' /\ RunningHasExecution'
  BY DEF datasetVars, DatasetInv, DatasetTypeOK, OriginOK, RunningHasExecution, Attempts
<1>2. ~outlived' => RowOK' /\ \A k \in Attempts' : BuildOK(k)'
  BY DEF datasetVars, DatasetInv, RowOK, BuildOK, Active, Working, Attempts
<1> QED
  BY <1>1, <1>2 DEF DatasetInv

\* Nothing is registered and nothing built.
LEMMA InitDatasets == Init => DatasetsInv
<1> SUFFICES ASSUME Init PROVE DatasetsInv
  OBVIOUS
<1>1. SourceTypeOK
  <2>1. [s \in Sources |-> <<>>] \in [Sources -> Seq(Scan)]
    OBVIOUS
  <2>2. scans \in [Sources -> Seq(Scan)]
    BY <2>1 DEF Init, SourceInit
  <2>3. source \in [Sources -> Source]
    BY SourcesAssumption DEF Init, SourceInit, Source
  <2>4. classes \in [Sources -> ClassLists] /\ onDisk \in [Sources -> BOOLEAN] /\ outlived \in BOOLEAN
    BY DEF Init, SourceInit
  <2>5. moves \in 0 .. MaxMoves
    BY SourcesAssumption DEF Init, SourceInit
  <2> QED
    BY <2>2, <2>3, <2>4, <2>5 DEF SourceTypeOK, Scan, Source
<1>2. SourceInv
  <2>1. \A s \in Sources : scans[s] = <<>> /\ source[s] = [status |-> "NONE", archived |-> FALSE, latest |-> 0]
    BY DEF Init, SourceInit
  <2> QED
    BY <1>1, <2>1 DEF SourceInv, Underway, SourceOK
<1>3. IndexTypeOK
  BY DEF Init, IndexInit, IndexTypeOK, Idle
<1>4. DatasetInv
  <2>1. builds = <<>> /\ deletes = 0 /\ dataset.status = "DRAFT" /\ Attempts = {}
    BY DEF Init, Attempts
  <2>2. dataset \in Dataset
    <3>1. dataset \in [origin : {"BUILT", "REGISTERED"}, status : {"DRAFT"}, archived : {FALSE},
                       sources : {{}}, path : {FALSE}]
      BY DEF Init
    <3>2. {{}} \subseteq SUBSET Sources /\ {FALSE} \subseteq BOOLEAN
      OBVIOUS
    <3> QED
      BY <3>1, <3>2 DEF Dataset
  <2>3. DatasetTypeOK
    BY <2>1, <2>2 DEF Init, DatasetTypeOK
  <2> QED
    BY <2>1, <2>3 DEF DatasetInv, OriginOK, RunningHasExecution, RowOK, Running
<1> QED
  BY <1>2, <1>3, <1>4 DEF DatasetsInv

\* Every step keeps it.
LEMMA NextDatasets == DatasetsInv /\ [Next]_vars => DatasetsInv'
<1> SUFFICES ASSUME DatasetsInv, [Next]_vars PROVE DatasetsInv'
  OBVIOUS
<1>1. SourceInv /\ IndexTypeOK /\ DatasetInv /\ SourceTypeOK
  BY DEF DatasetsInv, SourceInv
<1>2. ASSUME UNCHANGED indexVars PROVE IndexTypeOK'
  BY <1>1, <1>2 DEF indexVars, IndexTypeOK
<1>3. CASE UNCHANGED vars
  BY <1>1, <1>2, <1>3, SourcesKept, DatasetKept DEF DatasetsInv, vars, sourceVars
<1>4. CASE SourceNext /\ UNCHANGED <<indexVars, datasetVars>>
  <2>1. SourceInv'
    BY <1>1, <1>4, SourceNextPreserves
  <2>2. outlived => outlived'
    BY <1>4 DEF SourceNext, Register, Rescan, Archive, MoveFolder, SetClassesOverride, ScanWork,
                ClaimScan, CompleteScan, FailScan, CrashScan, LoseScan
  <2> QED
    BY <1>1, <1>2, <1>4, <2>1, <2>2, DatasetKept DEF DatasetsInv
<1>5. ASSUME NEW w \in Walks,
             \/ IndexAlone(w) /\ UNCHANGED <<sourceVars, datasetVars>>
             \/ Purge(w) /\ UNCHANGED datasetVars
             \/ \E s \in Sources : Reconcile(w, s) /\ UNCHANGED datasetVars
      PROVE  DatasetsInv'
  <2>1. IndexTypeOK'
    BY <1>1, <1>5, IndexTypes DEF Reconcile
  <2>2. SourceInv'
    BY <1>1, <1>5, SourcesKept, WalkPreserves DEF Reconcile
  <2>3. UNCHANGED <<datasetVars, outlived>>
    BY <1>5 DEF Purge, Reconcile, ArchiveMissing, sourceVars
  <2> QED
    BY <1>1, <2>1, <2>2, <2>3, DatasetKept DEF DatasetsInv
<1>6. CASE (\E S \in SUBSET Sources : ConfigureBuild(S)) \/ Submit \/ Delete \/ RemoveDirectory
  <2>1. UNCHANGED <<sourceVars, indexVars>>
    BY <1>6 DEF ConfigureBuild, Submit, Delete, RemoveDirectory, SourcesUnchanged
  <2> QED
    BY <1>1, <1>2, <1>6, <2>1, SourcesKept, RowPreserves, SubmitPreserves DEF DatasetsInv
<1>7. ASSUME NEW k \in Attempts, BuildWork(k) \/ CrashBuild(k)
      PROVE  DatasetsInv'
  <2>1. UNCHANGED <<sourceVars, indexVars>>
    BY <1>7 DEF BuildWork, ClaimBuild, Load, Stage, Fill, Move, BuildError, FailBuild, CompleteBuild,
                CompleteValidation, CrashBuild, SourcesUnchanged
  <2>2. DatasetInv'
    BY <1>1, <1>7, ClaimBuildPreserves, WorkPreserves, CompletionPreserves DEF BuildWork
  <2> QED
    BY <1>1, <1>2, <2>1, <2>2, SourcesKept DEF DatasetsInv
<1>8. ASSUME NEW k \in Attempts, LoseBuild(k)
      PROVE  DatasetsInv'
  <2>1. /\ UNCHANGED <<source, scans, classes, onDisk, moves, indexVars>>
        /\ outlived' \in BOOLEAN /\ (outlived => outlived')
    BY <1>1, <1>8 DEF LoseBuild, SourceTypeOK
  <2>2. SourceTypeOK'
    BY <1>1, <2>1 DEF SourceTypeOK
  <2>3. SourceInv'
    BY <1>1, <2>1, <2>2 DEF SourceInv, Underway, SourceOK, ScanOK
  <2> QED
    BY <1>1, <1>2, <1>8, <2>1, <2>3, LoseBuildPreserves DEF DatasetsInv
<1> QED
  BY <1>3, <1>4, <1>5, <1>6, <1>7, <1>8 DEF Next

\* The invariant, of every behaviour.
LEMMA DatasetsSafe == Spec => []DatasetsInv
BY InitDatasets, NextDatasets, PTL DEF Spec

\* Rows, scans, walks, builds and directories are what the code says they are.
THEOREM DatasetsTypes == Spec => []TypeOK
<1>1. DatasetsInv => TypeOK
  BY DEF DatasetsInv, SourceInv, DatasetInv, DatasetTypeOK, TypeOK, Dataset, Build
<1> QED
  BY <1>1, DatasetsSafe, PTL

\* A source never waits for a scan that nobody will end.
THEOREM ScanningEnds == Spec => []ScanningIsUnderway
<1>1. DatasetsInv => ScanningIsUnderway
  BY DEF DatasetsInv, SourceInv, Underway, ScanningIsUnderway
<1> QED
  BY <1>1, DatasetsSafe, PTL

\* Without workers that outlive their timeout a source shows its latest scan's verdict.
THEOREM VerdictIsLatest == Spec => []StatusIsLatest
<1>1. DatasetsInv => StatusIsLatest
  BY DEF DatasetsInv, SourceInv, SourceOK, StatusIsLatest
<1> QED
  BY <1>1, DatasetsSafe, PTL

\* A dataset never waits for a build that nobody will end.
THEOREM RunningIsExecuted == Spec => []RunningHasExecution
<1>1. DatasetsInv => RunningHasExecution
  BY DEF DatasetsInv, DatasetInv
<1> QED
  BY <1>1, DatasetsSafe, PTL

\* Without workers that outlive their timeout a READY dataset has its whole directory.
THEOREM ReadyHasDirectory == Spec => []ReadyIsWhole
<1>1. DatasetsInv => ReadyIsWhole
  BY DEF DatasetsInv, DatasetInv, RowOK, ReadyIsWhole
<1> QED
  BY <1>1, DatasetsSafe, PTL

\* What a step does to a row that is archived, when no worker has outlived its timeout.
LEMMA ArchivedStep ==
    ASSUME DatasetsInv, [Next]_vars
    PROVE  /\ outlived => outlived'
           /\ \A s \in Sources : source[s].archived =>
                  source'[s].archived \/ source'[s].status = "PURGED"
<1>1. source \in [Sources -> Source]
  BY DEF DatasetsInv, SourceInv, SourceTypeOK, Source
<1>2. CASE UNCHANGED sourceVars
  BY <1>2 DEF sourceVars
<1>3. CASE \E k \in Attempts : LoseBuild(k)
  BY <1>3 DEF LoseBuild
<1>4. CASE SourceNext
  <2>1. PICK s \in Sources :
            \/ Register(s) \/ Rescan(s) \/ Archive(s) \/ MoveFolder(s)
            \/ \E names \in ClassLists : SetClassesOverride(s, names)
            \/ \E k \in DOMAIN scans[s] : ScanWork(s, k) \/ CrashScan(s, k) \/ LoseScan(s, k)
    BY <1>4 DEF SourceNext
  <2>2. CASE \E k \in DOMAIN scans[s] : ScanWork(s, k) \/ CrashScan(s, k) \/ LoseScan(s, k)
    <3>1. \/ UNCHANGED source
          \/ \E status \in {"READY", "INVALID", "REGISTERED"} : source' = [source EXCEPT ![s].status = status]
      BY <2>2 DEF ScanWork, ClaimScan, CompleteScan, FailScan, CrashScan, LoseScan, FreedSource
    <3>2. outlived => outlived'
      BY <2>2 DEF ScanWork, ClaimScan, CompleteScan, FailScan, CrashScan, LoseScan
    <3> QED
      BY <1>1, <3>1, <3>2 DEF Source
  <2>3. CASE ~\E k \in DOMAIN scans[s] : ScanWork(s, k) \/ CrashScan(s, k) \/ LoseScan(s, k)
    <3>1. \/ UNCHANGED source
          \/ \E n : source' = [source EXCEPT ![s].status = "SCANNING", ![s].latest = n]
          \/ source' = [source EXCEPT ![s].status = "ARCHIVED", ![s].archived = TRUE]
      BY <2>1, <2>3 DEF Register, Rescan, Archive, MoveFolder, SetClassesOverride, DispatchScan
    <3>2. outlived => outlived'
      BY <2>1, <2>3 DEF Register, Rescan, Archive, MoveFolder, SetClassesOverride
    <3> QED
      BY <1>1, <3>1, <3>2 DEF Source
  <2> QED
    BY <2>2, <2>3
<1>5. CASE \E w \in Walks : Purge(w) \/ \E s \in Sources : ArchiveMissing(w, s)
  <2>1. \/ \E s : source' = [source EXCEPT ![s] = [status |-> "PURGED", archived |-> FALSE, latest |-> 0]]
        \/ \E s \in Sources : source' = [source EXCEPT ![s].status = "ARCHIVED", ![s].archived = TRUE]
        \/ UNCHANGED source
    BY <1>5 DEF Purge, ArchiveMissing
  <2>2. UNCHANGED outlived
    BY <1>5 DEF Purge, ArchiveMissing
  <2>3. ASSUME NEW s, source' = [source EXCEPT ![s] = [status |-> "PURGED", archived |-> FALSE, latest |-> 0]],
               NEW t \in Sources, source[t].archived
        PROVE  source'[t].archived \/ source'[t].status = "PURGED"
    BY <1>1, <2>3
  <2>4. ASSUME NEW s \in Sources, source' = [source EXCEPT ![s].status = "ARCHIVED", ![s].archived = TRUE],
               NEW t \in Sources, source[t].archived
        PROVE  source'[t].archived
    BY <1>1, <2>4 DEF Source
  <2> QED
    BY <2>1, <2>2, <2>3, <2>4
<1>6. \/ UNCHANGED sourceVars \/ SourceNext
      \/ \E k \in Attempts : LoseBuild(k)
      \/ \E w \in Walks : Purge(w) \/ \E s \in Sources : ArchiveMissing(w, s)
  BY DEF Next, vars, Reconcile, ConfigureBuild, Submit, Delete, RemoveDirectory, SourcesUnchanged,
         BuildWork, CrashBuild, ClaimBuild, Load, Stage, Fill, Move, BuildError, FailBuild,
         CompleteBuild, CompleteValidation
<1> QED
  BY <1>2, <1>3, <1>4, <1>5, <1>6

\* What a step does to a dataset that is deleted.
LEMMA DeletedStep ==
    ASSUME DatasetInv, ~outlived, [Next]_vars, dataset.status = "DELETED"
    PROVE  dataset'.status = "DELETED"
<1>1. /\ dataset \in Dataset /\ RowOK /\ \A k \in Attempts : BuildOK(k)
      /\ dataset.archived /\ dataset.status \notin Running
  BY DEF DatasetInv, DatasetTypeOK, RowOK, Running
<1>2. \A k \in Attempts : ~Active(k) /\ ~Working(k)
  BY <1>1 DEF BuildOK, Active
<1>3. CASE UNCHANGED dataset
  BY <1>3
<1>4. CASE \E S \in SUBSET Sources : ConfigureBuild(S)
  BY <1>1, <1>4 DEF ConfigureBuild
<1>5. CASE Submit \/ Delete
  BY <1>5 DEF Submit, Delete, Deletable
<1>6. CASE \E k \in Attempts : FailBuild(k) \/ CompleteBuild(k) \/ CompleteValidation(k)
  BY <1>2, <1>6 DEF FailBuild, CompleteBuild, CompleteValidation, Working, At
<1>7. CASE \E k \in Attempts : LoseBuild(k)
  BY <1>1, <1>7 DEF LoseBuild
<1>8. \/ UNCHANGED dataset \/ Submit \/ Delete \/ \E S \in SUBSET Sources : ConfigureBuild(S)
      \/ \E k \in Attempts : FailBuild(k) \/ CompleteBuild(k) \/ CompleteValidation(k) \/ LoseBuild(k)
  BY DEF Next, vars, datasetVars, RemoveDirectory, BuildWork, CrashBuild, ClaimBuild, Load, Stage,
         Fill, Move, BuildError
<1> QED
  BY <1>3, <1>4, <1>5, <1>6, <1>7, <1>8

\* Deleted and archived are never taken back, except by a worker that outlived its timeout.
THEOREM DeletedForGood == Spec => DeletedStays
<1>1. ASSUME DatasetsInv, DatasetsInv', [Next]_vars, ~outlived'
      PROVE  /\ dataset.status = "DELETED" => dataset'.status = "DELETED"
             /\ \A s \in Sources : source[s].archived => source'[s].status \in {"ARCHIVED", "PURGED"}
  <2>1. ~outlived /\ \A s \in Sources : source[s].archived =>
                         source'[s].archived \/ source'[s].status = "PURGED"
    BY <1>1, ArchivedStep
  <2>2. \A s \in Sources : source'[s].archived => source'[s].status = "ARCHIVED"
    BY <1>1 DEF DatasetsInv, SourceInv, SourceOK
  <2>3. dataset.status = "DELETED" => dataset'.status = "DELETED"
    BY <1>1, <2>1, DeletedStep DEF DatasetsInv
  <2> QED
    BY <2>1, <2>2, <2>3
<1>2. DatasetsInv /\ DatasetsInv' /\ [Next]_vars =>
          [~outlived' =>
              /\ dataset.status = "DELETED" => dataset'.status = "DELETED"
              /\ \A s \in Sources : source[s].archived => source'[s].status \in {"ARCHIVED", "PURGED"}]_vars
  BY <1>1
<1> QED
  BY <1>2, DatasetsSafe, PTL DEF Spec, DeletedStays
=============================================================================
