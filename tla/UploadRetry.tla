----------------------------- MODULE UploadRetry -----------------------------
(***************************************************************************)
(* A failed upload and its retries over the same bucket.  When start()     *)
(* returns an error the CLI process ends, taking every goroutine with it;  *)
(* the user runs the upload of the same directory again.  The bucket's     *)
(* chunks, index, metadata and the control plane's success flag persist;   *)
(* everything else starts afresh.  A fault of Faults happens at most once *)
(* over all runs, so a retry meets the failures the first run did not.    *)
(***************************************************************************)
EXTENDS UploadProcess

CONSTANT MaxRuns   \* runs of the upload explored, the first one included

VARIABLES
  run,            \* the run in progress, 1 .. MaxRuns
  storedAtStart,  \* the bucket's chunk keys when this run started
  putsAtStart     \* puts per key when this run started

retryVars == <<run, storedAtStart, putsAtStart>>
allVars == <<vars, retryVars>>

RetryInit ==
  /\ Init
  /\ run = 1 /\ storedAtStart = store /\ putsAtStart = puts

(* The process exits after start() returned an error, and a new process   *)
(* uploads the same directory: LocalInit holds again.                     *)
Retry ==
  /\ mainPc = "returned" /\ ret # Nil /\ run < MaxRuns
  /\ ctxDone' = FALSE
  /\ tarPc' = "write" /\ tarPos' = 0 /\ tarCount' = P!NewPipe
  /\ cntPc' = "read" /\ cntHeld' = None /\ total' = 0
  /\ countChunks' = P!NewPipe
  /\ foPc' = "next" /\ items' = <<>>
  /\ itemCh' = <<>> /\ itemChClosed' = FALSE
  /\ wpc' = [i \in Items |-> "none"]
  /\ up' = "loop" /\ upItem' = 0 /\ upErr' = Nil /\ written' = <<>>
  /\ chunksIndex' = P!NewPipe
  /\ idxPc' = "read" /\ idxBuf' = <<>> /\ idxErr' = Nil
  /\ hbPc' = "loop"
  /\ doneCh' = <<>> /\ countCh' = <<>>
  /\ mainPc' = "wait" /\ ret' = None
  /\ progress' = 0
  /\ run' = run + 1 /\ storedAtStart' = store /\ putsAtStart' = puts
  /\ UNCHANGED <<injected, store, puts, remoteIndex, remoteMeta, successSent>>

RetryNext == (Next /\ UNCHANGED retryVars) \/ Retry

RetrySpec == RetryInit /\ [][RetryNext]_allVars

-----------------------------------------------------------------------------
\* dedup across runs (spec 3, 8.3): a chunk that is in the bucket when a run
\* starts is never put by that run, whatever an earlier run left half done;
\* the Exists check in work is what skips it
RetryPutsNoStoredChunk ==
  \A k \in storedAtStart : puts[k] = putsAtStart[k]
=============================================================================
