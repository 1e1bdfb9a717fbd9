--------------------------- MODULE DatasetDownload ---------------------------
(***************************************************************************)
(* `nerd dataset download <dataset|tag> <output-dir>`                      *)
(* (command/dataset_download.go) run by command.Run (command/command.go).  *)
(* DoRun checks its arguments, reads the config, makes sure the output    *)
(* directory exists, creates its clients, turns a tag into the datasets   *)
(* it names, and downloads them one by one.  Without --json-output each   *)
(* download gets a ProgressBar goroutine, and DoRun waits on its done     *)
(* channel before the next dataset.                                       *)
(*                                                                         *)
(* Download, GetRemoteDatasetSize, ListDatasets and ProgressBar are not   *)
(* in the sources: each call succeeds or fails (Faults), and a progress   *)
(* bar ends, closing its done channel, once its download has returned.    *)
(* HandleError ends the process.                                           *)
(***************************************************************************)
EXTENDS Integers, Sequences, FiniteSets

CONSTANTS
  Datasets,     \* dataset IDs
  Tags,         \* tag IDs (TagPrefix)
  TagDatasets,  \* the datasets ListDatasets returns for each tag
  DirStates,    \* the output path: "absent", "dir", "file", "unreadable"
  Faults,       \* calls that may fail: "flags", "conf", "mkdir", "client",
                \* "list", "size", "download"
  NoArg

ExitHandleError == -1   \* the process ends in HandleError

VARIABLES
  pc,          \* step of DoRun, "exited" once the process is done
  obj,         \* args[0]: a dataset, a tag, or NoArg
  dir,         \* the output path
  json,        \* --json-output: no progress bar
  ids,         \* datasetIDs
  k,           \* the loop's position in datasetIDs
  downloaded,  \* datasets whose Download returned nil, in call order
  bars,        \* loop positions whose ProgressBar goroutine runs
  barsDone,    \* loop positions whose progressBarDoneCh is closed
  exitCode

vars == <<pc, obj, dir, json, ids, k, downloaded, bars, barsDone, exitCode>>

Fails(call) == call \in Faults

Exit(code) == pc' = "exited" /\ exitCode' = code

HandleError == Exit(ExitHandleError)

Init ==
  /\ obj \in Datasets \cup Tags \cup {NoArg}
  /\ dir \in DirStates /\ json \in BOOLEAN
  /\ pc = "parse" /\ ids = <<>> /\ k = 1 /\ downloaded = <<>>
  /\ bars = {} /\ barsDone = {} /\ exitCode = 0

\* the steps below change only pc and exitCode unless they say otherwise
Go(step) == pc' = step /\ UNCHANGED exitCode

\* command.Run: a flag parse error is exit code 127
RunParse ==
  /\ pc = "parse"
  /\ \/ Fails("flags") /\ Exit(127)
     \/ Go("args")
  /\ UNCHANGED <<obj, dir, json, ids, k, downloaded, bars, barsDone>>

\* fewer than two arguments: an error DoRun returns, exit code 1
CheckArgs ==
  /\ pc = "args"
  /\ \/ obj = NoArg /\ Exit(1)
     \/ obj # NoArg /\ Go("conf")
  /\ UNCHANGED <<obj, dir, json, ids, k, downloaded, bars, barsDone>>

ReadConfig ==
  /\ pc = "conf"
  /\ \/ Fails("conf") /\ HandleError
     \/ Go("outdir")
  /\ UNCHANGED <<obj, dir, json, ids, k, downloaded, bars, barsDone>>

\* os.Stat; a missing path is created with MkdirAll and stat'ed again; any
\* other Stat error, or a path that is not a directory, is fatal
PrepareOutputDir ==
  /\ pc = "outdir"
  /\ \/ dir = "absent" /\ Fails("mkdir") /\ HandleError /\ UNCHANGED dir
     \/ dir = "absent" /\ dir' = "dir" /\ Go("clients")
     \/ dir \in {"file", "unreadable"} /\ HandleError /\ UNCHANGED dir
     \/ dir = "dir" /\ Go("clients") /\ UNCHANGED dir
  /\ UNCHANGED <<obj, json, ids, k, downloaded, bars, barsDone>>

\* NewClient, then aws.NewDataClient
CreateClients ==
  /\ pc = "clients"
  /\ \/ Fails("client") /\ HandleError
     \/ Go("gather")
  /\ UNCHANGED <<obj, dir, json, ids, k, downloaded, bars, barsDone>>

\* a dataset ID is downloaded as is; a tag is resolved with ListDatasets
GatherIDs ==
  /\ pc = "gather"
  /\ \/ obj \in Datasets /\ ids' = <<obj>> /\ Go("loop")
     \/ obj \in Tags /\ Fails("list") /\ HandleError /\ UNCHANGED ids
     \/ obj \in Tags /\ ids' = TagDatasets[obj] /\ Go("loop")
  /\ UNCHANGED <<obj, dir, json, k, downloaded, bars, barsDone>>

\* for _, datasetID := range datasetIDs; after the last one, return nil
LoopNext ==
  /\ pc = "loop"
  /\ \/ k > Len(ids) /\ Exit(0)
     \/ k <= Len(ids) /\ Go(IF json THEN "download" ELSE "size")
  /\ UNCHANGED <<obj, dir, json, ids, k, downloaded, bars, barsDone>>

\* GetRemoteDatasetSize, then go ProgressBar(size, progressCh, doneCh)
StartProgressBar ==
  /\ pc = "size"
  /\ \/ Fails("size") /\ HandleError /\ UNCHANGED bars
     \/ bars' = bars \cup {k} /\ Go("download")
  /\ UNCHANGED <<obj, dir, json, ids, k, downloaded, barsDone>>

\* bug variant: a failed Download is logged and the loop goes on
DownloadIgnoreErr ==
  /\ pc = "download"
  /\ \/ Fails("download") /\ UNCHANGED downloaded
     \/ downloaded' = Append(downloaded, ids[k])
  /\ IF json THEN Go("loop") /\ k' = k + 1
             ELSE Go("wait") /\ UNCHANGED k
  /\ UNCHANGED <<obj, dir, json, ids, bars, barsDone>>

\* bug variant: <-progressBarDoneCh after the if/else, so a download
\* without a progress bar also waits on a channel nothing closes
DownloadAlwaysWait ==
  /\ pc = "download"
  /\ \/ Fails("download") /\ HandleError /\ UNCHANGED <<k, downloaded>>
     \/ downloaded' = Append(downloaded, ids[k]) /\ Go("wait") /\ UNCHANGED k
  /\ UNCHANGED <<obj, dir, json, ids, bars, barsDone>>

\* Download(context.Background(), downloadConf); with a progress bar DoRun
\* then waits on progressBarDoneCh, without one it goes on to the next
Download ==
  /\ pc = "download"
  /\ \/ Fails("download") /\ HandleError /\ UNCHANGED <<k, downloaded>>
     \/ /\ downloaded' = Append(downloaded, ids[k])
        /\ IF json THEN Go("loop") /\ k' = k + 1
                   ELSE Go("wait") /\ UNCHANGED k
  /\ UNCHANGED <<obj, dir, json, ids, bars, barsDone>>

\* the ProgressBar goroutine of loop position b ends once its download has
\* returned, and closes its done channel
ProgressBarEnd(b) ==
  /\ pc # "exited"
  /\ b \in bars /\ b <= Len(downloaded)
  /\ bars' = bars \ {b} /\ barsDone' = barsDone \cup {b}
  /\ UNCHANGED <<pc, obj, dir, json, ids, k, downloaded, exitCode>>

\* bug variant: DoRun does not wait for the progress bar
WaitProgressBarSkipped ==
  /\ pc = "wait"
  /\ Go("loop") /\ k' = k + 1
  /\ UNCHANGED <<obj, dir, json, ids, downloaded, bars, barsDone>>

\* <-progressBarDoneCh
WaitProgressBar ==
  /\ pc = "wait" /\ k \in barsDone
  /\ Go("loop") /\ k' = k + 1
  /\ UNCHANGED <<obj, dir, json, ids, downloaded, bars, barsDone>>

Next ==
  \/ RunParse \/ CheckArgs \/ ReadConfig \/ PrepareOutputDir
  \/ CreateClients \/ GatherIDs \/ LoopNext \/ StartProgressBar
  \/ Download \/ WaitProgressBar
  \/ \E b \in DOMAIN ids : ProgressBarEnd(b)

\* DoRun and the bar goroutines are scheduled; every call returns
Spec == Init /\ [][Next]_vars /\ WF_vars(Next)

-----------------------------------------------------------------------------
\* the terminal shows one progress bar at a time: DoRun waits for a bar's
\* done channel before it starts the next dataset's bar
OneProgressBar == Cardinality(bars) <= 1

\* exit code 0 means every dataset of the argument (all of a tag's) was
\* downloaded, each once and in the order ListDatasets gave, into a directory
ExitZeroMeansAllDownloaded ==
  pc = "exited" /\ exitCode = 0 => downloaded = ids /\ dir = "dir"

\* the command ends: no wait on a progress bar's done channel is for ever
DownloadEnds == <>(pc = "exited")
=============================================================================
