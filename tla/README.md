# TLA+ models of the nerd CLI: upload pipeline and login

This directory holds TLA+ models of the `nerd` CLI. The models cover the parts
of the code where concurrency and failure matter:
- the upload pipeline in `src/nerd/service/datatransfer/v1/upload_process.go`;
- the OAuth login in `src/command/login.go`, with `command.Run` from
  `src/command/command.go` around it;
- `nerd project set` in `src/command/project_set.go`, which updates two
  persistent files;
- `nerd dataset download` in `src/command/dataset_download.go`, which runs a
  progress-bar goroutine per dataset;
- `nerd task describe` in `src/command/task_describe.go`, which reads the
  project that `project set` wrote to the session.

Every module is written from that source. Code that the pipeline calls but that is not in `src/`
(`newPipe`, `tardir`, `countBytes`, the storage and control-plane clients) is
modelled from `spec.md`. Those definitions are marked `spec_modelled` in
`PROJECT.json`.

## 1. Inventory

### Components

| Component | Source | State it keeps | Operations |
|---|---|---|---|
| Upload orchestration, `uploadProcess.start` | upload_process.go 32-108 | shared `ctx`/`cancel`, three pipes, `doneCh` (cap 4), `countCh` (cap 1) | start five goroutines; `<-doneCh`; `<-countCh`; `uploadMetadata`; `SendUploadSuccess`; deferred `cancel()` |
| Stream pipe, `newPipe` | used at 41-44 (not in src) | a byte buffer and a closed flag | write (blocks when full), read, close, then EOF |
| Archiver, tar goroutine | 52-58 (`tardir` not in src) | position in the directory tree | write the archive into `tarCountPipe`; on error `doneCh <- err`; close |
| Byte counter, count goroutine | 44, 60-69 | running total | `TeeReader` read from `tarCountPipe`, copy to `countChunksPipe`; `countCh <- result`; close |
| Chunker (`restic/chunker`) | 114, 166 (vendored) | rolling hash window | `Next` cuts the next content-defined chunk |
| Chunk uploader, `uploadChunks` | 111-220 | derived `ctx`, `itemCh` (cap `concurrency`), one `resCh` per item | fan-out: cut, send an item, spawn `work`; `work`: hash, `Exists`, `Upload`, progress, result; fan-in: results in item order, `WriteKey` |
| Index uploader, `uploadIndex` | 223-229 | keys read so far | `ReadAll(chunksIndexPipe)`, then one `Upload` |
| Metadata uploader, `uploadMetadata` | 232-243 | none | one `MetadataUpload` with the total size |
| Heartbeat, `sendHeartbeat` | 246-260 | ticker | on each tick `SendUploadHeartbeat`; on expiry `doneCh <- err` and `cancel()`; exit when `ctx` is done |
| Remote bucket and control plane | external | chunk objects, index, metadata, success flag | `Exists`, `Upload`, `MetadataUpload`, `SendUploadSuccess` |
| CLI commands | src/command/*.go | config and session files | login (local OAuth server), dataset download, project set, task describe |
| Batch client, Kubernetes RunJob, vendored code | src/nerd/client, src/svc, src/vendor | none of interest | single REST or Kubernetes calls; generated code |

### How the pipeline stages interact

The stages share state only through channels and pipes:
`tar -> tarCountPipe -> count (TeeReader) -> countChunksPipe -> fan-out -> itemCh -> fan-in -> chunksIndexPipe -> index`.
Each `work` goroutine talks to the fan-in through its own unbuffered `resCh`.

Errors go to `doneCh`:
- the tar and chunks goroutines send only when they have an error;
- the index goroutine always sends (nil or an error);
- the heartbeat sends an error when the server reports the upload expired.

`start()` acts on the first value it receives from `doneCh`. Two contexts exist.
The shared one is cancelled by the heartbeat, by the caller, or by `start()`'s
deferred `cancel()`. `uploadChunks` derives its own context from it and cancels
that one when it returns.

### What is hard here

- Interleaving. Up to `concurrency+1` workers finish in any order, while the
  fan-in must write keys in chunk order.
- Partial failure. Each stage closes its output pipe normally even when it
  failed, so the stages downstream see a clean EOF on a truncated stream.
- Cancellation. Each blocking point has (or lacks) a `ctx.Done()` case, and a
  goroutine blocked without one stays blocked after `start()` returns.
- Ordering on `doneCh`. A nil from the index must never overtake an earlier
  error.
- Timeouts. A heartbeat expiry can race the end of the pipeline.
- Check-then-act. `Exists` followed by `Upload` is not atomic when equal chunks
  are in flight together.

### Properties that make each component correct

- Chunk uploader: keys are written in stream order (spec 8.2). Only stored
  chunks are indexed. The pool is bounded by `concurrency`. Each chunk is
  uploaded at most once per run (spec 3).
- Index uploader: an uploaded index is complete (spec 3).
- Orchestration:
  - a nil return means index, metadata and success message are all done (spec 3, 4.7);
  - progress sums to the archive size (spec 8.7);
  - `start()` always returns;
  - no goroutine outlives the call (spec 8.4).
- Retry (spec 7, 8.3): a run never puts a chunk that was stored when it
  started, and a retry's success never rests on an earlier run's index.

## 2. Modules

### `UploadSpec.tla`: what `start()` promises

The abstract upload has no goroutines, pipes or channels. Its variables are
`stored`, `indexed`, `sealed`, `remoteIndex`, `remoteMeta`, `successSent` and
`result`. Its actions:
- `Store(k)`: a chunk is put, in any order.
- `AppendKey`: the next key in stream order goes into the index stream, and
  only once it is stored.
- `Seal`: `uploadChunks` has returned.
- `PublishIndex`: the index object is the sealed stream.
- `PublishMeta`: the metadata is written, only after a complete index.
- `Succeed`: the success message is sent and `start()` returns nil.
- `Fail`: `start()` returns an error.

`Spec` is weakly fair on `Succeed \/ Fail`, so `start()` returns.

`UploadProcess.tla` instantiates it as `UploadAbs` with this refinement mapping:
- `stored <- store`;
- `indexed <- written`;
- `sealed <- up \in {"send", "close", "done"}`;
- `ret` maps to `result`: `nil` becomes `"ok"`, any error becomes `"error"`.

The remote variables keep their names. `ImplementsUploadSpec == UploadAbs!Spec`
is a PROPERTY of `upload_failures`.

### `UploadRetry.tla`: a failed upload and its retries

When `start()` returns an error, the CLI process ends and every goroutine ends
with it. The user then uploads the same directory again. `UploadRetry` extends
`UploadProcess` with the action `Retry`. It is enabled once `start()` has
returned an error, and it puts every process-local variable back to its
`LocalInit` value.

These persist across runs:
- the bucket (`store`, `puts`, `remoteIndex`, `remoteMeta`);
- the control plane's `successSent`;
- the faults that have already happened.

The bookkeeping variables are:
- `run`;
- `storedAtStart`, the bucket's keys when the run started;
- `putsAtStart`.

The retry is the user's choice, so it has no fairness. The module is modelled
from spec 7 and 8.3, because the upload command that calls `start()` is not in
`src/`.

### `Pipe.tla`: the stream pipe (spec-modelled)

A pipe is a record `[buf, closed]` holding at most `PipeCap` units. The module
defines `NewPipe`, `CanWrite`/`Write`, `CanRead`/`Read`, `Close` and `AtEOF`.
One unit is one chunk's bytes, or one index key.

### `UploadProcess.tla`: the whole of `start()`

Each goroutine has a program counter: `tarPc`, `cntPc`, `foPc`, `wpc[i]` for
each item's worker, `up` for the fan-in and its goroutine, `idxPc`, `hbPc` and
`mainPc`. Each action is one step of one goroutine, named after the code:

| Goroutine | Actions |
|---|---|
| tar | `TarWrite`, `TarFail`, `TarClose` |
| count | `CountRead`, `CountTee`, `CountFinish` |
| fan-out | `FanOutNext`, `FanOutDrop` (the `ctx.Done()` case of the select, after which the loop goes on), `FanOutSend` (spawns the worker), `FanOutEOF`, `FanOutChunkErr` and `FanOutSendErr` (a non-EOF `chkr.Next` error sent as an error item, then the deferred `close(itemCh)`); the fan-in's `FanInTake` returns "failed to iterate" on that item |
| worker | `WorkExists`, `WorkUpload`, `WorkProgress`, `WorkAbandon` (the `ctx.Done()` case of an error send) |
| fan-in | `FanInCancel`, `FanInTake`, `FanInEnd`, `FanInReceive` (rendezvous on `resCh`), `FanInWrite` (`kw.WriteKey`) |
| chunks goroutine | `ChunksSend`, `ChunksClose` |
| index | `IndexRead`, `IndexUpload`, `IndexSend` |
| heartbeat | `HeartbeatTick`, `HeartbeatExpired`, `HeartbeatSend`, `HeartbeatCancel`, `HeartbeatExit` |
| main | `MainReceive`, `MainMetadata` (receives from `countCh`, including the `errors.Wrap(err)` of the nil `err` at line 95, then calls `uploadMetadata`), `MainSuccess` |

`ChunksCtxDone` is the derived context of `uploadChunks`: it is done when the
shared context is done or when the fan-in has returned.

The remote side is the variables `store`, `puts`, `remoteIndex`, `remoteMeta`,
`successSent` and `progress`.

Abstractions:
- The archive is `Data`, the sequence of chunks the chunker cuts it into.
- `Hash` is an injective map from contents to keys.
- `SizeOf` gives chunk lengths.
- A remote call is one step. It fails if its context is already cancelled. It
  may also fail with a fault from `Faults`, and each fault kind happens at
  most once per run.
- Timestamps, error wording, paths and the heartbeat's transport errors (no-op
  ticks) are left out.
- A further expiry after `cancel()` is allowed by the fault `reexpire`. It
  happens when a tick arrived during the heartbeat call and the select takes
  it instead of `ctx.Done()`. The server still says expired, so this may
  repeat. The repeats need no bound of their own: each one sends on `doneCh`,
  and that channel fills. The passing runs leave it out, and `heartbeat_leak`
  checks it.

`MCUploadProcess.tla` gives the constants: contents `c1`, `c2` with keys `k1`,
`k2` and sizes 2 and 3. `Preloaded = {k1}` means one chunk is already stored by
another dataset, so the dedup branch runs.

### `LoginFlow.tla`: `nerd login`

`LoginFactory` runs first. Its `baseCommand` parses the global options out of
`os.Args` and finds the default config location. If either fails, the
factory returns the error and no command runs. `mitchellh/cli` then returns
exit code 1 (`ExitFactoryError`; that library is not in `src/`). Otherwise
`command.Run` calls `Login.DoRun`, which:
1. reads the config and parses the auth endpoint;
2. starts `go spawnServer`;
3. runs `open.Run` on the `/oauth` URL;
4. waits on the unbuffered `doneCh`;
5. exchanges the code (`GetOAuthCredentials`);
6. writes the tokens (`WriteOAuth`);
7. returns, which runs the deferred `svr.Close()`.

`spawnServer` sends the `ListenAndServe` error to `doneCh`. After `Close()`,
that error is `ErrServerClosed`. The `/oauth/callback` handler checks the
`state` query parameter against the flow's random state and sends an error or
the code.

The model has one program counter per actor:
- `runPc`: the factory, then `command.Run`;
- `drPc`: `DoRun`;
- `srvPc`: the server goroutine;
- `brPc`: the user's browser.

Blocked senders on `doneCh` form the set `senders`. `Receive` is the
rendezvous with one of them, so a handler whose send is never taken stays
blocked. `HandleError` ends the process (`os.Exit`).

The faults are:
- a `baseCommand` failure in the factory (`"base"`);
- config and endpoint errors;
- a failed `open.Run`;
- the port already in use;
- a failed exchange;
- a failed write;
- a reload of the callback page;
- stray callback requests with a foreign state.

Each fault happens at most once.

Fairness: the `DoRun`, `command.Run`, server and browser steps are weakly fair.
Stray requests and faults are not, because they may never happen.

### `ProjectSet.tla`: `nerd project set`

The command is invoked repeatedly, up to `MaxRuns` times, against two files
that outlive every process:
- `kube`: the project of the kube config's context;
- `session`: the project recorded in the session.

Each invocation is one pass through these actions:
1. `Invoke`: a slug or no argument, with `KUBECONFIG` set or not;
2. `RunParse`: a flag error gives exit code 127;
3. `ParseArgs`: no argument gives `errShowHelp`, which `Run` turns into
   `cli.RunResultHelp`; a bad endpoint gives exit code 1;
4. `ListProjects`, including the slug check;
5. `KubeConfigPath`: the home directory lookup happens only without
   `KUBECONFIG`;
6. `PopulateKubeConfig`;
7. `WriteProject`;
8. `Exited`.

Any call named in `Faults` may fail. The failure goes through `HandleError`.

### `TaskDescribe.tla`: `nerd task describe`, composed with `project set`

The module extends `ProjectSet`: the user runs either command, up to
`MaxRuns` invocations in all, against the same kube config and session.
Variable `command` says which command the current invocation runs, and
`lastSet` records the slug of the last `project set` that exited 0 (a
history variable; nothing in the code reads it).
- `Invoke` starts a project set and `InvokeDescribe` a describe, with a task
  argument from `TaskArgs` (two task IDs and `NaN`) or too few arguments.
- `RunParse` and `Exited` (`command.Run`) are shared.
- `SetStep` is every `DoRun` step of `ProjectSet` and updates `lastSet`.
- The describe steps follow `DoRun`: `DescribeArgs` (errShowHelp),
  `NewClient`, `ParseTaskID`, `ReadSession` (session read and
  `RequireProjectID`), `DescribeTask`.

`DescribeTask` is not in `src/`. It fails, or it returns the task if the
project's workload holds it (`Tasks`). Otherwise it returns the zero output
(`ZeroTask`), which line 64 rejects. The workload argument is one value,
because the answer depends only on the project and the task.

### `DatasetDownload.tla`: `nerd dataset download`

The model is one invocation of `DoRun` under `command.Run`. The initial state
chooses:
- the argument: a dataset, a tag, or none;
- the output path: absent, a directory, a file, or unreadable;
- whether `--json-output` is set.

The actions follow the code in order:
1. `RunParse`;
2. `CheckArgs`;
3. `ReadConfig`;
4. `PrepareOutputDir`: Stat, then MkdirAll, then Stat again;
5. `CreateClients`;
6. `GatherIDs`: a tag is resolved with `ListDatasets`;
7. `LoopNext`;
8. `StartProgressBar`: `GetRemoteDatasetSize`, then `go ProgressBar`;
9. `Download`;
10. `WaitProgressBar`: `<-progressBarDoneCh`.

`ProgressBarEnd(b)` is the bar goroutine of loop position `b`.

`Download`, `GetRemoteDatasetSize`, `ListDatasets` and `ProgressBar` are in
neither `src/` nor the spec. Each call either succeeds or fails. A bar is
assumed to close its done channel once its download has returned. That is the
only way the wait at line 134 can end, so `DownloadEnds` holds under that
assumption.

`Spec` is weakly fair on `Next`. `DoRun` is one goroutine and the bars are the
only others, and they are enabled only while `DoRun` waits. Without
`--json-output`, `progressCh` is never set up in that branch (line 129). With
it, there is no bar.

### `RandomString.tla`: `randomString(n)`

TLC integers have 32 bits. A 63-bit `src.Int63()` value is therefore kept as
the sequence of its ten 6-bit groups and its top 3 bits.
- `cache & letterIdxMask` is the first group.
- `cache >>= letterIdxBits` drops the first group and appends a zero.

The loop is modelled as these actions:
- `Refill`: `remain == 0`, draw a new value;
- `Step`: one iteration;
- `Return`.

`RandomStringCorrect` compares `b` with `Reference`, a direct definition: the
first `n` accepted letters of the draws, written from the end.

## 3. Runs

| Run | cfg | Expect | Checks |
|---|---|---|---|
| upload_failures | MCUploadFailures.cfg | pass | Faults = tar, chunker, exists, put, index, meta, success. Checks `TypeOK`, `IndexInOrder`, `IndexOnlyStoredKeys`, `SuccessMeansComplete`, `ProgressAccounting`, `StartReturns`, `ImplementsUploadSpec`. About 20k states. |
| upload_retry | MCUploadRetry.cfg | pass | Up to 3 runs of a three-item archive `<<c1, c2, c1>>`, the six stage faults shared between them. Checks `RetryPutsNoStoredChunk`, `SuccessMeansComplete`, `WorkerPoolBound`. About 1.9M states, 45 s. |
| upload_cancel | MCUploadCancel.cfg | pass | Faults = caller cancel, heartbeat expiry. Checks `IndexInOrder`, `SuccessMeansComplete`, `StartReturns`. |
| partial_index | MCPartialIndex.cfg | violation | `IndexNeverPartial`: a failed `Exists` still leads to an index upload of `<<>>` or `<<k1>>`. |
| stage_leak | MCStageLeak.cfg | violation | `AllStagesTerminate`: item 2's worker blocks forever at line 157 after item 1 failed. |
| dataset_download | MCDatasetDownload.cfg | pass | Datasets `d1`, `d2`, tag `t1` naming both, tag `t2` naming none, every call may fail. Checks `OneProgressBar`, `ExitZeroMeansAllDownloaded`, `DownloadEnds`. 296 states. |
| project_set | MCTaskDescribe.cfg | pass | `SetExitZeroMeansProjectSet` (`ExitZeroMeansProjectSet` for the project set invocations) and `DescribeShowsTaskOfSetProject`. Four invocations of either command, slugs `p1` and `p2` both listed, task `t1` in `p1` and `t2` in `p2`, every call may fail. 16k states. |
| project_split | MCProjectSplit.cfg | violation | `KubeConfigAgreesWithSession`: `PopulateKubeConfig` succeeds, `WriteProject` fails, and the two files name different projects for every later command. |
| heartbeat_leak | MCHeartbeatLeak.cfg | violation | `HeartbeatTerminates`: with `expire` and `reexpire`, the errors of tar, chunks and index and two expiries fill `doneCh` after `start()` took one; the heartbeat's next send at line 255 blocks for ever. About 549k states, 55 s. |
| random_string | MCRandomString.cfg | pass | `TypeOK`, `RandomStringCorrect`. `n = 3`; low groups 0, 61 and 62, high groups 63; up to 3 draws. About 35k states. |
| login_failures | MCLoginFailures.cfg | pass | All login faults and two stray requests. Checks `TokensOnlyFromOwnState`, `ExitZeroMeansLoggedIn`, `LoginTerminates`. |
| login_race | MCLoginRace.cfg | violation | `LoginCompletes`: the browser's request reaches the address before `ListenAndServe`; it is refused and `DoRun` waits on `doneCh` for ever. |

What the passing runs show:

- `IndexInOrder` is checked with both chunk contents distinct. Worker 2 can
  finish before worker 1, because `Concurrency = 1` still lets two workers run.
  The order is restored by the per-item `resCh`.
- In `upload_cancel`, `SuccessMeansComplete` holds even though line 95 wraps
  the nil `err`. A count failure needs a cancelled context. Under a cancelled
  context the index upload fails, so `start()` never gets the nil from
  `doneCh` that would reach line 95 with a count error. The mutant
  `IndexUploadIgnoresCtx` (index upload under a context that is never
  cancelled) turns this into a nil return with no metadata. The guard is only
  the context.

Each property of a passing run has a mutant in `PROJECT.json` that TLC
rejects:
- `FanOutSendPastCapacity` breaks `TypeOK` (upload_failures) and
  `WorkerPoolBound` (upload_retry);
- `FanInReceiveAnyOrder` breaks `IndexInOrder`;
- `WorkExistsIgnoreErr` breaks `IndexOnlyStoredKeys`;
- `ChunksSendDropsErr` breaks `SuccessMeansComplete`;
- `WorkExistsSkipProgress` breaks `ProgressAccounting`;
- `FanOutEOFNoClose` breaks `StartReturns`;
- `IndexUploadBeforeEOF` (the index uploaded before the stream is sealed)
  breaks `ImplementsUploadSpec`;
- `BodyOffByOne` (`idx <= len(letterBytes)`) breaks `TypeOK` of `RandomString`;
- `RefillNoReset` (a new value with `remain` not reset) breaks
  `RandomStringCorrect`;
- `WorkExistsNoDedup` (the Exists answer not consulted) breaks
  `RetryPutsNoStoredChunk`;
- `IndexUploadIfAbsent` (an index already in the bucket is kept) breaks
  `SuccessMeansComplete` in `upload_retry`: a retry after a run that left a
  truncated index then reports success over that index;
- `WaitProgressBarSkipped` (no wait on `progressBarDoneCh`) breaks
  `OneProgressBar`;
- `DownloadIgnoreErr` (the loop goes on after a failed `Download`) breaks
  `ExitZeroMeansAllDownloaded`;
- `DownloadAlwaysWait` (`<-progressBarDoneCh` moved after the if/else, so
  a `--json-output` download waits on a channel nothing closes) breaks
  `DownloadEnds`;
- `WriteProjectIgnoreErr` breaks `SetExitZeroMeansProjectSet`;
- `DescribeTaskNoEmptyCheck` (the zero answer printed as a task) breaks
  `DescribeShowsTaskOfSetProject`;
- `CallbackNoStateCheck` breaks `TokensOnlyFromOwnState`;
- `WriteTokensIgnoreErr` breaks `ExitZeroMeansLoggedIn`;
- `ListenAndServeNoSend` (the server error not sent to `doneCh`) breaks
  `LoginTerminates`.

What the login runs show:

- The state check is what keeps stray codes out. With it dropped, a stray
  request's code is exchanged and written.
- `LoginTerminates` holds in `login_failures` except in one case: the browser
  was refused while the server came up. That case is the `login_race` finding.
  `open.Run` runs right after `go spawnServer`, with nothing waiting for the
  listener to bind.
- The cfgs say `CHECK_DEADLOCK FALSE` because the real process may hang in that
  race: `<-doneCh` has no timeout.

### Bounds

- `Data` has 2 chunks. That is the least that gives two workers in flight,
  out-of-order completion and a truncated index.
  `upload_retry` has 3 items, `<<c1, c2, c1>>`. That is the least with which a
  fan-out that ignored `itemCh`'s capacity would start more than
  `Concurrency + 1` workers. It also has one chunk twice in a run. That run
  checks only invariants, so its 1.9M states are affordable.
- `Concurrency = 1`, so `itemCh` holds one item and the fan-in holds one more.
- `PipeCap = 1`, so every pipe can fill up and block its writer.
- `doneCh` keeps its real capacity of 4.

Beyond these sizes, larger values add interleavings of the same kinds and
no new control paths.
The cancel run has about 237k states and takes about 20 seconds. The failure
run has about 20k states.

The chunker fault answers the open question in spec section 9: does a
non-EOF `chkr.Next` error reach the aborting path? In `upload_failures` it is
sent as an error item, or dropped when the context is already done. Either
way `close(itemCh)` follows. The fan-in takes the error item before the
closed channel, returns "failed to iterate", and its goroutine puts that
error on `doneCh` before it closes the index pipe. So `start()` still returns
the error (`StartReturns`), and a nil return never comes from a truncated
stream (`SuccessMeansComplete`).

RandomString bounds: `n = 3`. The four low 6-bit groups of a drawn value
range over {0, 61, 62} ('a', the last letter, the first rejected group), and
the six higher groups are 63, which is rejected. With these the loop meets
rejected groups, values with zero to four letters of two kinds, and a
refill in the middle of a call. Because the two letters differ, a letter
written at the wrong end of `b` is seen. The last explored draw always carries enough letters, so
every explored call returns.

Login bounds: two stray requests, enough for one stray send to be taken and
another to stay blocked.

Project set and task describe bounds: four invocations. That is enough for a
project set that succeeds, a second one that fails after it rewrote the kube
config, and a describe of either project's task after them. Both slugs are
listed, so either can become the session's project. Each project holds one
task, so a describe asks for a task that exists or for one the project does
not hold. No fairness is assumed, because the user may stop running commands.

### Fairness

Every goroutine's steps are weakly fair, because the Go scheduler eventually
runs a runnable goroutine. Each remote call is weakly fair because it
eventually returns: every call after a cancel fails at once, and `Upload`
carries the context.

Faults, heartbeat ticks and the caller's cancel are not fair. They may never
happen.

`HeartbeatTick` is a no-op step: a tick that is not expired, or whose call
failed. It keeps a hung `start()` visible as a liveness violation instead of a
deadlock, which matches the real process, whose ticker keeps running.

## 4. Not modelled, and why

- The chunker's rolling hash is a vendored library. Only its output order
  matters here.
- `tardir` and `countBytes` internals are not in `src/`. Only their contract is
  modelled.
- The `/oauth` handler's two `url.Parse` error branches are unreachable,
  because `DoRun` already parsed the same endpoint.
- What `Download` sends on `progressCh`, and when `ProgressBar` stops
  reading. The channel is unbuffered and `Download` runs under
  `context.Background()`. A bar that stopped reading early would block the
  download for ever. Neither function is in `src/` or in the spec, so the
  model takes the bar to end only after its download.
- The batch REST client (`CreateDataset`, `DescribeDataset`,
  `ListDatasets`) only builds a path and calls `doRequest`, which is not in
  `src/`. Kubernetes `RunJob` validates its input and calls
  `createResource`, also not in `src/`. Each is one call with no state of its
  own. The commands that use them model them as calls that succeed or fail.
- Vendored code is generated.
- Dedup inside one run is observed, not checked. In `upload_retry` the
  archive holds `c1` twice, and both of its workers can pass `Exists` (line
  131) and both put it. Spec 5 calls that second write harmless, so no
  property rules it out. Dedup across runs, which the spec does promise, is
  `RetryPutsNoStoredChunk`.
- The pool size is checked as it really is. `WorkerPoolBound` allows
  `Concurrency + 1` workers, not spec 4.5's `concurrency`: `itemCh` holds
  `Concurrency` items and the fan-in holds one more while it waits on it
  (line 186). It needs three items to mean anything, so it is checked in
  `upload_retry`, the one upload run with no liveness property.

## 5. Plan for the next sittings

1. `Concurrency = 2` with three items. `upload_retry` already runs three
   items, but only at `Concurrency = 1`. With two, the liveness runs grow
   past the time budget, so this would need a run with invariants only.
2. The chunker fault in `upload_retry`, so that a retry follows a
   "failed to iterate" run.
3. Kubernetes `RunJob`, once `createResource` (name generation,
   already-exists and deadline errors, which its tests expect) is in
   `src/`.
