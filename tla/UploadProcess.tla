---------------------------- MODULE UploadProcess ----------------------------
(***************************************************************************)
(* uploadProcess.start (nerd/service/datatransfer/v1/upload_process.go):   *)
(* the goroutines tar | count | chunk+upload | index, the heartbeat and    *)
(* the main goroutine that waits on doneCh, uploads the metadata and sends *)
(* the success message.  uploadChunks is modelled as its fan-out           *)
(* goroutine, one work goroutine per item and the fan-in loop.             *)
(*                                                                         *)
(* Data abstraction: the archive is the sequence of chunks the chunker     *)
(* cuts it into (Data); a pipe carries one chunk (or one key) per unit.    *)
(* A remote call is one step; it fails when its context is already         *)
(* cancelled, and may fail with an injected fault otherwise.              *)
(***************************************************************************)
EXTENDS Naturals, Sequences, FiniteSets, SequencesExt

CONSTANTS
  Content,      \* the chunk contents the chunker can produce
  Data,         \* the archived directory, as the chunks it is cut into
  Hash,         \* sha256 of a chunk: an injective map from Content to keys
  SizeOf,       \* chunk.Length of each content
  Concurrency,  \* p.concurrency, the capacity of itemCh
  PipeCap,      \* units an in-memory pipe buffers before a write blocks
  Faults,       \* failures the environment may produce, each at most once
  HasProgress,  \* p.progressCh != nil
  None,         \* no object / no value (a model value)
  Preloaded     \* keys already in the bucket (chunks of other datasets)

FaultKinds == {"tar", "chunker", "exists", "put", "index", "meta", "success",
               "expire", "reexpire", "cancel"}

ASSUME /\ Data \in Seq(Content) /\ Len(Data) > 0
       /\ DOMAIN Hash = Content
       /\ \A a, b \in Content : Hash[a] = Hash[b] => a = b
       /\ SizeOf \in [Content -> Nat \ {0}]
       /\ Concurrency \in Nat \ {0}
       /\ PipeCap \in Nat \ {0}
       /\ Faults \subseteq FaultKinds
       /\ HasProgress \in BOOLEAN
       /\ Preloaded \subseteq {Hash[c] : c \in Content}

P == INSTANCE Pipe

Keys == {Hash[c] : c \in Content}
Items == 1 .. Len(Data)
Nil == "nil"
Errors == {"ErrTar", "ErrIterate", "ErrChunk", "ErrCtx", "ErrIndex", "ErrExpired",
           "ErrMeta", "ErrSuccess"}
DoneChCap == 4   \* make(chan error, 4)
ErrItem == 0     \* &item{err: err}: an item that carries the chunker's error

VARIABLES
  ctxDone,      \* the context of start() is cancelled
  injected,     \* faults that have happened
  tarPc, tarPos, tarCount,            \* tar goroutine, tarCountPipe
  cntPc, cntHeld, total, countChunks, \* count goroutine, countChunksPipe
  foPc, items,                        \* fan-out goroutine, items cut so far
  itemCh, itemChClosed,
  wpc,                                \* the work goroutine of each item
  up, upItem, upErr, written,         \* fan-in loop and its goroutine
  chunksIndex,                        \* chunksIndexPipe
  idxPc, idxBuf, idxErr,              \* index goroutine
  hbPc,                               \* heartbeat goroutine
  doneCh, countCh,
  mainPc, ret,                        \* the goroutine running start()
  store, puts, remoteIndex, remoteMeta, successSent, progress

env    == <<ctxDone, injected>>
tarV   == <<tarPc, tarPos>>
cntV   == <<cntPc, cntHeld, total>>
foV    == <<foPc, items>>
upV    == <<up, upItem, upErr, written>>
idxV   == <<idxPc, idxBuf, idxErr>>
mainV  == <<mainPc, ret>>
pipes  == <<tarCount, countChunks, chunksIndex>>
chans  == <<itemCh, itemChClosed, doneCh, countCh>>
remote == <<store, puts, remoteIndex, remoteMeta, successSent, progress>>
vars == <<env, tarV, cntV, foV, wpc, upV, idxV, hbPc, mainV, pipes, chans,
          remote>>

(* uploadChunks derives its own context and cancels it when it returns.   *)
ChunksCtxDone == ctxDone \/ up \in {"send", "close", "done"}

(* A fault f happens now, once per run. *)
Inject(f) == f \in Faults \ injected /\ injected' = injected \cup {f}

(* A remote call under context ctx fails: cancelled, or an injected fault. *)
CallFails(f, cancelled) ==
  \/ cancelled /\ UNCHANGED injected
  \/ Inject(f)

(* The state of a fresh process: every goroutine at its start, every pipe *)
(* and channel empty, nothing shown by the progress bar.                  *)
LocalInit ==
  /\ ctxDone = FALSE
  /\ tarPc = "write" /\ tarPos = 0 /\ tarCount = P!NewPipe
  /\ cntPc = "read" /\ cntHeld = None /\ total = 0 /\ countChunks = P!NewPipe
  /\ foPc = "next" /\ items = <<>>
  /\ itemCh = <<>> /\ itemChClosed = FALSE
  /\ wpc = [i \in Items |-> "none"]
  /\ up = "loop" /\ upItem = 0 /\ upErr = Nil /\ written = <<>>
  /\ chunksIndex = P!NewPipe
  /\ idxPc = "read" /\ idxBuf = <<>> /\ idxErr = Nil
  /\ hbPc = "loop"
  /\ doneCh = <<>> /\ countCh = <<>>
  /\ mainPc = "wait" /\ ret = None
  /\ progress = 0

Init ==
  /\ LocalInit /\ injected = {}
  /\ store = Preloaded
  /\ puts = [k \in Keys |-> 0]
  /\ remoteIndex = None /\ remoteMeta = None /\ successSent = FALSE

-----------------------------------------------------------------------------
(* tar: tardir(ctx, localDir, tarCountPipe.w); on error doneCh <- err;     *)
(* tarCountPipe.w.Close().                                                 *)

TarWrite ==
  /\ tarPc = "write" /\ tarPos < Len(Data) /\ ~ctxDone
  /\ P!CanWrite(tarCount)
  /\ tarCount' = P!Write(tarCount, Data[tarPos + 1])
  /\ tarPos' = tarPos + 1
  /\ UNCHANGED <<env, tarPc, cntV, foV, wpc, upV, idxV, hbPc, mainV,
                 countChunks, chunksIndex, chans, remote>>

\* tardir stops on a cancelled context or a local I/O error, and the
\* goroutine sends that error to doneCh
TarFail ==
  /\ tarPc = "write" /\ tarPos < Len(Data)
  /\ CallFails("tar", ctxDone)
  /\ Len(doneCh) < DoneChCap
  /\ doneCh' = Append(doneCh, "ErrTar")
  /\ tarPc' = "close"
  /\ UNCHANGED <<ctxDone, tarPos, cntV, foV, wpc, upV, idxV, hbPc, mainV,
                 pipes, itemCh, itemChClosed, countCh, remote>>

\* tardir returned nil (whole archive written), or after the error send
TarClose ==
  /\ \/ tarPc = "write" /\ tarPos = Len(Data)
     \/ tarPc = "close"
  /\ tarCount' = P!Close(tarCount)
  /\ tarPc' = "done"
  /\ UNCHANGED <<env, tarPos, cntV, foV, wpc, upV, idxV, hbPc, mainV,
                 countChunks, chunksIndex, chans, remote>>

-----------------------------------------------------------------------------
(* count: countBytes(ctx, TeeReader(tarCountPipe.r, countChunksPipe.w));   *)
(* countCh <- result; countChunksPipe.w.Close().  The TeeReader writes     *)
(* what it read to countChunksPipe before Read returns.                   *)

CountRead ==
  /\ cntPc = "read" /\ P!CanRead(tarCount)
  /\ cntHeld' = Head(tarCount.buf)
  /\ tarCount' = P!Read(tarCount)
  /\ cntPc' = "tee"
  /\ UNCHANGED <<env, tarV, total, foV, wpc, upV, idxV, hbPc, mainV,
                 countChunks, chunksIndex, chans, remote>>

CountTee ==
  /\ cntPc = "tee" /\ P!CanWrite(countChunks)
  /\ countChunks' = P!Write(countChunks, cntHeld)
  /\ total' = total + SizeOf[cntHeld]
  /\ cntPc' = "read" /\ cntHeld' = None
  /\ UNCHANGED <<env, tarV, foV, wpc, upV, idxV, hbPc, mainV,
                 tarCount, chunksIndex, chans, remote>>

\* countBytes returns at EOF, or with ctx.Err() once the context is done;
\* either way the goroutine reports and closes countChunksPipe.w normally
CountFinish ==
  /\ cntPc = "read"
  /\ \/ P!AtEOF(tarCount) /\ countCh' = <<[total |-> total, err |-> Nil]>>
     \/ ctxDone /\ countCh' = <<[total |-> total, err |-> "ErrCtx"]>>
  /\ countChunks' = P!Close(countChunks)
  /\ cntPc' = "done"
  /\ UNCHANGED <<env, tarV, cntHeld, total, foV, wpc, upV, idxV, hbPc,
                 mainV, tarCount, chunksIndex, itemCh, itemChClosed, doneCh,
                 remote>>

-----------------------------------------------------------------------------
(* uploadChunks, fan-out goroutine: chkr.Next, then select on ctx.Done     *)
(* or itemCh <- it (spawning go work(it)); close(itemCh) at EOF.          *)

FanOutNext ==
  /\ foPc = "next" /\ P!CanRead(countChunks)
  /\ items' = Append(items, Head(countChunks.buf))
  /\ countChunks' = P!Read(countChunks)
  /\ foPc' = "send"
  /\ UNCHANGED <<env, tarV, cntV, wpc, upV, idxV, hbPc, mainV,
                 tarCount, chunksIndex, chans, remote>>

\* ctx.Done() wins the select: the item is dropped and the loop goes on
FanOutDrop ==
  /\ foPc = "send" /\ ChunksCtxDone
  /\ foPc' = "next"
  /\ UNCHANGED <<env, tarV, cntV, items, wpc, upV, idxV, hbPc, mainV,
                 pipes, chans, remote>>

\* bug variant: the capacity test is off by one
FanOutSendPastCapacity ==
  /\ foPc = "send" /\ Len(itemCh) <= Concurrency
  /\ itemCh' = Append(itemCh, Len(items))
  /\ wpc' = [wpc EXCEPT ![Len(items)] = "exists"]
  /\ foPc' = "next"
  /\ UNCHANGED <<env, tarV, cntV, items, upV, idxV, hbPc, mainV,
                 pipes, itemChClosed, doneCh, countCh, remote>>

FanOutSend ==
  /\ foPc = "send" /\ Len(itemCh) < Concurrency
  /\ itemCh' = Append(itemCh, Len(items))
  /\ wpc' = [wpc EXCEPT ![Len(items)] = "exists"]
  /\ foPc' = "next"
  /\ UNCHANGED <<env, tarV, cntV, items, upV, idxV, hbPc, mainV,
                 pipes, itemChClosed, doneCh, countCh, remote>>

\* chkr.Next fails with an error other than io.EOF: the read of
\* countChunksPipe failed
FanOutChunkErr ==
  /\ foPc = "next" /\ ~P!AtEOF(countChunks)
  /\ Inject("chunker")
  /\ foPc' = "senderr"
  /\ UNCHANGED <<ctxDone, tarV, cntV, items, wpc, upV, idxV, hbPc, mainV,
                 pipes, chans, remote>>

\* select on ctx.Done() or itemCh <- &item{err: err}; either way the
\* goroutine returns and its deferred close(itemCh) runs
FanOutSendErr ==
  /\ foPc = "senderr"
  /\ \/ ChunksCtxDone /\ UNCHANGED itemCh
     \/ Len(itemCh) < Concurrency /\ itemCh' = Append(itemCh, ErrItem)
  /\ itemChClosed' = TRUE
  /\ foPc' = "done"
  /\ UNCHANGED <<env, tarV, cntV, items, wpc, upV, idxV, hbPc, mainV,
                 pipes, doneCh, countCh, remote>>

\* bug variant: the fan-out returns at EOF without close(itemCh)
FanOutEOFNoClose ==
  /\ foPc = "next" /\ P!AtEOF(countChunks)
  /\ foPc' = "done"
  /\ UNCHANGED <<env, tarV, cntV, items, wpc, upV, idxV, hbPc, mainV,
                 pipes, chans, remote>>

FanOutEOF ==
  /\ foPc = "next" /\ P!AtEOF(countChunks)
  /\ itemChClosed' = TRUE
  /\ foPc' = "done"
  /\ UNCHANGED <<env, tarV, cntV, items, wpc, upV, idxV, hbPc, mainV,
                 pipes, itemCh, doneCh, countCh, remote>>

-----------------------------------------------------------------------------
(* work(it): hash, Exists, Upload if absent, publish progress, then        *)
(* it.resCh <- result.  On an error the result is sent in a select with    *)
(* ctx.Done(); the success result is sent without one.                     *)

Key(i) == Hash[items[i]]

\* bug variant: an Exists error is taken for "exists"
WorkExistsIgnoreErr(i) ==
  /\ wpc[i] = "exists"
  /\ \/ CallFails("exists", ChunksCtxDone) /\ wpc' = [wpc EXCEPT ![i] = "progress"]
     \/ /\ ~ChunksCtxDone /\ UNCHANGED injected
        /\ wpc' = [wpc EXCEPT ![i] = IF Key(i) \in store THEN "progress"
                                                          ELSE "upload"]
  /\ UNCHANGED <<ctxDone, tarV, cntV, foV, upV, idxV, hbPc, mainV, pipes,
                 chans, remote>>

\* bug variant: progress is only published for chunks that were uploaded
WorkExistsSkipProgress(i) ==
  /\ wpc[i] = "exists"
  /\ \/ CallFails("exists", ChunksCtxDone) /\ wpc' = [wpc EXCEPT ![i] = "errsend"]
     \/ /\ ~ChunksCtxDone /\ UNCHANGED injected
        /\ wpc' = [wpc EXCEPT ![i] = IF Key(i) \in store THEN "result"
                                                          ELSE "upload"]
  /\ UNCHANGED <<ctxDone, tarV, cntV, foV, upV, idxV, hbPc, mainV, pipes,
                 chans, remote>>

\* bug variant: the Exists answer is not consulted, every chunk is put
WorkExistsNoDedup(i) ==
  /\ wpc[i] = "exists"
  /\ \/ CallFails("exists", ChunksCtxDone) /\ wpc' = [wpc EXCEPT ![i] = "errsend"]
     \/ /\ ~ChunksCtxDone /\ UNCHANGED injected
        /\ wpc' = [wpc EXCEPT ![i] = "upload"]
  /\ UNCHANGED <<ctxDone, tarV, cntV, foV, upV, idxV, hbPc, mainV, pipes,
                 chans, remote>>

WorkExists(i) ==
  /\ wpc[i] = "exists"
  /\ \/ CallFails("exists", ChunksCtxDone) /\ wpc' = [wpc EXCEPT ![i] = "errsend"]
     \/ /\ ~ChunksCtxDone /\ UNCHANGED injected
        /\ wpc' = [wpc EXCEPT ![i] = IF Key(i) \in store THEN "progress"
                                                          ELSE "upload"]
  /\ UNCHANGED <<ctxDone, tarV, cntV, foV, upV, idxV, hbPc, mainV, pipes,
                 chans, remote>>

WorkUpload(i) ==
  /\ wpc[i] = "upload"
  /\ \/ /\ CallFails("put", ChunksCtxDone)
        /\ wpc' = [wpc EXCEPT ![i] = "errsend"]
        /\ UNCHANGED <<store, puts>>
     \/ /\ ~ChunksCtxDone /\ UNCHANGED injected
        /\ store' = store \cup {Key(i)}
        /\ puts' = [puts EXCEPT ![Key(i)] = @ + 1]
        /\ wpc' = [wpc EXCEPT ![i] = "progress"]
  /\ UNCHANGED <<ctxDone, tarV, cntV, foV, upV, idxV, hbPc, mainV, pipes,
                 chans, remoteIndex, remoteMeta, successSent, progress>>

\* select { case <-ctx.Done(): case progressCh <- len(chunk): }
WorkProgress(i) ==
  /\ wpc[i] = "progress"
  /\ \/ HasProgress /\ progress' = progress + SizeOf[items[i]]
     \/ (~HasProgress \/ ChunksCtxDone) /\ UNCHANGED progress
  /\ wpc' = [wpc EXCEPT ![i] = "result"]
  /\ UNCHANGED <<env, tarV, cntV, foV, upV, idxV, hbPc, mainV, pipes, chans,
                 store, puts, remoteIndex, remoteMeta, successSent>>

\* the error send gives up when the context is done
WorkAbandon(i) ==
  /\ wpc[i] = "errsend" /\ ChunksCtxDone
  /\ wpc' = [wpc EXCEPT ![i] = "done"]
  /\ UNCHANGED <<env, tarV, cntV, foV, upV, idxV, hbPc, mainV, pipes, chans,
                 remote>>

-----------------------------------------------------------------------------
(* uploadChunks, fan-in loop: take the items in order from itemCh and wait *)
(* on each one's own resCh; kw.WriteKey writes the key to chunksIndexPipe. *)
(* When uploadChunks returns, its goroutine sends a non-nil error to       *)
(* doneCh and closes chunksIndexPipe.w.                                    *)

FanInCancel ==
  /\ up \in {"loop", "wait"} /\ ctxDone
  /\ up' = "send" /\ upErr' = "ErrCtx"
  /\ UNCHANGED <<env, tarV, cntV, foV, wpc, upItem, written, idxV, hbPc,
                 mainV, pipes, chans, remote>>

\* an item that carries an error: return "failed to iterate"
FanInTake ==
  /\ up = "loop" /\ itemCh # <<>>
  /\ upItem' = Head(itemCh) /\ itemCh' = Tail(itemCh)
  /\ \/ Head(itemCh) = ErrItem /\ up' = "send" /\ upErr' = "ErrIterate"
     \/ Head(itemCh) # ErrItem /\ up' = "wait" /\ UNCHANGED upErr
  /\ UNCHANGED <<env, tarV, cntV, foV, wpc, written, idxV, hbPc,
                 mainV, pipes, itemChClosed, doneCh, countCh, remote>>

\* itemCh is closed and drained: uploadChunks returns nil
FanInEnd ==
  /\ up = "loop" /\ itemCh = <<>> /\ itemChClosed
  /\ up' = "close"
  /\ UNCHANGED <<env, tarV, cntV, foV, wpc, upItem, upErr, written, idxV,
                 hbPc, mainV, pipes, chans, remote>>

\* bug variant: the fan-in takes whichever result is ready first
FanInReceiveAnyOrder ==
  /\ up = "wait"
  /\ \E j \in Items :
       /\ wpc[j] \in {"result", "errsend"}
       /\ wpc' = [wpc EXCEPT ![j] = "done"]
       /\ upItem' = j
       /\ IF wpc[j] = "errsend"
            THEN up' = "send" /\ upErr' = "ErrChunk"
            ELSE up' = "write" /\ UNCHANGED upErr
  /\ UNCHANGED <<env, tarV, cntV, foV, written, idxV, hbPc, mainV,
                 pipes, chans, remote>>

FanInReceive ==
  /\ up = "wait" /\ wpc[upItem] \in {"result", "errsend"}
  /\ wpc' = [wpc EXCEPT ![upItem] = "done"]
  /\ IF wpc[upItem] = "errsend"
       THEN up' = "send" /\ upErr' = "ErrChunk"
       ELSE up' = "write" /\ UNCHANGED upErr
  /\ UNCHANGED <<env, tarV, cntV, foV, upItem, written, idxV, hbPc, mainV,
                 pipes, chans, remote>>

FanInWrite ==
  /\ up = "write" /\ P!CanWrite(chunksIndex)
  /\ chunksIndex' = P!Write(chunksIndex, Key(upItem))
  /\ written' = Append(written, Key(upItem))
  /\ up' = "loop"
  /\ UNCHANGED <<env, tarV, cntV, foV, wpc, upItem, upErr, idxV, hbPc,
                 mainV, tarCount, countChunks, chans, remote>>

\* bug variant: the goroutine does not forward uploadChunks' error
ChunksSendDropsErr ==
  /\ up = "send"
  /\ up' = "close"
  /\ UNCHANGED <<env, tarV, cntV, foV, wpc, upItem, upErr, written, idxV,
                 hbPc, mainV, pipes, chans, remote>>

ChunksSend ==
  /\ up = "send" /\ Len(doneCh) < DoneChCap
  /\ doneCh' = Append(doneCh, upErr)
  /\ up' = "close"
  /\ UNCHANGED <<env, tarV, cntV, foV, wpc, upItem, upErr, written, idxV,
                 hbPc, mainV, pipes, itemCh, itemChClosed, countCh, remote>>

ChunksClose ==
  /\ up = "close"
  /\ chunksIndex' = P!Close(chunksIndex)
  /\ up' = "done"
  /\ UNCHANGED <<env, tarV, cntV, foV, wpc, upItem, upErr, written, idxV,
                 hbPc, mainV, tarCount, countChunks, chans, remote>>

-----------------------------------------------------------------------------
(* index: doneCh <- uploadIndex(ctx, ...): ioutil.ReadAll, then Upload.   *)

IndexRead ==
  /\ idxPc = "read" /\ P!CanRead(chunksIndex)
  /\ idxBuf' = Append(idxBuf, Head(chunksIndex.buf))
  /\ chunksIndex' = P!Read(chunksIndex)
  /\ UNCHANGED <<env, tarV, cntV, foV, wpc, upV, idxPc, idxErr, hbPc, mainV,
                 tarCount, countChunks, chans, remote>>

\* bug variant: the index is uploaded under a context that is never cancelled
IndexUploadIgnoresCtx ==
  /\ idxPc = "read" /\ P!AtEOF(chunksIndex)
  /\ \/ Inject("index") /\ idxErr' = "ErrIndex" /\ UNCHANGED remoteIndex
     \/ UNCHANGED <<injected, idxErr>> /\ remoteIndex' = idxBuf
  /\ idxPc' = "send"
  /\ UNCHANGED <<ctxDone, tarV, cntV, foV, wpc, upV, idxBuf, hbPc, mainV,
                 pipes, chans, store, puts, remoteMeta, successSent, progress>>

\* bug variant: an index object already in the bucket is not overwritten
IndexUploadIfAbsent ==
  /\ idxPc = "read" /\ P!AtEOF(chunksIndex)
  /\ \/ CallFails("index", ctxDone) /\ idxErr' = "ErrIndex"
                                    /\ UNCHANGED remoteIndex
     \/ ~ctxDone /\ UNCHANGED <<injected, idxErr>>
        /\ remoteIndex' = IF remoteIndex = None THEN idxBuf ELSE remoteIndex
  /\ idxPc' = "send"
  /\ UNCHANGED <<ctxDone, tarV, cntV, foV, wpc, upV, idxBuf, hbPc, mainV,
                 pipes, chans, store, puts, remoteMeta, successSent, progress>>

\* bug variant: the index is uploaded without waiting for the stream's EOF
IndexUploadBeforeEOF ==
  /\ idxPc = "read"
  /\ \/ CallFails("index", ctxDone) /\ idxErr' = "ErrIndex"
                                    /\ UNCHANGED remoteIndex
     \/ ~ctxDone /\ UNCHANGED <<injected, idxErr>> /\ remoteIndex' = idxBuf
  /\ idxPc' = "send"
  /\ UNCHANGED <<ctxDone, tarV, cntV, foV, wpc, upV, idxBuf, hbPc, mainV,
                 pipes, chans, store, puts, remoteMeta, successSent, progress>>

IndexUpload ==
  /\ idxPc = "read" /\ P!AtEOF(chunksIndex)
  /\ \/ CallFails("index", ctxDone) /\ idxErr' = "ErrIndex"
                                    /\ UNCHANGED remoteIndex
     \/ ~ctxDone /\ UNCHANGED <<injected, idxErr>> /\ remoteIndex' = idxBuf
  /\ idxPc' = "send"
  /\ UNCHANGED <<ctxDone, tarV, cntV, foV, wpc, upV, idxBuf, hbPc, mainV,
                 pipes, chans, store, puts, remoteMeta, successSent, progress>>

IndexSend ==
  /\ idxPc = "send" /\ Len(doneCh) < DoneChCap
  /\ doneCh' = Append(doneCh, idxErr)
  /\ idxPc' = "done"
  /\ UNCHANGED <<env, tarV, cntV, foV, wpc, upV, idxBuf, idxErr, hbPc, mainV,
                 pipes, itemCh, itemChClosed, countCh, remote>>

-----------------------------------------------------------------------------
(* sendHeartbeat: on every tick SendUploadHeartbeat; if the answer says    *)
(* HasExpired, doneCh <- error and cancel().  A tick whose call fails or   *)
(* is not expired changes nothing.  After cancel() the select may still   *)
(* take a tick that arrived during the call, and the server still says    *)
(* expired: with the fault "reexpire" this repeats any number of times,   *)
(* each repeat sending on doneCh again until the select takes ctx.Done(). *)

\* a tick whose answer is not expired, or whose call failed
HeartbeatTick == hbPc = "loop" /\ UNCHANGED vars

HeartbeatExpired ==
  /\ hbPc = "loop"
  /\ \/ Inject("expire")
     \/ /\ "expire" \in injected /\ "reexpire" \in Faults
        /\ injected' = injected \cup {"reexpire"}
  /\ hbPc' = "send"
  /\ UNCHANGED <<ctxDone, tarV, cntV, foV, wpc, upV, idxV, mainV, pipes,
                 chans, remote>>

HeartbeatSend ==
  /\ hbPc = "send" /\ Len(doneCh) < DoneChCap
  /\ doneCh' = Append(doneCh, "ErrExpired")
  /\ hbPc' = "cancel"
  /\ UNCHANGED <<env, tarV, cntV, foV, wpc, upV, idxV, mainV, pipes, itemCh,
                 itemChClosed, countCh, remote>>

HeartbeatCancel ==
  /\ hbPc = "cancel"
  /\ ctxDone' = TRUE
  /\ hbPc' = "loop"
  /\ UNCHANGED <<injected, tarV, cntV, foV, wpc, upV, idxV, mainV, pipes,
                 chans, remote>>

HeartbeatExit ==
  /\ hbPc = "loop" /\ ctxDone
  /\ hbPc' = "done"
  /\ UNCHANGED <<env, tarV, cntV, foV, wpc, upV, idxV, mainV, pipes, chans,
                 remote>>

\* the caller's context is cancelled (user interrupt or deadline)
ParentCancel ==
  /\ Inject("cancel")
  /\ ctxDone' = TRUE
  /\ UNCHANGED <<tarV, cntV, foV, wpc, upV, idxV, hbPc, mainV, pipes, chans,
                 remote>>

-----------------------------------------------------------------------------
(* start(): err := <-doneCh; cres := <-countCh; uploadMetadata;            *)
(* SendUploadSuccess.  Returning runs the deferred cancel().               *)

Return(e) == mainPc' = "returned" /\ ret' = e /\ ctxDone' = TRUE

MainReceive ==
  /\ mainPc = "wait" /\ doneCh # <<>>
  /\ doneCh' = Tail(doneCh)
  /\ IF Head(doneCh) = Nil
       THEN mainPc' = "count" /\ UNCHANGED <<ctxDone, ret>>
       ELSE Return(Head(doneCh))
  /\ UNCHANGED <<injected, tarV, cntV, foV, wpc, upV, idxV, hbPc, pipes,
                 itemCh, itemChClosed, countCh, remote>>

\* a count error returns errors.Wrap(err, ...) of the nil err: nil
\* uploadMetadata(ctx, ..., total, ...): one MetadataUpload under ctx,
\* returning the error e
uploadMetadata(size, e) ==
  \/ e = "ErrMeta" /\ CallFails("meta", ctxDone) /\ UNCHANGED remoteMeta
  \/ e = Nil /\ ~ctxDone /\ UNCHANGED injected /\ remoteMeta' = size

MainMetadata ==
  /\ mainPc = "count" /\ countCh # <<>>
  /\ countCh' = <<>>
  /\ IF Head(countCh).err # Nil
       THEN Return(Nil) /\ UNCHANGED <<injected, remoteMeta>>
       ELSE \E e \in {Nil, "ErrMeta"} :
              /\ uploadMetadata(Head(countCh).total, e)
              /\ IF e = Nil THEN mainPc' = "success" /\ UNCHANGED <<ctxDone, ret>>
                           ELSE Return(e)
  /\ UNCHANGED <<tarV, cntV, foV, wpc, upV, idxV, hbPc, pipes, itemCh,
                 itemChClosed, doneCh, store, puts, remoteIndex, successSent,
                 progress>>

\* SendUploadSuccess takes no context
MainSuccess ==
  /\ mainPc = "success"
  /\ \/ Inject("success") /\ Return("ErrSuccess") /\ UNCHANGED successSent
     \/ UNCHANGED injected /\ successSent' = TRUE /\ Return(Nil)
  /\ UNCHANGED <<tarV, cntV, foV, wpc, upV, idxV, hbPc, pipes, chans, store,
                 puts, remoteIndex, remoteMeta, progress>>

\* start() has returned: the process goes on with the caller
Returned == mainPc = "returned" /\ UNCHANGED vars

-----------------------------------------------------------------------------
Worker(i) ==
  WorkExists(i) \/ WorkUpload(i) \/ WorkProgress(i) \/ WorkAbandon(i)

Next ==
  \/ TarWrite \/ TarFail \/ TarClose
  \/ CountRead \/ CountTee \/ CountFinish
  \/ FanOutNext \/ FanOutDrop \/ FanOutSend \/ FanOutEOF \/ FanOutChunkErr
  \/ FanOutSendErr
  \/ \E i \in Items : Worker(i)
  \/ FanInCancel \/ FanInTake \/ FanInEnd \/ FanInReceive \/ FanInWrite
  \/ ChunksSend \/ ChunksClose
  \/ IndexRead \/ IndexUpload \/ IndexSend
  \/ HeartbeatTick \/ HeartbeatExpired \/ HeartbeatSend \/ HeartbeatCancel \/ HeartbeatExit
  \/ ParentCancel
  \/ MainReceive \/ MainMetadata \/ MainSuccess
  \/ Returned

(* Every runnable goroutine is eventually scheduled and every remote call *)
(* eventually returns.  Faults, ticks and the caller's cancel are not     *)
(* forced.                                                                 *)
Fairness ==
  /\ WF_vars(TarWrite) /\ WF_vars(TarFail /\ ctxDone)
  /\ WF_vars(TarClose)
  /\ WF_vars(CountRead) /\ WF_vars(CountTee) /\ WF_vars(CountFinish)
  /\ WF_vars(FanOutNext \/ FanOutDrop \/ FanOutSend \/ FanOutEOF)
  /\ WF_vars(FanOutSendErr)
  /\ \A i \in Items : WF_vars(Worker(i))
  /\ WF_vars(FanInCancel \/ FanInTake \/ FanInEnd \/ FanInReceive
             \/ FanInWrite)
  /\ WF_vars(ChunksSend) /\ WF_vars(ChunksClose)
  /\ WF_vars(IndexRead) /\ WF_vars(IndexUpload) /\ WF_vars(IndexSend)
  /\ WF_vars(HeartbeatSend) /\ WF_vars(HeartbeatCancel)
  /\ WF_vars(HeartbeatExit)
  /\ WF_vars(MainReceive) /\ WF_vars(MainMetadata) /\ WF_vars(MainSuccess)

Spec == Init /\ [][Next]_vars /\ Fairness

-----------------------------------------------------------------------------
(* The keys of the archive's chunks, in stream order, and its size.       *)
ChunkKeys == [i \in 1 .. Len(Data) |-> Hash[Data[i]]]
TotalSize == FoldLeft(LAMBDA acc, c : acc + SizeOf[c], 0, Data)

Stages == {"tar", "count", "fanout", "chunks", "index", "heartbeat"}
StageDone == [tar |-> tarPc = "done", count |-> cntPc = "done",
              fanout |-> foPc = "done", chunks |-> up = "done",
              index |-> idxPc = "done", heartbeat |-> hbPc = "done"]

TypeOK ==
  /\ ctxDone \in BOOLEAN /\ injected \subseteq Faults
  /\ tarPc \in {"write", "close", "done"} /\ tarPos \in 0 .. Len(Data)
  /\ tarCount \in P!PipeType(Content) /\ countChunks \in P!PipeType(Content)
  /\ chunksIndex \in P!PipeType(Keys)
  /\ cntPc \in {"read", "tee", "done"} /\ cntHeld \in Content \cup {None}
  /\ total \in Nat
  /\ foPc \in {"next", "send", "senderr", "done"} /\ items \in Seq(Content)
  /\ itemCh \in Seq(Items \cup {ErrItem}) /\ Len(itemCh) <= Concurrency
  /\ itemChClosed \in BOOLEAN
  /\ wpc \in [Items -> {"none", "exists", "upload", "progress", "result",
                        "errsend", "done"}]
  /\ up \in {"loop", "wait", "write", "send", "close", "done"}
  /\ upItem \in 0 .. Len(Data) /\ upErr \in Errors \cup {Nil}
  /\ written \in Seq(Keys)
  /\ idxPc \in {"read", "send", "done"} /\ idxBuf \in Seq(Keys)
  /\ idxErr \in {"ErrIndex", Nil}
  /\ hbPc \in {"loop", "send", "cancel", "done"}
  /\ doneCh \in Seq(Errors \cup {Nil}) /\ Len(doneCh) <= DoneChCap
  /\ countCh \in Seq([total : Nat, err : {Nil, "ErrCtx"}])
  /\ mainPc \in {"wait", "count", "success", "returned"}
  /\ ret \in Errors \cup {Nil, None}
  /\ store \subseteq Keys /\ puts \in [Keys -> Nat]
  /\ remoteIndex \in Seq(Keys) \cup {None}
  /\ remoteMeta \in Nat \cup {None} /\ successSent \in BOOLEAN
  /\ progress \in Nat

(* Order preservation (spec 3, 8.2): whatever the workers' completion     *)
(* order, the keys the fan-in writes to the index pipe, and the index     *)
(* object uploaded from them, are the chunk keys in stream order.         *)
IndexInOrder ==
  /\ IsPrefix(written, ChunkKeys)
  /\ remoteIndex # None => IsPrefix(remoteIndex, ChunkKeys)

(* The index never names a chunk that is not in the bucket: a key reaches *)
(* kw.WriteKey only after its Exists said yes or its Upload succeeded.    *)
IndexOnlyStoredKeys == ToSet(written) \subseteq store

(* When start() returns nil, the upload is complete: the index names every *)
(* chunk in order, the metadata holds the archive size, and the control    *)
(* plane was told of the success (spec 3, 4.7, 7).                        *)
SuccessMeansComplete ==
  ret = Nil => /\ remoteIndex = ChunkKeys
               /\ remoteMeta = TotalSize
               /\ successSent

(* Progress accounting (spec 8.7): after a successful upload the progress  *)
(* channel has received exactly the archived byte count, deduplicated     *)
(* chunks included.                                                        *)
ProgressAccounting ==
  (ret = Nil /\ HasProgress) => progress = TotalSize

(* start() always returns: no stage leaves the main goroutine waiting on   *)
(* doneCh or countCh forever, whatever fails or is cancelled.             *)
StartReturns == <>(mainPc = "returned")

(* The worker pool (spec 4.5, 5) is bounded: work goroutines are spawned  *)
(* only as itemCh accepts items, so at most Concurrency items wait in the  *)
(* channel and the fan-in holds one more while it waits on its result:    *)
(* at most Concurrency + 1 workers are checking, uploading or reporting.  *)
WorkerPoolBound ==
  Cardinality({i \in Items : wpc[i] \in {"exists", "upload", "progress"}})
    <= Concurrency + 1

(* Every chunk in the stream has exactly one key in the uploaded index    *)
(* (spec 3): an index object, once written, is the complete one.         *)
IndexNeverPartial == remoteIndex \in {None, ChunkKeys}

(* sendHeartbeat returns once start() has returned: the deferred cancel() *)
(* closes ctx.Done(), and the select must eventually take it.              *)
HeartbeatTerminates == (mainPc = "returned") ~> (hbPc = "done")

(* No stage hangs (spec 8.4): once start() has returned, every goroutine  *)
(* it started, work goroutines included, eventually exits.                *)
AllStagesTerminate ==
  (mainPc = "returned") ~>
     (/\ \A s \in Stages : StageDone[s]
      /\ \A i \in Items : wpc[i] \in {"none", "done"})


-----------------------------------------------------------------------------
(* Refinement: start() implements UploadSpec.  The index stream is sealed *)
(* once uploadChunks has returned; start()'s nil return is "ok".          *)
UploadAbs == INSTANCE UploadSpec WITH
  stored <- store,
  indexed <- written,
  sealed <- up \in {"send", "close", "done"},
  result <- IF ret = None THEN None ELSE IF ret = Nil THEN "ok" ELSE "error"

(* start() implements the abstract upload: chunks stored in any order,    *)
(* keys indexed in stream order only once stored, the index object is the *)
(* sealed stream, metadata only after a complete index, success only after *)
(* the metadata, nil only after the success message, and start() returns. *)
ImplementsUploadSpec == UploadAbs!Spec

=============================================================================
