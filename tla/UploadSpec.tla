----------------------------- MODULE UploadSpec -----------------------------
(***************************************************************************)
(* What uploadProcess.start promises, without goroutines, pipes or         *)
(* channels.  Chunks are stored in the bucket in any order; their keys are *)
(* appended to the index in stream order, each only once it is stored,    *)
(* until the index stream is sealed; the index object is the sealed        *)
(* stream; the metadata follows a complete index, the success message     *)
(* follows the metadata, and only then may start() return nil.  start()   *)
(* may fail at any point, and it always returns.                          *)
(***************************************************************************)
EXTENDS Naturals, Sequences

CONSTANTS
  Keys,        \* keys of the chunks the archive can be cut into
  ChunkKeys,   \* the archive's chunk keys, in stream order
  TotalSize,   \* the archive's byte count
  Preloaded,   \* keys already in the bucket
  None

VARIABLES
  stored,       \* keys in the bucket
  indexed,      \* keys written to the index stream
  sealed,       \* the index stream is closed
  remoteIndex,  \* the index object, or None
  remoteMeta,   \* the metadata's size, or None
  successSent,  \* the control plane was told of the success
  result        \* None while start() runs, then "ok" or "error"

absVars == <<stored, indexed, sealed, remoteIndex, remoteMeta, successSent,
             result>>

Init ==
  /\ stored = Preloaded /\ indexed = <<>> /\ sealed = FALSE
  /\ remoteIndex = None /\ remoteMeta = None /\ successSent = FALSE
  /\ result = None

\* a work goroutine puts a chunk
Store(k) ==
  /\ stored' = stored \cup {k}
  /\ UNCHANGED <<indexed, sealed, remoteIndex, remoteMeta, successSent,
                 result>>

\* the fan-in writes the next chunk's key, which is in the bucket
AppendKey ==
  /\ ~sealed /\ Len(indexed) < Len(ChunkKeys)
  /\ ChunkKeys[Len(indexed) + 1] \in stored
  /\ indexed' = Append(indexed, ChunkKeys[Len(indexed) + 1])
  /\ UNCHANGED <<stored, sealed, remoteIndex, remoteMeta, successSent,
                 result>>

\* uploadChunks returns, with or without an error
Seal ==
  /\ ~sealed /\ sealed' = TRUE
  /\ UNCHANGED <<stored, indexed, remoteIndex, remoteMeta, successSent,
                 result>>

\* uploadIndex uploads what the sealed stream holds
PublishIndex ==
  /\ sealed /\ remoteIndex = None
  /\ remoteIndex' = indexed
  /\ UNCHANGED <<stored, indexed, sealed, remoteMeta, successSent, result>>

\* uploadMetadata, once the index names every chunk
PublishMeta ==
  /\ result = None /\ remoteIndex = ChunkKeys /\ remoteMeta = None
  /\ remoteMeta' = TotalSize
  /\ UNCHANGED <<stored, indexed, sealed, remoteIndex, successSent, result>>

\* SendUploadSuccess, then start() returns nil
Succeed ==
  /\ result = None /\ remoteMeta # None
  /\ successSent' = TRUE /\ result' = "ok"
  /\ UNCHANGED <<stored, indexed, sealed, remoteIndex, remoteMeta>>

\* start() returns an error
Fail ==
  /\ result = None /\ result' = "error"
  /\ UNCHANGED <<stored, indexed, sealed, remoteIndex, remoteMeta,
                 successSent>>

Next ==
  \/ \E k \in Keys : Store(k)
  \/ AppendKey \/ Seal \/ PublishIndex \/ PublishMeta \/ Succeed \/ Fail

\* start() returns: it cannot wait for ever
Spec == Init /\ [][Next]_absVars /\ WF_absVars(Succeed \/ Fail)
=============================================================================
