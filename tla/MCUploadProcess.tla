--------------------------- MODULE MCUploadProcess ---------------------------
(* Instantiates UploadProcess for TLC: two chunk contents with distinct   *)
(* keys and sizes, cut into archives of two or three chunks.              *)
EXTENDS UploadProcess, TLC

CONSTANTS c1, c2, k1, k2

MCContent == {c1, c2}
MCHash == (c1 :> k1) @@ (c2 :> k2)
MCSizeOf == (c1 :> 2) @@ (c2 :> 3)

\* two distinct chunks: the out-of-order completions the fan-in must undo
MCDataDistinct == <<c1, c2>>
\* three items, the first chunk twice: enough items for the pool to fill
\* past itemCh's capacity, and equal chunks checked by concurrent workers
MCDataThree == <<c1, c2, c1>>

AllFaults == FaultKinds
\* a chunk of the archive is already stored by another dataset
MCPreloaded == {k1}
MCNothingStored == {}
=============================================================================
