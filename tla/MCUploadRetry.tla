---------------------------- MODULE MCUploadRetry ----------------------------
(* Instantiates UploadRetry for TLC with the chunks of MCUploadProcess.    *)
EXTENDS UploadRetry, TLC

CONSTANTS c1, c2, k1, k2

MCContent == {c1, c2}
MCHash == (c1 :> k1) @@ (c2 :> k2)
MCSizeOf == (c1 :> 2) @@ (c2 :> 3)
MCDataThree == <<c1, c2, c1>>
MCNothingStored == {}
=============================================================================
