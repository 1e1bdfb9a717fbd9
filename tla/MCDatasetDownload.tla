-------------------------- MODULE MCDatasetDownload --------------------------
(* Instantiates DatasetDownload: two datasets, a tag naming both and a tag *)
(* naming none.                                                            *)
EXTENDS DatasetDownload, TLC

CONSTANTS d1, d2, t1, t2

MCDatasets == {d1, d2}
MCTags == {t1, t2}
MCTagDatasets == (t1 :> <<d1, d2>>) @@ (t2 :> <<>>)
MCDirStates == {"absent", "dir", "file", "unreadable"}
=============================================================================
