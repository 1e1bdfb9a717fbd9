\* Every argument shape and output path, with or without a progress bar;
\* every call may fail.
CONSTANTS
  d1 = d1
  d2 = d2
  t1 = t1
  t2 = t2
  NoArg = NoArg
  Datasets <- MCDatasets
  Tags <- MCTags
  TagDatasets <- MCTagDatasets
  DirStates <- MCDirStates
  Faults = {"flags", "conf", "mkdir", "client", "list", "size", "download"}
SPECIFICATION Spec
\* the process has ended once pc = "exited"
CHECK_DEADLOCK FALSE
INVARIANT OneProgressBar
INVARIANT ExitZeroMeansAllDownloaded
PROPERTY DownloadEnds
