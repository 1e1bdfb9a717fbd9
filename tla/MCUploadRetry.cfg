\* Up to three runs of the same directory, three items with the first chunk
\* twice, over one bucket; each of the
\* stage failures happens in one of them at most.
CONSTANTS
  c1 = c1
  c2 = c2
  k1 = k1
  k2 = k2
  None = None
  Content <- MCContent
  Hash <- MCHash
  SizeOf <- MCSizeOf
  Concurrency = 1
  PipeCap = 1
  HasProgress = FALSE
  Data <- MCDataThree
  Preloaded <- MCNothingStored
  Faults = {"tar", "exists", "put", "index", "meta", "success"}
  MaxRuns = 3
SPECIFICATION RetrySpec
INVARIANT RetryPutsNoStoredChunk
INVARIANT SuccessMeansComplete
INVARIANT WorkerPoolBound
