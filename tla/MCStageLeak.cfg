CONSTANTS
  c1 = c1
  c2 = c2
  k1 = k1
  k2 = k2
  None = None
  Content <- MCContent
  Hash <- MCHash
  SizeOf <- MCSizeOf
  Concurrency = 1
  PipeCap = 1
  HasProgress = TRUE
  Data <- MCDataDistinct
  Preloaded <- MCPreloaded
  Faults = {"exists", "put"}
SPECIFICATION Spec
PROPERTY AllStagesTerminate
