\* Two slugs, both listed; only the session write may fail.
CONSTANTS
  p1 = p1
  p2 = p2
  None = None
  NoArg = NoArg
  Slugs = {p1, p2}
  Listed = {p1, p2}
  Faults = {"write"}
  MaxRuns = 3
SPECIFICATION Spec
\* the user may stop running the command: after MaxRuns nothing is enabled
CHECK_DEADLOCK FALSE
INVARIANT KubeConfigAgreesWithSession
