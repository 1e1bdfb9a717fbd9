\* Project set and task describe against one session: two slugs,
\* both listed, one task in each project, every call may fail.
CONSTANTS
  p1 = p1
  p2 = p2
  t1 = t1
  t2 = t2
  None = None
  NoArg = NoArg
  NaN = NaN
  ZeroTask = ZeroTask
  Slugs = {p1, p2}
  Listed = {p1, p2}
  Tasks <- MCTasks
  TaskArgs = {t1, t2, NaN}
  Faults = {"flags", "url", "list", "home", "kube", "write", "client", "session", "describe"}
  MaxRuns = 4
SPECIFICATION TaskSpec
\* the user may stop running commands: after MaxRuns nothing is enabled
CHECK_DEADLOCK FALSE
INVARIANT SetExitZeroMeansProjectSet
INVARIANT DescribeShowsTaskOfSetProject
