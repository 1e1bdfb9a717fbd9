--------------------------- MODULE MCTaskDescribe ---------------------------
EXTENDS TaskDescribe, TLC

CONSTANTS p1, p2, t1, t2

\* each project's workload holds one task, the other project's task is unknown
MCTasks == (p1 :> {t1}) @@ (p2 :> {t2})
=============================================================================
