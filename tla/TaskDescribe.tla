---------------------------- MODULE TaskDescribe ----------------------------
(***************************************************************************)
(* `nerd task describe <workload-id> <task-id>` (command/task_describe.go) *)
(* composed with `nerd project set` over the files both use.  Project set  *)
(* writes the session's project; task describe reads it                    *)
(* (RequireProjectID) and asks the batch API for the task in that project. *)
(* The user runs either command, again and again, as ProjectSet describes. *)
(*                                                                         *)
(* DescribeTask is not in the sources: it fails, or answers the task when *)
(* the project has it, or the zero TaskDescribeOutput (no status, TaskID  *)
(* 0) when it has not.  The workload argument is one value: the API       *)
(* answer depends on the project and the task.                            *)
(***************************************************************************)
EXTENDS ProjectSet

CONSTANTS
  Tasks,     \* the task IDs each project's workload holds
  TaskArgs,  \* args[1] values: task IDs, and NaN for a non-number
  NaN,       \* an argument strconv.ParseInt rejects
  ZeroTask   \* TaskID of the zero output

VARIABLES
  command,    \* the command of the current invocation: "set" or "describe"
  taskArg,    \* args[1] of a describe, or NoArg
  shown,      \* <<project, task>> the last describe printed, or None
  lastSet     \* slug of the last `project set` that exited 0, or None

descVars == <<command, taskArg, shown>>
allVars == <<vars, descVars, lastSet>>

\* no command has run yet
TaskInit ==
  /\ Init
  /\ command = "set" /\ taskArg = NoArg /\ shown = None /\ lastSet = None

\* the user runs `nerd task describe`, with both arguments or too few
InvokeDescribe ==
  /\ pc = "idle" /\ runs < MaxRuns
  /\ \E t \in TaskArgs \cup {NoArg} : taskArg' = t
  /\ command' = "describe" /\ pc' = "parse" /\ runs' = runs + 1
  /\ UNCHANGED <<kube, session, slug, envSet, exitCode, shown, lastSet>>

\* steps of a describe change only pc and exitCode unless they say otherwise
DGo(step) == pc' = step /\ UNCHANGED exitCode

\* fewer than two arguments: errShowHelp
DescribeArgs ==
  /\ pc = "args" /\ command = "describe"
  /\ \/ taskArg = NoArg /\ Exit(ExitHelp)
     \/ taskArg # NoArg /\ DGo("client")
  /\ UNCHANGED <<kube, session, slug, envSet, runs, descVars, lastSet>>

\* NewClient
NewClient ==
  /\ pc = "client" /\ command = "describe"
  /\ \/ Fails("client") /\ HandleError
     \/ DGo("parseint")
  /\ UNCHANGED <<kube, session, slug, envSet, runs, descVars, lastSet>>

\* strconv.ParseInt(args[1], 10, 64)
ParseTaskID ==
  /\ pc = "parseint" /\ command = "describe"
  /\ \/ taskArg = NaN /\ HandleError
     \/ taskArg # NaN /\ DGo("session")
  /\ UNCHANGED <<kube, session, slug, envSet, runs, descVars, lastSet>>

\* session.Read, then RequireProjectID: no project in the session is an error
ReadSession ==
  /\ pc = "session" /\ command = "describe"
  /\ \/ Fails("session") /\ HandleError
     \/ session = None /\ HandleError
     \/ session # None /\ DGo("describe")
  /\ UNCHANGED <<kube, session, slug, envSet, runs, descVars, lastSet>>

\* the batch API's answer for a task of a project
Answer(p, t) == IF t \in Tasks[p] THEN t ELSE ZeroTask

\* bug variant: the zero answer for an unknown task is printed as a task
DescribeTaskNoEmptyCheck ==
  /\ pc = "describe" /\ command = "describe"
  /\ \/ Fails("describe") /\ HandleError /\ UNCHANGED shown
     \/ shown' = <<session, Answer(session, taskArg)>> /\ Exit(0)
  /\ UNCHANGED <<kube, session, slug, envSet, runs, command, taskArg, lastSet>>

\* DescribeTask(projectID, args[0], taskID); a zero answer (no status, TaskID
\* 0) is "Unable to find task"; otherwise the outputter prints it
DescribeTask ==
  /\ pc = "describe" /\ command = "describe"
  /\ \/ Fails("describe") /\ HandleError /\ UNCHANGED shown
     \/ Answer(session, taskArg) = ZeroTask /\ HandleError /\ UNCHANGED shown
     \/ /\ Answer(session, taskArg) # ZeroTask
        /\ shown' = <<session, Answer(session, taskArg)>> /\ Exit(0)
  /\ UNCHANGED <<kube, session, slug, envSet, runs, command, taskArg, lastSet>>

\* a `project set` step, recording the slug when the invocation exits 0
SetStep ==
  /\ command = "set"
  /\ \/ ParseArgs \/ ListProjects \/ KubeConfigPath \/ PopulateKubeConfig
     \/ WriteProject
  /\ lastSet' = IF pc' = "exited" /\ exitCode' = 0 THEN slug ELSE lastSet
  /\ UNCHANGED descVars

TaskNext ==
  \/ Invoke /\ command' = "set" /\ UNCHANGED <<taskArg, shown, lastSet>>
  \/ InvokeDescribe
  \/ (RunParse \/ Exited) /\ UNCHANGED <<descVars, lastSet>>
  \/ SetStep
  \/ DescribeArgs \/ NewClient \/ ParseTaskID \/ ReadSession \/ DescribeTask

TaskSpec == TaskInit /\ [][TaskNext]_allVars

-----------------------------------------------------------------------------
\* ExitZeroMeansProjectSet of ProjectSet, for the invocations of project set:
\* one that exits 0 has written its slug to the kube config and the session
SetExitZeroMeansProjectSet == command = "set" => ExitZeroMeansProjectSet

\* a describe that exits 0 printed a task that exists, of the project the
\* last successful `nerd project set` chose: neither a failed project set
\* since nor the batch API's zero answer for an unknown task shows up as a
\* task of some project
DescribeShowsTaskOfSetProject ==
  command = "describe" /\ pc = "exited" /\ exitCode = 0 =>
    /\ shown[1] = lastSet
    /\ shown[2] \in Tasks[lastSet]
=============================================================================
