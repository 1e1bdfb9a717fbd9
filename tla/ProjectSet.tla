----------------------------- MODULE ProjectSet -----------------------------
(***************************************************************************)
(* `nerd project set <slug>` (command/project_set.go) run by command.Run   *)
(* (command/command.go), invoked again and again against the same two     *)
(* files: the kube config, which PopulateKubeConfigFromEnv points at the  *)
(* project, and the session, which WriteProject records it in.  Every     *)
(* remote or file call may fail; HandleError ends the invocation.         *)
(***************************************************************************)
EXTENDS Integers

CONSTANTS
  Slugs,     \* project slugs a user may type
  Listed,    \* the projects ListProjects returns
  Faults,    \* calls that may fail: "flags", "url", "list", "home",
             \* "kube", "write"
  MaxRuns,   \* invocations explored
  None, NoArg

ExitHelp == -18511         \* cli.RunResultHelp
ExitHandleError == -1      \* the process ends in HandleError

VARIABLES
  kube,      \* project of the kube config's current context
  session,   \* project recorded in the session
  pc,        \* "idle" between invocations, then the step of DoRun
  slug,      \* args[0] of the current invocation, or NoArg
  envSet,    \* KUBECONFIG is set
  exitCode,
  runs

vars == <<kube, session, pc, slug, envSet, exitCode, runs>>

Fails(call) == call \in Faults

Exit(code) == pc' = "exited" /\ exitCode' = code

HandleError == Exit(ExitHandleError)

Init ==
  /\ kube = None /\ session = None
  /\ pc = "idle" /\ slug = NoArg /\ envSet = FALSE /\ exitCode = 0
  /\ runs = 0

\* the user runs the command, with or without a slug and KUBECONFIG
Invoke ==
  /\ pc = "idle" /\ runs < MaxRuns
  /\ \E s \in Slugs \cup {NoArg}, e \in BOOLEAN :
       slug' = s /\ envSet' = e
  /\ pc' = "parse" /\ runs' = runs + 1
  /\ UNCHANGED <<kube, session, exitCode>>

\* command.Run: a flag parse error is exit code 127
RunParse ==
  /\ pc = "parse"
  /\ \/ Fails("flags") /\ Exit(127)
     \/ pc' = "args" /\ UNCHANGED exitCode
  /\ UNCHANGED <<kube, session, slug, envSet, runs>>

\* errShowHelp when args is empty; a bad auth endpoint is returned, exit 1
ParseArgs ==
  /\ pc = "args"
  /\ \/ slug = NoArg /\ Exit(ExitHelp)
     \/ slug # NoArg /\ Fails("url") /\ Exit(1)
     \/ slug # NoArg /\ pc' = "list" /\ UNCHANGED exitCode
  /\ UNCHANGED <<kube, session, slug, envSet, runs>>

\* ListProjects, then the slug must be one of them
ListProjects ==
  /\ pc = "list"
  /\ \/ Fails("list") /\ HandleError
     \/ slug \notin Listed /\ HandleError
     \/ slug \in Listed /\ pc' = "kube" /\ UNCHANGED exitCode
  /\ UNCHANGED <<kube, session, slug, envSet, runs>>

\* the kube config path: $KUBECONFIG/config, or ~/.kube/config
KubeConfigPath ==
  /\ pc = "kube"
  /\ \/ ~envSet /\ Fails("home") /\ HandleError
     \/ pc' = "populate" /\ UNCHANGED exitCode
  /\ UNCHANGED <<kube, session, slug, envSet, runs>>

PopulateKubeConfig ==
  /\ pc = "populate"
  /\ \/ Fails("kube") /\ HandleError /\ UNCHANGED kube
     \/ kube' = slug /\ pc' = "write" /\ UNCHANGED exitCode
  /\ UNCHANGED <<session, slug, envSet, runs>>

\* bug variant: the session write error is dropped
WriteProjectIgnoreErr ==
  /\ pc = "write"
  /\ \/ Fails("write") /\ UNCHANGED session
     \/ session' = slug
  /\ Exit(0)
  /\ UNCHANGED <<kube, slug, envSet, runs>>

WriteProject ==
  /\ pc = "write"
  /\ \/ Fails("write") /\ HandleError /\ UNCHANGED session
     \/ session' = slug /\ Exit(0)
  /\ UNCHANGED <<kube, slug, envSet, runs>>

\* the process is gone; the files stay for the next invocation
Exited ==
  /\ pc = "exited" /\ pc' = "idle"
  /\ UNCHANGED <<kube, session, slug, envSet, exitCode, runs>>

Next ==
  \/ Invoke \/ RunParse \/ ParseArgs \/ ListProjects \/ KubeConfigPath
  \/ PopulateKubeConfig \/ WriteProject \/ Exited

Spec == Init /\ [][Next]_vars

-----------------------------------------------------------------------------
\* an invocation that exits 0 has set the project in both the kube config
\* and the session, whatever earlier invocations left behind
ExitZeroMeansProjectSet ==
  pc = "exited" /\ exitCode = 0 => kube = slug /\ session = slug

\* between invocations, kubectl's current project (the kube config) and
\* nerd's (the session) are the same: the command "sets the current working
\* project" or leaves it alone
KubeConfigAgreesWithSession == pc = "idle" => kube = session
=============================================================================
