------------------------------ MODULE LoginFlow ------------------------------
(***************************************************************************)
(* `nerd login` (command/login.go, command/command.go): command.Run parses *)
(* the flags and calls Login.DoRun, which starts spawnServer in a          *)
(* goroutine, opens the browser on the local /oauth page and waits for one *)
(* response on the unbuffered doneCh.  The local server's /oauth handler   *)
(* redirects the browser to the authorize endpoint with the request's      *)
(* state; the authorization server sends it back to /oauth/callback with a *)
(* code; the callback handler checks the state against randomState and     *)
(* sends the code (or an error) on doneCh.  DoRun exchanges the code for   *)
(* tokens and writes them to the config.                                   *)
(*                                                                         *)
(* HandleError is not in the sources.  Every call in DoRun discards its    *)
(* result and the code after it uses values that are nil on the error     *)
(* path, so it is modelled as ending the process with a non-zero code; the *)
(* process's other goroutines end with it.                                 *)
(***************************************************************************)
EXTENDS Integers

CONSTANTS
  OwnState,    \* randomState of this DoRun (a model value)
  OtherState,  \* the state of a callback not started by this DoRun
  GoodCode,    \* the code the authorization server issues to this flow
  StrayCode,   \* the code carried by such a callback
  Strays,      \* callback requests this DoRun did not start (model values)
  None,
  Faults       \* failures the environment may produce, each at most once

FaultKinds == {"base", "args", "conf", "url", "browser", "port", "reload", "creds",
               "write"}

ASSUME Faults \subseteq FaultKinds

ExitHandleError == -1   \* HandleError exits non-zero; its code is not in the sources
ExitFactoryError == 1   \* mitchellh/cli's CLI.Run returns 1 when a factory fails

VARIABLES
  injected,
  runPc, exitCode,    \* command.Run and the process
  drPc, got,          \* Login.DoRun and oauthResponse.code
  srvPc,              \* the spawnServer goroutine
  brPc, brState,      \* the browser and the state its URL carries
  senders,            \* goroutines blocked sending on doneCh, by the
                      \* response{err, code} they send and who sends it
  strayed,            \* the stray requests that reached the server
  tokens              \* the access token in the config file

vars == <<injected, runPc, exitCode, drPc, got, srvPc, brPc, brState,
          senders, strayed, tokens>>

Inject(f) == f \in Faults \ injected /\ injected' = injected \cup {f}

Alive == runPc # "exited"

Exit(code) == runPc' = "exited" /\ exitCode' = code

HandleError == Exit(ExitHandleError)

Init ==
  /\ injected = {}
  /\ runPc = "factory" /\ exitCode = None
  /\ drPc = "start" /\ got = None
  /\ srvPc = "idle"
  /\ brPc = "closed" /\ brState = None
  /\ senders = {} /\ strayed = {}
  /\ tokens = None

-----------------------------------------------------------------------------
(* LoginFactory and command.Run *)

\* baseCommand: parsing os.Args for the global options, or finding the
\* default config location when no --config is given, fails; the factory
\* returns the error and no command runs
LoginFactory ==
  /\ runPc = "factory"
  /\ \/ Inject("base") /\ Exit(ExitFactoryError)
     \/ UNCHANGED <<injected, exitCode>> /\ runPc' = "parse"
  /\ UNCHANGED <<strayed, drPc, got, srvPc, brPc, brState, senders, tokens>>

RunParse ==
  /\ runPc = "parse"
  /\ \/ Inject("args") /\ Exit(127)
     \/ UNCHANGED <<injected, exitCode>> /\ runPc' = "dorun"
  /\ UNCHANGED <<strayed, drPc, got, srvPc, brPc, brState, senders, tokens>>

\* DoRun returned nil: Run returns 0
RunReturn ==
  /\ runPc = "dorun" /\ drPc = "done"
  /\ Exit(0)
  /\ UNCHANGED <<injected, drPc, got, srvPc, brPc, brState, senders, strayed,
                 tokens>>

-----------------------------------------------------------------------------
(* Login.DoRun *)

\* read the config, parse the auth endpoint, randomString(32), make doneCh,
\* go spawnServer
DoRunStart ==
  /\ runPc = "dorun" /\ drPc = "start"
  /\ \/ (Inject("conf") \/ Inject("url")) /\ HandleError
        /\ UNCHANGED <<drPc, srvPc>>
     \/ UNCHANGED <<injected, runPc, exitCode>>
        /\ drPc' = "open" /\ srvPc' = "listen"
  /\ UNCHANGED <<strayed, got, brPc, brState, senders, tokens>>

\* open.Run(http://<local>/oauth?state=randomState)
OpenBrowser ==
  /\ runPc = "dorun" /\ drPc = "open"
  /\ \/ Inject("browser") /\ HandleError /\ UNCHANGED <<drPc, brPc, brState>>
     \/ UNCHANGED <<injected, runPc, exitCode>>
        /\ brPc' = "opened" /\ brState' = OwnState /\ drPc' = "wait"
  /\ UNCHANGED <<strayed, got, srvPc, senders, tokens>>

\* oauthResponse := <-doneCh, then its err
Receive ==
  /\ runPc = "dorun" /\ drPc = "wait"
  /\ \E r \in senders :
       /\ senders' = senders \ {r}
       /\ \/ r.err /\ HandleError /\ UNCHANGED <<drPc, got>>
          \/ ~r.err /\ got' = r.code /\ drPc' = "creds"
             /\ UNCHANGED <<runPc, exitCode>>
  /\ UNCHANGED <<strayed, injected, srvPc, brPc, brState, tokens>>

\* authOpsClient.GetOAuthCredentials(oauthResponse.code, ...)
GetCredentials ==
  /\ runPc = "dorun" /\ drPc = "creds"
  /\ \/ Inject("creds") /\ HandleError /\ UNCHANGED drPc
     \/ UNCHANGED <<injected, runPc, exitCode>> /\ drPc' = "write"
  /\ UNCHANGED <<strayed, got, srvPc, brPc, brState, senders, tokens>>

(* DoRun's deferred svr.Close(): a listening server stops serving. *)
CloseServer == srvPc' = IF srvPc = "serving" THEN "closed" ELSE srvPc

\* Bug variant of WriteTokens: the error of conf.WriteOAuth is dropped.
WriteTokensIgnoreErr ==
  /\ runPc = "dorun" /\ drPc = "write"
  /\ \/ Inject("write") /\ UNCHANGED tokens
     \/ UNCHANGED injected /\ tokens' = got
  /\ drPc' = "done" /\ CloseServer
  /\ UNCHANGED <<strayed, runPc, exitCode, got, brPc, brState, senders>>

\* conf.WriteOAuth(out.AccessToken, ...), then return nil, which runs the
\* deferred svr.Close()
WriteTokens ==
  /\ runPc = "dorun" /\ drPc = "write"
  /\ \/ Inject("write") /\ HandleError /\ UNCHANGED <<drPc, tokens, srvPc>>
     \/ UNCHANGED <<injected, runPc, exitCode>>
        /\ tokens' = got /\ drPc' = "done" /\ CloseServer
  /\ UNCHANGED <<strayed, got, brPc, brState, senders>>

-----------------------------------------------------------------------------
(* spawnServer and its handlers.  A handler's send on doneCh blocks until  *)
(* DoRun receives it; a blocked sender is an element of `senders`.         *)

\* Bug variant of ListenAndServe: its error is not sent on doneCh.
ListenAndServeNoSend ==
  /\ Alive /\ srvPc = "listen"
  /\ \/ UNCHANGED injected /\ srvPc' = "serving"
     \/ Inject("port") /\ srvPc' = "failed"
  /\ UNCHANGED <<strayed, runPc, exitCode, drPc, got, brPc, brState, senders,
                 tokens>>

\* svr.ListenAndServe(): serve, or fail (the address is taken) and send
\* the error on doneCh
ListenAndServe ==
  /\ Alive /\ srvPc = "listen"
  /\ \/ UNCHANGED <<injected, senders>> /\ srvPc' = "serving"
     \/ Inject("port") /\ srvPc' = "failed"
        /\ senders' = senders \cup
                        {[from |-> "server", err |-> TRUE, code |-> None]}
  /\ UNCHANGED <<strayed, runPc, exitCode, drPc, got, brPc, brState, tokens>>

\* after svr.Close(), ListenAndServe returns ErrServerClosed and the
\* goroutine sends it on doneCh, where nobody receives any more
ServerClosed ==
  /\ Alive /\ srvPc = "closed"
  /\ srvPc' = "failed"
  /\ senders' = senders \cup {[from |-> "server", err |-> TRUE, code |-> None]}
  /\ UNCHANGED <<strayed, injected, runPc, exitCode, drPc, got, brPc, brState,
                 tokens>>

\* Bug variant of Callback: the state is not compared with randomState.
CallbackNoStateCheck(from, st, cd) ==
  senders' = senders \cup {[from |-> from, err |-> FALSE, code |-> cd]}

\* the /oauth/callback handler for a request with state st and code cd
Callback(from, st, cd) ==
  \/ st # OwnState
     /\ senders' = senders \cup {[from |-> from, err |-> TRUE, code |-> None]}
  \/ st = OwnState
     /\ senders' = senders \cup {[from |-> from, err |-> FALSE, code |-> cd]}

\* the browser's GET /oauth?state=...: the /oauth handler redirects it to
\* the authorize endpoint with the request's state, or the connection is
\* refused when the server is not listening
BrowserOAuth ==
  /\ Alive /\ brPc = "opened"
  /\ \/ srvPc = "serving" /\ brPc' = "auth"
     \/ srvPc # "serving" /\ brPc' = "refused"
  /\ UNCHANGED <<strayed, injected, runPc, exitCode, drPc, got, srvPc, brState,
                 senders, tokens>>

\* the user authorizes; the authorization server redirects the browser to
\* /oauth/callback with the state it was given and a code for this flow.
\* The server that served /oauth still serves: it stops only when DoRun
\* returns, which needs this callback.
BrowserCallback ==
  /\ Alive /\ brPc = "auth"
  /\ brPc' = "done"
  /\ Callback("browser", brState, GoodCode)
  /\ UNCHANGED <<strayed, injected, runPc, exitCode, drPc, got, srvPc, brState,
                 tokens>>

\* the callback page hangs until DoRun receives the handler's send; the
\* user reloads it and the same callback request reaches the server again
BrowserReload ==
  /\ Alive /\ brPc = "done" /\ srvPc = "serving"
  /\ Inject("reload")
  /\ Callback("reload", brState, GoodCode)
  /\ UNCHANGED <<strayed, runPc, exitCode, drPc, got, srvPc, brPc, brState,
                 tokens>>

\* a callback request this DoRun did not start (another tab, an old login,
\* a forged link) reaches the local server
StrayCallback ==
  /\ Alive /\ srvPc = "serving"
  /\ \E q \in Strays \ strayed :
       /\ strayed' = strayed \cup {q}
       /\ Callback(q, OtherState, StrayCode)
  /\ UNCHANGED <<injected, runPc, exitCode, drPc, got, srvPc, brPc, brState,
                 tokens>>

\* the process has exited; nothing of it runs any more
Exited == runPc = "exited" /\ UNCHANGED vars

Next ==
  \/ LoginFactory \/ RunParse \/ RunReturn
  \/ DoRunStart \/ OpenBrowser \/ Receive \/ GetCredentials \/ WriteTokens
  \/ ListenAndServe \/ ServerClosed
  \/ BrowserOAuth \/ BrowserCallback \/ BrowserReload \/ StrayCallback
  \/ Exited

\* Every goroutine of the process runs while it can; the user completes the
\* authorization once the page is shown.  No fairness for stray requests.
Fairness ==
  /\ WF_vars(LoginFactory) /\ WF_vars(RunParse) /\ WF_vars(RunReturn)
  /\ WF_vars(DoRunStart) /\ WF_vars(OpenBrowser) /\ WF_vars(Receive)
  /\ WF_vars(GetCredentials) /\ WF_vars(WriteTokens)
  /\ WF_vars(ListenAndServe) /\ WF_vars(BrowserOAuth)
  /\ WF_vars(BrowserCallback)

Spec == Init /\ [][Next]_vars /\ Fairness

-----------------------------------------------------------------------------
\* the callback handler's state check: whatever request reaches the local
\* server first, the token DoRun writes is the one for the code of the
\* callback that came back through this DoRun's own browser flow
TokensOnlyFromOwnState ==
  tokens # None => tokens = GoodCode /\ brPc = "done"

\* command.Run's exit code tells the truth: `nerd login` exits 0 exactly when
\* the tokens were written (every failure of DoRun goes through HandleError)
ExitZeroMeansLoggedIn ==
  runPc = "exited" => (exitCode = 0 <=> tokens # None)

\* DoRun never waits for good on doneCh: every failure of the local server
\* reaches it, so the process exits (with a token or an error), the one
\* exception being a browser request refused before the server listened
LoginTerminates ==
  <>(runPc = "exited" \/ (brPc = "refused" /\ srvPc = "serving"))

\* `nerd login` always ends, however the browser's request and the local
\* server's start interleave
LoginCompletes == <>(runPc = "exited")
=============================================================================
