\* nerd login with every failure it handles, each at most once: the
\* factory's baseCommand, flag parse,
\* config read, endpoint parse, browser launch, address in use, a reload of
\* the callback page, the token exchange and the config write; and two
\* stray callback requests.  A browser request refused because the server
\* is not listening leaves DoRun blocked on doneCh for good, a real stop:
\* deadlock is not checked and LoginTerminates names that state.
CONSTANTS
  OwnState = OwnState
  OtherState = OtherState
  GoodCode = GoodCode
  StrayCode = StrayCode
  Strays = {q1, q2}
  None = None
  Faults = {"base", "args", "conf", "url", "browser", "port", "reload", "creds",
            "write"}
SPECIFICATION Spec
CHECK_DEADLOCK FALSE
INVARIANT TokensOnlyFromOwnState
INVARIANT ExitZeroMeansLoggedIn
PROPERTY LoginTerminates
