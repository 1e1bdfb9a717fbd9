\* nerd login with no failure at all: the browser's request may still reach
\* the address before the spawnServer goroutine listens on it.
CONSTANTS
  OwnState = OwnState
  OtherState = OtherState
  GoodCode = GoodCode
  StrayCode = StrayCode
  Strays = {}
  None = None
  Faults = {}
SPECIFICATION Spec
CHECK_DEADLOCK FALSE
PROPERTY LoginCompletes
