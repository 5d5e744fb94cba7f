\* A helper takes the only task before the main thread does.
CONSTANTS
  Main = main
  Helpers = {h1}
  Setups <- ClientSetup
  Exclusions = {"Task"}
  NumTasks = 1
SPECIFICATION FairSpec
PROPERTY MainReturns
\* The program ends when the main thread has returned.
CHECK_DEADLOCK FALSE
