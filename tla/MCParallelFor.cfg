\* Two helpers: extra threads, threads of the client that may never come, or both.
CONSTANTS
  Main = main
  Helpers = {h1, h2}
  Setups <- AllSetups
  Exclusions = {"None", "Task", "CreateContext"}
  NumTasks = 3
SPECIFICATION FairSpec
INVARIANTS CompletedOncePerClaim ExclusionRespected ReturnsOutcome TasksOver
PROPERTY ReturnsUngated
\* The program ends when the main thread has returned.
CHECK_DEADLOCK FALSE
