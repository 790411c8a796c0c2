SPECIFICATION FairSpec
CONSTANTS
  NumWorkers = 2
  Launches <- TwoLaunches
  Pool = 2
  Callers = {c1}
  Ops = {"start", "start_running", "pause", "restart", "replace", "reconfigure", "shutdown"}
  ScheduleSet = TRUE
  MaxFailures = 1
  MaxEvents = 2
INVARIANTS ProcessesKnown VramWithinPool ShutdownStopsAll
PROPERTY Resumes
