\* Two jobs under the scheduler, with a script or an empty one;
\* liveness with a crash and failing database calls possible.
SPECIFICATION FairSpec
CONSTANTS
  Jobs = {j1, j2}
  ManualThreads = {}
  Scheduler = sched
  NoRow = NoRow
  NoJob = NoJob
  Forms <- ScriptOrNone
  Instants <- AnyMinute
  Outcomes = {"ok", "fault", "nullfault"}
  MaxEdits = 0
  MaxCrashes = 1
  MaxDbFaults = 1
PROPERTIES
  PassEnds
  MarkIsCleared
  ScriptIsLogged
CHECK_DEADLOCK FALSE
