\* The latch of CHECK_FAULT with the scheduler alone: no edits, no crashes.
SPECIFICATION Spec
CONSTANTS
  Jobs = {j1}
  ManualThreads = {}
  Scheduler = sched
  NoRow = NoRow
  NoJob = NoJob
  Forms <- OneForm
  Instants <- AnyMinute
  Outcomes = {"ok", "fault", "nullfault"}
  MaxEdits = 0
  MaxCrashes = 0
  MaxDbFaults = 0
INVARIANT CheckFaultStops
CHECK_DEADLOCK FALSE
