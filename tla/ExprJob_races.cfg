\* Scheduler, a manual execution, administrators, a crash and a failing write.
SPECIFICATION Spec
CONSTANTS
  Jobs = {j1}
  ManualThreads = {m1}
  Scheduler = sched
  NoRow = NoRow
  NoJob = NoJob
  Forms <- OneForm
  Instants <- AnyMinute
  Outcomes = {"ok", "fault", "nullfault"}
  MaxEdits = 1
  MaxCrashes = 1
  MaxDbFaults = 0
INVARIANTS
  TypeOK
  MarkedIsOwned
  QuietEditKept
PROPERTY
  LatchLeftByStaleCopies
CHECK_DEADLOCK FALSE
