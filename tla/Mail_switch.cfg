\* One mail, and a switch that is turned on.
SPECIFICATION FairSpec
CONSTANTS
  Mails = {m1}
  Retained = {}
  Undeliverable = {}
  QuartzThreads = {q1, q2}
  Slots = {1, 2}
  Rety = 2
  PageSize = 1
  MaxSeq = 2
  MaxDay = 0
  MonthOf <- OneDay
  MaxOverlaps = 0
  MaxFaults = 0
  MaxCrashes = 0
  MaxToggles = 1
PROPERTY SwitchTakesEffect
CHECK_DEADLOCK FALSE
