\* Two mails, one of them retained; overlapping runs, a crash and a failed update or lost answer.
SPECIFICATION FairSpec
CONSTANTS
  Mails = {m1, m2}
  Retained = {m2}
  Undeliverable = {}
  QuartzThreads = {q1}
  Slots = {1, 2}
  Rety = 2
  PageSize = 1
  MaxSeq = 1
  MaxDay = 2
  MonthOf <- TwoDaysAndNext
  MaxOverlaps = 1
  MaxFaults = 1
  MaxCrashes = 1
  MaxToggles = 1
INVARIANTS
  TypeOK
  NoneClashAlone
  CopiesAccounted
PROPERTIES
  ImplementsOutbox
  IsDelivered
CHECK_DEADLOCK FALSE
