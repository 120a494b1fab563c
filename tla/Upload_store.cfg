\* An upload with a file and one that holds its bytes; two cleaners, two movers
\* and a fault, with the cleaners' fairness.
SPECIFICATION FairSpec
CONSTANTS
  Types = {"tmp", "common"}
  Uploads = {u1, u2}
  InRow = {u2}
  Cleaners = {c1, c2}
  Movers = {p1, p2}
  MaxFaults = 1
INVARIANTS
  TypeOK
  RowHasFile
  NoOrphanFiles
  DeleteMeetsRow
PROPERTIES
  KeptIsKept
  TempIsCleaned
