\* Two servers, one of which ends an account's other sessions and one with the shipped
\* setting; one of them may stop or crash, and start again.
SPECIFICATION Spec
CONSTANTS
  s1 = s1
  s2 = s2
  s3 = s3
  v1 = v1
  v2 = v2
  Sessions = {s1, s2, s3}
  Accounts = {ann, bob}
  NoAccount = NoAccount
  Servers = {v1, v2}
  ServerOf <- TwoServers
  Exclusive = {v1}
  MaxStops = 1
INVARIANTS
  TypeOK
  StaleRowsExplained
  LoginIsUsable
PROPERTY
  RowsLeaveForAReason
CHECK_DEADLOCK FALSE
