\* One server, one account, no stops: a login ends the account's other sessions.
SPECIFICATION Spec
CONSTANTS
  s1 = s1
  s2 = s2
  s3 = s3
  v1 = v1
  v2 = v2
  Sessions = {s1, s2, s3}
  Accounts = {ann}
  NoAccount = NoAccount
  Servers = {v1}
  ServerOf <- OneServer
  Exclusive = {v1}
  MaxStops = 0
INVARIANT EarlierRecordsCleared
CHECK_DEADLOCK FALSE
