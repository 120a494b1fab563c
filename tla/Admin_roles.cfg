\* Two roles, one of them protected, a permission and an account; three commits.
\* Nobody goes on after the last commit, which is no deadlock.
SPECIFICATION Spec
CONSTANTS
  Admins = {d1, d2}
  Roles = {r1, r2}
  Super = {}
  Protected = {r2}
  Perms = {p1}
  Accounts = {a1}
  Programs = {}
  Folders = {}
  Systems = {}
  MaxCommits = 4
SYMMETRY Threads
INVARIANTS
  TypeOK
  TargetsExist
  NoMixture
PROPERTY LinksGoTogether
CHECK_DEADLOCK FALSE
