\* A folder, a program that can be its entry, a system and a role for the menu;
\* two commits.
SPECIFICATION Spec
CONSTANTS
  Admins = {d1, d2}
  Roles = {r1}
  Super = {}
  Protected = {r1}
  Perms = {}
  Accounts = {}
  Programs = {f1, g1}
  Folders = {f1}
  Systems = {s1}
  MaxCommits = 3
SYMMETRY Threads
INVARIANT
  TargetsExist
CHECK_DEADLOCK FALSE
