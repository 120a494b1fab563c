\* One resource and its re-creation, two archives, two requests and a fault.
SPECIFICATION Spec
CONSTANTS
  Resources = {r1}
  Archives = {c1, c2}
  Admins = {a1, a2}
  None = None
  MaxSaves = 2
  MaxDeployments = 3
  MaxStarts = 1
  MaxFaults = 1
SYMMETRY Symmetry
VIEW View
CONSTRAINT AllSound
INVARIANTS
  TypeOK
  ContentKept
  NamedIsLive
  LiveIsNamed
PROPERTY
  ImplementsStore
CHECK_DEADLOCK FALSE
