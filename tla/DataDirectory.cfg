CONSTANTS
  None = None
  Daemons = {d1, d2}
  Migrations = {m1, m2}
  Sources = {s1}
  Blocked = {}
  Confirmed = {}
  MaxFaults = 2
SPECIFICATION CheckedSpec
INVARIANTS Authority ManifestIsLast
PROPERTY LoneProcessSucceeds
CHECK_DEADLOCK FALSE
