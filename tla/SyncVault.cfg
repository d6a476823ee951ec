SPECIFICATION Spec
CONSTANTS
  Absent = Absent
  Unread = Unread
  None = None
  Item = {a, b}
  Path = {p, q}
  Hash = {h1, h2}
  Clash = {}
  MaxTime = 1
  LocalUse = "never"
SYMMETRY Symmetry
PROPERTIES ImplementsMirror RecordMatchesVault RetainedKept
