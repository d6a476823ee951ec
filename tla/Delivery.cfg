SPECIFICATION Spec
CONSTANTS
  Absent = Absent
  Unread = Unread
  None = None
  Torn = Torn
  Path = {p, q}
  Hash = {h1, h2}
  Clash = {}
  Importer = {i, j}
  MaxGeneration = 2
  LocalUse = TRUE
SYMMETRY Symmetry
INVARIANTS TypeOK OneGeneration
PROPERTIES ImplementsMirror OnlyAcceptedReplaced SourceLossRetained
