SPECIFICATION PruneSpec
CONSTANTS
  Absent = Absent
  Unread = Unread
  None = None
  Item = {a}
  Path = {p, q}
  Hash = {h1, h2}
  Clash = {}
  MaxTime = 1
  LocalUse = "always"
SYMMETRY Symmetry
INVARIANTS PruneTypeOK OwnedSurvives
PROPERTIES PruneSparesEdits SyncStillRight CommitAllowed OnlyAcceptedReplaced
