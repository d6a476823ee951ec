SPECIFICATION IncrementalSpec
CONSTANTS
  Absent = Absent
  Unread = Unread
  None = None
  Item = {a, b}
  Path = {p}
  Hash = {h1, h2}
  Clash = {}
  MaxTime = 1
  LocalUse = "once"
PROPERTIES Converges
