SPECIFICATION Spec
CONSTANTS
  Absent = Absent
  Unread = Unread
  None = None
  Item = {a}
  Path = {p, q}
  Hash = {h1, h2}
  Clash = {{p, q}}
  MaxTime = 1
  LocalUse = "never"
PROPERTIES LossIsMarked
