SPECIFICATION ConsumerSpec
CONSTANTS
  Absent = Absent
  Unread = Unread
  None = None
  Torn = Torn
  Pruner = Pruner
  Path = {p, q, r}
  Hash = {h1}
  Clash = {{p, q}}
  Importer = {i, j}
  MaxGeneration = 2
  LocalUse = FALSE
INVARIANTS RestIsOneGeneration
PROPERTIES DeliveryRepairs
