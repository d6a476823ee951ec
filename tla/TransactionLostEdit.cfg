SPECIFICATION Spec
CONSTANTS
  Absent = Absent
  Unread = Unread
  None = None
  EmptyMeta = empty
  Path = {p1}
  Hash = {h1, h2, h3}
  Meta = {empty}
  EditDuringInstall = TRUE
  LateJournalError = FALSE
PROPERTIES OverwriteOnlyObserved
