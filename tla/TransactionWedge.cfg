SPECIFICATION Spec
CONSTANTS
  Absent = Absent
  Unread = Unread
  None = None
  EmptyMeta = empty
  Path = {p1}
  Hash = {h1, h2}
  Meta = {empty}
  EditDuringInstall = FALSE
  LateJournalError = FALSE
PROPERTIES SyncRecovers
