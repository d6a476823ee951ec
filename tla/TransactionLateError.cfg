SPECIFICATION Spec
CONSTANTS
  Absent = Absent
  Unread = Unread
  None = None
  EmptyMeta = empty
  Path = {p1, p2}
  Hash = {h1, h2}
  Meta = {empty}
  EditDuringInstall = FALSE
  LateJournalError = TRUE
INVARIANTS JournalRecoverable
