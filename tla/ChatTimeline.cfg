\* Pages of one row, three messages before the chat is opened and one after.
SPECIFICATION Spec
CONSTANTS
  PageSize = 1
  Initially = 3
  MaxMessages = 4
  MaxErasures = 2
  MaxOutages = 1
  MaxFailures = 1
INVARIANTS TypeOK SettledIsTrue NoResurrection
CHECK_DEADLOCK FALSE
