\* Two conversations, two loads and passes; three changes of the server, or
\* two and one mishap, which may be the outage.
SPECIFICATION HomeSpec
CONSTANTS
  c1 = c1
  c2 = c2
  l1 = l1
  l2 = l2
  Conversations <- MCConversations
  Starts <- MCStarts
  Slots <- MCSlots
  MaxPasses = 2
  DrainCap = 1
  MaxMessages = 2
  MaxChanges = 3
  MaxOutages = 1
  MaxMishaps = 1
INVARIANTS HomeTypeOK SettledIsTrue UnreadIsExact
CHECK_DEADLOCK FALSE
