\* Two messages of the peer, one still to come, and an own one still to be sent;
\* the chat is opened twice.
SPECIFICATION Spec
CONSTANTS
  Incoming = {1, 2}
  Own = {3}
  Initially = {1}
  MaxOpens = 2
  MaxMishaps = 1
INVARIANTS TypeOK PendingIsTransient NoticeIsTrue
CHECK_DEADLOCK FALSE
