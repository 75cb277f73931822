\* Two messages, two drains in flight, any two mishaps; the same graph for the
\* safety of the queue and for its draining.
SPECIFICATION FairSpec
CONSTANTS
  Messages = {1, 2}
  Slots = {d1, d2}
  MaxMishaps = 2
INVARIANTS TypeOK NoneLost SentOncePerDoubt StrictFifo
PROPERTY QueueDrains
CHECK_DEADLOCK FALSE
