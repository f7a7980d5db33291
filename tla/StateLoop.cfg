\* Two event threads and a client on a queue of one; a backlog of two.
CONSTANTS
  Watchers = {w1, w2}
  Clients = {c1}
  Subscribers = {s1}
  QueueCap = 1
  Backlog = 2
  MaxHangs = 1
  MaySignal = TRUE
  Wake = Wake
  None = None
SPECIFICATION FairSpec
\* After a clean exit nothing is left to run.
CHECK_DEADLOCK FALSE
INVARIANT
  WholeStream
PROPERTIES
  EventsObserved
  Answered
  ComesBack
