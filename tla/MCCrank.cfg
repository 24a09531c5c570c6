SPECIFICATION FairSpec
CONSTANTS
  a = a
  b = b
  w = w
  Accounts = {a, b}
  Events <- MCEvents
  MAX_EVENTS_PER_TX = 3
  batch_size = 2
  chunk_size = 1
  MaxEvents = 3
  MaxTakes = 1
  MaxFaults = 1
  MaxTasks = 1
INVARIANT PendingIsTracked
PROPERTIES EventsAreConsumed ConsumedIsSettled
CHECK_DEADLOCK FALSE
