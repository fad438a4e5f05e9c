SPECIFICATION FairSpec
CONSTANTS
  Keys <- Claimed
  Loops = {loop1, loop2}
  Receiver = receiver
  Deliveries = {d1}
  MaxEvents = 1
INVARIANT HumansAreAskedOnce
PROPERTIES
  SettledByTheProvider
  LooseEndsAreTied
