SPECIFICATION CmdFairSpec
CONSTANTS
  Clients = {c1, c2}
  Wanted <- MCWanted
  Unknown = unknown
  MaxRequests = 3
INVARIANTS RequestsHaveWaiters WokenWhenMet
PROPERTIES WaitersReturn CommandsStart
CHECK_DEADLOCK FALSE
