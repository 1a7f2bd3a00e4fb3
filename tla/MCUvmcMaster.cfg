SPECIFICATION Spec
CONSTANTS
  v1 = v1
  v2 = v2
  Clients = {c1, c2}
  Values <- MCValues
  NoValue = none
  Refused = refused
  Capacity = 1
  Reply <- MCReply
  Uses <- MCMasterUses
PROPERTIES PutReachesObject
CHECK_DEADLOCK FALSE
