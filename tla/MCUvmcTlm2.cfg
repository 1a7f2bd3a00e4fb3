SPECIFICATION FairSpec
CONSTANTS
  b1 = b1
  b2 = b2
  Bytes <- MCBytes
  Clients = {c1, c2, c3}
  Payloads <- MCPayloads
  NoDelay = nodelay
  NoClient = nobody
  Latency <- MCLatency
  MaxDelay = 2
  Garbage <- MCGarbage
INVARIANTS RequestArrives OwnArrayKept
PROPERTIES ImplementsRemoteMemory TransportsReturn
CHECK_DEADLOCK FALSE
