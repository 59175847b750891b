SPECIFICATION FairSpec
CONSTANTS
  MaxReq = 4
  MaxFd = 2
  MaxIdle = 1
  WriteLen = 2
  Topics = {"dial", "listen", "probe", "accept", "read", "write", "close", "host"}
INVARIANTS
  RequestsConsistent
PROPERTIES
  BridgePromise
  SocketRequestAnswered
