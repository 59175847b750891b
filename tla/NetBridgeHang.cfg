SPECIFICATION FairSpec
CONSTANTS
  MaxReq = 1
  MaxFd = 1
  MaxIdle = 1
  WriteLen = 1
  Topics = {"host"}
PROPERTIES
  EveryRequestAnswered
