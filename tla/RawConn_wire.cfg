CONSTANTS
  cli = cli
  srv = srv
  Client4 = Client4
  Conns = {cli, srv}
  bound <- MCbound
  Configs <- MCConfigs
  ServerPort = 67
  ClientPort = 68
  BufSize = 80
  Data <- MCData
  Addrs <- MCAddrs
  Foreign <- MCForeign
  Buffers = {2, 10}
  MaxFrames = 2
SPECIFICATION Spec
INVARIANTS
  ChecksumsVerify

  
  
\* Nothing is sent after MaxFrames frames.
CHECK_DEADLOCK FALSE
