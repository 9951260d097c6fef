SPECIFICATION Spec
CONSTANTS
  c1 = c1
  c2 = c2
  c3 = c3
  Client = {c1, c2}
  MAX_CLIENTS = 2
  BUF_DATA_MAXSIZE = 4
  Scripts <- FaultScripts
  FileLen = 3
  CgiLen = 1
  NetCap = 2
  ExecAddr = {a1, a2}
  OPEN_MAX = 7
  NULL = NULL
  Faults = {"vanish", "shutdown", "childfail", "sigint", "sigterm"}
  Pipelined = FALSE
  OneBytePart = {}
  Steady = {}
INVARIANTS TypeOK CodeAsserts SlotsMatchConnections StreamsAccounted
PROPERTIES TableSpec
CHECK_DEADLOCK FALSE
