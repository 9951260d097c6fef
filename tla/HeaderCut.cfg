SPECIFICATION Spec
CONSTANTS
  c1 = c1
  c2 = c2
  c3 = c3
  Client = {c1}
  MAX_CLIENTS = 1
  BUF_DATA_MAXSIZE = 4
  Scripts <- PipelineScripts
  FileLen = 3
  CgiLen = 2
  NetCap = 2
  ExecAddr = {a1, a2}
  OPEN_MAX = 100
  NULL = NULL
  Faults = {}
  Pipelined = TRUE
  OneBytePart = {}
  Steady = {}
PROPERTY HeaderWaits
CHECK_DEADLOCK FALSE
