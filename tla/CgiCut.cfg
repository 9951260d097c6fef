SPECIFICATION Spec
CONSTANTS
  c1 = c1
  c2 = c2
  c3 = c3
  Client = {c1}
  MAX_CLIENTS = 1
  BUF_DATA_MAXSIZE = 4
  Scripts <- CutScripts
  FileLen = 2
  CgiLen = 2
  NetCap = 2
  ExecAddr = {a1, a2}
  OPEN_MAX = 100
  NULL = NULL
  Faults = {}
  Pipelined = FALSE
  OneBytePart = {}
  Steady = {}
INVARIANT CgiOutputWhole
CHECK_DEADLOCK FALSE
