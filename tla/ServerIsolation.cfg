SPECIFICATION Spec
CONSTANTS
  c1 = c1
  c2 = c2
  c3 = c3
  Client = {c1, c2, c3}
  MAX_CLIENTS = 2
  BUF_DATA_MAXSIZE = 4
  Scripts <- IsolationScripts
  FileLen = 1
  CgiLen = 1
  NetCap = 2
  ExecAddr = {a1}
  OPEN_MAX = 100
  NULL = NULL
  Faults = {"vanish"}
  Pipelined = FALSE
  OneBytePart = {}
  Steady = {}
INVARIANTS SlotsMatchConnections FreeSlotsAreEmpty RequestIsOwn AnswersInOrder NoUndueClose
PROPERTIES TableSpec PromiseSpec
CHECK_DEADLOCK FALSE
SYMMETRY Symmetry
