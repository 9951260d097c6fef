SPECIFICATION FairSpec
CONSTANTS
  c1 = c1
  c2 = c2
  c3 = c3
  Client = {c1, c2}
  MAX_CLIENTS = 2
  BUF_DATA_MAXSIZE = 5
  Scripts <- OneScripts
  FileLen = 6
  CgiLen = 6
  NetCap = 3
  ExecAddr = {a1}
  OPEN_MAX = 100
  NULL = NULL
  Faults = {}
  Pipelined = FALSE
  OneBytePart = {}
  Steady = {c1}
INVARIANTS CodeAsserts AnswersInOrder ChildInputWhole ExecutorMatchesTask
PROPERTIES EveryRequestAnswered PassEnds PromiseSpec
CHECK_DEADLOCK FALSE
