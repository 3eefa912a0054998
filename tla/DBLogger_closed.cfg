CONSTANTS
  Loggers = {l1}
  Stoppers = {s1, s2}
  Levels = {0, 4}
  MinStdout = 0
  MinDB = 4
  bufferSize = 1
  MaxCalls = 1
SPECIFICATION Spec
CHECK_DEADLOCK FALSE
INVARIANTS
  NoSendOnClosed
