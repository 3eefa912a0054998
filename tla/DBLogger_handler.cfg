CONSTANTS
  Loggers = {l1, l2}
  Stoppers = {s1, s2}
  Levels = {0, 4}
  MinStdout = 0
  MinDB = 4
  bufferSize = 2
  MaxCalls = 2
SPECIFICATION WriterSpec
CHECK_DEADLOCK FALSE
INVARIANTS
  DrainedOnDone
  AtMostOnce
  OnlyTheTailIsLost
  CallersNeverBlock
  Inductive
PROPERTIES
  StopEndsWriter
  AcceptedIsAttempted
