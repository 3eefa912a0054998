CONSTANTS
  Loggers = {h1, w, m}
  worker = w
  Stoppers = {m}
  main = m
  Levels = {4}
  MinStdout = 0
  MinDB = 4
  bufferSize = 1
  MaxCalls = 4
  MaxLogs = 1
SPECIFICATION LifeSpec
CHECK_DEADLOCK FALSE
INVARIANTS
  DrainBeforeClose
  CleanExitIsComplete
  LifeInductive
PROPERTIES
  SignalEnds
  RecordsSurviveShutdown
