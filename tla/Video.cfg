\* Every kind of reader, started three times and interrupted.
CONSTANTS
  Length = 2
  MaxStarts = 3
  MaxCalls = 2
  Configs <- AllReaders
SPECIFICATION ReaderFairSpec
CHECK_DEADLOCK FALSE
INVARIANTS FlushEndsThePlay NumbersGrow FlushBeforeRestart
PROPERTIES PlaysToTheEnd
