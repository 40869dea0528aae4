\* A test with a timeout, one without a command, one without a timeout and a
\* serial one; programs may hang, fork and ignore SIGTERM; up to three signals
CONSTANTS
  N = 4
  Serial = {4}
  Parsed = {1}
  NoCmd = {2}
  Limited = {1}
  Forking = {3}
  NumProcesses = 2
  MaxFail = 0
  Repeating = FALSE
  Outcomes = {"OK"}
  MaxSignals = 3
SPECIFICATION FairSpec
INVARIANTS
  TypeOK
  SlotsConserved
  SerialAlone
  RunningIsPrefix
  RecordedIsReaped
PROPERTIES
  LongestRunningFirst
  NoSpawnOnceInterrupted
  RunEnds
