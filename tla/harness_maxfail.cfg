\* --repeat=2 --maxfail=1 of two parallel tests, with one Ctrl-C or SIGTERM
CONSTANTS
  N = 4
  Serial = {}
  Parsed = {1, 3}
  NoCmd = {}
  Limited = {2, 4}
  Forking = {}
  NumProcesses = 2
  MaxFail = 1
  Repeating = TRUE
  Outcomes = {"OK", "FAIL", "UNEXPECTEDPASS"}
  MaxSignals = 1
SPECIFICATION Spec
INVARIANTS
  ExitCodeExplained
  AllReported
