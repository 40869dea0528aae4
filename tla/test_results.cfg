SPECIFICATION Spec
CONSTANTS
  Tests <- MCTests
  Plans <- MCPlans
  Versions = {12, 14}
  RustWords = {"ok", "ignored", "FAILED", "other"}
  Statuses = {0, 1, 77, 99}
  MaxLines = 5
  MaxEnding = 2
INVARIANTS
  StreamIsUnderstood
  GoodIsEarned
  PassingIsComplete
PROPERTIES
  KilledStaysKilled
