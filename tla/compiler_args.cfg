SPECIFICATION Spec
CONSTANTS
  Args <- MCArgs
  can_dedup <- MCcan_dedup
  should_prepend <- MCshould_prepend
  isabs = {"/a.so"}
  lflags = {"-la", "-Ld", "-La.so"}
  MaxAdded = 2
  MaxLen = 4
VIEW Content
INVARIANT PendingOK
PROPERTIES MergesAsIfAtOnce NewestWins
