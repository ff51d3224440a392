SPECIFICATION Spec
CONSTANTS
  j1 = j1
  j2 = j2
  Job = {j1, j2}
  WithCleanup = {j1}
  MaxCommands = 3
  MaxEvents = 3
CHECK_DEADLOCK FALSE
INVARIANTS DropsNothingOlder CompletedLeavesNothing MutationsAreAuthorized
PROPERTY UnknownFreezes
