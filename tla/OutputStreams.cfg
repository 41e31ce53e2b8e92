SPECIFICATION FairOutputSpec
CONSTANTS
  Kinds = {"capture", "relay"}
  Budgets = {0, 2, 3}
  ChunkSize = 2
  PipeSize = 2
  Emits = 3
INVARIANTS
  LogsWithinBudget
  SummaryIsComplete
PROPERTIES
  OutputFlows
CHECK_DEADLOCK FALSE
