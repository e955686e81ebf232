SPECIFICATION MCSpec
CONSTANTS
  Requests = {"r1", "r2"}
  SearchTools = {"s1", "s2"}
  TerminalTools = {"send"}
  SetupTool = "setup"
  MaxToolCalls = 2
  SearchLimit = 1
  MaxIterations = 4
  Steps = 2
  MaxCrashes = 1
  Reminders = {"a", "b"}
  Unreadable = {}
  Mornings = 2
  SchedulerRestarts = 1
  Calls = {"c1", "c2"}
  Keys = {"groq", "openai"}
  Limit = 1
  Midnights = 1
  RouterRestarts = 1
  MaxTurns = 3
  Recall = 2
  MaxFaults = 2
  Ids = {"p"}
  MaxTasks = 1
  MaxTime = 5
  MaxCycles = 2
ACTION_CONSTRAINT Few
CHECK_DEADLOCK FALSE
INVARIANTS AssistantInv SchedulerInv RouterInv RecordsInv
