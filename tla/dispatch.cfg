SPECIFICATION FairDispatchSpec
CONSTANTS
  send = send tool = tool tool2 = tool2 operator = operator
  gateway = gateway cli = cli good = good approve = approve
  Nodes <- SendNodes
  Order <- SendOrder
  DependsOn <- SendDependsOn
  Executor <- SendExecutor
  Idempotent = {}
  SideEffects = {send}
  MaxAttempts <- SendAttempts
  StopOnFailure = {}
  Gates = {approve}
  GateNode <- SendGateNode
  GateType <- SendGateType
  GateRank <- SendGateRank
  Outputs = {good}
  ValidOutputs = {good}
  NoOutput = NoOutput
  Mistyped = {}
  Requests = {"decide", "execute", "submit", "resume", "retry"}
  MaxSteps = 1
  MaxCrashes = 1
  MaxReconfigs = 1
  Callers = {tool, tool2, operator}
  NoCaller = NoCaller
  ProcessOf <- TwoProcesses
  ToolCallers = {tool}
  MaxDispatches = 2
  MaxDrives = 3
  MaxDeaths = 1
INVARIANTS WorkerNotReplayed ResultsOfTheirAttempt LeaseExact
PROPERTY DrivesEnd
CHECK_DEADLOCK FALSE
