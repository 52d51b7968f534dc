SPECIFICATION DispatchSpec
CONSTANTS
  send = send tool = tool tool2 = tool2 operator = operator
  gateway = gateway cli = cli good = good approve = approve
  Nodes <- SendNodes
  Order <- SendOrder
  DependsOn <- SendDependsOn
  Executor <- SendExecutor
  Idempotent = {}
  SideEffects = {}
  MaxAttempts <- SendAttempts
  StopOnFailure = {}
  Gates = {}
  GateNode <- MCNoGate
  GateType <- MCNoGate
  GateRank <- MCNoGate
  Outputs = {good}
  ValidOutputs = {good}
  NoOutput = NoOutput
  Mistyped = {}
  Requests = {"decide", "execute", "submit", "resume", "retry"}
  MaxSteps = 1
  MaxCrashes = 1
  MaxReconfigs = 1
  Callers = {tool, tool2, operator}
  NoCaller = NoCaller
  ProcessOf <- TwoProcesses
  ToolCallers = {tool, tool2}
  MaxDispatches = 2
  MaxDrives = 3
  MaxDeaths = 1
INVARIANT OneDispatchAtATime
CHECK_DEADLOCK FALSE
