SPECIFICATION Spec
CONSTANTS
  a = a b = b c = c d = d g1 = g1 g2 = g2 g3 = g3 good = good other = other bad = bad
  Nodes <- ForkNodes
  Order <- ForkOrder
  DependsOn <- ForkDependsOn
  Executor <- ForkExecutor
  Idempotent = {a, c}
  SideEffects = {d}
  MaxAttempts <- ForkAttempts
  StopOnFailure = {b}
  Gates <- ForkGates
  GateNode <- ForkGateNode
  GateType <- ForkGateType
  GateRank <- ForkGateRank
  Outputs = {good}
  ValidOutputs = {good}
  NoOutput = NoOutput
  Mistyped = {c}
  Requests = {"decide", "execute", "submit", "resume", "retry", "cancel"}
  MaxSteps = 2
  MaxCrashes = 1
  MaxReconfigs = 1
INVARIANTS StartedOnlyWhenCleared WrittenAhead NoAutoReplay UnrunExplained WaitExplained HoldsCurrent AttemptsAccounted TraceCoversState
PROPERTIES ImplementsLifecycle OperationsBounded
CHECK_DEADLOCK FALSE
