SPECIFICATION FairSpec
CONSTANTS
  a = a b = b c = c d = d g1 = g1 g2 = g2 g3 = g3 good = good other = other bad = bad
  Nodes <- ReleaseNodes
  Order <- ReleaseOrder
  DependsOn <- ReleaseDependsOn
  Executor <- ReleaseExecutor
  Idempotent = {a}
  SideEffects = {b}
  MaxAttempts <- ReleaseAttempts
  StopOnFailure = {a, b}
  Gates <- ReleaseGates
  GateNode <- ReleaseGateNode
  GateType <- ReleaseGateType
  GateRank <- ReleaseGateRank
  Outputs = {good, other, bad}
  ValidOutputs = {good, other}
  NoOutput = NoOutput
  Mistyped = {}
  Requests = {"decide", "execute", "submit", "resume", "retry", "cancel", "verify"}
  MaxSteps = 3
  MaxCrashes = 2
  MaxReconfigs = 0
INVARIANTS TypeOK SucceededRunVerifies ReceiptTruthful VerdictTruthful
PROPERTIES FinalStays OperationEnds
