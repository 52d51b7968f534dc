SPECIFICATION FairSpec
CONSTANTS
  a = a b = b c = c unknown = unknown
  Submissions <- MCSubmissions
  None = None
  MaxNodes = 3
  Capabilities <- MCCapabilities
  CapabilitiesOf <- MCCapabilitiesOf
  Produced <- MCProduced
INVARIANTS
  VerdictExact CycleReal ReadsFromEarlier DeclarationOrderKept
  EngineAssumptionsMet Readmitted
PROPERTY AdmissionEnds
CHECK_DEADLOCK FALSE
