SPECIFICATION Spec
CONSTANTS
  None = None
  Values <- MCValues
  Declared <- MCDeclared
  Names <- MCNames
  Patterns <- MCPatterns
  MAX_TEXT_CHARS = 3
  MAX_MATCH_INPUT_CHARS = 3
INVARIANTS ContractInvariant AdmittedCriteriaNeverRaise BuiltinDeliversDeclared OperationsAgreeWithCriteria
CHECK_DEADLOCK FALSE
