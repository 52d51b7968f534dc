SPECIFICATION Spec
CONSTANTS
  default = default research = research
  Homes = {default, research}
  None = None
  Versions <- MCVersions
  MaxCommands = 5
  MaxDeaths = 2
  MaxFailures = 2
  Disciplined = TRUE
INVARIANTS RollbackRecovers InstallUndoneOrKept RollbackRestores TreesWhole ServedAsInstalled
CHECK_DEADLOCK FALSE
