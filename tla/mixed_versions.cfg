SPECIFICATION Spec
CONSTANTS
  default = default research = research
  Homes = {default, research}
  None = None
  Versions <- MCVersions
  MaxCommands = 3
  MaxDeaths = 0
  MaxFailures = 0
  Disciplined = FALSE
INVARIANT OneVersion
CHECK_DEADLOCK FALSE
