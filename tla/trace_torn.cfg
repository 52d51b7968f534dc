SPECIFICATION FairSpec
CONSTANTS
  turn = turn worker = worker command = command gateway = gateway cli = cli
  Threads = {turn, command}
  ProcessOf <- MCProcessOf
  None = None
  Texts = {"plain"}
  MaxSaves = 2
  MaxEvents = 2
  MaxDeaths = 1
  MaxFailures = 0
INVARIANT RunSurvivesRestart
