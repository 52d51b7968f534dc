SPECIFICATION FairSpec
CONSTANTS
  turn = turn worker = worker command = command gateway = gateway cli = cli
  Threads = {turn, command}
  ProcessOf <- MCProcessOf
  None = None
  Texts = {"plain", "separator"}
  MaxSaves = 2
  MaxEvents = 2
  MaxDeaths = 0
  MaxFailures = 0
INVARIANT EventsReadBack
