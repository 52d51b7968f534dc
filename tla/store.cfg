SPECIFICATION FairSpec
CONSTANTS
  turn = turn worker = worker command = command gateway = gateway cli = cli
  Threads = {turn, worker, command}
  ProcessOf <- MCProcessOf
  None = None
  Texts = {"plain", "separator"}
  MaxSaves = 2
  MaxEvents = 3
  MaxDeaths = 1
  MaxFailures = 1
INVARIANTS ReadersSeeWhole VerifiedTraceComplete
PROPERTIES AdvancesExclusively OperationsEnd
