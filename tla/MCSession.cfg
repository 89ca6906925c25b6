SPECIFICATION SessionSpec
CONSTANTS
  MaxHosts = 2
  Timeout = 1
  MaxPresses = 1
  Devices = {d1, d2}
  MaxProcesses = 3
SYMMETRY Interchangeable
INVARIANTS
  MovesKeepTheSession
  PrintedIsOnDisk
CHECK_DEADLOCK FALSE
