SPECIFICATION SessionSpec
CONSTANTS
  MaxHosts = 2
  Timeout = 1
  MaxPresses = 2
  Devices = {d1, d2}
  MaxProcesses = 3
INVARIANT PrintedUrlIsServed
CHECK_DEADLOCK FALSE
