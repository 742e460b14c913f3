CONSTANTS FileDrivers <- AllFileDrivers
          Procs = {p1}
          RamSize = 2
          IntMax = 2
          MaxLen = 2
          MaxPos = 2
          Offsets = {3}
SPECIFICATION FileSpec
INVARIANT NotOffTheEnd
CHECK_DEADLOCK FALSE
