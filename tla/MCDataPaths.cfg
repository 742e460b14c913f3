CONSTANTS FileDrivers <- AllFileDrivers
          Procs = {p1, p2}
          RamSize = 2
          IntMax = 2
          MaxLen = 2
          MaxPos = 2
          Offsets = {1, 3}
          EepProcs = {q1, q2}
          EEP_SIZE = 6
          EEP_PAGE_SIZE = 3
          SizeT = 15
          LenT = 6
          MouseUsers = {m1, m2}
          FifoSize = 2
          MaxPackets = 3
          MaxMouseFaults = 1
SPECIFICATION DataSpec
INVARIANTS FileInBounds NoByteSkipped EepOwnBuffer EepSegmentsExact PacketsFramed
CHECK_DEADLOCK FALSE
