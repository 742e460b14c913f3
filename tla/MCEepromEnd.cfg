CONSTANTS EepProcs = {p1, p2}
          EEP_SIZE = 8
          EEP_PAGE_SIZE = 4
          SizeT = 20
          LenT = 8
SPECIFICATION EepSpec
INVARIANTS EepNotBeyondEnd
CHECK_DEADLOCK FALSE
