CONSTANTS MaxIrq = 4
          IntMax = 7
SPECIFICATION Spec
INVARIANTS HandledNotAhead
CHECK_DEADLOCK FALSE
