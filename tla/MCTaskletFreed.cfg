CONSTANTS Drivers = {"dynamic"}
          MAXIRQS = 1
          MaxIrq = 1
SPECIFICATION Spec
INVARIANTS ThereWhileRun
CHECK_DEADLOCK FALSE
