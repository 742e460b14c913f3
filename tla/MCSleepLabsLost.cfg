CONSTANTS Labs = {"poll"}
          Readers = {r1, r2}
          Pollers = {p1}
          Writers = {w1}
          Signals = FALSE
SPECIFICATION SleepSpec
PROPERTIES SleeperServed
CHECK_DEADLOCK FALSE
