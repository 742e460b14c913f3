CONSTANTS Tables <- AllTables
          Drivers <- AllDrivers
          Leds = {red, green}
          Writers = {w1, w2}
          Loner = w1
          Lamp = red
          Tasks = {t1, t2}
          First = t1
          PeriodMin = 2
          PeriodMax = 3
          Step = 1
          Width = 3
SPECIFICATION LifeSpec
INVARIANTS NothingLeft ReleasedOnce EntriesReady TableSound AtMostOneLit TaskFlagExact RemovedIsQuiet
PROPERTIES StopReturns
CHECK_DEADLOCK FALSE
