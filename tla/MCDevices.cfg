CONSTANTS ExitDrivers <- AllExitDrivers
          MaxItems = 2
          EventDrivers <- AllEventDrivers
          Fetchers = {f1, f2}
          MaxEvents = 3
          MaxFetches = 4
          DmaDrivers <- AllDmaDrivers
          Copiers = {c1, c2}
          MaxCopies = 3
          TapDrivers <- AllTapDrivers
          MaxTaps = 4
          MaxIrq = 4
          IntMax = 7
SPECIFICATION DevicesSpec
INVARIANTS NoneOutlives EventsAccounted DmaExact TapOnce AccountingModulo NoStrandedEvent
PROPERTIES UnloadReturns RunTerminates
CHECK_DEADLOCK FALSE
