CONSTANTS Drivers = {"improved"}
          MaxIrq = 4
SPECIFICATION ThreadSpec
PROPERTIES EventsDrain
CHECK_DEADLOCK FALSE
