CONSTANTS Drivers = {"static", "dynamic", "all_static", "all_dynamic"}
          MAXIRQS = 2
          MaxIrq = 3
SPECIFICATION Spec
INVARIANTS NoUseAfterFree EveryItemCounted NoneUnnoticed NoLineLeft
PROPERTIES ImplementsEventDelivery
CHECK_DEADLOCK FALSE
