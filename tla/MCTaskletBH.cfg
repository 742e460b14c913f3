CONSTANT MaxIrq = 5
SPECIFICATION Spec
INVARIANTS Accounting NoStrandedEvent
PROPERTIES ImplementsEventDelivery
CHECK_DEADLOCK FALSE
