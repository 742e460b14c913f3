CONSTANTS Drivers = {"basic", "improved"}
          MaxIrq = 4
          Labs = {"wait_event", "excl", "killable", "poll"}
          Readers = {r1, r2}
          Pollers = {p1}
          Writers = {w1, w2}
          Signals = TRUE
          PermitLabs = {"complete", "semaphore", "semaphore_rw"}
          Takers = {t1, t2, t3}
          MaxWrites = 4
          KeyReaders = {k1, k2}
          MAX_KEY_STATES = 2
          MaxKeys = 2
SPECIFICATION SleepersSpec
INVARIANTS Accounting NoMissedWake NsleepersExact PermitsConserved KeysExact
PROPERTIES StopTerminates SleeperDrains ImplementsEventDelivery WaiterServed PermitUsed KeyServed
CHECK_DEADLOCK FALSE
