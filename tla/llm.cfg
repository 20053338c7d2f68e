CONSTANTS
  Contract = {x}
  Wheel = {w}
  Request = {h}
  Scheduler = sched
  MaxSignals = 3
  MaxDaily = 1
  Faults = {"read", "store", "restart"}
  None = None
SPECIFICATION Spec
INVARIANTS QuotaOvershoot RowsAreSound
CONSTRAINTS QuotaOrButtons OneMisled
