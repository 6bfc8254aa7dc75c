SPECIFICATION Spec
CONSTANTS
  Cpus = {0, 1, 17}
  Counts = {0, 1}
  LAPIC_TMR_SAMPLES = 65535
  I8254_DIVIDEND = 1193
  USEC = 1000
  None = None
INVARIANTS TimerDelivered IpisExact
PROPERTIES Ticking
CHECK_DEADLOCK FALSE
