CONSTANTS
  c0 = c0
  CPUs = {c0}
  cpu0 = c0
  NPROC = 2
  MLFQ_LEVELS = 2
  QUANTUM <- MCQuantum
  BOOST_INTERVAL = 4
  Chans = {"ticks", "wait"}
  Calls = {}
SPECIFICATION HSpec
INVARIANTS
  OneTickPerExpiry
