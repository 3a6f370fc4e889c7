CONSTANTS
  c0 = c0
  c1 = c1
  CPUs = {c0, c1}
  cpu0 = c0
  NPROC = 2
  MLFQ_LEVELS = 2
  QUANTUM <- MCQuantumOne
  BOOST_INTERVAL = 4
  Chans = {"ticks", "wait"}
  Calls = {}
SPECIFICATION BusySpec
INVARIANTS
  RunnableIsQueued
