CONSTANTS
  c0 = c0
  CPUs = {c0}
  cpu0 = c0
  NPROC = 3
  MLFQ_LEVELS = 2
  QUANTUM <- MCQuantumOne
  BOOST_INTERVAL = 4
  Chans = {"ticks", "wait"}
  Calls = {"sleep", "kill", "fork"}
SPECIFICATION FairBootSpec
INVARIANTS
  QueuesExact
PROPERTIES
  StrictPriority
  FifoSpec
  RunnableRuns
