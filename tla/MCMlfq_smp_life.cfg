CONSTANTS
  c0 = c0
  c1 = c1
  CPUs = {c0, c1}
  cpu0 = c0
  NPROC = 2
  MLFQ_LEVELS = 1
  QUANTUM <- MCQuantumOne
  BOOST_INTERVAL = 1
  Chans = {"ticks", "wait"}
  Calls = {"sleep", "kill", "fork", "exit"}
SPECIFICATION BootSpec
INVARIANTS
  TypeOK
  RunningIsCurrent
  IInv
