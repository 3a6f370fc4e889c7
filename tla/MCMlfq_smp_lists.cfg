CONSTANTS
  c0 = c0
  c1 = c1
  CPUs = {c0, c1}
  cpu0 = c0
  NPROC = 2
  MLFQ_LEVELS = 2
  QUANTUM <- MCQuantumGrow
  BOOST_INTERVAL = 1
  Chans = {"ticks", "wait"}
  Calls = {"boostone"}
SPECIFICATION OneCallerSpec
INVARIANTS
  OneCpuPerProc
  CyclesAreTransient
  WithinQuantum
