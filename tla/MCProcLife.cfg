SPECIFICATION Spec
CONSTANT NPROC = 4
INVARIANTS TypeOK NoLostExit ParentAlive FreedIsOffCpu
