SPECIFICATION FairSpec
CONSTANT NPROC = 3
PROPERTIES KilledEnds ZombieReaped
