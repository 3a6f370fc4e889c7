SPECIFICATION Spec
CONSTANT NPROC = 3
INVARIANT OnlyVictimsDie
