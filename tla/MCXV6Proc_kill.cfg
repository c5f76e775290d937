\* Three slots, two CPUs, pids up to 3: kill() of a pid held by a free slot.
CONSTANTS
    c1 = c1
    c2 = c2
    CPUs <- MCCPUs
    NPROC = 3
    MAXPID = 3
SPECIFICATION Spec
INVARIANT KillOnlyNamed
