\* Four slots (initproc, a child, a grandchild, a great-grandchild) and pids
\* up to 4 (exactly that chain of forks), on two CPUs under FairSpec, so
\* that both schedulers scan the table while processes yield, sleep and
\* exit on the other CPU.  The view leaves out the history kills, which
\* no action reads and no property of this run mentions: states that
\* differ only in it have the same futures.
CONSTANTS
    c1 = c1
    c2 = c2
    CPUs <- MCCPUs
    NPROC = 4
    MAXPID = 4
SPECIFICATION FairSpec
INVARIANT ZombieParentAwake NoOrphans CpuExclusive
PROPERTY KilledExits
VIEW MCView
