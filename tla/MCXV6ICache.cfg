\* Two processes over the root and three file inums and three cache slots
\* (the root keeps one, as initproc's cwd), so that slots are recycled: an
\* inode is shared, unlinked, freed by the last iput and reallocated by
\* ialloc while the other process waits on the dying slot.
\* initproc starts with the root as cwd; the other process is forked
\* (sharing the cwd), walks from it, and exits, dropping it.
\* No symmetry, as IlockWaiterWoken is checked under fairness.
CONSTANTS
    Procs = {p1, p2}
    NINODES = 4
    NINODE = 3
    MAXLINK = 1
    InitProc = p1
SPECIFICATION FairSpec
INVARIANT TypeOK UniqueSlot LockExclusive LockedMirrorsDisk NoPanic RefCountsHolders CwdAlive
PROPERTY IlockWaiterWoken
