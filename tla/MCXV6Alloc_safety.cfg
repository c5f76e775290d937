\* Two processes and two files over three data blocks, one direct and one
\* indirect address of a one-entry indirect block, 2-byte blocks and a
\* 4-bit uint: files fill, get truncated, and their blocks are reused
\* as direct, indirect and entry blocks; counts of 15 wrap off + n.
CONSTANTS
    Procs = {p1, p2}
    NI = 2
    NB = 3
    NDIRECT = 1
    NINDIRECT = 1
    BSIZE = 2
    UINTW = 4
    DataVals = {0, 1}
SPECIFICATION CrashSpec
SYMMETRY ProcSymm
INVARIANT TypeOK
INVARIANT BlocksExclusive
INVARIANT SizeCoversBlocks
INVARIANT NoPanic
INVARIANT LeaksOnlyAtCrash
INVARIANT ReadiNeverAllocates
