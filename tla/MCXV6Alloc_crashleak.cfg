\* The safety bounds with crashes between calls: an unlinked file that is
\* still open when the machine crashes keeps its dinode and its blocks.
CONSTANTS
    Procs = {p1, p2}
    NI = 2
    NB = 3
    NDIRECT = 1
    NINDIRECT = 1
    BSIZE = 2
    UINTW = 4
    DataVals = {0, 1}
SPECIFICATION CrashSpec
SYMMETRY ProcSymm
INVARIANT NoLeak
