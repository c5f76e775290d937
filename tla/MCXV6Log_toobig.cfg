CONSTANTS
    Procs = {p1, p2}
    Blocks = {b1, b2}
    Vals = {0, 1}
    InitVal = 0
    LOGSIZE = 2
    MAXOPBLOCKS = 1
    LOGCAP = 2
SPECIFICATION Spec
SYMMETRY Symm
INVARIANT NoTooBigTransaction
