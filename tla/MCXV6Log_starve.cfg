\* One block, a 3-entry log and one-block calls: after a call has logged
\* the block, a second call may still join (1 + 2 * 1 <= 3), and the two
\* can take turns in and out of the group while rewriting the block.
CONSTANTS
    Procs = {p1, p2}
    Blocks = {b1}
    Vals = {0, 1}
    InitVal = 0
    LOGSIZE = 3
    MAXOPBLOCKS = 1
    LOGCAP = 3
SPECIFICATION FairSpec
PROPERTY LoggedCommits
