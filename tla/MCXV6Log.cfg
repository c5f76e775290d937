\* Two processes over two blocks, a 4-entry log and calls of up to two
\* blocks, under fair scheduling: two calls fill the reservation, a third
\* sleeps, blocks are absorbed, and a crash may fall at any disk write.
\* No symmetry, as SleeperWoken is a liveness property.
CONSTANTS
    Procs = {p1, p2}
    Blocks = {b1, b2}
    Vals = {0, 1}
    InitVal = 0
    LOGSIZE = 4
    MAXOPBLOCKS = 2
    LOGCAP = 4
SPECIFICATION FairSpec
INVARIANT TypeOK
INVARIANT ReservationSound
PROPERTY SleeperWoken
PROPERTY LogRefinesTxn
