\* One reader, a ring of 2 bytes and 3-bit indices, so that the indices
\* wrap after eight keys and a line fills the ring; reads of 1 and 2
\* bytes, so that ^D is met both first and after other bytes.  One writer
\* on CPU 0, the keyboard's; a 2 x 3 screen (scrolling on its third row)
\* with 2-bit registers, so that the cursor needs both bytes, the echo and
\* the writer both wrap lines and scroll, and the boot cursor may be on
\* the last row.
CONSTANTS
    Readers = {p1}
    Writers = {w1}
    INPUT_BUF = 2
    UINTW = 3
    Letters <- MCLetters
    ReadSizes <- MCReadSizes
    WriterCPU <- MCOnCPU0
    COLS = 2
    ROWS = 3
    BYTE = 4
    INTW = 16
    FMTLEN = 4
    NULLPTR = NULLPTR
SPECIFICATION FairSpec
INVARIANT RingOrdered SleepOnlyWhenEmpty EofReadOnce CursorOnScreen PrintintRenders CprintfRenders
PROPERTY KilledReaderExits
PROPERTY ConsoleRefinesFifo
