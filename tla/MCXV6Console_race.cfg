\* The console bounds with the writer on CPU 1: its cgaputc runs while
\* the keyboard interrupt on CPU 0 echoes a key, and the two share the
\* 6845's index and cursor registers.
CONSTANTS
    Readers = {p1}
    Writers = {w1}
    INPUT_BUF = 2
    UINTW = 3
    Letters <- MCLetters
    ReadSizes <- MCReadSizes
    WriterCPU <- MCOnCPU1
    COLS = 2
    ROWS = 3
    BYTE = 4
    INTW = 16
    FMTLEN = 4
    NULLPTR = NULLPTR
SPECIFICATION Spec
INVARIANT CursorOnScreen
