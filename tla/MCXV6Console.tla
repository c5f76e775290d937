---------------------------- MODULE MCXV6Console ----------------------------
(* Model-checking instance of XV6Console: readers and writers are model    *)
(* values; a writer runs on the keyboard's CPU 0 or on CPU 1.              *)
EXTENDS XV6Console, TLC

MCLetters   == {"a"}
MCReadSizes == {1, 2}
MCOnCPU0    == [q \in Writers |-> 0]
MCOnCPU1    == [q \in Writers |-> 1]

\* The abstract line discipline: the committed input is the ring from r
\* to w, the edit line the ring from w to e, read through the wrapping
\* uint indices.
Fifo == INSTANCE ConsoleFifo WITH
    q    <- [i \in 1..Dist(w, r) |-> At(Add(r, i - 1))],
    line <- [i \in 1..Dist(e, w) |-> At(Add(w, i - 1))]

\* Every behaviour of consoleintr and consoleread is one of the line
\* discipline: keys are erased only from the uncommitted line, committed
\* input is read from its front in order, and a ^D put back by a read is
\* still the next key; no key is lost, duplicated or overwritten across
\* the wrap of the ring and of its indices.
ConsoleRefinesFifo == Fifo!Spec
=============================================================================
