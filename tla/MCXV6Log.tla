------------------------------ MODULE MCXV6Log ------------------------------
(* Model-checking harness for XV6Log: the refinement of LogTxn.            *)
EXTENDS XV6Log, TLC

\* The abstract state: the kernel sees the cache while it runs and the
\* recovered disk while it reboots; what survives a crash is what recovery
\* would rebuild from the disk as it is now.
LogAbs == INSTANCE LogTxn WITH
    mem    <- IF phase \in {"up", "panic"} THEN cache ELSE Recovered,
    dsk    <- Recovered,
    active <- {p \in Procs : pc[p] = "op"}

\* Every behaviour of the log, crashes at any disk write included, is a
\* behaviour of the atomic transaction spec: a crash leaves on disk the
\* contents of the last commit, never part of a group.
LogRefinesTxn == LogAbs!Spec

Symm == Permutations(Procs) \cup Permutations(Blocks)
=============================================================================
