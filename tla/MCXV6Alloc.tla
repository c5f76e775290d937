----------------------------- MODULE MCXV6Alloc -----------------------------
(* Model-checking instance of XV6Alloc: processes are model values.        *)
EXTENDS XV6Alloc, TLC

ProcSymm == Permutations(Procs)
=============================================================================
