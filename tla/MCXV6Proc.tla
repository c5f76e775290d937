------------------------------ MODULE MCXV6Proc ------------------------------
(* Model-checking instance of XV6Proc: CPUs are model values.              *)
EXTENDS XV6Proc, TLC

CONSTANTS c1, c2

MCCPUs   == {c1, c2}

\* Every variable but the history kills (see MCXV6Proc.cfg).
MCView == <<state, pid, parent, killed, chan, nextpid, cpu, pos, kpc, np, panicked>>
=============================================================================
