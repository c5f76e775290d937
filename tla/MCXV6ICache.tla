----------------------------- MODULE MCXV6ICache -----------------------------
(* Model-checking instance of XV6ICache: processes are model values.       *)
EXTENDS XV6ICache, TLC

=============================================================================
