------------------------------ MODULE MCXV6Name ------------------------------
(* Model-checking instance of XV6Name: two letters, so that a component    *)
(* can be shorter than, equal to, or longer than DIRSIZ and still collide. *)
EXTENDS XV6Name

MCLetters == {2, 3}
=============================================================================
