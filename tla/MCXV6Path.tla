------------------------------ MODULE MCXV6Path ------------------------------
(* Model-checking instance of XV6Path.                                     *)
EXTENDS XV6Path, TLC

\* Walks down and up through "..", a walk through the file "a" (which is
\* not a directory), links of "b" in / and in /d, and the unlinks of /a
\* and /d/b.
MCScripts == {
    [op |-> "namei",  start |-> ROOTINO, path |-> <<"d", "..", "d">>],
    [op |-> "namei",  start |-> SUBDIR,  path |-> <<"..", "a", "x">>],
    [op |-> "namei",  start |-> SUBDIR,  path |-> <<".", "..", "a">>],
    [op |-> "link",   start |-> ROOTINO, path |-> <<"b">>],
    [op |-> "link",   start |-> SUBDIR,  path |-> <<"..", "d", "b">>],
    [op |-> "unlink", start |-> ROOTINO, path |-> <<"a">>],
    [op |-> "unlink", start |-> ROOTINO, path |-> <<"d", "b">>] }

=============================================================================
