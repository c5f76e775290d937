------------------------------- MODULE LogTxn -------------------------------
(***************************************************************************)
(* What the xv6 log layer promises its callers (spec section 4.1): the     *)
(* blocks written between begin_op() and end_op() become durable together *)
(* with the rest of their group, or not at all.                            *)
(*                                                                         *)
(*   mem    - the block contents the running kernel sees                   *)
(*   dsk    - the block contents that survive a crash                      *)
(*   active - the operations between begin_op and end_op                   *)
(*                                                                         *)
(* A commit copies the whole of mem to dsk, and only when no operation is  *)
(* active; a crash throws mem away and the kernel sees dsk again.          *)
(***************************************************************************)
CONSTANTS Procs, Blocks, Vals, InitVal

VARIABLES mem, dsk, active

vars == <<mem, dsk, active>>

Init ==
    /\ mem = [b \in Blocks |-> InitVal]
    /\ dsk = mem
    /\ active = {}

Begin(p) ==
    /\ p \notin active
    /\ active' = active \cup {p}
    /\ UNCHANGED <<mem, dsk>>

Write(p, b, v) ==
    /\ p \in active
    /\ mem' = [mem EXCEPT ![b] = v]
    /\ UNCHANGED <<dsk, active>>

End(p) ==
    /\ p \in active
    /\ active' = active \ {p}
    /\ UNCHANGED <<mem, dsk>>

Commit ==
    /\ active = {}
    /\ dsk' = mem
    /\ UNCHANGED <<mem, active>>

Crash ==
    /\ mem' = dsk
    /\ active' = {}
    /\ UNCHANGED dsk

Next ==
    \/ \E p \in Procs : Begin(p) \/ End(p)
    \/ \E p \in Procs, b \in Blocks, v \in Vals : Write(p, b, v)
    \/ Commit
    \/ Crash

Spec == Init /\ [][Next]_vars
=============================================================================
