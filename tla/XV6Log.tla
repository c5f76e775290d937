------------------------------- MODULE XV6Log -------------------------------
(***************************************************************************)
(* The xv6 write-ahead redo log (log.c): group commit of the block writes  *)
(* of concurrent file-system calls, the four-step commit protocol, and     *)
(* recovery at boot.  Every disk write (bwrite) is one step, so a crash    *)
(* can fall between any two of them, during recovery included.            *)
(*                                                                         *)
(* A block write by a call is the caller's "bread; modify; log_write;      *)
(* brelse" sequence: the buffer lock is held throughout, so it is one      *)
(* step that changes the cached block and records it in the log header.   *)
(***************************************************************************)
EXTENDS Naturals, Sequences, FiniteSets, SequencesExt, Functions

CONSTANTS
    Procs,        \* processes making file-system calls
    Blocks,       \* home sectors that calls write
    Vals,         \* block contents a call may write
    InitVal,      \* the contents of every block after mkfs
    LOGSIZE,      \* param.h: entries of lh.sector[]
    MAXOPBLOCKS,  \* param.h: distinct blocks one call may write
    LOGCAP        \* log.size - 1: payload blocks of the on-disk log

ASSUME
    /\ InitVal \in Vals
    /\ MAXOPBLOCKS \in Nat \ {0}
    /\ LOGSIZE \in Nat /\ LOGSIZE >= MAXOPBLOCKS
    /\ LOGCAP \in Nat /\ LOGCAP >= LOGSIZE     \* spec: LOGSIZE <= nlog - 1

VARIABLES
    disk,         \* home blocks on disk
    logdisk,      \* log payload blocks on disk: logdisk[i] is block start+i
    headdisk,     \* on-disk log header: sector[0..n) as a sequence
    cache,        \* buffer cache contents of every home block
    lh,           \* in-memory log.lh: sector[0..n) as a sequence
    outstanding,  \* log.outstanding
    committing,   \* log.committing
    tail,         \* loop index of write_log / install_trans
    pc,           \* where each process is
    written,      \* blocks each call has written so far (caller contract)
    phase         \* "recover" at boot, "up" when running, "panic" when halted

durable == <<disk, logdisk, headdisk>>
memory  == <<cache, lh, outstanding, committing, tail, pc, written>>
vars    == <<durable, memory, phase>>

Slots == 1..LOGCAP
Loc   == {"idle", "begin", "asleep", "op",
          "write_log", "write_head", "install", "clear", "wake"}
RecoverLoc == {"read_head", "recover_install", "recover_clear"}

\* The disk a reboot reconstructs: replay the committed header.
Recovered ==
    [b \in Blocks |->
        IF \E i \in 1..Len(headdisk) : headdisk[i] = b
        THEN logdisk[SelectLastInSeq(headdisk, LAMBDA s : s = b)]
        ELSE disk[b]]

\* Every sleeper on the log channel becomes runnable again in begin_op.
wakeup_log(pcs) == [q \in Procs |-> IF pcs[q] = "asleep" THEN "begin" ELSE pcs[q]]

TypeOK ==
    /\ disk \in [Blocks -> Vals]
    /\ logdisk \in [Slots -> Vals]
    /\ headdisk \in BoundedSeq(Blocks, LOGSIZE)
    /\ cache \in [Blocks -> Vals]
    /\ lh \in BoundedSeq(Blocks, LOGSIZE)
    /\ outstanding \in 0..Cardinality(Procs)
    /\ committing \in BOOLEAN
    /\ tail \in 0..LOGSIZE
    /\ pc \in [Procs -> Loc]
    /\ written \in [Procs -> SUBSET Blocks]
    /\ phase \in {"up", "panic"} \cup RecoverLoc

-----------------------------------------------------------------------------
(* Boot: initlog() -> recover_from_log(), before any file-system call.     *)

Init ==
    /\ disk = [b \in Blocks |-> InitVal]
    /\ logdisk = [i \in Slots |-> InitVal]
    /\ headdisk = <<>>
    /\ cache = disk
    /\ lh = <<>>
    /\ outstanding = 0
    /\ committing = FALSE
    /\ tail = 0
    /\ pc = [p \in Procs |-> "idle"]
    /\ written = [p \in Procs |-> {}]
    /\ phase = "read_head"

\* read_head(): copy the on-disk header into log.lh.
read_head ==
    /\ phase = "read_head"
    /\ lh' = headdisk
    /\ tail' = 0
    /\ phase' = "recover_install"
    /\ UNCHANGED <<durable, cache, outstanding, committing, pc, written>>

\* One iteration of install_trans(): copy log block tail+1 to its home
\* sector through the buffer cache and bwrite it.
InstallBlock ==
    /\ tail < Len(lh)
    /\ disk' = [disk EXCEPT ![lh[tail + 1]] = logdisk[tail + 1]]
    /\ cache' = [cache EXCEPT ![lh[tail + 1]] = logdisk[tail + 1]]
    /\ tail' = tail + 1
    /\ UNCHANGED <<logdisk, headdisk, lh, outstanding, committing, written>>

recover_install ==
    /\ phase = "recover_install"
    /\ \/ InstallBlock /\ UNCHANGED <<pc, phase>>
       \/ /\ tail = Len(lh)
          /\ phase' = "recover_clear"
          /\ UNCHANGED <<durable, memory>>

\* log.lh.n = 0; write_head(): the log is empty and the system is up.
recover_clear ==
    /\ phase = "recover_clear"
    /\ lh' = <<>>
    /\ headdisk' = <<>>
    /\ phase' = "up"
    /\ UNCHANGED <<disk, logdisk, cache, outstanding, committing, tail, pc, written>>

-----------------------------------------------------------------------------
(* File-system calls.                                                      *)

\* A process enters begin_op().
call_begin_op(p) ==
    /\ phase = "up"
    /\ pc[p] = "idle"
    /\ pc' = [pc EXCEPT ![p] = "begin"]
    /\ UNCHANGED <<durable, cache, lh, outstanding, committing, tail, written, phase>>

\* Mutation: the reservation forgets the caller's own share
\* (outstanding * MAXOPBLOCKS instead of (outstanding + 1) * MAXOPBLOCKS).
begin_op_own_share_missing(p) ==
    /\ phase = "up"
    /\ pc[p] = "begin"
    /\ IF committing \/ Len(lh) + outstanding * MAXOPBLOCKS > LOGSIZE
       THEN /\ pc' = [pc EXCEPT ![p] = "asleep"]
            /\ UNCHANGED <<outstanding, written>>
       ELSE /\ outstanding' = outstanding + 1
            /\ pc' = [pc EXCEPT ![p] = "op"]
            /\ written' = [written EXCEPT ![p] = {}]
    /\ UNCHANGED <<durable, cache, lh, committing, tail, phase>>

\* Mutation: outstanding is counted before the check, so a sleeper that
\* retries is counted again.
begin_op_counts_sleepers(p) ==
    /\ phase = "up"
    /\ pc[p] = "begin"
    /\ outstanding' = outstanding + 1
    /\ IF committing \/ Len(lh) + (outstanding + 1) * MAXOPBLOCKS > LOGSIZE
       THEN /\ pc' = [pc EXCEPT ![p] = "asleep"]
            /\ UNCHANGED written
       ELSE /\ pc' = [pc EXCEPT ![p] = "op"]
            /\ written' = [written EXCEPT ![p] = {}]
    /\ UNCHANGED <<durable, cache, lh, committing, tail, phase>>

\* One pass of begin_op()'s loop under log.lock: sleep while a commit runs
\* or while the reservation of this call might overflow the log.
begin_op(p) ==
    /\ phase = "up"
    /\ pc[p] = "begin"
    /\ IF committing \/ Len(lh) + (outstanding + 1) * MAXOPBLOCKS > LOGSIZE
       THEN /\ pc' = [pc EXCEPT ![p] = "asleep"]
            /\ UNCHANGED <<outstanding, written>>
       ELSE /\ outstanding' = outstanding + 1
            /\ pc' = [pc EXCEPT ![p] = "op"]
            /\ written' = [written EXCEPT ![p] = {}]
    /\ UNCHANGED <<durable, cache, lh, committing, tail, phase>>

\* bread(b); b->data = v; log_write(b); brelse(b), by a call that keeps to
\* its MAXOPBLOCKS budget.  log_write panics before it looks for absorption.
log_write(p, b, v) ==
    /\ phase = "up"
    /\ pc[p] = "op"
    /\ Cardinality(written[p] \cup {b}) <= MAXOPBLOCKS
    /\ IF Len(lh) >= LOGSIZE \/ Len(lh) >= LOGCAP
       THEN /\ phase' = "panic"
            /\ UNCHANGED <<durable, memory>>
       ELSE /\ cache' = [cache EXCEPT ![b] = v]
            /\ lh' = IF b \in ToSet(lh) THEN lh ELSE Append(lh, b)
            /\ written' = [written EXCEPT ![p] = @ \cup {b}]
            /\ UNCHANGED <<durable, outstanding, committing, tail, pc, phase>>

\* Mutation: commit() writes the header before the payload blocks.
end_op_header_first(p) ==
    /\ phase = "up"
    /\ pc[p] = "op"
    /\ outstanding' = outstanding - 1
    /\ IF committing
       THEN /\ phase' = "panic"
            /\ UNCHANGED <<pc, committing, tail>>
       ELSE IF outstanding - 1 = 0
       THEN /\ committing' = TRUE
            /\ tail' = 0
            /\ pc' = [pc EXCEPT ![p] = IF Len(lh) > 0 THEN "write_head" ELSE "wake"]
            /\ UNCHANGED phase
       ELSE /\ pc' = wakeup_log([pc EXCEPT ![p] = "idle"])
            /\ UNCHANGED <<committing, tail, phase>>
    /\ UNCHANGED <<durable, cache, lh, written>>

\* end_op(): the last call out commits, the others wake begin_op sleepers.
end_op(p) ==
    /\ phase = "up"
    /\ pc[p] = "op"
    /\ outstanding' = outstanding - 1
    /\ IF committing
       THEN /\ phase' = "panic"
            /\ UNCHANGED <<pc, committing, tail>>
       ELSE IF outstanding - 1 = 0
       THEN /\ committing' = TRUE
            /\ tail' = 0
            /\ pc' = [pc EXCEPT ![p] = IF Len(lh) > 0 THEN "write_log" ELSE "wake"]
            /\ UNCHANGED phase
       ELSE /\ pc' = wakeup_log([pc EXCEPT ![p] = "idle"])
            /\ UNCHANGED <<committing, tail, phase>>
    /\ UNCHANGED <<durable, cache, lh, written>>

-----------------------------------------------------------------------------
(* commit(), run by the last process out of end_op without log.lock.      *)

\* One iteration of write_log(): copy the cached block to log block tail+1.
write_log(p) ==
    /\ phase = "up"
    /\ pc[p] = "write_log"
    /\ \/ /\ tail < Len(lh)
          /\ logdisk' = [logdisk EXCEPT ![tail + 1] = cache[lh[tail + 1]]]
          /\ tail' = tail + 1
          /\ UNCHANGED pc
       \/ /\ tail = Len(lh)
          /\ pc' = [pc EXCEPT ![p] = "write_head"]
          /\ UNCHANGED <<logdisk, tail>>
    /\ UNCHANGED <<disk, headdisk, cache, lh, outstanding, committing, written, phase>>

\* write_head(): the single-sector write that commits the transaction.
write_head(p) ==
    /\ phase = "up"
    /\ pc[p] = "write_head"
    /\ headdisk' = lh
    /\ tail' = 0
    /\ pc' = [pc EXCEPT ![p] = "install"]
    /\ UNCHANGED <<disk, logdisk, cache, lh, outstanding, committing, written, phase>>

install_trans(p) ==
    /\ phase = "up"
    /\ pc[p] = "install"
    /\ \/ InstallBlock /\ UNCHANGED <<pc, phase>>
       \/ /\ tail = Len(lh)
          /\ pc' = [pc EXCEPT ![p] = "clear"]
          /\ UNCHANGED <<durable, cache, lh, outstanding, committing, tail, written, phase>>

\* log.lh.n = 0; write_head(): erase the transaction from the log.
clear_head(p) ==
    /\ phase = "up"
    /\ pc[p] = "clear"
    /\ lh' = <<>>
    /\ headdisk' = <<>>
    /\ pc' = [pc EXCEPT ![p] = "wake"]
    /\ UNCHANGED <<disk, logdisk, cache, outstanding, committing, tail, written, phase>>

\* Mutation: the wakeup(&log) after the commit is missing.
end_commit_no_wakeup(p) ==
    /\ phase = "up"
    /\ pc[p] = "wake"
    /\ committing' = FALSE
    /\ pc' = [pc EXCEPT ![p] = "idle"]
    /\ UNCHANGED <<durable, cache, lh, outstanding, tail, written, phase>>

\* Back in end_op under log.lock: committing = 0; wakeup(&log).
end_commit(p) ==
    /\ phase = "up"
    /\ pc[p] = "wake"
    /\ committing' = FALSE
    /\ pc' = wakeup_log([pc EXCEPT ![p] = "idle"])
    /\ UNCHANGED <<durable, cache, lh, outstanding, tail, written, phase>>

-----------------------------------------------------------------------------
(* Power failure, or the reboot after a panic: memory is lost, the disk    *)
(* keeps every completed bwrite, and the kernel boots into recovery.       *)

Crash ==
    /\ cache' = disk
    /\ lh' = <<>>
    /\ outstanding' = 0
    /\ committing' = FALSE
    /\ tail' = 0
    /\ pc' = [p \in Procs |-> "idle"]
    /\ written' = [p \in Procs |-> {}]
    /\ phase' = "read_head"
    /\ UNCHANGED durable

ProcStep(p) ==
    \/ begin_op(p)
    \/ \E b \in Blocks, v \in Vals : log_write(p, b, v)
    \/ end_op(p)
    \/ write_log(p) \/ write_head(p) \/ install_trans(p)
    \/ clear_head(p) \/ end_commit(p)

Recovery == read_head \/ recover_install \/ recover_clear

Next ==
    \/ Recovery
    \/ \E p \in Procs : call_begin_op(p) \/ ProcStep(p)
    \/ Crash

Spec == Init /\ [][Next]_vars

\* Each process that is inside begin_op, a call or a commit keeps running,
\* every call is finite code that reaches end_op, and boot-time recovery
\* runs to completion; starting a call and crashing are never forced.
Fairness ==
    /\ WF_vars(Recovery)
    /\ \A p \in Procs : WF_vars(ProcStep(p)) /\ WF_vars(end_op(p))

FairSpec == Spec /\ Fairness
-----------------------------------------------------------------------------
(* Properties.                                                             *)

\* The reservation begin_op makes is enough: the sectors already in the
\* header plus what every running call may still add (MAXOPBLOCKS less the
\* distinct blocks it has written) never exceed LOGSIZE.  It is what lets
\* several calls share one transaction without overflowing lh.sector[],
\* and it depends on the admission check, absorption in log_write and the
\* reset of n at commit together.
ReservationSound ==
    phase = "up" =>
        Len(lh) + SumFunctionOnSet([p \in Procs |-> MAXOPBLOCKS - Cardinality(written[p])],
                                   {p \in Procs : pc[p] = "op"})
            <= LOGSIZE

\* log_write() never panics with "too big a transaction" for a call that
\* keeps to its MAXOPBLOCKS budget: the reservation made in begin_op is
\* meant to guarantee room for every write of the call.
NoTooBigTransaction == phase # "panic"

\* A process asleep in begin_op() on the log channel is woken again: every
\* end_op either wakes the sleepers or commits and then wakes them.
SleeperWoken == \A p \in Procs : pc[p] = "asleep" ~> pc[p] # "asleep"

\* "Commits when the last end_op() returns": a block a call has logged is
\* eventually in a committed header, unless the machine goes down first.
\* end_op commits only when outstanding drops to 0, and begin_op admits a
\* new call whenever the reservation fits, so calls that overlap one
\* another keep the group open.
LoggedCommits ==
    \A b \in Blocks :
        (phase = "up" /\ b \in ToSet(lh)) ~> (b \in ToSet(headdisk) \/ phase # "up")
=============================================================================
