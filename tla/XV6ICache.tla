------------------------------ MODULE XV6ICache ------------------------------
(***************************************************************************)
(* The xv6 inode cache (fmt/fs.c): iget, ilock, iunlock, iput with its     *)
(* truncate-and-free path, and ialloc, for processes that each hold at     *)
(* most one inode reference.  A step is one critical section under         *)
(* icache.lock or one locked buffer access.                                *)
(*                                                                         *)
(* The dinode of inum i is dtype[i] and dnlink[i], written by iupdate or   *)
(* ialloc inside a transaction.  LogTxn shows the transactions atomic, so  *)
(* the buffer cache's copy is the disk here and crashes are left out: the  *)
(* inode cache is memory and does not survive them.                        *)
(*                                                                         *)
(* The callers (sys_open, create, sys_link, sys_unlink in sysfile.c) are   *)
(* not in the repository; Lookup, Link and Unlink are their steps as the   *)
(* spec describes them, and dirents[i] counts the directory entries that   *)
(* name inum i.                                                            *)
(***************************************************************************)
EXTENDS Naturals, FiniteSets, FiniteSetsExt

CONSTANTS
    Procs,      \* processes using inodes
    NINODES,    \* sb.ninodes: inums 1..NINODES-1 exist, 0 is reserved
    NINODE,     \* param.h: slots of the in-memory inode cache
    MAXLINK,    \* bound on the links of one inode
    InitProc    \* initproc: userinit gives it the root as its cwd

ASSUME NINODES \in Nat /\ NINODES >= 2 /\ NINODE \in Nat \ {0} /\ MAXLINK \in Nat \ {0}
       /\ InitProc \in Procs

Inums  == 1..(NINODES - 1)
Slots  == 1..NINODE
NoSlot == 0
T_FILE == 1

VARIABLES
    slot,       \* icache.inode[]: inum, ref, busy (I_BUSY), valid (I_VALID), type, nlink
    dtype,      \* dinode type of every inum (0 = free)
    dnlink,     \* dinode nlink of every inum
    dirents,    \* directory entries naming every inum
    pc,         \* where each process is
    held,       \* the cache slot each process holds a reference to
    cwd,        \* proc->cwd: the slot of each process's working directory
    scan,       \* ialloc's loop variable inum
    panicked    \* "none", or the message of the panic that halted the kernel

vars == <<slot, dtype, dnlink, dirents, pc, held, cwd, scan, panicked>>

Loc == {"idle", "ialloc", "ref", "exit", "ilock", "ilock_sleep", "ilock_woken", "ilock_read",
        "locked", "iput_free", "iput_release"}
\* Where a process owns I_BUSY of the slot it holds.
BusyLoc == {"ilock_read", "locked", "iput_free", "iput_release"}

Slot == [inum : Inums, ref : Nat, busy : BOOLEAN, valid : BOOLEAN,
         type : {0, T_FILE}, nlink : 0..MAXLINK]

TypeOK ==
    /\ slot \in [Slots -> Slot]
    /\ dtype \in [Inums -> {0, T_FILE}]
    /\ dnlink \in [Inums -> 0..MAXLINK]
    /\ dirents \in [Inums -> 0..MAXLINK]
    /\ pc \in [Procs -> Loc]
    /\ held \in [Procs -> Slots \cup {NoSlot}]
    /\ cwd \in [Procs -> Slots \cup {NoSlot}]
    /\ scan \in [Procs -> Inums]
    /\ panicked \in STRING

Up == panicked = "none"

\* After mkfs inum 1 (the root) is in use with one link.  userinit has
\* made initproc, whose cwd = namei("/") is iget(ROOTINO) in slot 1 (namex
\* returns "/" unlocked, so the slot is not I_VALID); the other processes
\* are not yet forked.
Init ==
    /\ slot = [s \in Slots |-> [inum |-> 1, ref |-> IF s = 1 THEN 1 ELSE 0, busy |-> FALSE,
                                valid |-> FALSE, type |-> 0, nlink |-> 0]]
    /\ dtype = [i \in Inums |-> IF i = 1 THEN T_FILE ELSE 0]
    /\ dnlink = [i \in Inums |-> IF i = 1 THEN 1 ELSE 0]
    /\ dirents = dnlink
    /\ pc = [p \in Procs |-> "idle"]
    /\ held = [p \in Procs |-> NoSlot]
    /\ cwd = [p \in Procs |-> IF p = InitProc THEN 1 ELSE NoSlot]
    /\ scan = [p \in Procs |-> 1]
    /\ panicked = "none"

\* wakeup(ip): every process asleep in ilock on slot s retries.
wakeup(s, pcs) ==
    [q \in Procs |-> IF pcs[q] = "ilock_sleep" /\ held[q] = s THEN "ilock_woken" ELSE pcs[q]]

Cached(i) == {s \in Slots : slot[s].ref > 0 /\ slot[s].inum = i}
Empty     == {s \in Slots : slot[s].ref = 0}

\* Mutation: the scan recycles the first empty slot it meets, even when a
\* later slot already caches the inode.
iget_first_empty(p, i, to) ==
    IF Empty # {} /\ (Cached(i) = {} \/ Min(Empty) < Min(Cached(i)))
    THEN /\ slot' = [slot EXCEPT ![Min(Empty)] =
                        [@ EXCEPT !.inum = i, !.ref = 1, !.busy = FALSE, !.valid = FALSE]]
         /\ held' = [held EXCEPT ![p] = Min(Empty)]
         /\ pc' = [pc EXCEPT ![p] = to]
         /\ UNCHANGED panicked
    ELSE IF Cached(i) # {}
    THEN /\ slot' = [slot EXCEPT ![Min(Cached(i))].ref = @ + 1]
         /\ held' = [held EXCEPT ![p] = Min(Cached(i))]
         /\ pc' = [pc EXCEPT ![p] = to]
         /\ UNCHANGED panicked
    ELSE /\ panicked' = "iget: no inodes"
         /\ UNCHANGED <<slot, held, pc>>

\* iget(dev, inum) under icache.lock: share the cached slot, else recycle
\* the first empty one (flags = 0), else panic.  p continues at "to".
iget(p, i, to) ==
    IF Cached(i) # {}
    THEN /\ slot' = [slot EXCEPT ![Min(Cached(i))].ref = @ + 1]
         /\ held' = [held EXCEPT ![p] = Min(Cached(i))]
         /\ pc' = [pc EXCEPT ![p] = to]
         /\ UNCHANGED panicked
    ELSE IF Empty # {}
    THEN /\ slot' = [slot EXCEPT ![Min(Empty)] =
                        [@ EXCEPT !.inum = i, !.ref = 1, !.busy = FALSE, !.valid = FALSE]]
         /\ held' = [held EXCEPT ![p] = Min(Empty)]
         /\ pc' = [pc EXCEPT ![p] = to]
         /\ UNCHANGED panicked
    ELSE /\ panicked' = "iget: no inodes"
         /\ UNCHANGED <<slot, held, pc>>

-----------------------------------------------------------------------------
(* Callers.                                                                *)

\* A process that has a cwd has been forked and has not exited.
Live(p) == cwd[p] # NoSlot

\* Mutation: idup hands out the slot without counting the reference.
idup_no_ref(s) == slot

\* idup(ip): ip->ref++ under icache.lock.
idup(s) == [slot EXCEPT ![s].ref = @ + 1]

\* fork: np->cwd = idup(proc->cwd), for a child in a free process slot.
Fork(p, c) ==
    /\ Up
    /\ pc[p] = "idle" /\ Live(p)
    /\ pc[c] = "idle" /\ ~Live(c)
    /\ slot' = idup(cwd[p])
    /\ cwd' = [cwd EXCEPT ![c] = cwd[p]]
    /\ UNCHANGED <<dtype, dnlink, dirents, pc, held, scan, panicked>>

\* namex on a relative path starts from ip = idup(proc->cwd).
LookupCwd(p) ==
    /\ Up
    /\ pc[p] = "idle" /\ Live(p)
    /\ slot' = idup(cwd[p])
    /\ held' = [held EXCEPT ![p] = cwd[p]]
    /\ pc' = [pc EXCEPT ![p] = "ref"]
    /\ UNCHANGED <<dtype, dnlink, dirents, cwd, scan, panicked>>

\* exit (not initproc, with its files closed): iput(proc->cwd);
\* proc->cwd = 0.  The iput is the process's next step.
Exit(p) ==
    /\ Up
    /\ pc[p] = "idle" /\ Live(p) /\ p # InitProc
    /\ held' = [held EXCEPT ![p] = cwd[p]]
    /\ cwd' = [cwd EXCEPT ![p] = NoSlot]
    /\ pc' = [pc EXCEPT ![p] = "exit"]
    /\ UNCHANGED <<slot, dtype, dnlink, dirents, scan, panicked>>

\* dirlookup finds an entry for inum i (under the directory's lock) and
\* returns iget(dev, i).
Lookup(p, i) ==
    /\ Up
    /\ pc[p] = "idle" /\ Live(p)
    /\ dirents[i] > 0
    /\ iget(p, i, "ref")
    /\ UNCHANGED <<dtype, dnlink, dirents, scan>>

\* create() calls ialloc(dev, T_FILE).
Create(p) ==
    /\ Up
    /\ pc[p] = "idle" /\ Live(p)
    /\ pc' = [pc EXCEPT ![p] = "ialloc"]
    /\ scan' = [scan EXCEPT ![p] = 1]
    /\ UNCHANGED <<slot, dtype, dnlink, dirents, held, panicked>>

\* One iteration of ialloc's loop, with the inode block locked: a free
\* dinode is zeroed, typed and logged, then iget returns its slot.
ialloc(p) ==
    /\ Up
    /\ pc[p] = "ialloc"
    /\ LET i == scan[p] IN
       IF dtype[i] = 0
       THEN /\ dtype' = [dtype EXCEPT ![i] = T_FILE]
            /\ dnlink' = [dnlink EXCEPT ![i] = 0]
            /\ iget(p, i, "ref")
            /\ UNCHANGED scan
       ELSE IF i + 1 < NINODES
       THEN /\ scan' = [scan EXCEPT ![p] = i + 1]
            /\ UNCHANGED <<slot, dtype, dnlink, pc, held, panicked>>
       ELSE /\ panicked' = "ialloc: no inodes"
            /\ UNCHANGED <<slot, dtype, dnlink, pc, held, scan>>
    /\ UNCHANGED dirents

\* With the inode locked: ip->nlink++; iupdate(ip); dirlink(dp, name, inum)
\* (create's first link and sys_link).
Link(p) ==
    /\ Up
    /\ pc[p] = "locked"
    /\ LET s == held[p] IN
       /\ slot[s].nlink < MAXLINK
       /\ slot' = [slot EXCEPT ![s].nlink = @ + 1]
       /\ dnlink' = [dnlink EXCEPT ![slot[s].inum] = slot[s].nlink + 1]
       /\ dirents' = [dirents EXCEPT ![slot[s].inum] = @ + 1]
    /\ UNCHANGED <<dtype, pc, held, scan, panicked>>

\* sys_unlink with the inode locked: clear the entry, ip->nlink--, iupdate.
Unlink(p) ==
    /\ Up
    /\ pc[p] = "locked"
    /\ LET s == held[p] IN
       /\ dirents[slot[s].inum] > 0
       /\ slot' = [slot EXCEPT ![s].nlink = @ - 1]
       /\ dnlink' = [dnlink EXCEPT ![slot[s].inum] = slot[s].nlink - 1]
       /\ dirents' = [dirents EXCEPT ![slot[s].inum] = @ - 1]
    /\ UNCHANGED <<dtype, pc, held, scan, panicked>>

CallIlock(p) ==
    /\ Up
    /\ pc[p] = "ref"
    /\ pc' = [pc EXCEPT ![p] = "ilock"]
    /\ UNCHANGED <<slot, dtype, dnlink, dirents, held, scan, panicked>>

-----------------------------------------------------------------------------
(* ilock, iunlock, iput.                                                   *)

\* Mutation: ilock tests I_BUSY once ("if" for "while"), so a process back
\* from sleep takes the lock without checking it again.
ilock_no_recheck(p) ==
    /\ Up
    /\ pc[p] \in {"ilock", "ilock_woken"}
    /\ LET s == held[p] IN
       IF slot[s].busy /\ pc[p] = "ilock"
       THEN /\ pc' = [pc EXCEPT ![p] = "ilock_sleep"]
            /\ UNCHANGED slot
       ELSE /\ slot' = [slot EXCEPT ![s].busy = TRUE]
            /\ pc' = [pc EXCEPT ![p] = "ilock_read"]
    /\ UNCHANGED <<dtype, dnlink, dirents, held, scan, panicked>>

\* ilock, under icache.lock: while I_BUSY sleep(ip); then set I_BUSY.
\* "ilock_woken" is the loop head after sleep() returns.
ilock(p) ==
    /\ Up
    /\ pc[p] \in {"ilock", "ilock_woken"}
    /\ LET s == held[p] IN
       IF slot[s].busy
       THEN /\ pc' = [pc EXCEPT ![p] = "ilock_sleep"]
            /\ UNCHANGED slot
       ELSE /\ slot' = [slot EXCEPT ![s].busy = TRUE]
            /\ pc' = [pc EXCEPT ![p] = "ilock_read"]
    /\ UNCHANGED <<dtype, dnlink, dirents, held, scan, panicked>>

\* ilock after icache.lock is released: if not I_VALID, copy the dinode in,
\* set I_VALID, and panic on a free dinode.
ilock_read(p) ==
    /\ Up
    /\ pc[p] = "ilock_read"
    /\ LET s == held[p]
           i == slot[s].inum
       IN IF slot[s].valid
          THEN /\ pc' = [pc EXCEPT ![p] = "locked"]
               /\ UNCHANGED <<slot, panicked>>
          ELSE /\ slot' = [slot EXCEPT ![s].type = dtype[i], ![s].nlink = dnlink[i],
                                       ![s].valid = TRUE]
               /\ IF dtype[i] = 0
                  THEN /\ panicked' = "ilock: no type"
                       /\ UNCHANGED pc
                  ELSE /\ pc' = [pc EXCEPT ![p] = "locked"]
                       /\ UNCHANGED panicked
    /\ UNCHANGED <<dtype, dnlink, dirents, held, scan>>

\* Mutation: iunlock clears I_BUSY but does not wakeup(ip).
iunlock_no_wakeup(p) ==
    /\ Up
    /\ pc[p] = "locked"
    /\ slot' = [slot EXCEPT ![held[p]].busy = FALSE]
    /\ pc' = [pc EXCEPT ![p] = "ref"]
    /\ UNCHANGED <<dtype, dnlink, dirents, held, scan, panicked>>

\* iunlock: clear I_BUSY and wakeup(ip) under icache.lock.
iunlock(p) ==
    /\ Up
    /\ pc[p] = "locked"
    /\ slot' = [slot EXCEPT ![held[p]].busy = FALSE]
    /\ pc' = wakeup(held[p], [pc EXCEPT ![p] = "ref"])
    /\ UNCHANGED <<dtype, dnlink, dirents, held, scan, panicked>>

\* Mutation: the last-reference test forgets ref == 1, so an unlinked
\* inode is freed while other processes still hold it.
iput_any_ref(p) ==
    /\ Up
    /\ pc[p] \in {"ref", "exit"}
    /\ LET s == held[p] IN
       IF slot[s].valid /\ slot[s].nlink = 0
       THEN /\ IF slot[s].busy
               THEN /\ panicked' = "iput busy"
                    /\ UNCHANGED <<slot, pc, held>>
               ELSE /\ slot' = [slot EXCEPT ![s].busy = TRUE]
                    /\ pc' = [pc EXCEPT ![p] = "iput_free"]
                    /\ UNCHANGED <<held, panicked>>
       ELSE /\ slot' = [slot EXCEPT ![s].ref = @ - 1]
            /\ held' = [held EXCEPT ![p] = NoSlot]
            /\ pc' = [pc EXCEPT ![p] = "idle"]
            /\ UNCHANGED panicked
    /\ UNCHANGED <<dtype, dnlink, dirents, scan>>

\* iput under icache.lock (a caller's, or exit's of the cwd): the last
\* reference to a valid unlinked inode takes I_BUSY to free it; any other
\* reference is just dropped.
iput(p) ==
    /\ Up
    /\ pc[p] \in {"ref", "exit"}
    /\ LET s == held[p] IN
       IF slot[s].ref = 1 /\ slot[s].valid /\ slot[s].nlink = 0
       THEN /\ IF slot[s].busy
               THEN /\ panicked' = "iput busy"
                    /\ UNCHANGED <<slot, pc, held>>
               ELSE /\ slot' = [slot EXCEPT ![s].busy = TRUE]
                    /\ pc' = [pc EXCEPT ![p] = "iput_free"]
                    /\ UNCHANGED <<held, panicked>>
       ELSE /\ slot' = [slot EXCEPT ![s].ref = @ - 1]
            /\ held' = [held EXCEPT ![p] = NoSlot]
            /\ pc' = [pc EXCEPT ![p] = "idle"]
            /\ UNCHANGED panicked
    /\ UNCHANGED <<dtype, dnlink, dirents, scan>>

\* Without icache.lock: itrunc(ip); ip->type = 0; iupdate(ip).  The dinode
\* becomes free and another ialloc may take the inum from here on.
iput_free(p) ==
    /\ Up
    /\ pc[p] = "iput_free"
    /\ LET s == held[p] IN
       /\ slot' = [slot EXCEPT ![s].type = 0]
       /\ dtype' = [dtype EXCEPT ![slot[s].inum] = 0]
       /\ dnlink' = [dnlink EXCEPT ![slot[s].inum] = slot[s].nlink]
    /\ pc' = [pc EXCEPT ![p] = "iput_release"]
    /\ UNCHANGED <<dirents, held, scan, panicked>>

\* Mutation: the freeing path drops the reference twice, once after the
\* wakeup and once more where the two branches of iput join.
iput_release_double_put(p) ==
    /\ Up
    /\ pc[p] = "iput_release"
    /\ LET s == held[p] IN
       slot' = [slot EXCEPT ![s].busy = FALSE, ![s].valid = FALSE, ![s].ref = @ - 2]
    /\ pc' = wakeup(held[p], [pc EXCEPT ![p] = "idle"])
    /\ held' = [held EXCEPT ![p] = NoSlot]
    /\ UNCHANGED <<dtype, dnlink, dirents, scan, panicked>>

\* Mutation: only I_BUSY is cleared, so the slot stays I_VALID with the
\* freed inode's fields.
iput_release_keep_valid(p) ==
    /\ Up
    /\ pc[p] = "iput_release"
    /\ LET s == held[p] IN
       slot' = [slot EXCEPT ![s].busy = FALSE, ![s].ref = @ - 1]
    /\ pc' = wakeup(held[p], [pc EXCEPT ![p] = "idle"])
    /\ held' = [held EXCEPT ![p] = NoSlot]
    /\ UNCHANGED <<dtype, dnlink, dirents, scan, panicked>>

\* Back under icache.lock: ip->flags = 0; wakeup(ip); then ip->ref--.
iput_release(p) ==
    /\ Up
    /\ pc[p] = "iput_release"
    /\ LET s == held[p] IN
       slot' = [slot EXCEPT ![s].busy = FALSE, ![s].valid = FALSE, ![s].ref = @ - 1]
    /\ pc' = wakeup(held[p], [pc EXCEPT ![p] = "idle"])
    /\ held' = [held EXCEPT ![p] = NoSlot]
    /\ UNCHANGED <<dtype, dnlink, dirents, scan, panicked>>

\* panic() spins with interrupts off: the kernel stays where it is.
Halted ==
    /\ ~Up
    /\ UNCHANGED vars

-----------------------------------------------------------------------------

\* The steps a process must take once it has begun them.
Progress(p) ==
    /\ \/ ialloc(p) \/ ilock(p) \/ ilock_read(p) \/ iunlock(p)
       \/ iput_free(p) \/ iput_release(p)
    /\ UNCHANGED cwd

Next ==
    \/ \E p \in Procs :
          \/ /\ \/ \E i \in Inums : Lookup(p, i)
                \/ Create(p) \/ Link(p) \/ Unlink(p) \/ CallIlock(p) \/ iput(p)
             /\ UNCHANGED cwd
          \/ Progress(p)
          \/ LookupCwd(p) \/ Exit(p)
          \/ \E c \in Procs : Fork(p, c)
    \/ Halted

Spec == Init /\ [][Next]_vars

\* The scheduler runs every runnable process, and a process that holds an
\* inode lock releases it (every call ends with iunlock or iunlockput).
\* Taking a reference, locking it and dropping it are the callers' choice.
FairSpec == Spec /\ \A p \in Procs : WF_vars(Progress(p))

-----------------------------------------------------------------------------
(* Properties.                                                             *)

\* iget never gives one inode two live cache slots: all holders of an inum
\* share one slot, so I_BUSY on it excludes them all.
UniqueSlot ==
    \A s, t \in Slots :
        s # t /\ slot[s].ref > 0 /\ slot[t].ref > 0 => slot[s].inum # slot[t].inum

\* I_BUSY is a lock: at most one process is past the while loop of ilock
\* (or inside iput's freeing path) on any slot, and a slot's I_BUSY is set
\* exactly when one is.
LockExclusive ==
    \A s \in Slots :
        LET owners == {p \in Procs : held[p] = s /\ pc[p] \in BusyLoc}
        IN Cardinality(owners) <= 1 /\ (slot[s].busy <=> owners # {})

\* A process that has returned from ilock sees the dinode as it is on disk,
\* even when its slot was shared with a dying inode and the inum reused.
LockedMirrorsDisk ==
    \A p \in Procs :
        pc[p] = "locked" =>
            /\ slot[held[p]].type = dtype[slot[held[p]].inum]
            /\ slot[held[p]].nlink = dnlink[slot[held[p]].inum]

\* Neither "ilock: no type", "iput busy" nor "iget: no inodes" can happen
\* (running out of dinodes in ialloc is a full disk, not a fault).
NoPanic == panicked \in {"none", "ialloc: no inodes"}

\* Spec: "ref equals the number of live holders (open files + cwd
\* references + in-flight path walk borrows)".  Every slot's ref counts
\* exactly the processes holding it and the cwds naming it, through
\* fork's and namex's idup, exit's iput and iput's freeing path.
RefCountsHolders ==
    \A s \in Slots :
        slot[s].ref = Cardinality({p \in Procs : held[p] = s})
                      + Cardinality({p \in Procs : cwd[p] = s})

\* A working directory is never freed under a live process: its slot is
\* referenced and still names that inode, and the dinode is allocated,
\* even after the last name of it is unlinked and other holders iput it.
CwdAlive ==
    \A p \in Procs :
        Live(p) => /\ slot[cwd[p]].ref > 0
                   /\ dtype[slot[cwd[p]].inum] # 0

\* A process asleep in ilock is woken by iunlock or by iput's release.
IlockWaiterWoken ==
    \A p \in Procs : pc[p] = "ilock_sleep" ~> (pc[p] # "ilock_sleep" \/ ~Up)
=============================================================================
