------------------------------- MODULE XV6Proc -------------------------------
(***************************************************************************)
(* The process table of xv6 (fmt/proc.c): allocproc and fork, exit, wait,  *)
(* kill, yield, and the per-CPU scheduler's round-robin scan.              *)
(*                                                                         *)
(* Every function of proc.c that holds ptable.lock from start to end is    *)
(* one step.  fork releases the lock between allocproc and making the     *)
(* child RUNNABLE, so it is two steps (fork, fork_finish).  sleep inside   *)
(* wait is called with ptable.lock itself and never drops it, so wait's    *)
(* scan and its sleep are one step; its return from sleep is the step     *)
(* wait_resume.  Page tables, kernel stacks, open files and the cwd are    *)
(* left out: they do not change the process table.                         *)
(*                                                                         *)
(* What a running process does in user space is chosen freely among the   *)
(* system calls fork, exit, wait and kill; a timer interrupt (trap.c)      *)
(* yields, or exits a killed process.  initproc (slot 1) is set up by       *)
(* userinit and, as init.c, only forks and waits.                          *)
(***************************************************************************)
EXTENDS Integers, FiniteSets

CONSTANTS
    NPROC,      \* slots of ptable.proc
    CPUs,       \* the processors running scheduler()
    MAXPID      \* last pid allocproc hands out (bounds nextpid)

Slots   == 1..NPROC
NoSlot  == 0
INIT    == 1            \* initproc: the slot userinit allocates first
Pids    == 0..MAXPID
Live    == {"SLEEPING", "RUNNABLE", "RUNNING"}
States  == {"UNUSED", "EMBRYO", "ZOMBIE"} \cup Live

VARIABLES
    state,      \* p->state
    pid,        \* p->pid
    parent,     \* p->parent (a slot, or NoSlot for 0)
    killed,     \* p->killed
    chan,       \* p->chan (only wait sleeps here: its chan is the sleeper)
    nextpid,    \* nextpid
    cpu,        \* c -> the slot it runs (cpus[c].proc), NoSlot in scheduler()
    pos,        \* c -> the next slot scheduler()'s scan looks at
    kpc,        \* slot -> where its kernel code is: "user", "fork", "wait"
    np,         \* slot -> the child fork is setting up
    kills,      \* history: every pid kill() was called with
    panicked

vars == <<state, pid, parent, killed, chan, nextpid, cpu, pos, kpc, np,
          kills, panicked>>

Up == panicked = "none"

\* userinit(): initproc RUNNABLE with pid 1; the rest of ptable is zero.
Init ==
    /\ state   = [s \in Slots |-> IF s = INIT THEN "RUNNABLE" ELSE "UNUSED"]
    /\ pid     = [s \in Slots |-> IF s = INIT THEN 1 ELSE 0]
    /\ parent  = [s \in Slots |-> NoSlot]
    /\ killed  = [s \in Slots |-> FALSE]
    /\ chan    = [s \in Slots |-> NoSlot]
    /\ nextpid = 2
    /\ cpu     = [c \in CPUs |-> NoSlot]
    /\ pos     = [c \in CPUs |-> 1]
    /\ kpc     = [s \in Slots |-> "user"]
    /\ np      = [s \in Slots |-> NoSlot]
    /\ kills   = {}
    /\ panicked = "none"

Running(s) == state[s] = "RUNNING"

\* A process in user mode may make a system call: trap() exits a killed
\* process before the call is dispatched.
InUser(s) == /\ Up /\ Running(s) /\ kpc[s] = "user" /\ ~killed[s]

\* wakeup1(chan): every process SLEEPING on chan becomes RUNNABLE.
wakeup1(st, ch) ==
    [s \in Slots |-> IF st[s] = "SLEEPING" /\ chan[s] = ch THEN "RUNNABLE" ELSE st[s]]

\* The CPU running s goes back to scheduler() (sched + swtch).
LeaveCpu(s) == cpu' = [c \in CPUs |-> IF cpu[c] = s THEN NoSlot ELSE cpu[c]]

-----------------------------------------------------------------------------
(* scheduler(): one iteration of the scan, under ptable.lock.              *)

\* Mutation: the scan skips only UNUSED slots instead of everything that
\* is not RUNNABLE.
scheduler_any_used(c) ==
    /\ Up
    /\ cpu[c] = NoSlot
    /\ LET cand == {s \in Slots : s >= pos[c] /\ state[s] # "UNUSED"} IN
       IF cand = {}
       THEN /\ pos[c] # 1
            /\ pos' = [pos EXCEPT ![c] = 1]
            /\ UNCHANGED <<state, cpu>>
       ELSE LET p == CHOOSE s \in cand : \A t \in cand : s <= t IN
            /\ state' = [state EXCEPT ![p] = "RUNNING"]
            /\ cpu' = [cpu EXCEPT ![c] = p]
            /\ pos' = [pos EXCEPT ![c] = IF p = NPROC THEN 1 ELSE p + 1]
    /\ UNCHANGED <<pid, parent, killed, chan, nextpid, kpc, np, kills, panicked>>

\* Picks the first RUNNABLE slot at or after pos; when there is none the
\* loop ends, releases the lock and starts again from the first slot.
scheduler(c) ==
    /\ Up
    /\ cpu[c] = NoSlot
    /\ LET cand == {s \in Slots : s >= pos[c] /\ state[s] = "RUNNABLE"} IN
       IF cand = {}
       THEN /\ pos[c] # 1
            /\ pos' = [pos EXCEPT ![c] = 1]
            /\ UNCHANGED <<state, cpu>>
       ELSE LET p == CHOOSE s \in cand : \A t \in cand : s <= t IN
            /\ state' = [state EXCEPT ![p] = "RUNNING"]
            /\ cpu' = [cpu EXCEPT ![c] = p]
            /\ pos' = [pos EXCEPT ![c] = IF p = NPROC THEN 1 ELSE p + 1]
    /\ UNCHANGED <<pid, parent, killed, chan, nextpid, kpc, np, kills, panicked>>

-----------------------------------------------------------------------------
(* System calls.                                                           *)

\* fork(): allocproc takes the first UNUSED slot under ptable.lock, makes
\* it EMBRYO with pid nextpid++; with no free slot fork returns -1.
fork(s) ==
    /\ InUser(s)
    /\ nextpid <= MAXPID
    /\ LET free == {t \in Slots : state[t] = "UNUSED"} IN
       IF free = {}
       THEN UNCHANGED <<state, pid, nextpid, kpc, np>>
       ELSE LET t == CHOOSE t \in free : \A u \in free : t <= u IN
            /\ state' = [state EXCEPT ![t] = "EMBRYO"]
            /\ pid' = [pid EXCEPT ![t] = nextpid]
            /\ nextpid' = nextpid + 1
            /\ kpc' = [kpc EXCEPT ![s] = "fork"]
            /\ np' = [np EXCEPT ![s] = t]
    /\ UNCHANGED <<parent, killed, chan, cpu, pos, kills, panicked>>

\* The rest of fork: kalloc of the kernel stack or copyuvm may fail, and
\* then the slot is set back to UNUSED (without ptable.lock), its pid and
\* killed left as they are; otherwise np->parent = proc and, under the
\* lock, np->state = RUNNABLE.
fork_finish(s) ==
    /\ Up /\ Running(s) /\ kpc[s] = "fork"
    /\ \E ok \in BOOLEAN :
          IF ok
          THEN /\ parent' = [parent EXCEPT ![np[s]] = s]
               /\ state' = [state EXCEPT ![np[s]] = "RUNNABLE"]
          ELSE /\ state' = [state EXCEPT ![np[s]] = "UNUSED"]
               /\ UNCHANGED parent
    /\ kpc' = [kpc EXCEPT ![s] = "user"]
    /\ np' = [np EXCEPT ![s] = NoSlot]
    /\ UNCHANGED <<pid, killed, chan, nextpid, cpu, pos, kills, panicked>>

\* Mutation: a child handed to initproc while already a ZOMBIE does not
\* wake initproc.
exit_no_wake_init(s) ==
    /\ Up /\ Running(s) /\ kpc[s] = "user"
    /\ IF s = INIT
       THEN /\ panicked' = "init exiting"
            /\ UNCHANGED <<state, parent, cpu>>
       ELSE LET kids == {t \in Slots : parent[t] = s} IN
            /\ parent' = [t \in Slots |-> IF t \in kids THEN INIT ELSE parent[t]]
            /\ state' = [wakeup1(state, parent[s]) EXCEPT ![s] = "ZOMBIE"]
            /\ LeaveCpu(s)
            /\ UNCHANGED panicked
    /\ UNCHANGED <<pid, killed, chan, nextpid, pos, kpc, np, kills>>

\* Mutation: the children are not passed to initproc.
exit_no_reparent(s) ==
    /\ Up /\ Running(s) /\ kpc[s] = "user"
    /\ IF s = INIT
       THEN /\ panicked' = "init exiting"
            /\ UNCHANGED <<state, parent, cpu>>
       ELSE /\ state' = [wakeup1(state, parent[s]) EXCEPT ![s] = "ZOMBIE"]
            /\ LeaveCpu(s)
            /\ UNCHANGED <<parent, panicked>>
    /\ UNCHANGED <<pid, killed, chan, nextpid, pos, kpc, np, kills>>

\* exit(): panics for initproc.  Under ptable.lock: wake the parent, give
\* the children to initproc (waking it if one is already a ZOMBIE), become
\* ZOMBIE and switch to the scheduler.
exit(s) ==
    /\ Up /\ Running(s) /\ kpc[s] = "user"
    /\ IF s = INIT
       THEN /\ panicked' = "init exiting"
            /\ UNCHANGED <<state, parent, cpu>>
       ELSE LET kids   == {t \in Slots : parent[t] = s}
                woken  == wakeup1(state, parent[s])
                woken2 == IF \E t \in kids : state[t] = "ZOMBIE"
                          THEN wakeup1(woken, INIT) ELSE woken
            IN /\ parent' = [t \in Slots |-> IF t \in kids THEN INIT ELSE parent[t]]
               /\ state' = [woken2 EXCEPT ![s] = "ZOMBIE"]
               /\ LeaveCpu(s)
               /\ UNCHANGED panicked
    /\ UNCHANGED <<pid, killed, chan, nextpid, pos, kpc, np, kills>>

\* sleep(proc, &ptable.lock): chan = proc, SLEEPING, sched().
sleep(s, ch) ==
    /\ chan' = [ch EXCEPT ![s] = s]
    /\ kpc' = [kpc EXCEPT ![s] = "wait"]
    /\ LeaveCpu(s)

\* One pass of wait()'s loop under ptable.lock, ch being p->chan on entry:
\* reap the first ZOMBIE child (the slot is zeroed), else return -1 when
\* there are no children or proc->killed, else sleep on proc.
WaitPass(s, ch) ==
    LET kids    == {t \in Slots : parent[t] = s}
        zombies == {t \in kids : state[t] = "ZOMBIE"}
    IN IF zombies # {}
       THEN LET z == CHOOSE z \in zombies : \A u \in zombies : z <= u IN
            /\ state' = [state EXCEPT ![z] = "UNUSED"]
            /\ pid' = [pid EXCEPT ![z] = 0]
            /\ parent' = [parent EXCEPT ![z] = NoSlot]
            /\ killed' = [killed EXCEPT ![z] = FALSE]
            /\ kpc' = [kpc EXCEPT ![s] = "user"]
            /\ chan' = ch
            /\ UNCHANGED cpu
       ELSE IF kids = {} \/ killed[s]
       THEN /\ kpc' = [kpc EXCEPT ![s] = "user"]
            /\ chan' = ch
            /\ UNCHANGED <<state, pid, parent, killed, cpu>>
       ELSE /\ state' = [state EXCEPT ![s] = "SLEEPING"]
            /\ sleep(s, ch)
            /\ UNCHANGED <<pid, parent, killed>>

wait(s) ==
    /\ InUser(s)
    /\ WaitPass(s, chan)
    /\ UNCHANGED <<nextpid, pos, np, kills, panicked>>

\* Back from sleep(): proc->chan = 0, and the loop runs again.
wait_resume(s) ==
    /\ Up /\ Running(s) /\ kpc[s] = "wait"
    /\ WaitPass(s, [chan EXCEPT ![s] = NoSlot])
    /\ UNCHANGED <<nextpid, pos, np, kills, panicked>>

\* Mutation: kill() sets killed but leaves a SLEEPING victim asleep.
kill_no_wake(s, k) ==
    /\ InUser(s)
    /\ kills' = kills \cup {k}
    /\ LET hit == {t \in Slots : pid[t] = k} IN
       IF hit = {}
       THEN UNCHANGED killed
       ELSE killed' = [killed EXCEPT ![CHOOSE t \in hit : \A u \in hit : t <= u] = TRUE]
    /\ UNCHANGED <<state, pid, parent, chan, nextpid, cpu, pos, kpc, np, panicked>>

\* kill(pid): the first slot with that pid, whatever its state, gets
\* killed = 1 and is woken if SLEEPING; -1 when no slot has the pid.
kill(s, k) ==
    /\ InUser(s)
    /\ kills' = kills \cup {k}
    /\ LET hit == {t \in Slots : pid[t] = k} IN
       IF hit = {}
       THEN UNCHANGED <<state, killed>>
       ELSE LET t == CHOOSE t \in hit : \A u \in hit : t <= u IN
            /\ killed' = [killed EXCEPT ![t] = TRUE]
            /\ state' = [state EXCEPT ![t] = IF @ = "SLEEPING" THEN "RUNNABLE" ELSE @]
    /\ UNCHANGED <<pid, parent, chan, nextpid, cpu, pos, kpc, np, panicked>>

\* A timer interrupt in user mode (trap.c): a killed process exits,
\* any other yields (RUNNABLE, sched()).
tick(s) ==
    /\ Up /\ Running(s) /\ kpc[s] = "user"
    /\ IF killed[s]
       THEN exit(s)
       ELSE /\ state' = [state EXCEPT ![s] = "RUNNABLE"]
            /\ LeaveCpu(s)
            /\ UNCHANGED <<pid, parent, killed, chan, nextpid, pos, kpc, np,
                           kills, panicked>>

\* panic(): the machine stops.
Halted == ~Up /\ UNCHANGED vars

-----------------------------------------------------------------------------

\* What process s may do; initproc only forks and waits (init.c).
Syscall(s) ==
    \/ fork(s)
    \/ wait(s)
    \/ s # INIT /\ InUser(s) /\ exit(s)
    \/ s # INIT /\ \E k \in Pids : kill(s, k)

Kernel(s) == fork_finish(s) \/ wait_resume(s)

Next ==
    \/ \E c \in CPUs : scheduler(c)
    \/ \E s \in Slots : Syscall(s) \/ Kernel(s) \/ tick(s)
    \/ Halted

Spec == Init /\ [][Next]_vars

\* CPUs keep running scheduler(); the timer interrupt keeps coming; kernel
\* code that is running goes on.  No fairness for system calls.
FairSpec ==
    /\ Spec
    /\ \A c \in CPUs : WF_vars(scheduler(c))
    /\ \A s \in Slots : WF_vars(tick(s)) /\ WF_vars(Kernel(s))

-----------------------------------------------------------------------------
(* Properties.                                                             *)

TypeOK ==
    /\ state \in [Slots -> States]
    /\ pid \in [Slots -> Pids]
    /\ parent \in [Slots -> Slots \cup {NoSlot}]
    /\ killed \in [Slots -> BOOLEAN]
    /\ chan \in [Slots -> Slots \cup {NoSlot}]
    /\ nextpid \in 2..MAXPID + 1
    /\ cpu \in [CPUs -> Slots \cup {NoSlot}]
    /\ pos \in [CPUs -> Slots]
    /\ kpc \in [Slots -> {"user", "fork", "wait"}]
    /\ np \in [Slots -> Slots \cup {NoSlot}]
    /\ kills \subseteq Pids

\* exit() wakes the parent and, when it hands an already-ZOMBIE child to
\* initproc, wakes initproc: no process is asleep in wait() while one of
\* its children is a ZOMBIE (no lost wakeup between exit and wait).
ZombieParentAwake ==
    \A t \in Slots :
        state[t] = "ZOMBIE" /\ parent[t] # NoSlot => state[parent[t]] # "SLEEPING"

\* exit() reparents its children to initproc before it becomes a ZOMBIE, so
\* every process but initproc has a parent that has not exited: no child
\* points at a ZOMBIE or at a slot that wait() has freed and fork reused.
NoOrphans ==
    \A t \in Slots \ {INIT} :
        state[t] \in Live \cup {"ZOMBIE"} =>
            parent[t] # NoSlot /\ state[parent[t]] \in Live

\* kill() wakes a sleeping victim and wait() returns once proc->killed is
\* set, so a killed process eventually exits (or the machine has halted).
KilledExits ==
    \A s \in Slots :
        (killed[s] /\ state[s] \in Live) ~> (state[s] \in {"ZOMBIE", "UNUSED"} \/ ~Up)

\* scheduler() takes only a RUNNABLE process and marks it RUNNING under
\* ptable.lock, and every way off a CPU (yield, sleep, exit) leaves the
\* RUNNING state in the same step: with several CPUs scanning the table,
\* each RUNNING process is on exactly one CPU, and what a CPU runs is
\* RUNNING.
CpuExclusive ==
    /\ \A c \in CPUs : cpu[c] # NoSlot => Running(cpu[c])
    /\ \A s \in Slots : Running(s) => Cardinality({c \in CPUs : cpu[c] = s}) = 1

\* "Kill the process with the given pid" (proc.c): a live process is killed
\* only if kill() was called with its pid.
KillOnlyNamed ==
    \A s \in Slots : killed[s] /\ state[s] \in Live => pid[s] \in kills
====
