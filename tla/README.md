# TLA+ models of the xv6 file-system core

This directory holds TLA+ models of the xv6 teaching kernel whose sources are
under `src/pdos/xv6-comment/`. The files are `log.c`, `file.h`, and under
`fmt/` the listing versions of `fs.c`, `log.c`, `proc.c`, `console.c` and
`file.h`. The listing versions carry the xv6 book's line numbers in a leading
column. `fmt/log.c` and `log.c` hold the same code; the map cites `log.c`.
The models are checked with TLC. `PROJECT.json` lists the components, the
runs, the mutants, the map from every definition to the lines it translates,
the findings and the hazards.

## 1. Inventory

### Components and their state

| Component | Source | State | Operations |
|---|---|---|---|
| Log | `log.c` | `log.lh` (n, sector[]), `outstanding`, `committing`, `log.lock`; on disk: header block, payload blocks | `initlog`/`recover_from_log`, `begin_op`, `log_write`, `end_op`, `commit` (`write_log`, `write_head`, `install_trans`) |
| Block allocator | `fmt/fs.c` 37-101 | bitmap blocks (through the log) | `balloc`, `bfree`, `bzero` |
| Inode cache | `fmt/fs.c` 169-385 | `icache.inode[NINODE]`: dev, inum, ref, flags (I_BUSY, I_VALID) and a copy of the dinode; `icache.lock` | `iget`, `idup`, `ilock`, `iunlock`, `iput`, `iunlockput`, `ialloc`, `iupdate` |
| Inode content | `fmt/fs.c` 401-632 | `addrs[NDIRECT+1]`, indirect block, `size` | `bmap`, `itrunc`, `readi`, `writei`, `stati` |
| Directories | `fmt/fs.c` 651-729 | directory content: an array of dirents | `namecmp`, `dirlookup`, `dirlink` |
| Path resolver | `fmt/fs.c` 751-855 | none of its own; the walker holds inode references | `skipelem`, `namex`, `namei`, `nameiparent` |
| Processes | `fmt/proc.c` | `ptable.proc[NPROC]`: state, pid, parent, chan, killed, cwd, ofile; `ptable.lock` | `allocproc`, `fork`, `exit`, `wait`, `sleep`, `wakeup`, `kill`, `scheduler`, `sched`, `yield` |
| Console | `fmt/console.c` | input ring `buf[INPUT_BUF]` with unsigned indices r, w, e; `input.lock`, `cons.lock`, `panicked` | `consoleintr`, `consoleread`, `consolewrite`, `cprintf`, `panic` |
| Types | `file.h` | `struct file`, `struct inode`, `devsw` | none (`struct inode` is `XV6ICache`'s `Slot`) |

### How they interact

* Every file-system call runs between `begin_op()` and `end_op()`. Each block
  it changes goes through `bread`, a change to the cached buffer, then
  `log_write`, then `brelse`. The buffer cache is not in the sources; the
  models treat it as one cached copy of each block.
* The log commits when the last running call ends (group commit). The
  commit runs without `log.lock`, and the `committing` flag keeps new calls
  out meanwhile. `begin_op` sleeps on the log channel and `end_op` wakes it.
* The inode cache sits on top of the log. `ialloc`, `iupdate`, `itrunc`,
  `bmap`/`balloc`/`bfree` and `writei` all call `log_write`. `iput` may
  truncate, so it must run inside a transaction.
* `ilock` sleeps on the inode, with `icache.lock` as the lock handed to
  `sleep`. `iunlock` and `iput` wake it.
* `namex` walks a path. It holds references across steps and at most one
  inode lock at a time. It calls `dirlookup`, which calls `readi` and `iget`.
* `sleep`/`wakeup` (`proc.c`) is the single blocking primitive of all of the
  above. `sleep` takes `ptable.lock` before it releases the caller's lock,
  so a wakeup cannot be lost.
* The console is a device (`devsw[CONSOLE]`). `readi`/`writei` dispatch to
  `consoleread`/`consolewrite`. These unlock the inode while they sleep on
  `input.r`. The keyboard interrupt (`consoleintr`) fills the ring.

### What is hard

* **Crashes.** A crash can fall between any two disk writes of a commit or
  of recovery. Only `write_head` makes a group durable. Recovery must be
  idempotent.
* **Concurrency.** Calls share one log transaction. Admission is by a
  pessimistic reservation, and absorption merges writes to the same block.
  `iput` drops `icache.lock` in the middle of freeing an inode. `namex`
  walks in parallel with `unlink`/`create`. `exit` and `wait` meet through
  `ptable.lock`.
* **Sleep and wake.** Four channels are used: the log, each inode, `input.r`
  and a process. Every sleeper must have a matching wakeup.
* **Bounds.** LOGSIZE and MAXOPBLOCKS limit the log, NINODE the inode
  cache, MAXFILE writes, and INPUT_BUF the console ring. The ring indices
  are 32-bit unsigned and wrap.

### What makes each component correct

* Log: the groups of calls are atomic across crashes, and recovery is
  idempotent. The reservation covers every running call, so `log_write`
  never panics for a call within its budget. Every `begin_op` sleeper is
  eventually woken.
* Inode cache: one slot per live (dev, inum). `I_BUSY` is mutual exclusion.
  A valid slot mirrors the dinode. `ilock` never meets type 0 for a live
  inode. `ref` counts the holders. Waiters in `ilock` are woken.
* Allocator and content: a block is set in the bitmap iff some live inode
  references it (allocation duality). No block is double-allocated or leaked
  across crashes. Reads and writes respect `size` and MAXFILE, including at
  the 32-bit wrap.
* Directories and paths: `dirlink` then `dirlookup` finds the entry. Names
  longer than DIRSIZ alias. A walk holds one lock at a time and never
  deadlocks.
* Processes: a zombie is reaped by its parent, or by init after
  reparenting. `wait` never misses an `exit`. A killed sleeper wakes.
* Console: the ring never overfills, and `r <= w <= e` holds modulo 2^32.
  A reader is woken once a line is complete.

## 2. Plan

Modules, in the order they are built, most important first:

1. **`LogTxn`** (done). The abstract contract of the log: group transactions
   that are atomic across crashes.
2. **`XV6Log` + `MCXV6Log`** (done). The log of `log.c` with crashes at every
   disk write, shown to refine `LogTxn`, plus the reservation invariant and
   the wakeup liveness.
3. **`XV6ICache` + `MCXV6ICache`** (done). `iget`/`idup`/`ilock`/`iunlock`/`iput`/`ialloc`/`iupdate`
   with the icache lock, the flags, and sleeping on `I_BUSY`. The disk inode
   is a type and an nlink per inum, written atomically (a transaction by
   `LogTxn`). Properties: one slot per inum, mutual exclusion, no "ilock: no
   type" panic, valid slots mirror the dinode, waiters are woken.
4. **`XV6Alloc` + `MCXV6Alloc`** (done). `balloc`/`bfree`/`bmap`/`itrunc`/`writei`/`readi` over a
   bitmap, with offsets as 32-bit values. Property: allocation duality, with
   crashes taken at transaction granularity, which `LogTxn` justifies. It
   also covers size and MAXFILE boundaries and the `off + n` wrap.
5. **`XV6Name`, `XV6Path` + MC modules** (done). `skipelem` and `namecmp` as
   recursive operators, checked against a reference over short strings.
   `namex` over a small directory tree with concurrent walkers, `dirlink` and
   unlink. Properties: unique names, slot reuse, every call returns.
6. **`XV6Console` + `MCXV6Console`** (done). The input ring with indices
   modulo 2^W, `consoleintr` editing (backspace, ^U, ^D), and `consoleread`
   sleeping and being killed.
7. **`XV6Proc` + `MCXV6Proc`** (done). `fork`/`exit`/`wait`/`kill`/`yield`
   and the scheduler's scan, with reparenting to init.
8. **`LoggedCommits`** (done). Liveness of durability under group commit:
   does every logged write eventually reach a committed header? It fails
   under weak fairness, because calls may overlap forever (run
   `log_commit_starved`).
9. **Console output in `XV6Console`** (done). `cgaputc`'s cursor and scroll
   over the 6845's registers, driven by the keyboard echo and by
   `consolewrite`, with the keyboard interrupt on CPU 0.
10. **`readi` in `XV6Alloc`, cwd references in `XV6ICache`** (done). A read
    never reaches an unmapped block. `idup` from `fork` and `namex` and
    `exit`'s `iput` of the cwd keep every `ref` equal to its holders.
11. **`ConsoleFifo`** (done). The console's line discipline as sequences,
    which `XV6Console` refines.
12. **`cprintf` and two CPUs** (done). `cprintf`'s format loop as a recursive
    operator, checked against a positional rendering. The process run on
    two CPUs, where no process runs on two at once.

## 3. The log (`XV6Log`, `LogTxn`, `MCXV6Log`)

### Correspondence with `log.c`

| Code | Model |
|---|---|
| `log.lh.n`, `log.lh.sector[]` | `lh`, a sequence of sectors (n = `Len(lh)`) |
| on-disk header | `headdisk` |
| log payload blocks `start+1..` | `logdisk[1..LOGCAP]` |
| home blocks on disk / in the buffer cache | `disk` / `cache` |
| `log.outstanding`, `log.committing` | `outstanding`, `committing` |
| loop index `tail` of `write_log`/`install_trans` | `tail` |
| where each process is | `pc[p]`: idle, begin (inside `begin_op`), asleep (on `&log`), op (in a call), then write_log, write_head, install, clear, wake (the committer inside `end_op`) |
| `initlog`/`recover_from_log` | `phase` = read_head, recover_install, recover_clear, then up; `panic` when the kernel has halted |

Each action is one critical section or one `bwrite`:

* `begin_op` is one pass of the loop under `log.lock`. It either sleeps or
  admits the call.
* `log_write` is the caller's `bread`/modify/`log_write`/`brelse`. It
  includes both panics: the size check comes first, before absorption.
* `end_op` is the part under the lock.
* `write_log`, `install_trans` (one block per step), `write_head` and
  `clear_head` are the disk writes of `commit`.
* `end_commit` is the re-acquire that clears `committing` and wakes the
  sleepers.
* `Crash` models power failure or the reboot after a panic. Memory is lost,
  the disk keeps every completed write, and the kernel boots into recovery.

`written[p]` is not kernel state. It records the caller contract that a call
writes at most MAXOPBLOCKS distinct blocks; the guard of `log_write`
enforces it.

### Properties and runs

* `LogRefinesTxn` (run `log`). The log implements `LogTxn` under the
  refinement mapping:
  * `mem` is the cache while running, and the recovered disk while rebooting;
  * `dsk` is what recovery would rebuild from the disk now (`Recovered`);
  * `active` is the set of processes in a call.

  The only step that changes `dsk` is `write_head`, and it copies exactly
  the memory of a quiescent group. Recovery steps leave `dsk` unchanged,
  which is idempotence.
* `ReservationSound` (`log`). `n` plus the unused budget of every
  running call stays at most LOGSIZE.
* `SleeperWoken` (`log`). A process asleep on the log channel is
  woken.
* `NoTooBigTransaction` (`log_absorb_panic`, expected violation). See
  Findings.
* `LoggedCommits` (`log_commit_starved`, expected violation). A block that
  a call has logged eventually reaches a committed header, unless the
  machine goes down first. See Findings.

### Bounds

* `log` uses 2 processes, 2 blocks, 2 values, LOGSIZE = LOGCAP = 4 and
  MAXOPBLOCKS = 2, under `FairSpec`. Two calls share a transaction and
  fill the reservation, blocks are absorbed, and both begin_op sleeps (for
  a commit, and for log space) are reached. A crash is allowed at every
  step. With two blocks n ≤ 2 < LOGSIZE, so the log cannot reach the
  panic, and a halted kernel does not mask a lost wakeup. No symmetry is used, because `SleeperWoken` is a liveness
  property. It explores about 47,000 states in 15 s. (A third block makes
  the fair run take over 10 minutes.)
* `log_commit_starved` uses one block, LOGSIZE = 3 and MAXOPBLOCKS = 1: a
  call that has logged the block leaves room (1 + 2 × 1 ≤ 3) for a second
  call to join.
* `log_absorb_panic` uses the smallest case that shows the bug: LOGSIZE = 2
  and MAXOPBLOCKS = 1 with two calls.

### Fairness

Weak fairness holds for each process's steps inside `begin_op`, a call or a
commit, and for recovery. The scheduler runs every runnable process
(`scheduler` loops over the table). Weak fairness also holds for `end_op`,
because every system call is finite code that reaches it. Starting a call
and crashing are not fair; a process may stay idle forever.

## 4. The inode cache (`XV6ICache`, `MCXV6ICache`)

### Correspondence with `fs.c`

| Code | Model |
|---|---|
| `icache.inode[NINODE]` | `slot`, records of inum, ref, busy (`I_BUSY`), valid (`I_VALID`), type, nlink |
| dinode type and nlink of each inum | `dtype`, `dnlink` (inums 1..NINODES-1; 0 is reserved as in `ialloc`) |
| directory entries naming an inum | `dirents` (the callers' view; directories themselves are `XV6Path`'s) |
| the inode a process holds | `held[p]`, a slot index; each process holds at most one reference besides its cwd |
| `proc->cwd` | `cwd[p]`, a slot index or `NoSlot` (not forked, or exited). `userinit`'s `namei("/")` leaves initproc's in slot 1 (`Init`) |
| `idup` | `idup(s)`: `ref++` under `icache.lock`; used by `Fork` (`np->cwd = idup(proc->cwd)`, `proc.c`) and `LookupCwd` (`namex`'s relative start) |
| `exit`'s `iput(proc->cwd); proc->cwd = 0` | `Exit(p)`: the cwd becomes the held reference and `iput` drops it at `pc = "exit"` |
| `ialloc`'s loop variable | `scan[p]` |
| `panic(...)` | `panicked` holds the message; `Halted` is `panic`'s endless loop |
| `iget` | `iget(p, i, to)`: an atomic step under `icache.lock` that shares the cached slot, else recycles the first empty one, else panics |
| `ialloc` | `ialloc(p)`: one loop iteration per step, with the inode block locked |
| `ilock` | `ilock` (the `while(I_BUSY) sleep` loop under `icache.lock`; `ilock_woken` is the loop head after `sleep` returns), then `ilock_read` (without the lock: read the dinode if not valid, panic on type 0) |
| `iunlock` | `iunlock`: clear `I_BUSY`, `wakeup` |
| `iput` | `iput` (the test under the lock: drop the reference, or take `I_BUSY` to free), `iput_free` (`itrunc`, `type = 0`, `iupdate`, without the lock), `iput_release` (`flags = 0`, `wakeup`, `ref--`) |
| `dirlookup` | `Lookup(p, i)`: a directory entry for `i` is found and `iget(dev, inum)` returned |
| `create`/`sys_link`/`sys_unlink` | `Create`, `Link`, `Unlink`. These are not in the repository; they are modelled from the spec |

The dinode is written in place. `XV6Log`'s refinement of `LogTxn` makes
every system call's writes atomic across crashes, and the inode cache is
memory only, so crashes are left out of this module.

### Properties and runs

* `UniqueSlot`: no inum has two live slots. A broken scan order in `iget`
  would give it two.
* `LockExclusive`: `I_BUSY` is set exactly when one process owns it. The
  owner is either past `ilock`'s loop or inside `iput`'s freeing path.
  Replacing the `while` by an `if` breaks this: a woken sleeper and a
  re-locking owner both take the lock.
* `LockedMirrorsDisk`: a process returning from `ilock` sees the current
  dinode. The hard case is the one where `iput` frees an inode and another
  process's `ialloc` reuses the inum. The new user then shares the dying
  slot and sleeps on it. It relies on `iput_release` clearing `I_VALID`.
* `NoPanic`: neither "ilock: no type", "iput busy" nor "iget: no inodes"
  happens. Running out of dinodes in `ialloc` is a full disk and is
  allowed.
* `RefCountsHolders`: the spec's "`ref` equals the number of live holders
  (open files + cwd references + in-flight path walk borrows)". Every
  slot's `ref` is the number of processes holding it plus the number of
  cwds naming it. A double `ref--` in `iput_release` breaks it.
* `CwdAlive`: a live process's cwd slot is referenced and its dinode is
  allocated. This holds even after the last name is unlinked and other
  holders `iput` it. If `idup` did not count the reference, the child's
  exit would free the root under initproc.
* `IlockWaiterWoken` (under fairness): a process asleep in `ilock` is woken.

Run `icache` checks all of them with 2 processes (initproc, and one that
is forked from it and may exit), 3 inums and 3 cache slots, under fairness
and so without symmetry. It explores about 811,000 states in about 2
minutes. The root stays cached as initproc's cwd. The other two slots are
shared by three inodes, so `iget` recycles slots, and a slot before a
cached one can be empty, which is the case the rescan in `iget` is for.
Fewer inums or slots leave that case unreachable once the root is pinned. The run lets one process reuse a freed inum while the
other's freeing `iput` is still running, and the mutant of `iput_release`
shows this case is reached. Each mutant of this module (dropping the rescan
in `iget`, an `if` for `ilock`'s `while`, `iunlock` without `wakeup`, the
freeing path for any `ref`, a double `ref--`, `I_VALID` kept) is caught by
the same run.

### Fairness

Weak fairness covers the steps a process must finish once started:
`ialloc`'s loop, `ilock`, reading the dinode, `iunlock` and `iput`'s
freeing path. Every system call ends with `iunlock` or `iunlockput`.
Looking up, creating, linking, unlinking and dropping a reference are the
caller's choice and are not fair.

## 5. Blocks and file content (`XV6Alloc`, `MCXV6Alloc`)

### Correspondence with `fs.c`

| Code | Model |
|---|---|
| the free-block bitmap | `bitmap`, over data blocks 1..NB (0 is "no block") |
| block contents | `blk[b]`, a table of NINDIRECT block numbers. This is what an indirect block holds, and what a data block would be read as if it were reused as one. A data copy stores a pattern from `DataVals` |
| dinode `type`, `nlink`, `size`, `addrs[]` | `dtype`, `nlink`, `size`, `addrs` (the direct addresses), `ind` (`addrs[NDIRECT]`) |
| in-memory references | `ref[i]` (the inode cache itself is `XV6ICache`'s) |
| `writei`'s or `readi`'s `off`, `tot`, `n` | `woff`, `wtot`, `wn`, kept as uint of UINTW bits |
| `balloc` + `bzero` | `bmap_alloc`: the first free block is marked in use and zeroed (`bzero`), then stored in the direct slot, the indirect slot or the indirect entry |
| `bfree` | `bfree(bs)`: panics on a free block |
| `bmap` | `Mapped(i, bn)` to look up, `bmap_alloc` for each missing block (one `balloc` per step) |
| `itrunc` | `itrunc(i)`: every direct block, every indirect entry and the indirect block are freed; the addresses and size are cleared |
| `writei` | `writei` (the bounds: past the end, `off + n < off` modulo 2^UINTW, past MAXFILE*BSIZE), `writei_loop` (one iteration), `writei_end` (the size update) |
| `readi` on a `T_FILE` | `readi` (-1 past the end or when `off + n` wraps; the count cut to `size - off`), `readi_loop` (one iteration: `bmap`, which would allocate a missing block exactly as for `writei`, then the copy), `readi_end` |
| `ialloc`, `iput` | `Create` (first free dinode) and `Close` (the last reference to an unlinked inode truncates and frees it) |
| `sys_open`, `sys_unlink` | `Open`, `Unlink`, modelled from the spec |

Every system call is one transaction. By `XV6Log`'s refinement of
`LogTxn`, a crash leaves the disk as it was after some prefix of whole
calls. `Crash` therefore happens between calls, and it loses only what
is in memory: the open references.

### Properties and runs

* `BlocksExclusive`: every block an allocated inode points to is in use in
  the bitmap, and no block is pointed to twice. Without `bzero`, a freed
  data block reused as an indirect block brings its old bytes back as
  block numbers, and this property fails.
* `SizeCoversBlocks`: between calls, a file has exactly one block per
  BSIZE piece below its size.
* `NoPanic`: no "bmap: out of range" and no "freeing free block". Running
  out of blocks or dinodes is allowed. Without the `off + n < off` test, a
  count of 2^UINTW-1 wraps past the MAXFILE check and `bmap` panics.
* `LeaksOnlyAtCrash`: crashes included, every allocated dinode is linked,
  open, or was left unlinked-but-open by a crash, and every block in use
  belongs to such a dinode. Without a crash this is `NoLeak` below. The
  history variable `orphans` records the dinodes a `Crash` left
  allocated with nlink 0; nothing else changes it. If `itrunc` leaves the
  indirect block allocated, this property fails.
* `ReadiNeverAllocates`: whenever `readi` still has bytes to copy, the
  block at its offset is in range and mapped. A read runs in no
  transaction, so a `bmap` allocation there would be a `log_write` outside
  one. This rests on readi's bounds and its clamp to the size, and on
  `writei` never leaving a hole. Without the clamp, a read past the end
  allocates.
* `NoLeak`: every block in use belongs to a file that a name or an open
  reference still reaches. Run `alloc_crash_leak` shows it fails with
  crashes: see Findings.

Bounds: 2 processes, 2 files and 3 data blocks; NDIRECT = NINDIRECT = 1;
BSIZE = 2; a 4-bit uint (UINTW = 4); DataVals = {0, 1}. A full file uses
all three blocks (direct, indirect and entry), so every kind of block is
freed and reused as every other kind. Offsets run to one past the largest
file. Counts are 0, 1, BSIZE+1 (crossing a block) and 2^UINTW-1 (wraps).
`alloc_safety` runs under `CrashSpec` and explores about 497,000 states
in about 1 minute. `stati` only copies fields out, and the `T_DEV` branch
of `readi` is the console's `consoleread` (`XV6Console`).

## 6. Names and paths (`XV6Name`, `XV6Path`)

`XV6Name` is a set of pure operators. A path is a sequence of character
codes (0 = NUL, 1 = '/', others letters), and a name buffer is
`char[DIRSIZ]`.

* `SkipSlashes`, `ElemLen`, `CopyName` and `skipelem` translate `skipelem`.
  A long element fills the buffer without a NUL. A short one is terminated,
  and the bytes after the NUL keep what the buffer held before.
* `Walk` is `namex`'s loop over `skipelem` with one reused buffer, and
  `last` is `nameiparent`'s `*path == '\0'` test.
* `StrnCmp`/`namecmp` translate `strncmp(s, t, DIRSIZ)`. `strncpy` is how
  `dirlink` stores a name.

Run `name_split` enumerates every path up to MAXPATH = 4 over '/' and two
letters, every prior content of a 3-byte buffer, and every entry name up to
4 letters. It checks two properties against a reference `Split` of the
path into components:

* `SkipelemSplitsPath`: the loop visits exactly the components, each cut to
  DIRSIZ, and flags only the last.
* `NamecmpMatchesTrunc`: a lookup matches exactly when the first DIRSIZ
  bytes agree, whatever stale bytes follow the NUL.

`XV6Path` takes names as atomic values, which `XV6Name` justifies. Its
inodes are their inums, one cache slot each, which `XV6ICache`'s
`UniqueSlot` justifies. `busy[i]` is the `I_BUSY` owner.

| Code | Model |
|---|---|
| `namex`: `iget(ROOTINO)` or `idup(cwd)` | `namex_start` |
| the `skipelem` loop head, and `namei`/`nameiparent`'s exits | `namex_next` |
| `ilock(ip)` | `namex_ilock`: waits while another process has the inode busy |
| not a directory; `nameiparent`'s stop at the last element; `dirlookup` | `namex_check` |
| `iunlockput(ip); ip = next` | `namex_unlockput` |
| `dirlookup` | `dirlookup(dp, nm)`: the first used entry with the name |
| `dirlink` | `dirlink(dp, nm, inum)`: present means -1; else the first free slot, or append at `size`; past MAXENT entries `writei` fails and `dirlink` panics |
| `sys_link`, `sys_unlink` (not in the repository) | `got` and `op`: lock the parent, `dirlink` or zero the file's entry, `iunlockput` |

Run `path` has 3 processes. Each makes one of seven calls (`MCScripts`):
walks down and up through "..", a walk through a file, links of "b" in `/`
and `/d`, and unlinks of `/a` and `/d/b`. The directories hold at most
MAXENT = 4 entries. It checks:

* `UniqueNames`: no directory has two used entries with one name, however
  links race. Without `dirlink`'s own lookup, two links of "b" race in.
* `CallsReturn` (under fairness): every call returns. Walkers climbing ".."
  and walkers going down never wait on each other, because `namex` releases
  the parent before it locks the child. A `namex` that kept the lock on its
  not-a-directory exit blocks the others forever.

It explores about 506,000 states in about 75 s. Weak fairness per process
holds because the scheduler runs every runnable process, and `ilock`'s sleep
ends when the owner's `iunlock` wakes it.

## 7. Processes (`XV6Proc`, `MCXV6Proc`)

Every function of `proc.c` that holds `ptable.lock` throughout is one step:
`scheduler`'s pick, `exit`, `kill`, `yield`, and one pass of `wait`'s loop.
`wait` sleeps with `ptable.lock` itself as the lock, so its scan and its
`sleep` are one step. `fork` drops the lock between `allocproc` and making
the child RUNNABLE, so it is two steps.

| Code | Model |
|---|---|
| `p->state`, `pid`, `parent`, `killed`, `chan`; `nextpid` | `state`, `pid`, `parent` (a slot), `killed`, `chan`, `nextpid` |
| `cpus[c].proc`, `scheduler`'s loop variable | `cpu[c]`, `pos[c]` |
| `userinit` | `Init`: slot 1 is initproc, RUNNABLE, pid 1 |
| `scheduler` | `scheduler(c)`: the first RUNNABLE slot from `pos`, else back to the first slot |
| `allocproc` in `fork` | `fork(s)`: the first UNUSED slot becomes EMBRYO with `pid = nextpid++`; no slot means -1 |
| the rest of `fork` | `fork_finish(s)`: `kalloc` or `copyuvm` failure sets the slot back to UNUSED, keeping its pid and `killed`; else `parent` is set and the child is RUNNABLE |
| `exit` | `exit(s)`: panic for initproc; `wakeup1(parent)`, children to initproc, `wakeup1(initproc)` if one is a ZOMBIE, ZOMBIE, `sched` |
| `wait`, `sleep` | `WaitPass`: reap the first ZOMBIE child, or -1 without children or when killed, or `sleep(proc)`; `wait_resume` is the return from `sleep` |
| `kill` | `kill(s, k)`: the first slot with `pid == k`, any state, gets `killed`; a SLEEPING one becomes RUNNABLE |
| `yield` from the timer (`trap.c`) | `tick(s)`: a killed process exits, any other yields |

The system calls a process makes are chosen freely, except that initproc
only forks and waits, as `init.c` does. `trap.c` exits a killed process
before a system call and at a timer tick; `InUser` and `tick` model that.

Run `proc` has 4 slots and pids up to 4, which is exactly a chain initproc →
child → grandchild → great-grandchild. That chain is what exercises
`exit`'s second wakeup: a grandchild that is already a ZOMBIE is handed to
initproc. It checks:

* `ZombieParentAwake`: no process sleeps in `wait` while one of its
  children is a ZOMBIE. This is the lost-wakeup question between `exit` and
  `wait`. Dropping the `wakeup1(initproc)` for a reparented ZOMBIE breaks it.
* `NoOrphans`: every process except initproc has a parent that has not
  exited. Without reparenting, a child points at a ZOMBIE, or at a slot that
  `wait` freed and `fork` reused.
* `CpuExclusive`: each RUNNING process is on exactly one CPU, and what a
  CPU runs is RUNNING. Both schedulers scan the one table. Only the
  RUNNABLE test under `ptable.lock` keeps them from picking the same
  process, and yield, sleep and exit leave RUNNING in the step in which
  they give up the CPU. A scan that skips only UNUSED slots breaks it.
* `KilledExits` (under fairness): a killed process eventually exits, also
  when it sleeps in `wait`. `kill` without the wake breaks it.

The run uses two CPUs, so a process can act on one CPU while a `fork` on
the other is between `allocproc` and RUNNABLE, and both scans run at once.
Its `VIEW` (`MCView`) leaves out `kills`, a history variable that only
`KillOnlyNamed` of run `proc_kill_free_slot` reads. No guard reads it, so
states that differ only in `kills` have the same futures, and the view
is sound for this run's invariants and for `KilledExits`. Without it, the
same instance has 955,000 states and takes 10 minutes. Run `proc`
explores about 157,000 states in about 2 minutes.

Fairness: weak fairness on each CPU's `scheduler` (every CPU loops in it),
on `tick` (the timer interrupt keeps coming), and on kernel code already
running (`fork_finish`, `wait_resume`). System calls get no fairness.

## 8. Console input and output (`XV6Console`, `ConsoleFifo`, `MCXV6Console`)

| Code | Model |
|---|---|
| `input.buf`, `input.r`, `input.w`, `input.e` | `buf`, `r`, `w`, `e`: uint of UINTW bits (`Add`, `Dist`) |
| `consoleintr`, per key, under `input.lock` | `consoleintr(c)`: `EditKey` (^U via `KillLine`, backspace when `e != w`) or `PutKey` (any other key but 0 when `e - r < INPUT_BUF`: '\r' to '\n', store at `e++`, and on '\n', ^D or a full ring set `w = e` and `wakeup(&input.r)`), with its echo (`Echo`: one BACKSPACE per erased key, or the stored key) |
| `consoleread`'s entry | `read_start(p, k)`: `target = n` |
| `consoleread`'s loop, up to its `sleep` or its return | `ReadLoop`, a recursive operator, and `read_step`: -1 if killed when the ring is empty, else sleep; ^D ends the read and is put back (`r--`) after other bytes; '\n' ends it |
| `kill` (`proc.c`) | `Kill(p)`: wakes a sleeping reader; an idle one exits |
| 6845 index register, cursor registers 14 and 15 | `crtidx`, `crthi`, `crtlo`; `Cursor` = `crthi * BYTE + crtlo` |
| `cgaputc`'s arithmetic | `CgaMove(pos, c)`: '\n', BACKSPACE (not below 0), other bytes at `pos++`; scroll on row ROWS-1 with `pos -= COLS`, and whether memset's count `(ROWS-1)*COLS - pos` is negative |
| `consputc` from `consoleintr` | `Echo`: `cgaputc` on each echoed character, in the key's step |
| `consolewrite` under `cons.lock` | `consolewrite(q, c)` (acquire and `outb(CRTPORT, 14)`), then one `cga_step` per port access, then `cga_done` (the last `outb` and release) |
| `printint(xx, base, sign)` | `printint`: `ToUint` (the int-to-uint conversion, mod 2^INTW), `DigitsOf` (the do-while over `x % base`), `MINUS` for '-', reversed as the `--i` loop emits them; `DigitValue` reads a rendering back |
| `cprintf(fmt, ...)`'s loop | `FmtLoop(fmt, i, args)`: one recursion per character or directive, `args` the words `argp` has not passed yet; `Conv` is the switch's `%d`, `%x`/`%p` (through `printint` and `Glyphs`, the `digits[]` lookup) and `%s` (`NULLSTR` for a null pointer, the model value `NULLPTR`) |

`owed` and `wiped` are history variables: the ^D keys committed minus the
reads that returned 0, and whether a scroll was ever given a negative
count. The characters in `crt[]` and the UART are left out; only the
cursor decides where `cgaputc` writes.

The echo is one step, inside the key's step. Its CPU takes the keyboard
interrupt (CPU 0, `ioapicenable(IRQ_KBD, 0)`) and runs it to the end. A
writer's `cgaputc` is split at every port access, because another CPU can
act between them. A writer on CPU 0 holds `cons.lock` with interrupts
off (`acquire`'s `pushcli`), so no key is taken until it releases
(`KbdOn`).

Run `console` has one reader, a 2-byte ring and 3-bit indices, which wrap
after 8 keys. Reads are of 1 and 2 bytes, so a ^D is met both first and after
other bytes. It has one writer on CPU 0. The screen is 2 × 3 (scrolling on
its third row) with 2-bit registers, so the cursor uses both bytes and both
the echo and the writer wrap lines and scroll. The boot cursor may be on
any cell, the last row included. It checks:

* `RingOrdered`: r ≤ w ≤ e ≤ r + INPUT_BUF across the wrap.
* `SleepOnlyWhenEmpty`: no reader sleeps while committed input waits. This
  depends on the full-ring commit waking the readers, a case only 128 keys
  without Enter reach on the real kernel.
* `EofReadOnce`: each committed ^D gives exactly one 0-byte read, the
  comment's "make sure caller gets a 0-byte result".
* `CursorOnScreen`: whenever no writer is half way through writing the
  cursor registers, the cursor is on the screen, and no scroll ever gave
  memset a negative count. If a newline does not return to column 0, a
  newline on the last row breaks it.
* `PrintintRenders`: `printint` renders every int of a 16-bit build
  correctly: for %d, '-' exactly before a negative value, then the decimal
  digits of its magnitude; for %x, the hex digits of the value's bits. The
  range includes INT_MIN, whose `-xx` overflows and is right only because
  the conversion to `uint` wraps (`ToUint`). The table over all 65,536
  inputs is a constant, and TLC evaluates it once. The int width is the
  constant `INTW`, because TLC's own integers are 32-bit.
* `CprintfRenders`: `cprintf`'s loop prints every format of up to
  `FMTLEN` = 4 characters over "a", '%', d, x, p, s and an unknown q, with
  every matching argument list (-1, 0 and 26 for the ints; "", "a" and
  the null pointer for %s). The expected output is stated without the loop,
  by position (`Rendered`): a '%' opens a directive when an even number of
  '%' come right before it, and the k-th conversion prints the k-th
  argument. This checks that a trailing '%' stops the loop, that a run of
  '%' pairs up, and that "%%" and an unknown sequence take no argument. The
  table is a constant, as is `PrintintTable`. It is written without
  `SeqOf`, because a definition that uses an operator with a Java override
  is not cached by TLC.
* `KilledReaderExits` (under fairness): a killed reader returns and exits.
* `ConsoleRefinesFifo`: the console implements the line discipline
  `ConsoleFifo`. That module is an abstract spec with two sequences: the
  committed input `q` and the edit line `line`. Keys join the line; a
  newline, a ^D or the last free place commits it; backspace and ^U erase
  only from the line; a read takes a non-empty prefix of `q`. The mapping
  reads the ring from `r` to `w` as `q` and from `w` to `e` as `line`,
  through the wrapping indices (`MCXV6Console`'s `Fifo`). `RingOrdered`
  only checks the indices. This property checks the keys: none is lost,
  duplicated or overwritten across the wrap. Storing a key at `++e`
  instead of `e++` keeps the indices right but breaks it.

It explores about 107,000 states in 16 s. With two readers and the writer
it reaches 2.6 million states in 10 minutes, so one reader is used. The
input side alone was checked with two readers in earlier runs, with the
same results. Weak fairness holds on `read_step` (a woken reader is
runnable and gets scheduled) and on a writer's steps while it holds
`cons.lock` (it spins on no one and runs with interrupts off). Keys,
kills and new writes get no fairness.

Run `console_echo_race` (expected violation) is the same, with the writer
on CPU 1. See Findings.

## 9. Findings

* **Absorbed rewrite panics at a full reservation** (`log.c:254`).
  `log_write` tests `n >= LOGSIZE` before it searches for the sector. Two
  calls each admitted with MAXOPBLOCKS = 1 and LOGSIZE = 2 write b1 and b2,
  so n = 2. The first call then writes b1 again. That write needs no new
  slot, but the kernel panics with "too big a transaction". With xv6's
  parameters (LOGSIZE = 30, MAXOPBLOCKS = 10), the same happens when three
  calls of 10 distinct blocks each are admitted together. The spec says the
  reservation covers each call's writes, and that rewriting a logged sector
  does not grow n.

* **An open unlinked file leaks across a crash** (`fs.c:366`, run
  `alloc_crash_leak`). Spec 4.2 says the bitmap transaction guarantees
  "no leaked nor double-allocated blocks across crashes". Only the last
  `iput` frees an unlinked inode, in a later transaction than
  `sys_unlink`'s. TLC's trace is short: create a file, unlink it while it
  is open, write one byte, and crash. After reboot, dinode 1 is typed with
  nlink 0 and block 1 is in use. Nothing reaches them, and nothing in
  `recover_from_log` frees them.

* **Group commit can postpone durability forever** (`log.c:158`, run
  `log_commit_starved`, a spec gap). The spec says a transaction commits
  "when the last `end_op()` returns". `end_op` commits only when
  `outstanding` reaches 0. `begin_op` admits a new call whenever
  `n + (outstanding+1)*MAXOPBLOCKS <= LOGSIZE`. TLC's trace: p1 logs b1;
  p2 joins (1 + 2 ≤ 3); then the two take turns ending and re-entering,
  rewriting b1, which is absorbed. `outstanding` never returns to 0, so b1
  is never committed although every call ends. Calls that log new blocks
  fill the reservation and let the group drain. Calls that only rewrite
  logged blocks, or log nothing, do not.

* **The keyboard echo races with console output on another CPU**
  (`console.c:240`, run `console_echo_race`). `consoleintr` calls
  `consputc` holding only `input.lock`. `consolewrite` and `cprintf` hold
  `cons.lock`. TLC's trace: the writer on CPU 1 selects register 14; a
  key's echo on CPU 0 ends by selecting register 15; the writer's `inb`
  reads the low byte as the high byte. `pos` lands far past the screen,
  `cgaputc` scrolls, and memset gets the negative count
  `24*80 - pos`. As a size_t, that clears memory far past `crt[]`. On the
  real screen any cursor whose low byte is 8 or more gives such a `pos`.
  Later xv6 versions take `cons.lock` in `consoleintr`.

* **kill marks a free slot, and a later process is born killed**
  (`proc.c:482`, run `proc_kill_free_slot`). `kill(pid)` takes the first
  slot whose `p->pid` equals pid, whatever its state. `wait` leaves pid 0
  in a freed slot, so `kill(0)` marks an UNUSED slot. A `fork` that fails
  after `allocproc` also leaves its pid and `killed` in an UNUSED slot.
  `allocproc` does not clear `killed`. TLC's trace: initproc forks a child,
  the child calls `kill(0)`, which marks slot 3, then forks. The new
  process (pid 3) is RUNNABLE with `killed` set, and it exits at its first
  return to user space. The comment says kill kills "the process with the
  given pid".

## 10. Not modelled

* `struct file` and `devsw` (`file.h`) belong to `file.c` and
  `sysfile.c`, which are not in the sources. The spec describes no
  file-table behaviour to model them from. `struct inode` and its flags
  are `XV6ICache`'s `Slot`.
* `stati` changes no state. It only copies fields into the caller's
  `struct stat`.
* Byte contents are abstracted to block-table patterns.
* In the inode cache, a process holds at most one inode besides its cwd,
  so lock ordering between inodes is left to `XV6Path`. Directories are
  not typed there: a cwd is any inode, and `chdir` (not in the sources)
  is not modelled.
* `cprintf`'s `cons.locking` test, `panic` (it clears `cons.locking` and prints
  without the lock, racing other CPUs on the cursor until `panicked` is
  set; this is listed as a hazard that no run covers), the characters
  in `crt[]`, the UART, and ^P (`procdump`) are left out of the console
  model; it keeps the cursor, which is where the
  output goes.
* `growproc`, page tables, kernel stacks and context switches in `proc.c`
  are out of TLC's reach. The process model keeps the scheduling states.
* `exit`'s closing of files and `iput` of the cwd are left out of
  `XV6Proc`, since they do not touch `ptable`. `XV6ICache`'s `Exit`
  models the cwd's `iput`. Sleeps on channels other than `wait`'s are modelled
  where they occur: `ilock` in `XV6ICache`, `begin_op` in `XV6Log`, and
  `consoleread` in `XV6Console`.
* The console inode's lock is not composed with the console.
  `consoleread` drops it (`iunlock(ip)`) before it takes `cons.lock` and
  takes it back before it returns; `consolewrite` does the same around its
  loop. Neither window spans a sleep on the inode. Composing them would make
  a killed reader's exit depend on winning `ilock` against writers that
  come back forever, which needs strong fairness for `ilock`. xv6's
  `sleep`/`wakeup` and round-robin scheduler do not give that, so the
  liveness would not be justified, and the remaining safety (the inode is
  held across `consoleread`'s return) holds by the shape of the code.
