------------------------------ MODULE XV6Alloc ------------------------------
(***************************************************************************)
(* Block allocation and file content in xv6 (fmt/fs.c): balloc, bzero,     *)
(* bfree, bmap, itrunc, writei and readi, under the file life cycle that drives   *)
(* them (create, open, unlink, the last iput).                             *)
(*                                                                         *)
(* Offsets and counts are uint of UINTW bits.  Block numbers are 1..NB     *)
(* (0 means "no block").  Every block holds a table of NINDIRECT entries,  *)
(* which is what an indirect block is and what a data block looks like if *)
(* it is ever read as one.  A data copy stores a pattern from DataVals.    *)
(*                                                                         *)
(* Every system call is one transaction.  XV6Log refines LogTxn, so a      *)
(* crash leaves the disk as it was after some prefix of whole calls: Crash *)
(* happens between calls and loses only memory (open references).          *)
(* The inode cache's own concurrency is XV6ICache's; here each call holds  *)
(* its inode for the whole call.                                           *)
(***************************************************************************)
EXTENDS Naturals, FiniteSets, FiniteSetsExt

CONSTANTS
    Procs,      \* processes making file-system calls
    NI,         \* inums 1..NI
    NB,         \* data blocks 1..NB
    NDIRECT,    \* direct addresses in a dinode
    NINDIRECT,  \* entries of an indirect block (BSIZE / sizeof(uint))
    BSIZE,      \* bytes per block
    UINTW,      \* width of uint
    DataVals    \* block-table patterns a user write can leave in a block

ASSUME /\ NDIRECT \in Nat \ {0} /\ NINDIRECT \in Nat \ {0} /\ BSIZE \in Nat \ {0}
       /\ DataVals \subseteq 0..NB

Inums    == 1..NI
Blks     == 1..NB
Addr     == 0..NB
UINT     == 2^UINTW
MAXFILE  == NDIRECT + NINDIRECT
MAXBYTES == MAXFILE * BSIZE
T_FILE   == 1
Zero     == [e \in 1..NINDIRECT |-> 0]

VARIABLES
    bitmap,     \* the free-block bitmap: TRUE = in use
    blk,        \* block contents seen as a table of block numbers
    dtype,      \* dinode type (0 = free)
    nlink,      \* dinode nlink
    size,       \* dinode size in bytes
    addrs,      \* dinode addrs[0..NDIRECT-1], here indexed 1..NDIRECT
    ind,        \* dinode addrs[NDIRECT], the indirect block
    ref,        \* in-memory references (open files) per inum
    pc, file,   \* each process's location and the inum it holds
    woff, wtot, wn,  \* writei's or readi's off, tot and n
    panicked,
    orphans     \* history: dinodes a crash left allocated with nlink 0

vars == <<bitmap, blk, dtype, nlink, size, addrs, ind, ref, pc, file,
          woff, wtot, wn, panicked, orphans>>

Loc == {"idle", "open", "writei", "readi"}

TypeOK ==
    /\ bitmap \in [Blks -> BOOLEAN]
    /\ blk \in [Blks -> [1..NINDIRECT -> Addr]]
    /\ dtype \in [Inums -> {0, T_FILE}]
    /\ nlink \in [Inums -> 0..1]
    /\ size \in [Inums -> 0..MAXBYTES]
    /\ addrs \in [Inums -> [1..NDIRECT -> Addr]]
    /\ ind \in [Inums -> Addr]
    /\ ref \in [Inums -> 0..Cardinality(Procs)]
    /\ pc \in [Procs -> Loc]
    /\ file \in [Procs -> Inums \cup {0}]
    /\ woff \in [Procs -> 0..(UINT - 1)]
    /\ wtot \in [Procs -> 0..(UINT - 1)]
    /\ wn \in [Procs -> 0..(UINT - 1)]
    /\ panicked \in STRING
    /\ orphans \subseteq Inums

Up == panicked = "none"

\* An empty file system: all dinodes and data blocks free.
Init ==
    /\ bitmap = [b \in Blks |-> FALSE]
    /\ blk = [b \in Blks |-> Zero]
    /\ dtype = [i \in Inums |-> 0]
    /\ nlink = [i \in Inums |-> 0]
    /\ size = [i \in Inums |-> 0]
    /\ addrs = [i \in Inums |-> [k \in 1..NDIRECT |-> 0]]
    /\ ind = [i \in Inums |-> 0]
    /\ ref = [i \in Inums |-> 0]
    /\ pc = [p \in Procs |-> "idle"]
    /\ file = [p \in Procs |-> 0]
    /\ woff = [p \in Procs |-> 0]
    /\ wtot = [p \in Procs |-> 0]
    /\ wn = [p \in Procs |-> 0]
    /\ panicked = "none"
    /\ orphans = {}

\* The blocks inode i points to: direct, indirect, and the indirect's entries.
IndEntries(i) == IF ind[i] = 0 THEN {} ELSE {blk[ind[i]][e] : e \in 1..NINDIRECT} \ {0}
BlocksOf(i)   == ({addrs[i][k] : k \in 1..NDIRECT} \cup {ind[i]} \cup IndEntries(i)) \ {0}

\* bmap's lookup of block bn of inode i, without allocation (0 = absent).
Mapped(i, bn) ==
    IF bn < NDIRECT THEN addrs[i][bn + 1]
    ELSE IF ind[i] = 0 THEN 0
    ELSE blk[ind[i]][bn - NDIRECT + 1]

\* The inode a process holds is I_BUSY while it runs writei or readi.
Busy(i) == \E q \in Procs : file[q] = i /\ pc[q] \in {"writei", "readi"}

FreeBlks == {b \in Blks : ~bitmap[b]}

-----------------------------------------------------------------------------
(* Calls that take and drop references.                                    *)

\* create(): ialloc takes the first free dinode (zeroed, typed), then
\* ilock, nlink = 1, iupdate, dirlink; the caller keeps the reference.
Create(p) ==
    /\ Up
    /\ pc[p] = "idle"
    /\ IF \E i \in Inums : dtype[i] = 0
       THEN LET i == Min({j \in Inums : dtype[j] = 0}) IN
            /\ dtype' = [dtype EXCEPT ![i] = T_FILE]
            /\ nlink' = [nlink EXCEPT ![i] = 1]
            /\ size' = [size EXCEPT ![i] = 0]
            /\ addrs' = [addrs EXCEPT ![i] = [k \in 1..NDIRECT |-> 0]]
            /\ ind' = [ind EXCEPT ![i] = 0]
            /\ ref' = [ref EXCEPT ![i] = @ + 1]
            /\ file' = [file EXCEPT ![p] = i]
            /\ pc' = [pc EXCEPT ![p] = "open"]
            /\ UNCHANGED panicked
       ELSE /\ panicked' = "ialloc: no inodes"
            /\ UNCHANGED <<dtype, nlink, size, addrs, ind, ref, file, pc>>
    /\ UNCHANGED <<bitmap, blk, woff, wtot, wn>>

\* open() of a name: namei finds a linked inode and iget takes a reference.
Open(p, i) ==
    /\ Up
    /\ pc[p] = "idle"
    /\ dtype[i] # 0 /\ nlink[i] > 0
    /\ ref' = [ref EXCEPT ![i] = @ + 1]
    /\ file' = [file EXCEPT ![p] = i]
    /\ pc' = [pc EXCEPT ![p] = "open"]
    /\ UNCHANGED <<bitmap, blk, dtype, nlink, size, addrs, ind, woff, wtot, wn, panicked>>

\* sys_unlink of the file's only name, here by a process that has it open.
Unlink(p) ==
    /\ Up
    /\ pc[p] = "open"
    /\ ~Busy(file[p])
    /\ nlink[file[p]] > 0
    /\ nlink' = [nlink EXCEPT ![file[p]] = @ - 1]
    /\ UNCHANGED <<bitmap, blk, dtype, size, addrs, ind, ref, pc, file, woff, wtot, wn, panicked>>

\* bfree over a set of blocks: panic if one is already free.
bfree(bs) ==
    IF \E b \in bs : ~bitmap[b]
    THEN /\ panicked' = "freeing free block"
         /\ UNCHANGED bitmap
    ELSE /\ bitmap' = [b \in Blks |-> IF b \in bs THEN FALSE ELSE bitmap[b]]
         /\ UNCHANGED panicked

\* Mutation: itrunc frees the indirect block's entries but forgets the
\* indirect block itself.
itrunc_keep_indirect(i) ==
    /\ bfree(({addrs[i][k] : k \in 1..NDIRECT} \cup IndEntries(i)) \ {0})
    /\ addrs' = [addrs EXCEPT ![i] = [k \in 1..NDIRECT |-> 0]]
    /\ ind' = [ind EXCEPT ![i] = 0]
    /\ size' = [size EXCEPT ![i] = 0]

\* itrunc: bfree every direct block, every entry of the indirect block and
\* the indirect block, clear the addresses, size = 0, iupdate.
itrunc(i) ==
    /\ bfree(BlocksOf(i))
    /\ addrs' = [addrs EXCEPT ![i] = [k \in 1..NDIRECT |-> 0]]
    /\ ind' = [ind EXCEPT ![i] = 0]
    /\ size' = [size EXCEPT ![i] = 0]

\* Mutation: the freeing path of iput drops the reference twice.
Close_double_put(p) ==
    /\ Up
    /\ pc[p] = "open"
    /\ LET i == file[p] IN
       IF ref[i] = 1 /\ nlink[i] = 0
       THEN /\ itrunc(i)
            /\ dtype' = [dtype EXCEPT ![i] = 0]
            /\ ref' = [ref EXCEPT ![i] = @ - 2]
       ELSE /\ UNCHANGED <<bitmap, addrs, ind, size, dtype, panicked>>
            /\ ref' = [ref EXCEPT ![i] = @ - 1]
    /\ file' = [file EXCEPT ![p] = 0]
    /\ pc' = [pc EXCEPT ![p] = "idle"]
    /\ UNCHANGED <<blk, nlink, woff, wtot, wn>>

\* close() ends in iput: the last reference to an unlinked inode truncates
\* it and frees the dinode (type = 0, iupdate); any reference is dropped.
Close(p) ==
    /\ Up
    /\ pc[p] = "open"
    /\ LET i == file[p] IN
       IF ref[i] = 1 /\ nlink[i] = 0
       THEN /\ itrunc(i)
            /\ dtype' = [dtype EXCEPT ![i] = 0]
       ELSE UNCHANGED <<bitmap, addrs, ind, size, dtype, panicked>>
    /\ ref' = [ref EXCEPT ![file[p]] = @ - 1]
    /\ file' = [file EXCEPT ![p] = 0]
    /\ pc' = [pc EXCEPT ![p] = "idle"]
    /\ UNCHANGED <<blk, nlink, woff, wtot, wn>>

-----------------------------------------------------------------------------
(* writei.                                                                 *)

\* Mutation: the wrap test off + n < off is missing.
writei_no_wrap_check(p, off, n) ==
    /\ Up
    /\ pc[p] = "open"
    /\ ~Busy(file[p])
    /\ IF off > size[file[p]] \/ (off + n) % UINT > MAXBYTES
       THEN UNCHANGED <<pc, woff, wtot, wn>>
       ELSE /\ pc' = [pc EXCEPT ![p] = "writei"]
            /\ woff' = [woff EXCEPT ![p] = off]
            /\ wtot' = [wtot EXCEPT ![p] = 0]
            /\ wn' = [wn EXCEPT ![p] = n]
    /\ UNCHANGED <<bitmap, blk, dtype, nlink, size, addrs, ind, ref, file, panicked>>

\* writei(ip, src, off, n) with ip locked: return -1 when off is past the
\* end, when off + n wraps, or when it passes MAXFILE*BSIZE.
writei(p, off, n) ==
    /\ Up
    /\ pc[p] = "open"
    /\ ~Busy(file[p])
    /\ IF off > size[file[p]] \/ (off + n) % UINT < off \/ (off + n) % UINT > MAXBYTES
       THEN UNCHANGED <<pc, woff, wtot, wn>>
       ELSE /\ pc' = [pc EXCEPT ![p] = "writei"]
            /\ woff' = [woff EXCEPT ![p] = off]
            /\ wtot' = [wtot EXCEPT ![p] = 0]
            /\ wn' = [wn EXCEPT ![p] = n]
    /\ UNCHANGED <<bitmap, blk, dtype, nlink, size, addrs, ind, ref, file, panicked>>

\* Mutation: balloc hands out the block without bzero.
bzero_skipped(b) == blk

\* bzero(dev, bno): the block's contents become zero (log_write).
bzero(b) == [blk EXCEPT ![b] = Zero]

\* One step of bmap(ip, bn) that is missing a block: balloc the first free
\* block (set its bitmap bit, bzero it) and store it in addrs[bn], in
\* addrs[NDIRECT], or in the indirect block's entry (log_write of it).
bmap_alloc(i, bn) ==
    IF bn >= MAXFILE
    THEN /\ panicked' = "bmap: out of range"
         /\ UNCHANGED <<bitmap, blk, addrs, ind>>
    ELSE IF FreeBlks = {}
    THEN /\ panicked' = "balloc: out of blocks"
         /\ UNCHANGED <<bitmap, blk, addrs, ind>>
    ELSE LET b == Min(FreeBlks) IN
         /\ UNCHANGED panicked
         /\ bitmap' = [bitmap EXCEPT ![b] = TRUE]
         /\ IF bn < NDIRECT
            THEN /\ blk' = bzero(b)
                 /\ addrs' = [addrs EXCEPT ![i][bn + 1] = b]
                 /\ UNCHANGED ind
            ELSE IF ind[i] = 0
            THEN /\ blk' = bzero(b)
                 /\ ind' = [ind EXCEPT ![i] = b]
                 /\ UNCHANGED addrs
            ELSE /\ blk' = [bzero(b) EXCEPT ![ind[i]][bn - NDIRECT + 1] = b]
                 /\ UNCHANGED <<addrs, ind>>

\* One iteration of writei's loop: bmap(ip, off/BSIZE), allocating what is
\* missing one balloc at a time, then copy m = min(n - tot, BSIZE -
\* off%BSIZE) bytes into the block and log_write it.
writei_loop(p) ==
    /\ Up
    /\ pc[p] = "writei"
    /\ wtot[p] < wn[p]
    /\ LET i == file[p]
           bn == woff[p] \div BSIZE
           m == Min({wn[p] - wtot[p], BSIZE - (woff[p] % BSIZE)})
       IN IF bn >= MAXFILE \/ Mapped(i, bn) = 0
          THEN /\ bmap_alloc(i, bn)
               /\ UNCHANGED <<woff, wtot>>
          ELSE /\ \E v \in DataVals : blk' = [blk EXCEPT ![Mapped(i, bn)] = [e \in 1..NINDIRECT |-> v]]
               /\ woff' = [woff EXCEPT ![p] = (@ + m) % UINT]
               /\ wtot' = [wtot EXCEPT ![p] = @ + m]
               /\ UNCHANGED <<bitmap, addrs, ind, panicked>>
    /\ UNCHANGED <<dtype, nlink, size, ref, pc, file, wn>>

\* Mutation: the size is set to the end of every write, even one that
\* ends inside the file.
writei_end_always(p) ==
    /\ Up
    /\ pc[p] = "writei"
    /\ wtot[p] >= wn[p]
    /\ size' = [size EXCEPT ![file[p]] = IF wn[p] > 0 THEN woff[p] ELSE @]
    /\ pc' = [pc EXCEPT ![p] = "open"]
    /\ woff' = [woff EXCEPT ![p] = 0]
    /\ wtot' = [wtot EXCEPT ![p] = 0]
    /\ wn' = [wn EXCEPT ![p] = 0]
    /\ UNCHANGED <<bitmap, blk, dtype, nlink, addrs, ind, ref, file, panicked>>

\* After the loop: if n > 0 and off > ip->size then ip->size = off and
\* iupdate; the caller then unlocks the inode.  (writei's locals are
\* cleared so that an idle process has one state.)
writei_end(p) ==
    /\ Up
    /\ pc[p] = "writei"
    /\ wtot[p] >= wn[p]
    /\ size' = [size EXCEPT ![file[p]] = IF wn[p] > 0 /\ woff[p] > @ THEN woff[p] ELSE @]
    /\ pc' = [pc EXCEPT ![p] = "open"]
    /\ woff' = [woff EXCEPT ![p] = 0]
    /\ wtot' = [wtot EXCEPT ![p] = 0]
    /\ wn' = [wn EXCEPT ![p] = 0]
    /\ UNCHANGED <<bitmap, blk, dtype, nlink, addrs, ind, ref, file, panicked>>

-----------------------------------------------------------------------------
(* readi, for a T_FILE inode (the model has no devices).                   *)

\* Mutation: readi's end-of-file clamp is missing.
readi_no_clamp(p, off, n) ==
    /\ Up
    /\ pc[p] = "open"
    /\ ~Busy(file[p])
    /\ IF off > size[file[p]] \/ (off + n) % UINT < off
       THEN UNCHANGED <<pc, woff, wtot, wn>>
       ELSE /\ pc' = [pc EXCEPT ![p] = "readi"]
            /\ woff' = [woff EXCEPT ![p] = off]
            /\ wtot' = [wtot EXCEPT ![p] = 0]
            /\ wn' = [wn EXCEPT ![p] = n]
    /\ UNCHANGED <<bitmap, blk, dtype, nlink, size, addrs, ind, ref, file, panicked>>

\* readi(ip, dst, off, n) with ip locked: return -1 when off is past the
\* end or off + n wraps; a read past the end is cut to size - off.
readi(p, off, n) ==
    /\ Up
    /\ pc[p] = "open"
    /\ ~Busy(file[p])
    /\ IF off > size[file[p]] \/ (off + n) % UINT < off
       THEN UNCHANGED <<pc, woff, wtot, wn>>
       ELSE /\ pc' = [pc EXCEPT ![p] = "readi"]
            /\ woff' = [woff EXCEPT ![p] = off]
            /\ wtot' = [wtot EXCEPT ![p] = 0]
            /\ wn' = [wn EXCEPT ![p] = IF off + n > size[file[p]]
                                         THEN size[file[p]] - off ELSE n]
    /\ UNCHANGED <<bitmap, blk, dtype, nlink, size, addrs, ind, ref, file, panicked>>

\* One iteration of readi's loop: bread(bmap(ip, off/BSIZE)), which, like
\* writei's, allocates a missing block, then copy m bytes out of it.
readi_loop(p) ==
    /\ Up
    /\ pc[p] = "readi"
    /\ wtot[p] < wn[p]
    /\ LET i == file[p]
           bn == woff[p] \div BSIZE
           m == Min({wn[p] - wtot[p], BSIZE - (woff[p] % BSIZE)})
       IN IF bn >= MAXFILE \/ Mapped(i, bn) = 0
          THEN /\ bmap_alloc(i, bn)
               /\ UNCHANGED <<woff, wtot>>
          ELSE /\ woff' = [woff EXCEPT ![p] = (@ + m) % UINT]
               /\ wtot' = [wtot EXCEPT ![p] = @ + m]
               /\ UNCHANGED <<bitmap, blk, addrs, ind, panicked>>
    /\ UNCHANGED <<dtype, nlink, size, ref, pc, file, wn>>

\* return n; the caller then unlocks the inode.
readi_end(p) ==
    /\ Up
    /\ pc[p] = "readi"
    /\ wtot[p] >= wn[p]
    /\ pc' = [pc EXCEPT ![p] = "open"]
    /\ woff' = [woff EXCEPT ![p] = 0]
    /\ wtot' = [wtot EXCEPT ![p] = 0]
    /\ wn' = [wn EXCEPT ![p] = 0]
    /\ UNCHANGED <<bitmap, blk, dtype, nlink, size, addrs, ind, ref, file, panicked>>

-----------------------------------------------------------------------------

\* A crash between calls: memory is lost, the committed disk stays.  The
\* boot's recover_from_log finds no pending transaction and frees nothing.
Crash ==
    /\ Up
    /\ \A p \in Procs : pc[p] \in {"idle", "open"}
    /\ ref' = [i \in Inums |-> 0]
    /\ pc' = [p \in Procs |-> "idle"]
    /\ file' = [p \in Procs |-> 0]
    /\ orphans' = orphans \cup {i \in Inums : dtype[i] # 0 /\ nlink[i] = 0}
    /\ UNCHANGED <<bitmap, blk, dtype, nlink, size, addrs, ind, woff, wtot, wn, panicked>>

Halted ==
    /\ ~Up
    /\ UNCHANGED vars

\* Offsets and counts a caller passes: every offset up to one past the
\* largest file, and counts that stay in a block, cross one, or wrap.
Offs == 0..(MAXBYTES + 1)
Ns   == {0, 1, BSIZE + 1, UINT - 1}

Next ==
    /\ \/ \E p \in Procs :
             \/ Create(p) \/ Unlink(p) \/ Close(p)
             \/ \E i \in Inums : Open(p, i)
             \/ \E off \in Offs, n \in Ns : writei(p, off, n)
             \/ writei_loop(p) \/ writei_end(p)
             \/ \E off \in Offs, n \in Ns : readi(p, off, n)
             \/ readi_loop(p) \/ readi_end(p)
       \/ Halted
    /\ UNCHANGED orphans

Spec == Init /\ [][Next]_vars

CrashSpec == Init /\ [][Next \/ Crash]_vars
-----------------------------------------------------------------------------
(* Properties.                                                             *)

\* The places an inode keeps a block number: its direct addresses, its
\* indirect address, and the entries of its indirect block.
Pos == {<<"direct", k>> : k \in 1..NDIRECT} \cup {<<"indirect", 0>>}
       \cup {<<"entry", e>> : e \in 1..NINDIRECT}

AddrAt(i, pos) ==
    CASE pos[1] = "direct"   -> addrs[i][pos[2]]
      [] pos[1] = "indirect" -> ind[i]
      [] OTHER               -> IF ind[i] = 0 THEN 0 ELSE blk[ind[i]][pos[2]]

Uses == {u \in Inums \X Pos : dtype[u[1]] # 0 /\ AddrAt(u[1], u[2]) # 0}

\* Every block an allocated inode points to is marked in use in the bitmap,
\* and no block is pointed to twice, in one file or across files: balloc,
\* bzero and itrunc's bfree keep block ownership exclusive across reuse
\* and crashes.
BlocksExclusive ==
    /\ \A u \in Uses : bitmap[AddrAt(u[1], u[2])]
    /\ \A u, v \in Uses : u # v => AddrAt(u[1], u[2]) # AddrAt(v[1], v[2])

\* Between calls, a file has a block exactly for each BSIZE piece below its
\* size: writei leaves no hole and no block past the end.
SizeCoversBlocks ==
    \A i \in Inums :
        dtype[i] # 0 /\ Up /\ ~(\E q \in Procs : file[q] = i /\ pc[q] = "writei") =>
            \A bn \in 0..(MAXFILE - 1) :
                (Mapped(i, bn) # 0) <=> (bn * BSIZE < size[i])

\* readi never makes bmap allocate: every block a read still has to copy
\* is already mapped, so a read (which runs in no transaction) never calls
\* balloc.  It rests on readi's bounds and clamp and on writei leaving no
\* hole below the size, across truncation and block reuse.
ReadiNeverAllocates ==
    \A p \in Procs :
        pc[p] = "readi" /\ wtot[p] < wn[p] =>
            LET bn == woff[p] \div BSIZE
            IN bn < MAXFILE /\ Mapped(file[p], bn) # 0

\* No call makes the kernel panic, except for running out of blocks or
\* dinodes: writei's bounds keep bmap in range and bfree never sees a
\* free block.
NoPanic == panicked \in {"none", "balloc: out of blocks", "ialloc: no inodes"}

\* Every block in use belongs to a file that is still reachable, through a
\* directory entry or an open reference (spec 4.2: the transaction that
\* changes the bitmap also changes the block's owner, "guaranteeing no
\* leaked nor double-allocated blocks across crashes").
NoLeak ==
    \A b \in Blks :
        bitmap[b] => \E i \in Inums : /\ dtype[i] # 0
                                      /\ nlink[i] > 0 \/ ref[i] > 0
                                      /\ b \in BlocksOf(i)

\* Crashes included, the only storage ever lost is that of files unlinked
\* while open when the machine went down: every allocated dinode is linked,
\* open, or was orphaned so by a crash, and every block in use belongs to
\* such a dinode.  Without a crash this is NoLeak: the last iput of an
\* unlinked file frees the dinode, and itrunc frees all of its blocks.
LeaksOnlyAtCrash ==
    LET Kept(i) == dtype[i] # 0 /\ (nlink[i] > 0 \/ ref[i] > 0 \/ i \in orphans)
    IN /\ \A i \in Inums : dtype[i] # 0 => Kept(i)
       /\ \A b \in Blks : bitmap[b] => \E i \in Inums : Kept(i) /\ b \in BlocksOf(i)
=============================================================================
