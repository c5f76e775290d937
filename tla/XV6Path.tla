------------------------------- MODULE XV6Path -------------------------------
(***************************************************************************)
(* Path lookup and directory entries in xv6 (fmt/fs.c): namex walking a    *)
(* directory tree with one inode lock at a time, dirlookup, and dirlink,   *)
(* with processes running namei, and sys_link / sys_unlink of a file name  *)
(* (nameiparent, then the parent locked while its entries change).         *)
(*                                                                         *)
(* Names are atomic: XV6Name shows namecmp matches names exactly when      *)
(* their first DIRSIZ bytes agree.  Inodes are their inums: XV6ICache      *)
(* shows one cache slot per inum, so busy[i] is that slot's I_BUSY owner.  *)
(* The file's nlink and freeing are XV6Alloc's and are left out here.      *)
(***************************************************************************)
EXTENDS Naturals, Sequences, FiniteSets, FiniteSetsExt

CONSTANTS
    Procs,      \* processes
    Scripts,    \* the calls a process may make (see Call)
    MAXENT      \* entries a directory can hold (MAXFILE*BSIZE / sizeof(de))

ROOTINO == 1
SUBDIR  == 2
AFILE   == 3
Inums   == {ROOTINO, SUBDIR, AFILE}
Dirs    == {ROOTINO, SUBDIR}
T_DIR   == 1
T_FILE  == 2
itype   == [i \in Inums |-> IF i = AFILE THEN T_FILE ELSE T_DIR]
NoProc  == "none"

\* A call: op is "namei", "link" (sys_link of AFILE to the path) or
\* "unlink"; start is ROOTINO for a path starting with '/', else the cwd;
\* path is what skipelem yields.  link and unlink use nameiparent.
Call == [op : {"namei", "link", "unlink"}, start : Dirs, path : Seq(STRING)]
ASSUME Scripts \subseteq Call

Entry == [name : STRING, inum : 0..3]

VARIABLES
    dir,        \* the entries of each directory, inum 0 = free slot
    busy,       \* I_BUSY owner of each inode
    script,     \* the call each process makes
    pc,
    ip,         \* namex's ip: the inode held (by reference) or locked
    nxt,        \* dirlookup's result
    rest,       \* namex's path after skipelem
    name,       \* namex's name buffer
    panicked

vars == <<dir, busy, script, pc, ip, nxt, rest, name, panicked>>

Loc == {"start", "next", "ilock", "check", "unlockput", "got", "op", "done"}

TypeOK ==
    /\ dir \in [Dirs -> Seq(Entry)]
    /\ busy \in [Inums -> Procs \cup {NoProc}]
    /\ script \in [Procs -> Scripts]
    /\ pc \in [Procs -> Loc]
    /\ ip \in [Procs -> Inums]
    /\ nxt \in [Procs -> Inums]
    /\ rest \in [Procs -> Seq(STRING)]
    /\ name \in [Procs -> STRING]
    /\ panicked \in STRING

Up == panicked = "none"

\* mkfs's root with "." and "..", a subdirectory "d" and a file "a".
Init ==
    /\ dir = [d \in Dirs |->
                IF d = ROOTINO
                THEN << [name |-> ".", inum |-> ROOTINO], [name |-> "..", inum |-> ROOTINO],
                        [name |-> "d", inum |-> SUBDIR], [name |-> "a", inum |-> AFILE] >>
                ELSE << [name |-> ".", inum |-> SUBDIR], [name |-> "..", inum |-> ROOTINO] >>]
    /\ busy = [i \in Inums |-> NoProc]
    /\ script \in [Procs -> Scripts]
    /\ pc = [p \in Procs |-> "start"]
    /\ ip = [p \in Procs |-> ROOTINO]
    /\ nxt = [p \in Procs |-> ROOTINO]
    /\ rest = [p \in Procs |-> <<>>]
    /\ name = [p \in Procs |-> ""]
    /\ panicked = "none"

Parent(p) == script[p].op \in {"link", "unlink"}

\* dirlookup(dp, nm, 0): the first used entry named nm, or 0.
dirlookup(dp, nm) ==
    LET ks == {k \in 1..Len(dir[dp]) : dir[dp][k].inum # 0 /\ dir[dp][k].name = nm}
    IN IF ks = {} THEN 0 ELSE dir[dp][Min(ks)].inum

-----------------------------------------------------------------------------
(* namex.                                                                   *)

\* if(*path == '/') ip = iget(ROOTDEV, ROOTINO); else ip = idup(proc->cwd);
namex_start(p) ==
    /\ Up
    /\ pc[p] = "start"
    /\ ip' = [ip EXCEPT ![p] = script[p].start]
    /\ rest' = [rest EXCEPT ![p] = script[p].path]
    /\ pc' = [pc EXCEPT ![p] = "next"]
    /\ UNCHANGED <<dir, busy, script, nxt, name, panicked>>

\* while((path = skipelem(path, name)) != 0): no element left returns ip
\* (namei) or drops it and fails (nameiparent).
namex_next(p) ==
    /\ Up
    /\ pc[p] = "next"
    /\ IF rest[p] = <<>>
       THEN /\ pc' = [pc EXCEPT ![p] = IF Parent(p) THEN "done" ELSE "got"]
            /\ UNCHANGED <<rest, name>>
       ELSE /\ name' = [name EXCEPT ![p] = Head(rest[p])]
            /\ rest' = [rest EXCEPT ![p] = Tail(rest[p])]
            /\ pc' = [pc EXCEPT ![p] = "ilock"]
    /\ UNCHANGED <<dir, busy, script, ip, nxt, panicked>>

\* ilock(ip): sleep while another process has it busy.
namex_ilock(p) ==
    /\ Up
    /\ pc[p] = "ilock"
    /\ busy[ip[p]] = NoProc
    /\ busy' = [busy EXCEPT ![ip[p]] = p]
    /\ pc' = [pc EXCEPT ![p] = "check"]
    /\ UNCHANGED <<dir, script, ip, nxt, rest, name, panicked>>

\* Mutation: the not-a-directory exit drops the reference but leaves the
\* inode locked (iput for iunlockput).
namex_check_keep_lock(p) ==
    /\ Up
    /\ pc[p] = "check"
    /\ LET i == ip[p] IN
       IF itype[i] # T_DIR
       THEN /\ pc' = [pc EXCEPT ![p] = "done"]
            /\ UNCHANGED <<busy, nxt>>
       ELSE IF Parent(p) /\ rest[p] = <<>>
       THEN /\ busy' = [busy EXCEPT ![i] = NoProc]
            /\ pc' = [pc EXCEPT ![p] = "got"]
            /\ UNCHANGED nxt
       ELSE IF dirlookup(i, name[p]) = 0
       THEN /\ busy' = [busy EXCEPT ![i] = NoProc]
            /\ pc' = [pc EXCEPT ![p] = "done"]
            /\ UNCHANGED nxt
       ELSE /\ nxt' = [nxt EXCEPT ![p] = dirlookup(i, name[p])]
            /\ pc' = [pc EXCEPT ![p] = "unlockput"]
            /\ UNCHANGED busy
    /\ UNCHANGED <<dir, script, ip, rest, name, panicked>>

\* With ip locked: not a directory -> iunlockput and fail; nameiparent at
\* the last element -> iunlock and return ip; else next = dirlookup(ip,
\* name), and none -> iunlockput and fail.
namex_check(p) ==
    /\ Up
    /\ pc[p] = "check"
    /\ LET i == ip[p] IN
       IF itype[i] # T_DIR
       THEN /\ busy' = [busy EXCEPT ![i] = NoProc]
            /\ pc' = [pc EXCEPT ![p] = "done"]
            /\ UNCHANGED nxt
       ELSE IF Parent(p) /\ rest[p] = <<>>
       THEN /\ busy' = [busy EXCEPT ![i] = NoProc]
            /\ pc' = [pc EXCEPT ![p] = "got"]
            /\ UNCHANGED nxt
       ELSE IF dirlookup(i, name[p]) = 0
       THEN /\ busy' = [busy EXCEPT ![i] = NoProc]
            /\ pc' = [pc EXCEPT ![p] = "done"]
            /\ UNCHANGED nxt
       ELSE /\ nxt' = [nxt EXCEPT ![p] = dirlookup(i, name[p])]
            /\ pc' = [pc EXCEPT ![p] = "unlockput"]
            /\ UNCHANGED busy
    /\ UNCHANGED <<dir, script, ip, rest, name, panicked>>

\* iunlockput(ip); ip = next: the parent is released before the child is
\* locked, so no process ever holds two inode locks in namex.
namex_unlockput(p) ==
    /\ Up
    /\ pc[p] = "unlockput"
    /\ busy' = [busy EXCEPT ![ip[p]] = NoProc]
    /\ ip' = [ip EXCEPT ![p] = nxt[p]]
    /\ pc' = [pc EXCEPT ![p] = "next"]
    /\ UNCHANGED <<dir, script, nxt, rest, name, panicked>>

-----------------------------------------------------------------------------
(* The callers, with namex's result in ip (unlocked, referenced).          *)

\* namei's caller is done with the inode (iput); sys_link / sys_unlink
\* ilock the parent directory.
got(p) ==
    /\ Up
    /\ pc[p] = "got"
    /\ IF Parent(p)
       THEN /\ busy[ip[p]] = NoProc
            /\ busy' = [busy EXCEPT ![ip[p]] = p]
            /\ pc' = [pc EXCEPT ![p] = "op"]
       ELSE /\ pc' = [pc EXCEPT ![p] = "done"]
            /\ UNCHANGED busy
    /\ UNCHANGED <<dir, script, ip, nxt, rest, name, panicked>>

\* Mutation: dirlink does not check that the name is absent.
dirlink_no_check(dp, nm, inum) ==
    LET free == {k \in 1..Len(dir[dp]) : dir[dp][k].inum = 0}
        off  == IF free = {} THEN Len(dir[dp]) + 1 ELSE Min(free)
    IN IF off > MAXENT
       THEN /\ panicked' = "dirlink"
            /\ UNCHANGED dir
       ELSE /\ dir' = [dir EXCEPT ![dp] = [k \in 1..Max({off, Len(@)}) |->
                          IF k = off THEN [name |-> nm, inum |-> inum] ELSE @[k]]]
            /\ UNCHANGED panicked

\* dirlink(dp, name, inum): -1 if the name is present; else write the entry
\* at the first free slot, or at dp->size; writei past MAXFILE fails and
\* dirlink panics.
dirlink(dp, nm, inum) ==
    IF dirlookup(dp, nm) # 0
    THEN UNCHANGED <<dir, panicked>>
    ELSE LET free == {k \in 1..Len(dir[dp]) : dir[dp][k].inum = 0}
             off  == IF free = {} THEN Len(dir[dp]) + 1 ELSE Min(free)
         IN IF off > MAXENT
            THEN /\ panicked' = "dirlink"
                 /\ UNCHANGED dir
            ELSE /\ dir' = [dir EXCEPT ![dp] = [k \in 1..Max({off, Len(@)}) |->
                               IF k = off THEN [name |-> nm, inum |-> inum] ELSE @[k]]]
                 /\ UNCHANGED panicked

\* With the parent locked: sys_link's dirlink(dp, name, AFILE), or
\* sys_unlink's removal of a file's entry (not "." or ".."; writei of a
\* zero dirent at its offset); then iunlockput(dp).
op(p) ==
    /\ Up
    /\ pc[p] = "op"
    /\ LET dp == ip[p]
           nm == name[p]
       IN IF script[p].op = "link"
          THEN dirlink(dp, nm, AFILE)
          ELSE /\ UNCHANGED panicked
               /\ LET ks == {k \in 1..Len(dir[dp]) : dir[dp][k].inum # 0 /\ dir[dp][k].name = nm}
                  IN IF nm \notin {".", ".."} /\ ks # {} /\ itype[dir[dp][Min(ks)].inum] = T_FILE
                     THEN dir' = [dir EXCEPT ![dp][Min(ks)].inum = 0]
                     ELSE UNCHANGED dir
    /\ busy' = [busy EXCEPT ![ip[p]] = NoProc]
    /\ pc' = [pc EXCEPT ![p] = "done"]
    /\ UNCHANGED <<script, ip, nxt, rest, name>>

\* Every process has returned from its call.
Finished ==
    /\ \A p \in Procs : pc[p] = "done"
    /\ UNCHANGED vars

Halted ==
    /\ ~Up
    /\ UNCHANGED vars

Step(p) ==
    \/ namex_start(p) \/ namex_next(p) \/ namex_ilock(p) \/ namex_check(p)
    \/ namex_unlockput(p) \/ got(p) \/ op(p)

Next == (\E p \in Procs : Step(p)) \/ Finished \/ Halted

Spec == Init /\ [][Next]_vars

\* Each process is scheduled while it can run; ilock's sleep ends when
\* the owner's iunlock wakes it.
FairSpec == Spec /\ \A p \in Procs : WF_vars(Step(p))

-----------------------------------------------------------------------------
(* Properties.                                                             *)

\* No directory has two used entries with the same name, however
\* sys_link calls race on one directory: dirlink's own check, made with
\* the parent locked, rejects the second.
UniqueNames ==
    \A d \in Dirs : \A j, k \in 1..Len(dir[d]) :
        j # k /\ dir[d][j].inum # 0 /\ dir[d][k].inum # 0 => dir[d][j].name # dir[d][k].name

\* Every call returns: namex never holds two inode locks and releases the
\* one it holds on every exit, so walkers going down and walkers climbing
\* ".." cannot wait on each other forever.
CallsReturn == <>(\A p \in Procs : pc[p] = "done") \/ <>~Up
=============================================================================
