------------------------------- MODULE XV6Name -------------------------------
(***************************************************************************)
(* Path names in xv6 (fmt/fs.c): skipelem, the loop of namex that calls it *)
(* with one reused name buffer, and namecmp against a directory entry's    *)
(* name as dirlink stores it with strncpy.                                 *)
(*                                                                         *)
(* A C string is a sequence of character codes ending at the end of the    *)
(* sequence; NUL is 0, '/' is 1, letters are Letters.  A name buffer is    *)
(* char[DIRSIZ], a function 1..DIRSIZ -> codes.                            *)
(*                                                                         *)
(* The state is one set of inputs: a path, the bytes the name buffer held  *)
(* before the call, and the name a directory entry was created with.  The  *)
(* properties compare the code's operators with a reference split of the   *)
(* path into components.                                                   *)
(***************************************************************************)
EXTENDS Integers, Sequences, SequencesExt

CONSTANTS
    DIRSIZ,     \* bytes of a directory entry's name
    MAXPATH,    \* longest path tried
    Letters     \* character codes other than NUL and '/'

ASSUME DIRSIZ \in Nat \ {0} /\ Letters \subseteq Nat \ {0, 1}

NUL   == 0
SLASH == 1
Buf   == [1..DIRSIZ -> {NUL} \cup Letters]

VARIABLES
    path,       \* the path given to namei / nameiparent
    buf,        \* name[DIRSIZ] before the first skipelem
    ent         \* the name an existing directory entry was created with

vars == <<path, buf, ent>>

Init ==
    /\ path \in BoundedSeq({SLASH} \cup Letters, MAXPATH)
    /\ buf \in Buf
    /\ ent \in BoundedSeq(Letters, DIRSIZ + 1) \ {<<>>}

Next == UNCHANGED vars

Spec == Init /\ [][Next]_vars

-----------------------------------------------------------------------------
(* The code.                                                               *)

\* while(*path == '/') path++;
RECURSIVE SkipSlashes(_)
SkipSlashes(s) == IF s # <<>> /\ Head(s) = SLASH THEN SkipSlashes(Tail(s)) ELSE s

\* while(*path != '/' && *path != 0) path++;  len = path - s;
RECURSIVE ElemLen(_)
ElemLen(s) == IF s = <<>> \/ Head(s) = SLASH THEN 0 ELSE 1 + ElemLen(Tail(s))

\* A long element fills name[] without a NUL; a short one is copied and
\* terminated, and the bytes after the NUL keep what the buffer held.
CopyName(elem, name) ==
    IF Len(elem) >= DIRSIZ
    THEN [k \in 1..DIRSIZ |-> elem[k]]
    ELSE [k \in 1..DIRSIZ |-> IF k <= Len(elem) THEN elem[k]
                              ELSE IF k = Len(elem) + 1 THEN NUL
                              ELSE name[k]]

\* Mutation: the slashes after the element are not skipped, so "a/"
\* leaves "/" and nameiparent does not see that "a" is the last element.
skipelem_keep_slashes(p, name) ==
    LET s == SkipSlashes(p) IN
    IF s = <<>>
    THEN [ok |-> FALSE, rest |-> <<>>, name |-> name]
    ELSE LET len == ElemLen(s) IN
         [ok |-> TRUE, rest |-> SubSeq(s, len + 1, Len(s)),
          name |-> CopyName(SubSeq(s, 1, len), name)]

\* skipelem(path, name): ok = FALSE is its "return 0".
skipelem(p, name) ==
    LET s == SkipSlashes(p) IN
    IF s = <<>>
    THEN [ok |-> FALSE, rest |-> <<>>, name |-> name]
    ELSE LET len == ElemLen(s) IN
         [ok |-> TRUE, rest |-> SkipSlashes(SubSeq(s, len + 1, Len(s))),
          name |-> CopyName(SubSeq(s, 1, len), name)]

\* The names namex's loop sees: while((path = skipelem(path, name)) != 0),
\* with last = (*path == '\0'), nameiparent's test for the final element.
RECURSIVE Walk(_, _)
Walk(p, name) ==
    LET r == skipelem(p, name) IN
    IF ~r.ok THEN <<>>
    ELSE <<[name |-> r.name, last |-> r.rest = <<>>]>> \o Walk(r.rest, r.name)

\* strncmp (string.c): while(n > 0 && *p && *p == *q) n--, p++, q++;
\* if(n == 0) return 0; return (uchar)*p - (uchar)*q.
RECURSIVE StrnCmp(_, _, _, _)
StrnCmp(p, q, i, n) ==
    IF n > 0 /\ p[i] # NUL /\ p[i] = q[i] THEN StrnCmp(p, q, i + 1, n - 1)
    ELSE IF n = 0 THEN 0
    ELSE p[i] - q[i]

\* strncpy(de.name, name, DIRSIZ) (string.c): copy up to the NUL, then pad.
strncpy(t) == [k \in 1..DIRSIZ |-> IF \A j \in 1..(k - 1) : t[j] # NUL THEN t[k] ELSE NUL]

\* Mutation: names compared as DIRSIZ raw bytes (memcmp), bytes past the
\* NUL included.
namecmp_memcmp(s, t) == IF s = t THEN 0 ELSE 1

\* namecmp(s, t): strncmp(s, t, DIRSIZ).
namecmp(s, t) == StrnCmp(s, t, 1, DIRSIZ)

-----------------------------------------------------------------------------
(* The reference: a path's components, split another way.                  *)

RECURSIVE Split(_, _, _)
Split(s, cur, acc) ==
    LET flushed == IF cur = <<>> THEN acc ELSE Append(acc, cur) IN
    IF s = <<>> THEN flushed
    ELSE IF Head(s) = SLASH THEN Split(Tail(s), <<>>, flushed)
    ELSE Split(Tail(s), Append(cur, Head(s)), acc)

Components(p) == Split(p, <<>>, <<>>)

\* What a component means to the file system: its first DIRSIZ bytes.
Trunc(c) == SubSeq(c, 1, IF Len(c) < DIRSIZ THEN Len(c) ELSE DIRSIZ)

\* The C string held in a name buffer.
CString(name) ==
    LET k == SelectInSeq(name, LAMBDA ch : ch = NUL)
    IN IF k = 0 THEN name ELSE SubSeq(name, 1, k - 1)

-----------------------------------------------------------------------------
(* Properties.                                                             *)

\* namex's loop over skipelem visits exactly the path's components, in
\* order, each truncated to DIRSIZ, whatever the name buffer held before,
\* and flags the last one (and only it) for nameiparent, trailing and
\* repeated slashes included.
SkipelemSplitsPath ==
    LET w == Walk(path, buf)
        c == Components(path)
    IN /\ Len(w) = Len(c)
       /\ \A k \in 1..Len(w) :
             /\ CString(w[k].name) = Trunc(c[k])
             /\ w[k].last <=> k = Len(c)

\* dirlookup's namecmp of a component (in the reused buffer, with stale
\* bytes after its NUL) against an entry created by dirlink from the same
\* kind of buffer succeeds exactly when the two names agree in their first
\* DIRSIZ bytes.
NamecmpMatchesTrunc ==
    LET w  == Walk(path, buf)
        c  == Components(path)
        de == strncpy(skipelem(ent, buf).name)
    IN \A k \in 1..Len(w) :
          (namecmp(w[k].name, de) = 0) <=> (Trunc(c[k]) = Trunc(ent))
=============================================================================
