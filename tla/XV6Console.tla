------------------------------ MODULE XV6Console ------------------------------
(***************************************************************************)
(* Console input in xv6 (fmt/console.c): the ring input.buf with the       *)
(* unsigned indices r (read), w (write: end of the committed input) and e  *)
(* (edit), filled by consoleintr from the keyboard and drained by          *)
(* consoleread.                                                            *)
(*                                                                         *)
(* Both run under input.lock, so one key of consoleintr is one step, and   *)
(* consoleread's loop up to its sleep or its return is one step: its only *)
(* wait is sleep(&input.r, &input.lock).  The indices are uint: they wrap *)
(* at 2^UINTW, and INPUT_BUF divides 2^UINTW as 128 divides 2^32.          *)
(* Keys are model values; "cr" is '\r', "kill" is ^U, "bs" is ^H or DEL,  *)
(* "eof" is ^D, "nul" is 0.  ^P (procdump) and iunlock/ilock of the        *)
(* console inode are left out.                                             *)
(*                                                                         *)
(* Output goes through consputc to the UART and to cgaputc.  Only the CGA  *)
(* side is modelled, and of it only the cursor: the 6845's index register  *)
(* (port CRTPORT) and its cursor registers 14 (high byte) and 15 (low      *)
(* byte), read and written one port access at a time; the characters in    *)
(* crt[] are left out.  consoleintr echoes each key with consputc while    *)
(* it holds input.lock; Writers print with consolewrite under cons.lock.   *)
(* The keyboard interrupt is routed to CPU 0 (ioapicenable(IRQ_KBD, 0)).   *)
(* The screen is COLS x ROWS (80 x 25; the code's 24 and 23 are ROWS - 1   *)
(* and ROWS - 2) and a register holds a value below BYTE (256).            *)
(***************************************************************************)
EXTENDS Integers, FiniteSets, SequencesExt

CONSTANTS
    Readers,    \* processes calling consoleread
    INPUT_BUF,  \* size of input.buf
    UINTW,      \* bits of uint
    Letters,    \* ordinary keys
    ReadSizes,  \* n passed to consoleread
    Writers,    \* processes calling consolewrite
    WriterCPU,  \* the CPU each writer runs on
    COLS, ROWS, \* the text screen
    BYTE,       \* 2^8: the range of a CRT register
    INTW,       \* bits of int and uint in printint
    FMTLEN,     \* the longest cprintf format checked
    NULLPTR     \* the null pointer, a model value

UINT == 2^UINTW
ASSUME UINT % INPUT_BUF = 0

NUL  == "nul"
NL   == "nl"
EOF  == "eof"
Keys == Letters \cup {NL, EOF, NUL, "cr", "kill", "bs"}
Chars == Letters \cup {NL, EOF, NUL}
BACKSPACE == "backspace"
OutChars  == Letters \cup {NL}     \* bytes a writer prints (buf[i] & 0xff)
CELLS     == COLS * ROWS
KBDCPU    == 0
NoOne     == "none"

VARIABLES
    buf,        \* input.buf
    r, w, e,    \* input.r, input.w, input.e
    pc,         \* reader -> "idle", "sleep", "woken", "exited"
    n, target,  \* reader -> consoleread's n and target
    killed,     \* reader -> proc->killed
    owed,       \* history: ^D committed minus reads that returned 0
    crtidx,     \* the 6845 register selected by outb(CRTPORT, ...)
    crthi,      \* register 14: cursor high byte
    crtlo,      \* register 15: cursor low byte
    wpc,        \* writer -> where it is in consolewrite / cgaputc
    wpos, wch,  \* writer -> cgaputc's pos and c
    conslock,   \* holder of cons.lock
    wiped       \* history: a scroll's memset got a negative count

invars  == <<buf, r, w, e, pc, n, target, killed, owed>>
outvars == <<crtidx, crthi, crtlo, wpc, wpos, wch, conslock, wiped>>
vars    == <<invars, outvars>>

\* uint arithmetic
Add(x, k) == (x + k) % UINT
Dist(x, y) == (x - y) % UINT        \* x - y as uint

\* input is a zeroed global.
Init ==
    /\ buf = [i \in 0..INPUT_BUF - 1 |-> NUL]
    /\ r = 0 /\ w = 0 /\ e = 0
    /\ pc = [p \in Readers |-> "idle"]
    /\ n = [p \in Readers |-> 0]
    /\ target = [p \in Readers |-> 0]
    /\ killed = [p \in Readers |-> FALSE]
    /\ owed = 0
    /\ crtidx \in {14, 15}
    /\ \E pos \in 0..CELLS - 1 : crthi = pos \div BYTE /\ crtlo = pos % BYTE
    /\ wpc = [q \in Writers |-> "idle"]
    /\ wpos = [q \in Writers |-> 0]
    /\ wch = [q \in Writers |-> NL]
    /\ conslock = NoOne
    /\ wiped = FALSE

\* The slot of index x: input.buf[x % INPUT_BUF].
At(x) == buf[x % INPUT_BUF]

\* ^U: while(e != w && buf[(e-1) % INPUT_BUF] != '\n') e--;
RECURSIVE KillLine(_)
KillLine(x) == IF x # w /\ At(Add(x, UINT - 1)) # NL THEN KillLine(Add(x, UINT - 1)) ELSE x

\* ^D in the committed indices [from, to).
EofsIn(from, to) ==
    Cardinality({i \in 0..Dist(to, from) - 1 : At(Add(from, i)) = EOF})

\* wakeup(&input.r): readers asleep in consoleread become runnable.
WakeReaders == [p \in Readers |-> IF pc[p] = "sleep" THEN "woken" ELSE pc[p]]

\* The cursor the 6845 shows.
Cursor == crthi * BYTE + crtlo

\* inb(CRTPORT+1): the selected register.
CrtReg == IF crtidx = 14 THEN crthi ELSE crtlo

\* outb(CRTPORT+1, v): the selected register takes the low byte of v.
SetCrtReg(v) ==
    IF crtidx = 14 THEN crthi' = v % BYTE /\ UNCHANGED crtlo
                   ELSE crtlo' = v % BYTE /\ UNCHANGED crthi

\* Mutation: a newline moves down a row without going back to column 0.
CgaMove_nl_no_cr(pos, c) ==
    LET p1 == CASE c = NL        -> pos + COLS
                [] c = BACKSPACE -> IF pos > 0 THEN pos - 1 ELSE pos
                [] OTHER         -> pos + 1
        scroll == p1 \div COLS >= ROWS - 1
        p2 == IF scroll THEN p1 - COLS ELSE p1
    IN [pos |-> p2, ok |-> ~scroll \/ p2 <= (ROWS - 1) * COLS]

\* cgaputc between reading and writing the cursor: '\n' goes to the next
\* row, BACKSPACE back one cell unless at 0, other bytes are stored at
\* pos++; on row ROWS - 1 the screen scrolls up, pos -= COLS, and memset
\* clears (ROWS - 1) * COLS - pos cells, a count ok says is not negative.
CgaMove(pos, c) ==
    LET p1 == CASE c = NL        -> pos + COLS - (pos % COLS)
                [] c = BACKSPACE -> IF pos > 0 THEN pos - 1 ELSE pos
                [] OTHER         -> pos + 1
        scroll == p1 \div COLS >= ROWS - 1
        p2 == IF scroll THEN p1 - COLS ELSE p1
    IN [pos |-> p2, ok |-> ~scroll \/ p2 <= (ROWS - 1) * COLS]

\* consputc(c) run without interruption: cgaputc reads both registers,
\* moves, and writes them back, leaving register 15 selected.
CgaPut(st, c) ==
    LET m == CgaMove(st.hi * BYTE + st.lo, c) IN
    [hi |-> (m.pos \div BYTE) % BYTE, lo |-> m.pos % BYTE, ok |-> st.ok /\ m.ok]

\* consputc of each character of cs in turn.
RECURSIVE CgaPuts(_, _)
CgaPuts(st, cs) == IF cs = <<>> THEN st ELSE CgaPuts(CgaPut(st, Head(cs)), Tail(cs))

\* The echo of a key: the characters consoleintr passes to consputc.
Echo(cs) ==
    LET st == CgaPuts([hi |-> crthi, lo |-> crtlo, ok |-> TRUE], cs) IN
    /\ crthi' = st.hi /\ crtlo' = st.lo
    /\ crtidx' = IF cs = <<>> THEN crtidx ELSE 15
    /\ wiped' = (wiped \/ ~st.ok)
    /\ UNCHANGED <<wpc, wpos, wch, conslock>>

-----------------------------------------------------------------------------
(* printint(xx, base, sign), as cprintf calls it for %d (base 10, sign 1) *)
(* and %x, %p (base 16, sign 0).  Its output is the sequence of indices   *)
(* into digits[] = "0123456789abcdef", and MINUS for '-', passed to       *)
(* consputc.                                                               *)

MINUS == -1

\* An int's bits read as uint: x = xx.
ToUint(v) == v % 2^INTW

\* do buf[i++] = digits[x % base]; while((x /= base) != 0): lowest first.
RECURSIVE DigitsOf(_, _)
DigitsOf(x, base) ==
    <<x % base>> \o (IF x \div base = 0 THEN <<>> ELSE DigitsOf(x \div base, base))

\* Mutation: the sign is tested but not recorded (if(sign && xx < 0)), so
\* a %d of a positive value still appends '-'.
printint_sign_kept(xx, base, sign) ==
    LET x   == IF sign = 1 /\ xx < 0 THEN ToUint(-xx) ELSE ToUint(xx)
        digs == DigitsOf(x, base) \o (IF sign = 1 THEN <<MINUS>> ELSE <<>>)
    IN Reverse(digs)

\* if(sign && (sign = xx < 0)) x = -xx; else x = xx;  -xx of INT_MIN
\* overflows; the kernel's build negates with wrap-around, so x is 2^(w-1).
\* Then the digits, '-' if negative, and while(--i >= 0) consputc(buf[i]).
printint(xx, base, sign) ==
    LET neg == sign = 1 /\ xx < 0
        x   == IF neg THEN ToUint(-xx) ELSE ToUint(xx)
        digs == DigitsOf(x, base) \o (IF neg THEN <<MINUS>> ELSE <<>>)
    IN Reverse(digs)

\* The number a digit string stands for, most significant digit first.
RECURSIVE DigitValue(_, _)
DigitValue(s, base) ==
    IF s = <<>> THEN 0 ELSE DigitValue(Front(s), base) * base + Last(s)

-----------------------------------------------------------------------------
(* cprintf(fmt, ...): the format loop.  fmt is a sequence of characters   *)
(* (its NUL is the end of the sequence); the arguments are the values     *)
(* argp walks over: an int for %d, %x and %p, a string (a sequence) or   *)
(* NULLPTR for %s.  Its output is the sequence of characters passed to    *)
(* consputc.  The fmt == 0 panic is not reached: callers pass a literal.  *)

NULLSTR == <<"(", "n", "u", "l", "l", ")">>
\* The formats checked are over a plain character, '%', each conversion
\* and an unknown one; -1 and 26 need a sign, the wrap to uint and two
\* hex digits.
FmtChars == {"a", "%", "d", "x", "p", "s", "q"}
IntArgs  == {-1, 0, 26}
StrArgs  == {<<>>, <<"a">>}
DIGITS  == <<"0", "1", "2", "3", "4", "5", "6", "7", "8", "9",
             "a", "b", "c", "d", "e", "f">>

\* printint's consputc(buf[i]): buf holds digits[x % base] and '-'.
Glyphs(d) == [k \in DOMAIN d |-> IF d[k] = MINUS THEN "-" ELSE DIGITS[d[k] + 1]]

\* One conversion of the switch and the argument *argp++ it takes.
Conv(c, a) ==
    CASE c = "d"          -> Glyphs(printint(a, 10, 1))
      [] c \in {"x", "p"} -> Glyphs(printint(a, 16, 0))
      [] c = "s"          -> IF a = NULLPTR THEN NULLSTR ELSE a

\* Mutation: the "case 'p':" label is lost, so %p is an unknown sequence.
RECURSIVE FmtLoop_no_p(_, _, _)
FmtLoop_no_p(fmt, i, args) ==
    IF i > Len(fmt) THEN <<>>
    ELSE IF fmt[i] # "%" THEN <<fmt[i]>> \o FmtLoop_no_p(fmt, i + 1, args)
    ELSE IF i = Len(fmt) THEN <<>>
    ELSE LET c == fmt[i + 1] IN
         IF c \in {"d", "x", "s"}
         THEN Conv(c, Head(args)) \o FmtLoop_no_p(fmt, i + 2, Tail(args))
         ELSE (IF c = "%" THEN <<"%">> ELSE <<"%", c>>) \o FmtLoop_no_p(fmt, i + 2, args)

\* for(i = 0; (c = fmt[i] & 0xff) != 0; i++): a character other than '%'
\* is printed; after '%', c = fmt[++i] ends the loop if it is 0, else a
\* conversion takes the next argument, "%%" prints '%', and an unknown
\* sequence prints '%' and c.
RECURSIVE FmtLoop(_, _, _)
FmtLoop(fmt, i, args) ==
    IF i > Len(fmt) THEN <<>>
    ELSE IF fmt[i] # "%" THEN <<fmt[i]>> \o FmtLoop(fmt, i + 1, args)
    ELSE IF i = Len(fmt) THEN <<>>
    ELSE LET c == fmt[i + 1] IN
         IF c \in {"d", "x", "p", "s"}
         THEN Conv(c, Head(args)) \o FmtLoop(fmt, i + 2, Tail(args))
         ELSE (IF c = "%" THEN <<"%">> ELSE <<"%", c>>) \o FmtLoop(fmt, i + 2, args)

cprintf(fmt, args) == FmtLoop(fmt, 1, args)

\* The keyboard interrupt is taken on CPU 0 unless a writer there holds
\* cons.lock (acquire's pushcli disables interrupts until release).
KbdOn == ~\E q \in Writers : WriterCPU[q] = KBDCPU /\ conslock = q

-----------------------------------------------------------------------------
(* consoleintr: one key, under input.lock.                                 *)

\* Mutation: backspace does not test e != w.
EditKey_bs_unchecked(c) ==
    /\ \/ c = "kill" /\ e' = KillLine(e)
       \/ c = "bs" /\ e' = Add(e, UINT - 1)
    /\ UNCHANGED <<buf, r, w, pc, n, target, killed, owed>>

\* ^U erases back to the last newline or to w; backspace erases one key
\* unless e == w.
EditKey(c) ==
    /\ \/ c = "kill" /\ e' = KillLine(e)
       \/ c = "bs" /\ e # w /\ e' = Add(e, UINT - 1)
    /\ UNCHANGED <<buf, r, w, pc, n, target, killed, owed>>

\* Mutation: a full buffer ends the line but does not wake the readers.
PutKey_no_wake_full(c) ==
    /\ c \notin {"kill", "bs", NUL}
    /\ Dist(e, r) < INPUT_BUF
    /\ LET ch == IF c = "cr" THEN NL ELSE c
           e2 == Add(e, 1)
           b2 == [buf EXCEPT ![e % INPUT_BUF] = ch]
       IN /\ buf' = b2 /\ e' = e2
          /\ IF ch \in {NL, EOF} \/ e2 = Add(r, INPUT_BUF)
             THEN /\ w' = e2
                  /\ owed' = owed + Cardinality({i \in 0..Dist(e2, w) - 1 :
                                 b2[Add(w, i) % INPUT_BUF] = EOF})
                  /\ pc' = IF ch \in {NL, EOF} THEN WakeReaders ELSE pc
             ELSE UNCHANGED <<w, owed, pc>>
    /\ UNCHANGED <<r, n, target, killed>>

\* Mutation: the key is stored at ++e (pre-increment) instead of e++.
PutKey_store_after(c) ==
    /\ c \notin {"kill", "bs", NUL}
    /\ Dist(e, r) < INPUT_BUF
    /\ LET ch == IF c = "cr" THEN NL ELSE c
           e2 == Add(e, 1)
           b2 == [buf EXCEPT ![e2 % INPUT_BUF] = ch]
       IN /\ buf' = b2 /\ e' = e2
          /\ IF ch \in {NL, EOF} \/ e2 = Add(r, INPUT_BUF)
             THEN /\ w' = e2
                  /\ owed' = owed + Cardinality({i \in 0..Dist(e2, w) - 1 :
                                 b2[Add(w, i) % INPUT_BUF] = EOF})
                  /\ pc' = WakeReaders
             ELSE UNCHANGED <<w, owed, pc>>
    /\ UNCHANGED <<r, n, target, killed>>

\* Any other key but 0, when the buffer has room: '\r' becomes '\n', the
\* key is stored at e++, and a newline, ^D or a full buffer commits the
\* line (w = e) and wakes the readers.
PutKey(c) ==
    /\ c \notin {"kill", "bs", NUL}
    /\ Dist(e, r) < INPUT_BUF
    /\ LET ch == IF c = "cr" THEN NL ELSE c
           e2 == Add(e, 1)
           b2 == [buf EXCEPT ![e % INPUT_BUF] = ch]
       IN /\ buf' = b2 /\ e' = e2
          /\ IF ch \in {NL, EOF} \/ e2 = Add(r, INPUT_BUF)
             THEN /\ w' = e2
                  /\ owed' = owed + Cardinality({i \in 0..Dist(e2, w) - 1 :
                                 b2[Add(w, i) % INPUT_BUF] = EOF})
                  /\ pc' = WakeReaders
             ELSE UNCHANGED <<w, owed, pc>>
    /\ UNCHANGED <<r, n, target, killed>>

\* A key, echoed: ^U and backspace echo one BACKSPACE per erased key,
\* a stored key is echoed as stored ('\r' as '\n').
consoleintr(c) ==
    /\ KbdOn
    /\ EditKey(c) \/ PutKey(c)
    /\ Echo(IF c \in {"kill", "bs"} THEN [i \in 1..Dist(e, e') |-> BACKSPACE]
                                   ELSE <<IF c = "cr" THEN NL ELSE c>>)

-----------------------------------------------------------------------------
(* consoleread(ip, dst, n).                                                *)

\* Entry: target = n; the loop runs in the next step (iunlock(ip) and
\* acquire(&input.lock) change nothing modelled here).
read_start(p, k) ==
    /\ pc[p] = "idle" /\ ~killed[p]
    /\ pc' = [pc EXCEPT ![p] = "woken"]
    /\ n' = [n EXCEPT ![p] = k]
    /\ target' = [target EXCEPT ![p] = k]
    /\ UNCHANGED <<buf, r, w, e, killed, owed>>
    /\ UNCHANGED outvars

\* Mutation: a ^D read after other bytes is consumed, not saved.
RECURSIVE ReadLoop_no_save(_, _, _)
ReadLoop_no_save(p, x, k) ==
    IF k = 0 THEN [r |-> x, n |-> k, how |-> "done"]
    ELSE IF x = w THEN [r |-> x, n |-> k, how |-> IF killed[p] THEN "killed" ELSE "sleep"]
    ELSE IF At(x) = EOF THEN [r |-> Add(x, 1), n |-> k, how |-> "done"]
    ELSE IF At(x) = NL THEN [r |-> Add(x, 1), n |-> k - 1, how |-> "done"]
    ELSE ReadLoop_no_save(p, Add(x, 1), k - 1)

\* Mutation: proc->killed is not tested before sleeping.
RECURSIVE ReadLoop_ignore_kill(_, _, _)
ReadLoop_ignore_kill(p, x, k) ==
    IF k = 0 THEN [r |-> x, n |-> k, how |-> "done"]
    ELSE IF x = w THEN [r |-> x, n |-> k, how |-> "sleep"]
    ELSE IF At(x) = EOF
         THEN [r |-> IF k < target[p] THEN x ELSE Add(x, 1), n |-> k, how |-> "done"]
    ELSE IF At(x) = NL THEN [r |-> Add(x, 1), n |-> k - 1, how |-> "done"]
    ELSE ReadLoop_ignore_kill(p, Add(x, 1), k - 1)

\* while(n > 0): wait while r == w (return -1 if killed, else sleep);
\* c = buf[r++ % INPUT_BUF]; ^D ends the read, put back (r--) when bytes
\* were already read; other bytes are copied, n--, and '\n' ends the read.
RECURSIVE ReadLoop(_, _, _)
ReadLoop(p, x, k) ==
    IF k = 0 THEN [r |-> x, n |-> k, how |-> "done"]
    ELSE IF x = w THEN [r |-> x, n |-> k, how |-> IF killed[p] THEN "killed" ELSE "sleep"]
    ELSE IF At(x) = EOF
         THEN [r |-> IF k < target[p] THEN x ELSE Add(x, 1), n |-> k, how |-> "done"]
    ELSE IF At(x) = NL THEN [r |-> Add(x, 1), n |-> k - 1, how |-> "done"]
    ELSE ReadLoop(p, Add(x, 1), k - 1)

\* The loop from its start or from a wakeup, to the sleep or the return.
\* A return of 0 (target - n with n untouched) is the caller's EOF.  On a
\* return the process is back in user space, where trap() exits it if
\* killed.
read_step(p) ==
    /\ pc[p] = "woken"
    /\ LET res == ReadLoop(p, r, n[p]) IN
       /\ r' = res.r
       /\ n' = [n EXCEPT ![p] = res.n]
       /\ pc' = [pc EXCEPT ![p] = CASE res.how = "sleep" -> "sleep"
                                    [] killed[p]        -> "exited"
                                    [] OTHER            -> "idle"]
       /\ owed' = IF res.how = "done" /\ res.n = target[p] THEN owed - 1 ELSE owed
    /\ UNCHANGED <<buf, w, e, target, killed>>
    /\ UNCHANGED outvars

\* kill(pid) (proc.c): killed = 1, and a SLEEPING process becomes RUNNABLE;
\* one in user space exits at its next trap.
Kill(p) ==
    /\ ~killed[p] /\ pc[p] # "exited"
    /\ killed' = [killed EXCEPT ![p] = TRUE]
    /\ pc' = [pc EXCEPT ![p] = CASE @ = "sleep" -> "woken"
                                 [] @ = "idle"  -> "exited"
                                 [] OTHER       -> @]
    /\ UNCHANGED <<buf, r, w, e, n, target, owed>>
    /\ UNCHANGED outvars

-----------------------------------------------------------------------------
(* consolewrite(ip, buf, n): acquire(&cons.lock), consputc(buf[i] & 0xff)  *)
(* for each byte, release.  A write of one byte is modelled; a longer one  *)
(* repeats it under the same lock.  Each port access of cgaputc is a step. *)

\* Next port access of writer q in cgaputc, from -> to.
WStep(q, from, to) ==
    /\ wpc[q] = from
    /\ wpc' = [wpc EXCEPT ![q] = to]

consolewrite(q, c) ==
    /\ WStep(q, "idle", "rdhi")
    /\ conslock = NoOne
    /\ conslock' = q
    /\ wch' = [wch EXCEPT ![q] = c]
    /\ crtidx' = 14                              \* outb(CRTPORT, 14)
    /\ UNCHANGED <<crthi, crtlo, wpos, wiped>>

\* pos = inb(CRTPORT+1) << 8; outb(CRTPORT, 15); then pos |= inb(CRTPORT+1),
\* the move, the scroll and crt[] (which the others do not see); then
\* outb(CRTPORT, 14); outb(CRTPORT+1, pos>>8); outb(CRTPORT, 15).
cga_step(q) ==
    \/ /\ WStep(q, "rdhi", "idx15")
       /\ wpos' = [wpos EXCEPT ![q] = CrtReg * BYTE]
       /\ UNCHANGED <<crtidx, crthi, crtlo, wiped>>
    \/ /\ WStep(q, "idx15", "rdlo")
       /\ crtidx' = 15
       /\ UNCHANGED <<crthi, crtlo, wpos, wiped>>
    \/ /\ WStep(q, "rdlo", "idx14")
       /\ LET m == CgaMove(wpos[q] + CrtReg, wch[q]) IN
          /\ wpos' = [wpos EXCEPT ![q] = m.pos]
          /\ wiped' = (wiped \/ ~m.ok)
       /\ UNCHANGED <<crtidx, crthi, crtlo>>
    \/ /\ WStep(q, "idx14", "wrhi")
       /\ crtidx' = 14
       /\ UNCHANGED <<crthi, crtlo, wpos, wiped>>
    \/ /\ WStep(q, "wrhi", "idx15w")
       /\ SetCrtReg(wpos[q] \div BYTE)
       /\ UNCHANGED <<crtidx, wpos, wiped>>
    \/ /\ WStep(q, "idx15w", "wrlo")
       /\ crtidx' = 15
       /\ UNCHANGED <<crthi, crtlo, wpos, wiped>>

\* outb(CRTPORT+1, pos); crt[pos] = ' '; release(&cons.lock).
cga_done(q) ==
    /\ WStep(q, "wrlo", "idle")
    /\ SetCrtReg(wpos[q])
    /\ conslock' = NoOne
    /\ wpos' = [wpos EXCEPT ![q] = 0]
    /\ wch' = [wch EXCEPT ![q] = NL]
    /\ UNCHANGED <<crtidx, wiped>>

\* The rest of a consputc, once cons.lock is held.
cga_on(q) ==
    /\ \/ cga_step(q) /\ UNCHANGED <<wch, conslock>>
       \/ cga_done(q)
    /\ UNCHANGED invars

Write(q) ==
    \/ \E c \in OutChars : consolewrite(q, c) /\ UNCHANGED invars
    \/ cga_on(q)

Next ==
    \/ \E c \in Keys : consoleintr(c)
    \/ \E p \in Readers : \/ \E k \in ReadSizes : read_start(p, k)
                          \/ read_step(p)
                          \/ Kill(p)
    \/ \E q \in Writers : Write(q)

Spec == Init /\ [][Next]_vars

\* A runnable reader runs (the scheduler's fairness), and a writer holding
\* cons.lock runs on (interrupts are off); keys, kills and writes come
\* when they come.
FairSpec ==
    /\ Spec
    /\ \A p \in Readers : WF_vars(read_step(p))
    /\ \A q \in Writers : WF_vars(cga_on(q))

-----------------------------------------------------------------------------
(* Properties.                                                             *)

TypeOK ==
    /\ buf \in [0..INPUT_BUF - 1 -> Chars]
    /\ {r, w, e} \subseteq 0..UINT - 1
    /\ pc \in [Readers -> {"idle", "sleep", "woken", "exited"}]
    /\ n \in [Readers -> Nat] /\ target \in [Readers -> Nat]
    /\ killed \in [Readers -> BOOLEAN]
    /\ owed \in Nat
    /\ crtidx \in {14, 15} /\ {crthi, crtlo} \subseteq 0..BYTE - 1
    /\ wpc \in [Writers -> {"idle", "rdhi", "idx15", "rdlo", "idx14", "wrhi", "idx15w", "wrlo"}]
    /\ wpos \in [Writers -> Nat] /\ wch \in [Writers -> OutChars]
    /\ conslock \in Writers \cup {NoOne}
    /\ wiped \in BOOLEAN

\* Across the wrap of the uint indices, r <= w <= e <= r + INPUT_BUF: the
\* reader never passes the committed input, ^U and backspace never erase
\* committed input, and typing never overwrites unread bytes.
RingOrdered == Dist(w, r) <= Dist(e, r) /\ Dist(e, r) <= INPUT_BUF

\* consoleintr wakes the readers whenever it commits input (a newline, ^D,
\* or a full buffer), so no reader sleeps in consoleread while committed
\* input is waiting.
SleepOnlyWhenEmpty == \A p \in Readers : pc[p] = "sleep" => r = w

\* "Save ^D for next time, to make sure caller gets a 0-byte result": every
\* committed ^D is either still unread or has made exactly one read return
\* 0, also when a read met it after other bytes.
EofReadOnce == owed = EofsIn(r, w)

\* consoleread returns once the process is killed, also when it is asleep
\* waiting for input, so a killed reader eventually exits.
KilledReaderExits == \A p \in Readers : killed[p] ~> pc[p] = "exited"

\* printint writes every int of the build's width as cprintf's callers
\* expect: %d as '-' exactly for a negative value followed by the
\* decimal digits of its magnitude, INT_MIN included, and %x as the
\* hexadecimal digits of the value's bits as a uint (-1 is all f's); no
\* leading zero, and "0" for zero.  The table over all inputs is a
\* constant, which TLC evaluates once; PrintintRenders states it of every
\* reachable state so that TLC reports it as an ordinary invariant.
PrintintTable ==
    LET Plain(s, base) == /\ s # <<>> /\ \A k \in 1..Len(s) : s[k] \in 0..base - 1
                          /\ s[1] = 0 => Len(s) = 1
    IN \A xx \in -(2^(INTW - 1))..(2^(INTW - 1) - 1) :
          LET d   == printint(xx, 10, 1)
              h   == printint(xx, 16, 0)
              mag == IF d[1] = MINUS THEN Tail(d) ELSE d
          IN /\ (d[1] = MINUS) <=> xx < 0
             /\ Plain(mag, 10) /\ DigitValue(mag, 10) = IF xx < 0 THEN -xx ELSE xx
             /\ Plain(h, 16) /\ DigitValue(h, 16) = ToUint(xx)

\* In every state the console can reach, printint's rendering of any int
\* is the sign and the digits described above.
PrintintRenders == wiped \in BOOLEAN /\ PrintintTable

\* What cprintf's comment promises ("only understands %d, %x, %p, %s"),
\* stated by position rather than by the loop: a '%' opens a directive
\* when an even number of '%' come right before it; a directive prints
\* its conversion of the k-th argument when it is the k-th conversion,
\* '%' for "%%", both characters when unknown, and nothing when the
\* '%' ends the format; the character after an opening '%' is part of
\* the directive; any other character is printed as it is.
PctRun(fmt, i) ==
    CHOOSE k \in 0..i - 1 : /\ \A j \in i - k..i - 1 : fmt[j] = "%"
                           /\ (k = i - 1 \/ fmt[i - k - 1] # "%")
Opens(fmt, i) == fmt[i] = "%" /\ PctRun(fmt, i) % 2 = 0
Convs(fmt) ==
    {i \in 1..Len(fmt) - 1 : Opens(fmt, i) /\ fmt[i + 1] \in {"d", "x", "p", "s"}}
ArgNo(fmt, i) == Cardinality({j \in Convs(fmt) : j <= i})
Piece(fmt, args, i) ==
    CASE Opens(fmt, i) /\ i = Len(fmt) -> <<>>
      [] i \in Convs(fmt)              -> Conv(fmt[i + 1], args[ArgNo(fmt, i)])
      [] Opens(fmt, i)                 -> IF fmt[i + 1] = "%" THEN <<"%">>
                                          ELSE <<"%", fmt[i + 1]>>
      [] i > 1 /\ Opens(fmt, i - 1)    -> <<>>
      [] OTHER                         -> <<fmt[i]>>
Rendered(fmt, args) == FlattenSeq([i \in 1..Len(fmt) |-> Piece(fmt, args, i)])

\* The argument lists that match a format: one argument per conversion,
\* a string for %s and an int for the others.
ArgsFor(fmt) ==
    LET nc  == Cardinality(Convs(fmt))
        IsS(k) == \E i \in Convs(fmt) : ArgNo(fmt, i) = k /\ fmt[i + 1] = "s"
    IN {[k \in 1..nc |-> IF IsS(k) THEN sa[k] ELSE ia[k]] :
          sa \in [1..nc -> StrArgs \cup {NULLPTR}], ia \in [1..nc -> IntArgs]}

\* cprintf's loop prints exactly that for every format of up to FMTLEN
\* characters and every matching argument list: it takes the arguments
\* in order, one per conversion and none for "%%" or an unknown
\* sequence, pairs '%' after a run of '%' correctly, and stops at a
\* trailing '%' without reading past the format.
CprintfTable ==
    \A fmt \in UNION {[1..m -> FmtChars] : m \in 0..FMTLEN} :
       \A args \in ArgsFor(fmt) : cprintf(fmt, args) = Rendered(fmt, args)

\* In every state the console can reach, cprintf renders every format as
\* described above.
CprintfRenders == wiped \in BOOLEAN /\ CprintfTable

\* cgaputc keeps the cursor on the screen and its scroll inside the text
\* buffer: whenever no writer is half way through the cursor registers,
\* the 6845 cursor is one of the COLS * ROWS cells, and no scroll ever
\* gave memset a negative count (which, as a size_t, clears memory far
\* past crt[]).  This needs the keyboard echo and consolewrite never to
\* run cgaputc at the same time.
CursorOnScreen ==
    /\ ~wiped
    /\ (\A q \in Writers : wpc[q] \notin {"idx15w", "wrlo"}) => Cursor < CELLS
====
