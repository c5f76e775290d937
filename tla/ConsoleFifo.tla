----------------------------- MODULE ConsoleFifo -----------------------------
(***************************************************************************)
(* What the console's line discipline promises (fmt/console.c, spec of    *)
(* the console device): typed keys collect in an edit line, which only    *)
(* the typist can change (erase one key, or the whole line); a newline,   *)
(* a ^D or a full buffer commits the line to the end of the committed     *)
(* input; readers take the committed input from its front, in order,      *)
(* never more than was committed.  At most INPUT_BUF keys are held.       *)
(*                                                                         *)
(*   q    - committed input not yet read, oldest first                    *)
(*   line - the line being edited, oldest first                           *)
(***************************************************************************)
EXTENDS Naturals, Sequences

CONSTANTS
    INPUT_BUF,  \* keys the console holds
    Letters,    \* ordinary keys
    NL, EOF     \* the keys that end a line

VARIABLES q, line

vars == <<q, line>>

Held == Len(q) + Len(line)

Init == q = <<>> /\ line = <<>>

\* A key joins the line; a newline, a ^D, or the last free place commits
\* the line with it.
Put(c) ==
    /\ Held < INPUT_BUF
    /\ LET l2 == Append(line, c) IN
       IF c \in {NL, EOF} \/ Held + 1 = INPUT_BUF
       THEN q' = q \o l2 /\ line' = <<>>
       ELSE line' = l2 /\ UNCHANGED q

\* Backspace drops the last key of the line; ^U drops the whole line.
EraseKey  == line # <<>> /\ line' = SubSeq(line, 1, Len(line) - 1) /\ UNCHANGED q
EraseLine == line # <<>> /\ line' = <<>> /\ UNCHANGED q

\* A read takes a non-empty prefix of the committed input.
Take == \E j \in 1..Len(q) : q' = SubSeq(q, j + 1, Len(q)) /\ UNCHANGED line

Next ==
    \/ \E c \in Letters \cup {NL, EOF} : Put(c)
    \/ EraseKey \/ EraseLine \/ Take

Spec == Init /\ [][Next]_vars
=============================================================================
