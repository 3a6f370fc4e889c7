------------------------------- MODULE Console ------------------------------
(***************************************************************************)
(* Console input (kernel/console.c): consoleintr() edits a line in a       *)
(* circular buffer with the indices r <= w <= e, consoleread() takes whole *)
(* lines from it.  A reader runs with cons.lock until it sleeps.  Beside   *)
(* the buffer runs what the lines promise: the bytes of the lines that     *)
(* have arrived and were not read, and the line that is being edited.      *)
(* Echo is part of module Uart.                                            *)
(***************************************************************************)
EXTENDS Integers, Sequences, FiniteSetsExt

CONSTANTS
  LineReaders,      \* processes in consoleread()
  INPUT_BUF_SIZE,
  INDEX,            \* the indices are modulo this (2^32), a multiple of INPUT_BUF_SIZE
  ReadSizes         \* n of a read()

Chars == {"x", "NL", "D", "U", "H"}    \* a letter, newline, ^D, ^U, ^H
ASSUME ConsoleAssumption ==
  /\ INPUT_BUF_SIZE \in Nat \ {0} /\ INDEX \in Nat /\ INDEX > INPUT_BUF_SIZE
  /\ INDEX % INPUT_BUF_SIZE = 0 /\ ReadSizes \subseteq Nat \ {0}

VARIABLES
  cons,      \* buf, r, w, e
  conslock,  \* the process that has cons.lock, or NoReader
  reading,   \* of each process: pc, n, and whether it got a byte (n < target)
  arrived,   \* lines that arrived and were not read (ghost variables)
  editing

consoleVars == <<cons, conslock, reading, arrived, editing>>
NoReader == "none"
Wrap(k) == k % INDEX
Char(k) == cons.buf[k % INPUT_BUF_SIZE]

EndRead == [pc |-> "idle", n |-> 0, some |-> FALSE]

\* What ^U takes back: from the end of the line being edited to a newline.
Erasable == {k \in 0 .. Wrap(cons.e - cons.w) : \A j \in 1 .. k : Char(Wrap(cons.e - j)) # "NL"}

\* Variant: a buffer that becomes full is not handed over.
EndsLineOnly(c, e) == c \in {"NL", "D"}

\* A line arrives at its end or when the buffer becomes full.
EndsLine(c, e) == c \in {"NL", "D"} \/ Wrap(e - cons.r) = INPUT_BUF_SIZE

\* consoleintr(): ^U and ^H, ...
Erase(c) ==
  LET k == IF c = "U" THEN Max(Erasable) ELSE IF cons.e = cons.w THEN 0 ELSE 1
  IN /\ c \in {"U", "H"}
     /\ cons' = [cons EXCEPT !.e = Wrap(@ - k)]
     /\ editing' = IF c = "U" THEN <<>> ELSE SubSeq(editing, 1, Len(editing) - 1)
     /\ UNCHANGED <<reading, arrived>>

\* ... and any other character, if there is room; a line wakes the readers.
Store(c) ==
  LET e == Wrap(cons.e + 1)
  IN /\ c \notin {"U", "H"} /\ Wrap(cons.e - cons.r) < INPUT_BUF_SIZE
     /\ cons' = [cons EXCEPT !.buf[cons.e % INPUT_BUF_SIZE] = c, !.e = e,
                             !.w = IF EndsLine(c, e) THEN e ELSE @]
     /\ IF EndsLine(c, e)
        THEN /\ arrived' = arrived \o editing \o <<c>> /\ editing' = <<>>
             /\ reading' = [p \in LineReaders |->
                  IF reading[p].pc = "sleep" THEN [reading[p] EXCEPT !.pc = "start"] ELSE reading[p]]
        ELSE editing' = Append(editing, c) /\ UNCHANGED <<arrived, reading>>

consoleintr(c) ==
  /\ conslock = NoReader
  /\ Erase(c) \/ Store(c)
  /\ UNCHANGED conslock

\* acquire(&cons.lock), at the start of consoleread() and after sleep().
ReadLock(p) ==
  /\ conslock = NoReader /\ reading[p].pc \in {"idle", "start"}
  /\ conslock' = p
  /\ \E n \in ReadSizes :
       reading' = [reading EXCEPT ![p] = IF reading[p].pc = "start" THEN [@ EXCEPT !.pc = "loop"]
                                         ELSE [pc |-> "loop", n |-> n, some |-> FALSE]]
  /\ UNCHANGED <<cons, arrived, editing>>

\* consoleread(): it sleeps, or returns if it was killed, while no line is there, ...
ReadWait(p) ==
  /\ conslock = p /\ cons.r = cons.w
  /\ reading' = [reading EXCEPT ![p].pc = "sleep"]
  /\ conslock' = NoReader
  /\ UNCHANGED <<cons, arrived, editing>>

ReadKilled(p) ==
  /\ reading[p].pc = "sleep" /\ conslock = NoReader /\ cons.r = cons.w
  /\ reading' = [reading EXCEPT ![p] = EndRead]
  /\ UNCHANGED <<cons, conslock, arrived, editing>>

\* ... and takes a character otherwise: ^D ends the read and stays for the next one if
\* this one has bytes to return; copied is FALSE if copyout() fails.
ReadChar(p, copied) ==
  LET c    == Char(cons.r)
      stay == c = "D" /\ reading[p].some
      end  == c \in {"D", "NL"} \/ ~ copied \/ reading[p].n = 1
  IN /\ conslock = p /\ cons.r # cons.w
     /\ cons' = IF stay THEN cons ELSE [cons EXCEPT !.r = Wrap(@ + 1)]
     /\ arrived' = IF stay THEN arrived ELSE Tail(arrived)
     /\ reading' = [reading EXCEPT ![p] =
          IF end THEN EndRead ELSE [reading[p] EXCEPT !.n = @ - 1, !.some = TRUE]]
     /\ conslock' = IF end THEN NoReader ELSE p
     /\ UNCHANGED editing

\* consoleinit(), or an empty buffer later, when its indices are about to wrap.
ConsoleInit ==
  /\ \E k \in {0, INDEX - 1} :
       cons = [buf |-> [i \in 0 .. INPUT_BUF_SIZE - 1 |-> "x"], r |-> k, w |-> k, e |-> k]
  /\ conslock = NoReader /\ reading = [p \in LineReaders |-> EndRead]
  /\ arrived = <<>> /\ editing = <<>>

ConsoleNext ==
  \/ \E c \in Chars : consoleintr(c)
  \/ \E p \in LineReaders :
       ReadLock(p) \/ ReadWait(p) \/ ReadKilled(p) \/ \E copied \in BOOLEAN : ReadChar(p, copied)
ConsoleSpec == ConsoleInit /\ [][ConsoleNext]_consoleVars

Span(i, j) == [k \in 1 .. Wrap(j - i) |-> Char(Wrap(i + k - 1))]

\* The buffer holds the lines that arrived and then the line being edited, whatever is
\* erased, refused or put back and wherever the indices wrap; a full buffer is always
\* handed over, so that typing can go on; and no reader sleeps while there is a line.
LinesIntact ==
  /\ Span(cons.r, cons.w) = arrived /\ Span(cons.w, cons.e) = editing
  /\ Wrap(cons.e - cons.r) = INPUT_BUF_SIZE => editing = <<>>
  /\ \A p \in LineReaders : reading[p].pc = "sleep" => arrived = <<>>
=============================================================================
