-------------------------------- MODULE Grep --------------------------------
(***************************************************************************)
(* grep of user/grep.c: the matcher of regular expressions with ^ . * $,   *)
(* and the loop that cuts lines out of a buffer, however read() divides    *)
(* the input.  A byte is "NL", "NUL" or another character.                 *)
(***************************************************************************)
EXTENDS Naturals, Sequences, FiniteSetsExt, SequencesExt

CONSTANTS
  TextChars,   \* characters of the input other than newline
  ReChars,     \* characters of a pattern
  REMAX,       \* bound on the length of a pattern
  INMAX,       \* bound on the length of the input
  GREPBUF      \* sizeof(buf)

ASSUME GrepAssumption ==
  {"NL", "NUL"} \cap TextChars = {} /\ {REMAX, INMAX, GREPBUF} \subseteq Nat /\ GREPBUF > 1

VARIABLES
  re, input,   \* the pattern, and what read() has not returned yet
  gbuf, m,     \* the buffer, and the bytes in it
  printed,     \* the lines written
  gdone,       \* grep() has returned
  whole        \* all of the input (a ghost variable)

grepVars == <<re, input, gbuf, m, printed, gdone, whole>>
SeqsUpTo(S, n) == UNION {[1 .. k -> S] : k \in 0 .. n}

-----------------------------------------------------------------------------
(* The matcher: r is the rest of the pattern, t the rest of the text. *)

RECURSIVE matchhere(_, _), matchstar(_, _, _), match(_, _)

matchhere(r, t) ==
  CASE r = <<>> -> TRUE
    [] Len(r) > 1 /\ r[2] = "*" -> matchstar(r[1], Tail(Tail(r)), t)
    [] r = <<"$">> -> t = <<>>
    [] OTHER -> t # <<>> /\ r[1] \in {".", t[1]} /\ matchhere(Tail(r), Tail(t))

\* Variant: the rest of the pattern is tried only where the repetition ends.
matchstarEager(c, r, t) ==
  IF t # <<>> /\ c \in {".", t[1]} THEN matchstar(c, r, Tail(t)) ELSE matchhere(r, t)

matchstar(c, r, t) ==
  matchhere(r, t) \/ (t # <<>> /\ c \in {".", t[1]} /\ matchstar(c, r, Tail(t)))

match(r, t) ==
  IF r # <<>> /\ r[1] = "^" THEN matchhere(Tail(r), t)
  ELSE matchhere(r, t) \/ (t # <<>> /\ match(r, Tail(t)))

-----------------------------------------------------------------------------
(* The buffer, as an array from 0. *)

\* strchr(b + p, NL): where the newline is, or GREPBUF.
strchr(b, p) ==
  LET ends == {i \in p .. GREPBUF - 1 : b[i] \in {"NL", "NUL"}}
  IN IF b[Min(ends)] = "NL" THEN Min(ends) ELSE GREPBUF

\* memmove(b + dst, b + src, n), byte by byte.
memmove(b, dst, src, n) ==
  LET order == IF src > dst THEN [k \in 1 .. n |-> k - 1] ELSE [k \in 1 .. n |-> n - k]
  IN FoldLeft(LAMBDA a, k : [a EXCEPT ![dst + k] = a[src + k]], b, order)

Bytes(b, p, q) == [k \in 1 .. q - p |-> b[p + k - 1]]

\* The inner loop, from p on: where it ends, and the lines it prints.
RECURSIVE PrintLines(_, _, _)
PrintLines(b, p, out) ==
  LET q == strchr(b, p)
      l == Bytes(b, p, q)
  IN IF q = GREPBUF THEN [p |-> p, out |-> out]
     ELSE PrintLines(b, q + 1, IF match(re, l) THEN Append(out, l) ELSE out)

\* One round of grep(): read() returns n bytes.
grep(n) ==
  LET got == [i \in 0 .. GREPBUF - 1 |->
                CASE i < m -> gbuf[i] [] i \in m .. m + n - 1 -> input[i - m + 1]
                  [] i = m + n -> "NUL" [] OTHER -> gbuf[i]]
      r   == PrintLines(got, 0, printed)
      end == m + n - r.p
  IN /\ ~ gdone /\ n > 0 /\ n <= Len(input) /\ n <= GREPBUF - m - 1
     /\ input' = SubSeq(input, n + 1, Len(input))
     /\ printed' = r.out
     /\ m' = end
     /\ gbuf' = memmove(got, 0, r.p, end)
     /\ UNCHANGED <<re, gdone, whole>>

\* read() returns 0: at the end of the input, or when there is no room.
GrepEnds ==
  /\ ~ gdone /\ (input = <<>> \/ m = GREPBUF - 1)
  /\ gdone' = TRUE
  /\ UNCHANGED <<re, input, gbuf, m, printed, whole>>

GrepInit ==
  /\ re \in SeqsUpTo(ReChars, REMAX) /\ whole \in SeqsUpTo(TextChars \cup {"NL"}, INMAX)
  /\ input = whole
  /\ gbuf = [i \in 0 .. GREPBUF - 1 |-> "NUL"] /\ m = 0
  /\ printed = <<>> /\ gdone = FALSE

GrepNext == (\E n \in 1 .. INMAX : grep(n)) \/ GrepEnds
GrepSpec == GrepInit /\ [][GrepNext]_grepVars

-----------------------------------------------------------------------------
(* Reference: the pattern as a list of items, and the sets of items at which a match can *)
(* stand after each character.                                                           *)

RECURSIVE Items(_)
Items(r) ==
  CASE r = <<>> -> <<>>
    [] Len(r) > 1 /\ r[2] = "*" -> <<[c |-> r[1], star |-> TRUE]>> \o Items(Tail(Tail(r)))
    [] r = <<"$">> -> <<>>
    [] OTHER -> <<[c |-> r[1], star |-> FALSE]>> \o Items(Tail(r))

AtStart(r) == r # <<>> /\ r[1] = "^"
AtEnd(r) == r # <<>> /\ Last(r) = "$"
Skips(s, K) == {j \in 1 .. Len(s) + 1 : \E k \in K : k <= j /\ \A i \in k .. j - 1 : s[i].star}
After(s, K, c) ==
  Skips(s, {k \in K : k <= Len(s) /\ s[k].star /\ s[k].c \in {".", c}}
           \cup {k + 1 : k \in {j \in K : j <= Len(s) /\ ~ s[j].star /\ s[j].c \in {".", c}}})
Spans(s, l) == Len(s) + 1 \in FoldLeft(LAMBDA K, c : After(s, K, c), Skips(s, {1}), l)

Matches(r, l) ==
  LET s == Items(IF AtStart(r) THEN Tail(r) ELSE r)
  IN \E i \in (IF AtStart(r) THEN {1} ELSE 1 .. Len(l) + 1) :
       \E j \in (IF AtEnd(IF AtStart(r) THEN Tail(r) ELSE r) THEN {Len(l)} ELSE i - 1 .. Len(l)) :
         Spans(s, SubSeq(l, i, j))

\* The lines of t that end in a newline, up to the first one that the buffer cannot hold.
RECURSIVE LinesOf(_)
LinesOf(t) ==
  LET ends == {i \in 1 .. Len(t) : t[i] = "NL"}
  IN IF ends = {} \/ Min(ends) > GREPBUF - 1 THEN <<>>
     ELSE <<SubSeq(t, 1, Min(ends) - 1)>> \o LinesOf(SubSeq(t, Min(ends) + 1, Len(t)))

\* grep prints the lines of the input that the pattern matches, in order, whatever pieces
\* read() returns: a line that is split between reads is put together from what
\* memmove() kept of it, and backtracking finds a match whenever there is one.
GrepAgrees ==
  gdone => printed = SelectSeq(LinesOf(whole), LAMBDA l : Matches(re, l))
=============================================================================
