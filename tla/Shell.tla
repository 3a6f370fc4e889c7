-------------------------------- MODULE Shell -------------------------------
(***************************************************************************)
(* The command parser of user/sh.c: recursive descent over the tokens of a *)
(* line.  A line is a sequence of tokens; "a" is a word and "+" is >>.     *)
(* Words are told apart by their place in the line, so that a command tree *)
(* holds the places of its arguments and files.  A parser function returns *)
(* the command and the place of the next token, 0 when it called panic().  *)
(***************************************************************************)
EXTENDS Integers, Sequences, FiniteSets, FiniteSetsExt, SequencesExt

CONSTANTS
  Tokens,      \* tokens that lines are made of
  MAXTOKENS,   \* longest line
  MAXARGS      \* argv has room for one less

ASSUME ShellAssumption ==
  /\ Tokens \subseteq {"a", "|", "&", ";", "<", ">", "+", "(", ")"}
  /\ MAXTOKENS \in Nat /\ MAXARGS \in Nat \ {0}

VARIABLE line

-----------------------------------------------------------------------------
(* The constructors. *)

execcmd(argv) == [type |-> "EXEC", argv |-> argv]
redircmd(sub, file, tok) == [type |-> "REDIR", cmd |-> sub, file |-> file,
                             mode |-> CASE tok = "<" -> {"RDONLY"}
                                        [] tok = ">" -> {"WRONLY", "CREATE", "TRUNC"}
                                        [] OTHER -> {"WRONLY", "CREATE"}]
pipecmd(left, right) == [type |-> "PIPE", left |-> left, right |-> right]
listcmd(left, right) == [type |-> "LIST", left |-> left, right |-> right]
backcmd(sub) == [type |-> "BACK", cmd |-> sub]
Redirected(cmd, redirs) == FoldLeft(LAMBDA c, r : redircmd(c, r.file, r.tok), cmd, redirs)

-----------------------------------------------------------------------------
(* The parser. *)

Parsed(cmd, i) == [cmd |-> cmd, i |-> i]
Panic == Parsed(<<>>, 0)
gettoken(l, i) == IF i <= Len(l) THEN l[i] ELSE "end"
peek(l, i, toks) == gettoken(l, i) \in toks

\* parseredirs(): the redirections from place i on, in order, after those in rs.
RECURSIVE parseredirs(_, _, _)
parseredirs(l, rs, i) ==
  IF ~ peek(l, i, {"<", ">", "+"}) THEN [rs |-> rs, i |-> i]
  ELSE IF gettoken(l, i + 1) # "a" THEN [rs |-> rs, i |-> 0]
  ELSE parseredirs(l, Append(rs, [file |-> i + 1, tok |-> l[i]]), i + 2)

\* The loop of parseexec(): arguments, with redirections among them.
RECURSIVE ParseArgs(_, _, _)
ParseArgs(l, argv, r) ==
  IF r.i = 0 THEN Panic
  ELSE IF peek(l, r.i, {"|", ")", "&", ";", "end"})
  THEN Parsed(Redirected(execcmd(argv), r.rs), r.i)
  ELSE IF gettoken(l, r.i) # "a" \/ Len(argv) + 1 >= MAXARGS THEN Panic
  ELSE ParseArgs(l, Append(argv, r.i), parseredirs(l, r.rs, r.i + 1))

RECURSIVE parseline(_, _)
RECURSIVE parsepipe(_, _)

\* Variant: the redirections after a block are left for the caller.
parseblockBare(l, i) ==
  LET c == parseline(l, i + 1)
  IN IF c.i = 0 \/ ~ peek(l, c.i, {")"}) THEN Panic ELSE Parsed(c.cmd, c.i + 1)

parseblock(l, i) ==
  LET c == parseline(l, i + 1)
      r == parseredirs(l, <<>>, c.i + 1)
  IN IF c.i = 0 \/ ~ peek(l, c.i, {")"}) THEN Panic
     ELSE IF r.i = 0 THEN Panic
     ELSE Parsed(Redirected(c.cmd, r.rs), r.i)

parseexec(l, i) ==
  IF peek(l, i, {"("}) THEN parseblock(l, i) ELSE ParseArgs(l, <<>>, parseredirs(l, <<>>, i))

parsepipe(l, i) ==
  LET left  == parseexec(l, i)
      right == parsepipe(l, left.i + 1)
  IN IF left.i = 0 \/ ~ peek(l, left.i, {"|"}) THEN left
     ELSE IF right.i = 0 THEN Panic
     ELSE Parsed(pipecmd(left.cmd, right.cmd), right.i)

\* The loop of parseline() over "&".
RECURSIVE ParseBack(_, _)
ParseBack(l, c) ==
  IF c.i # 0 /\ peek(l, c.i, {"&"}) THEN ParseBack(l, Parsed(backcmd(c.cmd), c.i + 1)) ELSE c

parseline(l, i) ==
  LET left  == ParseBack(l, parsepipe(l, i))
      right == parseline(l, left.i + 1)
  IN IF left.i = 0 \/ ~ peek(l, left.i, {";"}) THEN left
     ELSE IF right.i = 0 THEN Panic
     ELSE Parsed(listcmd(left.cmd, right.cmd), right.i)

\* parsecmd(): tokens that are left over are a syntax error.
parsecmd(l) ==
  LET c == parseline(l, 1) IN IF c.i = Len(l) + 1 THEN c.cmd ELSE Panic.cmd

-----------------------------------------------------------------------------
\* main(): a line is typed, then run by a child.
Type(t) == Len(line) < MAXTOKENS /\ line' = Append(line, t)
Enter == line # <<>> /\ line' = <<>>

ShellInit == line = <<>>
ShellNext == (\E t \in Tokens : Type(t)) \/ Enter
ShellSpec == ShellInit /\ [][ShellNext]_line

-----------------------------------------------------------------------------
(* What a line means, by its outermost operators: ";" binds least, then a  *)
(* trailing "&", then "|"; what is left is a block or a command.  The      *)
(* operators take the places first .. last of the line l.                  *)

Wrong == <<>>
Both(make(_, _), x, y) == IF x = Wrong \/ y = Wrong THEN Wrong ELSE make(x, y)
Depth(l, first, k) ==
  Cardinality({j \in first .. k : l[j] = "("}) - Cardinality({j \in first .. k : l[j] = ")"})
Outer(l, first, last, t) == {k \in first .. last : l[k] = t /\ Depth(l, first, k) = 0}
IsRedir(l, k) == l[k] \in {"<", ">", "+"}

\* The redirections and the words of first .. last, if there is nothing else.
RedirFiles(l, first, last) == {k \in first .. last : k > first /\ IsRedir(l, k - 1)}
Simple(l, first, last) ==
  /\ \A k \in first .. last : l[k] = "a" \/ IsRedir(l, k)
  /\ \A k \in first .. last : IsRedir(l, k) => k < last /\ l[k + 1] = "a"
InOrder(S) == SetToSortSeq(S, <)
Redirs(l, first, last) ==
  LET fs == InOrder(RedirFiles(l, first, last)) IN [n \in 1 .. Len(fs) |-> [file |-> fs[n], tok |-> l[fs[n] - 1]]]
Words(l, first, last) == {k \in first .. last : l[k] = "a"} \ RedirFiles(l, first, last)

RECURSIVE Meaning(_, _, _)
MeaningCommand(l, first, last) ==
  IF first <= last /\ l[first] = "(" THEN
    LET closes == Outer(l, first, last, ")")
        close  == Min(closes)
        inner  == Meaning(l, first + 1, close - 1)
    IN IF closes = {} THEN Wrong
       ELSE IF inner = Wrong \/ ~ Simple(l, close + 1, last) \/ Words(l, close + 1, last) # {} THEN Wrong
       ELSE Redirected(inner, Redirs(l, close + 1, last))
  ELSE IF ~ Simple(l, first, last) \/ Cardinality(Words(l, first, last)) >= MAXARGS THEN Wrong
  ELSE Redirected(execcmd(InOrder(Words(l, first, last))), Redirs(l, first, last))

RECURSIVE MeaningPipe(_, _, _)
MeaningPipe(l, first, last) ==
  LET pipes == Outer(l, first, last, "|")
  IN IF pipes = {} THEN MeaningCommand(l, first, last)
     ELSE Both(pipecmd, MeaningCommand(l, first, Min(pipes) - 1), MeaningPipe(l, Min(pipes) + 1, last))

RECURSIVE MeaningBack(_, _, _)
MeaningBack(l, first, last) ==
  LET sub == MeaningBack(l, first, last - 1)
  IN IF first <= last /\ l[last] = "&" THEN IF sub = Wrong THEN Wrong ELSE backcmd(sub)
     ELSE MeaningPipe(l, first, last)

Meaning(l, first, last) ==
  LET semis == Outer(l, first, last, ";")
  IN IF semis = {} THEN MeaningBack(l, first, last)
     ELSE Both(listcmd, MeaningBack(l, first, Min(semis) - 1), Meaning(l, Min(semis) + 1, last))

\* The parser accepts exactly the lines that are made of commands in this way, and
\* builds the tree of their meaning: precedence of ; & |, blocks, the place and order of
\* redirections, empty commands and the limit on arguments, on every line of the bound.
ParseAgrees == parsecmd(line) = Meaning(line, 1, Len(line))
=============================================================================
