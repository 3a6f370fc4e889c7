------------------------------- MODULE Files --------------------------------
(***************************************************************************)
(* Open files: the table of kernel/file.c, the descriptors of the          *)
(* processes and the calls of kernel/sysfile.c that make, share and close  *)
(* them, the ends of the pipes of kernel/pipe.c, and the descriptors that  *)
(* fork() and exit() pass on.  The processes make any calls, or they run a *)
(* pipeline the way runcmd() of user/sh.c sets one up.                     *)
(*                                                                         *)
(* A process's descriptors are its own, so that a step ends only where     *)
(* fileclose() gives up ftable.lock and where a read or write has to wait. *)
(***************************************************************************)
EXTENDS Integers, FiniteSets, Sequences, FiniteSetsExt

CONSTANTS
  Openers,      \* processes; one of them is the first and forks the others
  First,
  NOFILE,       \* descriptors of a process
  NFILE,        \* open files in the system
  PipePages,    \* pages that kalloc() has for pipes
  MAXFCALLS,    \* bound on the number of system calls, when they are any
  PIPEBYTES     \* bytes that the left side of a pipeline writes

ASSUME FilesAssumption ==
  /\ IsFiniteSet(Openers) /\ First \in Openers
  /\ \E p, q \in Openers \ {First} : p # q    \* the two sides of a pipeline
  /\ NOFILE \in Nat /\ NOFILE >= 4            \* its descriptors
  /\ NFILE \in Nat \ {0} /\ PipePages \subseteq Nat
  /\ MAXFCALLS \in Nat /\ PIPEBYTES \in Nat

VARIABLES
  ftable,     \* the open files
  ofile,      \* [process -> [descriptor -> file]]; 0: none
  pipes,      \* [page -> pipe]
  iref,       \* references that open files hold on the inode they are opened on
  closing,    \* files that a process is about to close, in this order
  ff,         \* the copy with which fileclose() goes on without the lock
  life,       \* of a process: "unused", "runs", "exits", "zombie"
  script,     \* what is left of a process's program, when it runs one
  fcalls

fileVars == <<ftable, ofile, pipes, iref, closing, ff, life, script, fcalls>>

FileSlots == 1 .. NFILE
Fds == 0 .. NOFILE - 1
NoFile == [ref |-> 0, type |-> "NONE", obj |-> 0, writable |-> FALSE]
NoPipe == [readopen |-> FALSE, writeopen |-> FALSE, bytes |-> 0]
Lowest(S) == IF S = {} THEN -1 ELSE Min(S)

-----------------------------------------------------------------------------
(* The functions of file.c and sysfile.c. *)

filealloc(T) == LET f == Lowest({i \in FileSlots : T[i].ref = 0}) IN IF f = -1 THEN 0 ELSE f
Referenced(T, f) == IF f = 0 THEN T ELSE [T EXCEPT ![f].ref = 1]
filedup(T, f) == [T EXCEPT ![f].ref = @ + 1]
fdalloc(of) == Lowest({fd \in Fds : of[fd] = 0})
\* A process that runs makes a call when it has closed what it had to close.
Ready(p) == life[p] = "runs" /\ closing[p] = <<>> /\ ff[p] = NoFile

\* sys_open() and fileclose() of a file that gets no descriptor; it has no inode yet.
sys_open(p) ==
  LET f  == filealloc(ftable)
      fd == fdalloc(ofile[p])
  IN /\ f # 0 /\ ftable' = IF fd = -1 THEN Referenced(ftable, f)
                           ELSE [ftable EXCEPT ![f] = [@ EXCEPT !.ref = 1, !.type = "INODE", !.obj = 1]]
     /\ IF fd = -1
        THEN closing' = [closing EXCEPT ![p] = <<f>>] /\ UNCHANGED <<ofile, iref>>
        ELSE ofile' = [ofile EXCEPT ![p][fd] = f] /\ iref' = iref + 1 /\ UNCHANGED closing
     /\ UNCHANGED <<pipes, ff, life>>

sys_dup(p, fd) ==
  LET new == fdalloc(ofile[p])
  IN /\ ofile[p][fd] # 0 /\ new # -1
     /\ ofile' = [ofile EXCEPT ![p][new] = ofile[p][fd]]
     /\ ftable' = filedup(ftable, ofile[p][fd])
     /\ UNCHANGED <<pipes, iref, closing, ff, life>>

sys_close(p, fd) ==
  /\ ofile[p][fd] # 0
  /\ ofile' = [ofile EXCEPT ![p][fd] = 0]
  /\ closing' = [closing EXCEPT ![p] = <<ofile[p][fd]>>]
  /\ UNCHANGED <<ftable, pipes, iref, ff, life>>

\* pipealloc() and sys_pipe(); copied: copyout() of the descriptors succeeds.
sys_pipe(p, copied) ==
  LET f0 == filealloc(ftable)
      T1 == Referenced(ftable, f0)
      f1 == IF f0 = 0 THEN 0 ELSE filealloc(T1)
      T2 == Referenced(T1, f1)
      free == {pi \in PipePages : ~ pipes[pi].readopen /\ ~ pipes[pi].writeopen}
      pi == Min(free)
      end(w) == [ref |-> 1, type |-> "PIPE", obj |-> pi, writable |-> w]
      fd0 == fdalloc(ofile[p])
      of1 == [ofile[p] EXCEPT ![fd0] = f0]
      fd1 == IF fd0 = -1 THEN -1 ELSE fdalloc(of1)
  IN /\ \/ /\ f1 = 0 \/ free = {}
           /\ ftable' = T2
           /\ closing' = [closing EXCEPT ![p] =
                IF f0 = 0 THEN <<>> ELSE IF f1 = 0 THEN <<f0>> ELSE <<f0, f1>>]
           /\ UNCHANGED <<ofile, pipes>>
        \/ /\ f1 # 0 /\ free # {}
           /\ pipes' = [pipes EXCEPT ![pi] = [readopen |-> TRUE, writeopen |-> TRUE, bytes |-> 0]]
           /\ ftable' = [ftable EXCEPT ![f0] = end(FALSE), ![f1] = end(TRUE)]
           /\ IF fd1 # -1 /\ copied
              THEN /\ ofile' = [ofile EXCEPT ![p] = [of1 EXCEPT ![fd1] = f1]]
                   /\ UNCHANGED closing
              ELSE closing' = [closing EXCEPT ![p] = <<f0, f1>>] /\ UNCHANGED ofile
     /\ UNCHANGED <<iref, ff, life>>

\* The part of kfork() that shares the descriptors.
ForkFiles(p, q) ==
  /\ life[q] = "unused"
  /\ life' = [life EXCEPT ![q] = "runs"]
  /\ ofile' = [ofile EXCEPT ![q] = ofile[p]]
  /\ ftable' = [f \in FileSlots |->
       [ftable[f] EXCEPT !.ref = @ + Cardinality({fd \in Fds : ofile[p][fd] = f})]]
  /\ UNCHANGED <<pipes, iref, closing, ff>>

\* Variant: the type of a closed file is kept.
filecloseKeepsType(p, f) ==
  /\ ff[p] = NoFile
  /\ ftable' = [ftable EXCEPT ![f].ref = @ - 1]
  /\ ff' = IF ftable[f].ref = 1 /\ ftable[f].type # "NONE" THEN [ff EXCEPT ![p] = ftable[f]] ELSE ff

\* fileclose() under ftable.lock; the last reference leaves the rest to FileRelease.
fileclose(p, f) ==
  /\ ff[p] = NoFile
  /\ IF ftable[f].ref > 1 THEN ftable' = [ftable EXCEPT ![f].ref = @ - 1] /\ UNCHANGED ff
     ELSE /\ ff' = IF ftable[f].type = "NONE" THEN ff ELSE [ff EXCEPT ![p] = ftable[f]]
          /\ ftable' = [ftable EXCEPT ![f] = NoFile]

\* The calls of fileclose() at the end of a system call.
CloseNext(p) ==
  /\ closing[p] # <<>> /\ fileclose(p, Head(closing[p]))
  /\ closing' = [closing EXCEPT ![p] = Tail(@)]
  /\ UNCHANGED <<ofile, pipes, iref, life>>

\* The loop of kexit(): its next descriptor.
ExitClose(p) ==
  LET fd == Lowest({d \in Fds : ofile[p][d] # 0})
  IN /\ life[p] = "exits" /\ fd # -1 /\ fileclose(p, ofile[p][fd])
     /\ ofile' = [ofile EXCEPT ![p][fd] = 0]
     /\ UNCHANGED <<pipes, iref, closing, life>>

\* The rest of fileclose(): pipeclose(), or iput() inside an operation.
FileRelease(p) ==
  /\ ff[p] # NoFile
  /\ IF ff[p].type = "PIPE"
     THEN /\ pipes' = IF ff[p].writable THEN [pipes EXCEPT ![ff[p].obj].writeopen = FALSE]
                                        ELSE [pipes EXCEPT ![ff[p].obj].readopen = FALSE]
          /\ UNCHANGED iref
     ELSE iref' = iref - 1 /\ UNCHANGED pipes
  /\ ff' = [ff EXCEPT ![p] = NoFile]
  /\ UNCHANGED <<ftable, ofile, closing, life>>

\* kexit() begins and, when all is closed, ends.
ExitFiles(p) ==
  /\ life' = [life EXCEPT ![p] = "exits"]
  /\ UNCHANGED <<ftable, ofile, pipes, iref, closing, ff>>

ExitEnd(p) ==
  /\ life[p] = "exits" /\ ff[p] = NoFile /\ \A fd \in Fds : ofile[p][fd] = 0
  /\ life' = [life EXCEPT ![p] = "zombie"]
  /\ UNCHANGED <<ftable, ofile, pipes, iref, closing, ff>>

-----------------------------------------------------------------------------
(* A pipeline.  The shell has the console as descriptors 0 and 1, so that  *)
(* pipe() returns 2 and 3.  fork1() and exec() do not fail.                *)

Left == CHOOSE p \in Openers \ {First} : TRUE
Right == CHOOSE p \in Openers \ {First, Left} : TRUE
Call(op, arg) == [op |-> op, arg |-> arg]

\* The case PIPE of runcmd(): the parent, the left and the right child, and then the
\* programs that the children become: one writes, one reads to the end of the file.
runcmd == [p \in Openers |->
  CASE p = First -> <<Call("pipe", 0), Call("fork", Left), Call("fork", Right),
                      Call("close", 2), Call("close", 3), Call("wait", Left), Call("wait", Right)>>
    [] p = Left  -> <<Call("close", 1), Call("dup", 3), Call("close", 2), Call("close", 3)>>
                      \o [k \in 1 .. PIPEBYTES |-> Call("write", 1)]
    [] OTHER     -> <<Call("close", 0), Call("dup", 2), Call("close", 2), Call("close", 3),
                      Call("read", 0)>>]

\* piperead() and pipewrite() of one byte, through the descriptor; the read is repeated
\* until it returns 0 at the end of the file.
ReadByte(p, fd) ==
  LET pi == ftable[ofile[p][fd]].obj
  IN /\ pipes[pi].bytes > 0 \/ ~ pipes[pi].writeopen
     /\ pipes' = IF pipes[pi].bytes > 0 THEN [pipes EXCEPT ![pi].bytes = @ - 1] ELSE pipes
     /\ script' = IF pipes[pi].bytes > 0 THEN script ELSE [script EXCEPT ![p] = Tail(@)]
     /\ UNCHANGED <<ftable, ofile, iref, closing, ff, life>>

WriteByte(p, fd) ==
  LET pi == ftable[ofile[p][fd]].obj
  IN /\ pipes[pi].bytes = 0 \/ ~ pipes[pi].readopen
     /\ pipes' = IF pipes[pi].readopen THEN [pipes EXCEPT ![pi].bytes = @ + 1] ELSE pipes
     /\ UNCHANGED <<ftable, ofile, iref, closing, ff, life>>

wait(p, q) == life[q] = "zombie" /\ UNCHANGED <<ftable, ofile, pipes, iref, closing, ff, life>>

ScriptStep(p) ==
  /\ Ready(p) /\ script[p] # <<>> /\ UNCHANGED fcalls
  /\ LET c == Head(script[p])
     IN \/ c.op = "read" /\ ReadByte(p, c.arg)
        \/ /\ script' = [script EXCEPT ![p] = Tail(@)]
           /\ \/ c.op = "pipe" /\ sys_pipe(p, TRUE)
              \/ c.op = "fork" /\ ForkFiles(p, c.arg)
              \/ c.op = "close" /\ sys_close(p, c.arg)
              \/ c.op = "dup" /\ sys_dup(p, c.arg)
              \/ c.op = "write" /\ WriteByte(p, c.arg)
              \/ c.op = "wait" /\ wait(p, c.arg)

-----------------------------------------------------------------------------
\* A process with the console open twice; the others are to be forked.
FilesInit ==
  /\ ftable = [f \in FileSlots |->
       IF f = 1 THEN [ref |-> 2, type |-> "INODE", obj |-> 1, writable |-> TRUE] ELSE NoFile]
  /\ ofile = [p \in Openers |->
       [fd \in Fds |-> IF p = First /\ fd \in {0, 1} THEN 1 ELSE 0]]
  /\ pipes = [pi \in PipePages |-> NoPipe]
  /\ iref = 1
  /\ closing = [p \in Openers |-> <<>>]
  /\ ff = [p \in Openers |-> NoFile]
  /\ life = [p \in Openers |-> IF p = First THEN "runs" ELSE "unused"]
  /\ \/ script = runcmd /\ fcalls = MAXFCALLS
     \/ script = [p \in Openers |-> <<>>] /\ fcalls = 0

AnyCall(p) ==
  /\ Ready(p) /\ script[p] = <<>> /\ fcalls < MAXFCALLS
  /\ fcalls' = fcalls + 1 /\ UNCHANGED script
  /\ \/ sys_open(p)
     \/ \E fd \in Fds : sys_dup(p, fd) \/ sys_close(p, fd)
     \/ \E b \in BOOLEAN : sys_pipe(p, b)
     \/ \E q \in Openers : ForkFiles(p, q)

FilesNext == \E p \in Openers :
  \/ AnyCall(p)
  \/ ScriptStep(p)
  \/ Ready(p) /\ script[p] = <<>> /\ ExitFiles(p) /\ UNCHANGED <<script, fcalls>>
  \/ (CloseNext(p) \/ FileRelease(p) \/ ExitClose(p) \/ ExitEnd(p)) /\ UNCHANGED <<script, fcalls>>

\* All processes have exited.
FilesDone == \A p \in Openers : life[p] \in {"zombie", "unused"}

FilesSpec == FilesInit /\ [][FilesNext]_fileVars

-----------------------------------------------------------------------------
(* Properties. *)

FdsOf(f) == {x \in Openers \X Fds : ofile[x[1]][x[2]] = f}
Closers(f) == {x \in Openers \X (1 .. 2) : x[2] \in DOMAIN closing[x[1]] /\ closing[x[1]][x[2]] = f}
OfType(type) == {f \in FileSlots : ftable[f].ref > 0 /\ ftable[f].type = type}
Ends(pi, w) == {f \in OfType("PIPE") : ftable[f].obj = pi /\ ftable[f].writable = w}
Leaving(type) == {p \in Openers : ff[p].type = type}
LeavingEnds(pi, w) == {p \in Leaving("PIPE") : ff[p].obj = pi /\ ff[p].writable = w}

\* f->ref counts the descriptors and the closes under way; an end of a pipe is open
\* exactly as long as a file stands for it, so that the pipe's page is freed once and
\* when nobody can use it; and each file opened on the inode holds one reference to it.
FilesExact ==
  /\ \A f \in FileSlots : ftable[f].ref = Cardinality(FdsOf(f)) + Cardinality(Closers(f))
  /\ \A pi \in PipePages : \A w \in BOOLEAN :
       Cardinality(Ends(pi, w)) + Cardinality(LeavingEnds(pi, w))
         = IF (IF w THEN pipes[pi].writeopen ELSE pipes[pi].readopen) THEN 1 ELSE 0
  /\ iref = Cardinality(OfType("INODE")) + Cardinality(Leaving("INODE"))
=============================================================================
