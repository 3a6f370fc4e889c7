-------------------------------- MODULE Pipe --------------------------------
(***************************************************************************)
(* A pipe (kernel/pipe.c): processes in pipewrite() and piperead(), the    *)
(* closing of the two ends, and kill() of a process that waits.  The loops *)
(* run a byte at a time with the pipe's lock; sleep() gives it up.         *)
(***************************************************************************)
EXTENDS Integers, FiniteSets, Sequences

CONSTANTS
  Writers, Readers,   \* processes that share the two ends
  PIPESIZE,
  UINT,               \* the counters are modulo this (2^32), a multiple of PIPESIZE
  WRITE,              \* bytes of each write(); a writer makes one and exits
  READS,              \* sizes of read(); a reader repeats it until it gets nothing
  MAXPKILLS           \* bound on the number of kills

PipeUsers == Writers \cup Readers
ASSUME PipeAssumption ==
  /\ Writers \cap Readers = {} /\ PIPESIZE \in Nat \ {0} /\ WRITE \in Nat /\ READS \subseteq Nat \ {0}
  /\ UINT \in Nat /\ UINT > PIPESIZE /\ UINT % PIPESIZE = 0 /\ MAXPKILLS \in Nat

VARIABLES
  pi,       \* struct pipe: data, nread, nwrite, readopen, writeopen
  pilock,   \* the process that has pi->lock, or Nobody
  call,     \* of each process: pc, and i and n of the call it is in
  pkilled,  \* processes that were killed
  queue     \* bytes written and not yet read (a ghost variable)

pipeVars == <<pi, pilock, call, pkilled, queue>>
Nobody == "nobody"

\* wakeup(&pi->nread) wakes readers, wakeup(&pi->nwrite) writers.
Wake(c, side) == [p \in PipeUsers |-> IF p \in side /\ c[p].pc = "sleep" THEN [c[p] EXCEPT !.pc = "woken"] ELSE c[p]]
Moved(p, pc) == [call EXCEPT ![p].pc = pc]

\* acquire(&pi->lock), at the start of a call and after sleep().
PipeEnter(p) ==
  /\ call[p].pc \in {"start", "woken"} /\ pilock = Nobody
  /\ pilock' = p
  /\ \E n \in IF p \in Writers THEN {WRITE} ELSE READS :
       call' = [call EXCEPT ![p] = IF call[p].pc = "woken" THEN [@ EXCEPT !.pc = "loop"]
                                   ELSE [pc |-> "loop", i |-> 0, n |-> n]]
  /\ UNCHANGED <<pi, pkilled, queue>>

\* Variant: the sum is not taken modulo the width of the counters.
FullUnwrapped == pi.nwrite = pi.nread + PIPESIZE

Full == pi.nwrite = (pi.nread + PIPESIZE) % UINT
Empty == pi.nread = pi.nwrite
MayWrite(p) == p \in Writers /\ call[p].pc = "loop" /\ call[p].i < call[p].n

\* pipewrite(): it fails, ...
WriteFails(p) ==
  /\ MayWrite(p) /\ (~ pi.readopen \/ p \in pkilled)
  /\ call' = Moved(p, "done") /\ pilock' = Nobody
  /\ UNCHANGED <<pi, pkilled, queue>>

\* Variant: a writer that has filled the pipe sleeps without waking the reader.
WriteSleepsSilent(p) ==
  /\ MayWrite(p) /\ pi.readopen /\ p \notin pkilled /\ Full
  /\ call' = Moved(p, "nap")
  /\ UNCHANGED <<pi, pilock, pkilled, queue>>

\* ... is going to sleep if the pipe is full, ...
WriteSleeps(p) ==
  /\ MayWrite(p) /\ pi.readopen /\ p \notin pkilled /\ Full
  /\ call' = Wake(Moved(p, "nap"), Readers)
  /\ UNCHANGED <<pi, pilock, pkilled, queue>>

\* ... copies a byte ...
WriteCopies(p) ==
  /\ MayWrite(p) /\ pi.readopen /\ p \notin pkilled /\ ~ Full
  /\ pi' = [pi EXCEPT !.data[pi.nwrite % PIPESIZE] = <<p, call[p].i>>, !.nwrite = (@ + 1) % UINT]
  /\ queue' = Append(queue, <<p, call[p].i>>)
  /\ call' = [call EXCEPT ![p].i = @ + 1]
  /\ UNCHANGED <<pilock, pkilled>>

\* ... and returns when it has copied all, or copyin() fails.
WriteReturns(p) ==
  /\ p \in Writers /\ call[p].pc = "loop"
  /\ call[p].i = call[p].n \/ (pi.readopen /\ p \notin pkilled /\ ~ Full)
  /\ call' = Wake(Moved(p, "done"), Readers) /\ pilock' = Nobody
  /\ UNCHANGED <<pi, pkilled, queue>>

\* piperead(): it fails, or is going to sleep, while the pipe is empty and a writer has
\* it open, ...
ReadWaits(p) ==
  /\ p \in Readers /\ call[p].pc = "loop" /\ Empty /\ pi.writeopen
  /\ IF p \in pkilled THEN call' = Moved(p, "done") /\ pilock' = Nobody
                      ELSE call' = Moved(p, "nap") /\ UNCHANGED pilock
  /\ UNCHANGED <<pi, pkilled, queue>>

\* ... copies the bytes there are, ...
ReadCopies(p) ==
  /\ p \in Readers /\ call[p].pc \in {"loop", "copy"} /\ call[p].i < call[p].n /\ ~ Empty
  /\ queue' = Tail(queue)
  /\ pi' = [pi EXCEPT !.nread = (@ + 1) % UINT]
  /\ call' = [call EXCEPT ![p].i = @ + 1, ![p].pc = "copy"]
  /\ UNCHANGED <<pilock, pkilled>>

\* ... and returns; copied is FALSE if copyout() fails.  The process reads again if it
\* got something and was not killed.
ReadReturns(p, copied) ==
  LET end == call[p].i = call[p].n \/ Empty
  IN /\ p \in Readers
     /\ call[p].pc = "copy" \/ (call[p].pc = "loop" /\ ~ (Empty /\ pi.writeopen))
     /\ copied = end
     /\ call' = Wake(Moved(p, IF call[p].i = 0 \/ p \in pkilled THEN "done" ELSE "start"), Writers)
     /\ pilock' = Nobody
     /\ UNCHANGED <<pi, pkilled, queue>>

\* sleep(&pi->..., &pi->lock), which looks at p->killed no more: a kill() that came since
\* killed() has found the process awake, and does not wake it.
PipeSleep(p) ==
  /\ call[p].pc = "nap"
  /\ call' = Moved(p, "sleep") /\ pilock' = Nobody
  /\ UNCHANGED <<pi, pkilled, queue>>

\* The process exits; the last one to close an end calls pipeclose().
pipeclose(p) ==
  LET side == IF p \in Writers THEN Writers ELSE Readers
      last == \A q \in side \ {p} : call[q].pc = "closed"
  IN /\ call[p].pc = "done" /\ pilock = Nobody
     /\ IF last
        THEN /\ pi' = IF p \in Writers THEN [pi EXCEPT !.writeopen = FALSE] ELSE [pi EXCEPT !.readopen = FALSE]
             /\ call' = Wake(Moved(p, "closed"), PipeUsers \ side)
        ELSE pi' = pi /\ call' = Moved(p, "closed")
     /\ UNCHANGED <<pilock, pkilled, queue>>

\* kkill() of a process that is in the kernel: it is woken if it sleeps.  kkill() takes
\* p->lock and not pi->lock, so that it may come while the process has the latter.
PipeKill(p) ==
  /\ Cardinality(pkilled) < MAXPKILLS /\ p \notin pkilled /\ call[p].pc \notin {"done", "closed"}
  /\ pkilled' = pkilled \cup {p}
  /\ call' = IF call[p].pc = "sleep" THEN Moved(p, "woken") ELSE call
  /\ UNCHANGED <<pi, pilock, queue>>

\* pipealloc(), or an empty pipe later, when its counters are about to wrap.
PipeInit ==
  /\ \E k \in {0, UINT - 1} :
       pi = [data |-> [i \in 0 .. PIPESIZE - 1 |-> <<>>], nread |-> k, nwrite |-> k,
             readopen |-> TRUE, writeopen |-> TRUE]
  /\ pilock = Nobody
  /\ call = [p \in PipeUsers |-> [pc |-> "start", i |-> 0, n |-> 0]]
  /\ pkilled = {} /\ queue = <<>>

PipeStep(p) ==
  \/ PipeEnter(p) \/ WriteFails(p) \/ WriteSleeps(p) \/ WriteCopies(p) \/ WriteReturns(p)
  \/ ReadWaits(p) \/ ReadCopies(p) \/ (\E copied \in BOOLEAN : ReadReturns(p, copied))
  \/ PipeSleep(p) \/ pipeclose(p)
PipeNext == \E p \in PipeUsers : PipeStep(p) \/ PipeKill(p)
PipeDone == \A p \in PipeUsers : call[p].pc = "closed"
PipeSpec == PipeInit /\ [][PipeNext]_pipeVars /\ \A p \in PipeUsers : WF_pipeVars(PipeStep(p))

-----------------------------------------------------------------------------
\* The buffer holds what was written and not yet read, in order, and a read takes the
\* first byte of it: no byte is lost, repeated or overtaken, at any place of the
\* counters, whoever sleeps, fails or is killed half way.
StreamIntact ==
  LET n == (pi.nwrite - pi.nread) % UINT
  IN /\ n <= PIPESIZE
     /\ queue = [k \in 1 .. n |-> pi.data[(pi.nread + k - 1) % PIPESIZE]]

\* Everyone gets out: a writer that fills the pipe and a reader that finds it empty are
\* always woken, by the other side, by its close or by kill(); a kill() that comes between
\* killed() and sleep() wakes nobody, and leaves it to the others.
PipeEnds == \A p \in PipeUsers : <>(call[p].pc = "closed")
=============================================================================
