-------------------------------- MODULE Uart --------------------------------
(***************************************************************************)
(* Console output: consolewrite() of kernel/console.c, and uartwrite(),    *)
(* uartputc_sync() and uartintr() of kernel/uart.c with the device.  A     *)
(* process step runs with tx_lock from one sleep() to the next byte.       *)
(* uartputc_sync(), for the kernel's printf() and for echo, takes no lock  *)
(* and does not set tx_busy: between its look at the status register and   *)
(* its write, others write too; the device's FIFO has to absorb that.      *)
(***************************************************************************)
EXTENDS Integers, Sequences, FiniteSetsExt

CONSTANTS
  Printers,   \* processes in consolewrite()
  Syncs,      \* CPUs in uartputc_sync()
  OUTPUT,     \* bytes that each process writes
  BATCH,      \* bytes that consolewrite() copies at a time (32)
  SYNCBYTES,  \* bytes of each CPU
  FIFO        \* capacity of the transmit FIFO (16)

ASSUME UartAssumption ==
  /\ Printers \cap Syncs = {} /\ {OUTPUT, BATCH, SYNCBYTES, FIFO} \subseteq Nat \ {0}

VARIABLES
  tx_busy,   \* the lock tx_lock is free between steps
  upc,       \* of each process: "next" batch, "tx", "txsleep" or "done"; of each CPU:
             \* "poll", "ready" (it saw an idle transmitter) or "done"
  at,        \* bytes written so far
  batch,     \* end of the batch of a process
  fifo,      \* the transmit FIFO
  out,       \* bytes of each writer transmitted so far, in order and none left out
  thre,      \* the device asks for an interrupt: the FIFO has become empty
  acked      \* uartintr() has read ISR and goes for tx_lock

uartVars == <<tx_busy, upc, at, batch, fifo, out, thre, acked>>

\* WriteReg(THR, c): a byte for a full FIFO is lost; the write ends an interrupt request.
THR(p) ==
  /\ fifo' = IF Len(fifo) < FIFO THEN Append(fifo, <<p, at[p] + 1>>) ELSE fifo
  /\ at' = [at EXCEPT ![p] = @ + 1]
  /\ thre' = FALSE
TxIdle == fifo = <<>>

\* consolewrite(): the next batch, or the end of the write, early if copyin() fails.
consolewrite(p) ==
  /\ upc[p] = "next"
  /\ \/ upc' = [upc EXCEPT ![p] = "done"] /\ UNCHANGED batch
     \/ /\ at[p] < OUTPUT
        /\ upc' = [upc EXCEPT ![p] = "tx"]
        /\ batch' = [batch EXCEPT ![p] = Min({at[p] + BATCH, OUTPUT})]
  /\ UNCHANGED <<tx_busy, at, fifo, out, thre, acked>>

\* uartwrite(): sleep while the transmitter is busy, or write a byte.
uartwrite(p) ==
  /\ upc[p] = "tx"
  /\ \/ /\ at[p] = batch[p]
        /\ upc' = [upc EXCEPT ![p] = "next"]
        /\ UNCHANGED <<tx_busy, at, fifo, thre>>
     \/ /\ at[p] < batch[p] /\ tx_busy
        /\ upc' = [upc EXCEPT ![p] = "txsleep"]
        /\ UNCHANGED <<tx_busy, at, fifo, thre>>
     \/ /\ at[p] < batch[p] /\ ~ tx_busy
        /\ THR(p)
        /\ tx_busy' = TRUE
        /\ UNCHANGED upc
  /\ UNCHANGED <<batch, out, acked>>

\* uartputc_sync(): the look at LSR, and the write.
SyncPoll(c) ==
  /\ upc[c] = "poll" /\ TxIdle
  /\ upc' = [upc EXCEPT ![c] = "ready"]
  /\ UNCHANGED <<tx_busy, at, batch, fifo, out, thre, acked>>

SyncWrite(c) ==
  /\ upc[c] = "ready"
  /\ THR(c)
  /\ upc' = [upc EXCEPT ![c] = IF at[c] + 1 = SYNCBYTES THEN "done" ELSE "poll"]
  /\ UNCHANGED <<tx_busy, batch, out, acked>>

\* uartintr() reads ISR, ...
UartAck ==
  /\ thre /\ ~ acked
  /\ thre' = FALSE /\ acked' = TRUE
  /\ UNCHANGED <<tx_busy, upc, at, batch, fifo, out>>

\* Variant: without a look at LSR.
uartintrBlind ==
  /\ acked /\ acked' = FALSE
  /\ tx_busy' = FALSE
  /\ upc' = [p \in DOMAIN upc |-> IF upc[p] = "txsleep" THEN "tx" ELSE upc[p]]
  /\ UNCHANGED <<at, batch, fifo, out, thre>>

\* ... and then, with tx_lock, looks at LSR and wakes the writers.
uartintr ==
  /\ acked /\ acked' = FALSE
  /\ IF TxIdle
     THEN /\ tx_busy' = FALSE
          /\ upc' = [p \in DOMAIN upc |-> IF upc[p] = "txsleep" THEN "tx" ELSE upc[p]]
     ELSE UNCHANGED <<tx_busy, upc>>
  /\ UNCHANGED <<at, batch, fifo, out, thre>>

\* The device sends a byte; it asks for an interrupt when the FIFO becomes empty.
Transmit ==
  /\ fifo # <<>>
  /\ fifo' = Tail(fifo)
  /\ LET b == Head(fifo) IN out' = IF b[2] = out[b[1]] + 1 THEN [out EXCEPT ![b[1]] = b[2]] ELSE out
  /\ thre' = (thre \/ Tail(fifo) = <<>>)
  /\ UNCHANGED <<tx_busy, upc, at, batch, acked>>

\* uartinit()
UartInit ==
  /\ tx_busy = FALSE /\ fifo = <<>> /\ thre = FALSE /\ acked = FALSE
  /\ upc = [p \in Printers \cup Syncs |-> IF p \in Printers THEN "next" ELSE "poll"]
  /\ at = [p \in Printers \cup Syncs |-> 0] /\ out = at
  /\ batch = [p \in Printers |-> 0]

PrinterStep(p) == consolewrite(p) \/ uartwrite(p)
SyncStep(c) == SyncPoll(c) \/ SyncWrite(c)
UartIntr == UartAck \/ uartintr
UartNext == (\E p \in Printers : PrinterStep(p)) \/ (\E c \in Syncs : SyncStep(c)) \/ UartIntr \/ Transmit
UartDone == (\A p \in DOMAIN upc : upc[p] = "done") /\ TxIdle /\ ~ thre /\ ~ acked

UartSpec ==
  /\ UartInit /\ [][UartNext]_uartVars
  /\ \A p \in Printers : WF_uartVars(PrinterStep(p))
  /\ \A c \in Syncs : WF_uartVars(SyncStep(c))
  /\ WF_uartVars(UartIntr) /\ WF_uartVars(Transmit)

\* Every byte that was written is transmitted, once and in the order of its writer, and
\* every writer gets done: none sleeps for ever on an interrupt that was taken before it
\* slept, and the writes that pass by tx_busy are never more than the FIFO holds.
OutputDelivered ==
  <>(\A p \in Printers \cup Syncs : upc[p] = "done" /\ out[p] = at[p])
=============================================================================
