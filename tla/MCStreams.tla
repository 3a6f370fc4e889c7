----------------------------- MODULE MCStreams ------------------------------
(***************************************************************************)
(* The components that must get their work done, on small instances: the   *)
(* disk driver, a pipe and the console output.  They share no state, so    *)
(* that a behaviour is one of one of them: part says of which, and the     *)
(* others stay in an initial state.                                        *)
(***************************************************************************)
EXTENDS Virtio, Pipe, Uart

VARIABLE part

streamVars == <<part, virtioVars, pipeVars, uartVars>>

StreamsInit ==
  /\ part \in {"virtio", "pipe", "uart"}
  /\ part # "virtio" => used_idx = 0
  /\ part # "pipe" => pi = [data |-> [i \in 0 .. PIPESIZE - 1 |-> <<>>], nread |-> 0, nwrite |-> 0,
                            readopen |-> TRUE, writeopen |-> TRUE]
  /\ VirtioInit /\ PipeInit /\ UartInit

\* Nothing is left to do; the parts must not stop before.
StreamsDone ==
  /\ \/ part = "virtio" /\ VirtioDone
     \/ part = "pipe" /\ PipeDone
     \/ part = "uart" /\ UartDone
  /\ UNCHANGED streamVars

StreamsNext ==
  \/ part = "virtio" /\ VirtioNext /\ UNCHANGED <<part, pipeVars, uartVars>>
  \/ part = "pipe" /\ PipeNext /\ UNCHANGED <<part, virtioVars, uartVars>>
  \/ part = "uart" /\ UartNext /\ UNCHANGED <<part, virtioVars, pipeVars>>
  \/ StreamsDone

\* The fairness of the components' own specifications.
StreamsSpec ==
  /\ StreamsInit /\ [][StreamsNext]_streamVars
  /\ \A p \in Callers : WF_virtioVars(part = "virtio" /\ CallerStep(p))
  /\ WF_virtioVars(part = "virtio" /\ DeviceStep)
  /\ WF_virtioVars(part = "virtio" /\ IntrStep)
  /\ \A p \in PipeUsers : WF_pipeVars(part = "pipe" /\ PipeStep(p))
  /\ \A p \in Printers : WF_uartVars(part = "uart" /\ PrinterStep(p))
  /\ \A c \in Syncs : WF_uartVars(part = "uart" /\ SyncStep(c))
  /\ WF_uartVars(part = "uart" /\ UartIntr)
  /\ WF_uartVars(part = "uart" /\ Transmit)

\* Everyone in pipewrite() and piperead() gets out.
MCPipeEnds == (part = "pipe") => PipeEnds

\* Every byte of consolewrite() and uartputc_sync() is transmitted, in order.
MCOutputDelivered == (part = "uart") => OutputDelivered
=============================================================================
