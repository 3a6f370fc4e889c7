------------------------------- MODULE Virtio -------------------------------
(***************************************************************************)
(* The disk driver of kernel/virtio_disk.c with the device: descriptors,   *)
(* the available and the used ring, the processes in virtio_disk_rw() and  *)
(* the interrupt handler, which may run on another CPU.  A step of a       *)
(* process runs with vdisk_lock from one sleep() to the next.  The device  *)
(* takes requests in order and completes them in any order.                *)
(***************************************************************************)
EXTENDS Integers, FiniteSets, Sequences, FiniteSetsExt

CONSTANTS
  Callers,   \* processes that use the disk
  NUM,       \* number of descriptors
  IDX,       \* the ring indices are modulo this (2^16), a multiple of NUM
  MAXREQ     \* requests made

Desc == 0 .. NUM - 1
ASSUME VirtioAssumption ==
  /\ NUM \in Nat /\ NUM >= 3 /\ IDX \in Nat \ {0} /\ IDX % NUM = 0 /\ MAXREQ \in Nat

VARIABLES
  dfree,     \* disk.free: the free descriptors
  desc,      \* disk.desc: the buffer of the request, and the next descriptor of the chain
  info,      \* disk.info[].b
  avail,     \* disk.avail: ring and idx
  used,      \* disk.used: ring and idx, written by the device
  used_idx,  \* how far the handler has looked in the used ring
  dpc,       \* of each process: "idle", "alloc", "nodesc" (asleep on free[0]) or "wait"
  bdisk,     \* b->disk of the buffer of each process
  left,      \* requests still to be made
  handler,   \* the interrupt handler runs, with vdisk_lock
  irq,       \* the device asks for an interrupt
  seen,      \* the device's place in the available ring
  inflight,  \* chains the device works on
  moved      \* the device has moved the data of the process' buffer (a ghost variable)

virtioVars == <<dfree, desc, info, avail, used, used_idx, dpc, bdisk, left, handler, irq, seen,
                inflight, moved>>
driverVars == <<dfree, desc, info, avail, bdisk, left, moved>>
deviceVars == <<used, irq, seen, inflight>>

NoOne == "none"
NoNext == -1

\* wakeup(&disk.free[0])
Woken(pc) == [p \in Callers |-> IF pc[p] = "nodesc" THEN "alloc" ELSE pc[p]]

virtio_disk_rw(p) ==
  /\ dpc[p] = "idle" /\ left > 0
  /\ dpc' = [dpc EXCEPT ![p] = "alloc"]
  /\ left' = left - 1
  /\ UNCHANGED <<dfree, desc, info, avail, used_idx, bdisk, handler, moved, deviceVars>>

\* alloc3_desc() fails: the descriptors it has got are free again, which wakes the others
\* that sleep for descriptors, and the process sleeps.
AllocFails(p) ==
  /\ dpc[p] = "alloc" /\ ~ handler /\ Cardinality(dfree) < 3
  /\ dpc' = [(IF dfree = {} THEN dpc ELSE Woken(dpc)) EXCEPT ![p] = "nodesc"]
  /\ UNCHANGED <<driverVars, used_idx, handler, deviceVars>>

\* alloc_desc(), from the free descriptors F.
alloc_desc(F) == Min(F)

\* alloc3_desc() succeeds: the request is described and offered to the device.
Submit(p) ==
  LET d0 == alloc_desc(dfree)
      d1 == alloc_desc(dfree \ {d0})
      d2 == alloc_desc(dfree \ {d0, d1})
  IN /\ dpc[p] = "alloc" /\ ~ handler /\ Cardinality(dfree) >= 3
     /\ dfree' = dfree \ {d0, d1, d2}
     /\ desc' = [desc EXCEPT ![d0] = [b |-> p, next |-> d1], ![d1] = [b |-> p, next |-> d2],
                             ![d2] = [b |-> p, next |-> NoNext]]
     /\ bdisk' = [bdisk EXCEPT ![p] = TRUE]
     /\ info' = [info EXCEPT ![d0] = p]
     /\ avail' = [ring |-> [avail.ring EXCEPT ![avail.idx % NUM] = d0], idx |-> (avail.idx + 1) % IDX]
     /\ moved' = [moved EXCEPT ![p] = FALSE]
     /\ dpc' = [dpc EXCEPT ![p] = "wait"]
     /\ UNCHANGED <<used_idx, left, handler, deviceVars>>

\* The chain that begins at d; free_desc() panics if one of it is free already.
Chain(d) ==
  {d} \cup (IF desc[d].next = NoNext THEN {}
            ELSE {desc[d].next} \cup (IF desc[desc[d].next].next = NoNext THEN {}
                                      ELSE {desc[desc[d].next].next}))

\* The end of virtio_disk_rw(), when b->disk is 0: info[].b is cleared and free_chain().
Finish(p) ==
  \E d \in Desc :
    /\ dpc[p] = "wait" /\ ~ bdisk[p] /\ ~ handler /\ info[d] = p
    /\ Chain(d) \cap dfree = {}
    /\ info' = [info EXCEPT ![d] = NoOne]
    /\ dfree' = dfree \cup Chain(d)
    /\ desc' = [i \in Desc |-> IF i \in Chain(d) THEN [b |-> NoOne, next |-> NoNext] ELSE desc[i]]
    /\ dpc' = [Woken(dpc) EXCEPT ![p] = "idle"]
    /\ UNCHANGED <<avail, used_idx, bdisk, left, handler, moved, deviceVars>>

-----------------------------------------------------------------------------
(* The device. *)

DeviceTake ==
  /\ seen # avail.idx
  /\ inflight' = inflight \cup {avail.ring[seen % NUM]}
  /\ seen' = (seen + 1) % IDX
  /\ UNCHANGED <<driverVars, used, used_idx, dpc, handler, irq>>

DeviceComplete(d) ==
  /\ d \in inflight
  /\ inflight' = inflight \ {d}
  /\ moved' = [moved EXCEPT ![desc[d].b] = TRUE]
  /\ used' = [ring |-> [used.ring EXCEPT ![used.idx % NUM] = d], idx |-> (used.idx + 1) % IDX]
  /\ irq' = TRUE
  /\ UNCHANGED <<dfree, desc, info, avail, bdisk, left, used_idx, dpc, handler, seen>>

-----------------------------------------------------------------------------
(* virtio_disk_intr(). *)

IntrAck ==
  /\ irq /\ ~ handler
  /\ handler' = TRUE /\ irq' = FALSE
  /\ UNCHANGED <<driverVars, used, used_idx, dpc, seen, inflight>>

\* Variant: one entry of the used ring for each interrupt.
IntrLoopOnce ==
  LET id == used.ring[used_idx % NUM]
  IN /\ handler /\ used_idx # used.idx
     /\ bdisk' = [bdisk EXCEPT ![info[id]] = FALSE]
     /\ used_idx' = (used_idx + 1) % IDX
     /\ handler' = FALSE
     /\ UNCHANGED <<dfree, desc, info, avail, left, moved, dpc, deviceVars>>

IntrLoop ==
  LET id == used.ring[used_idx % NUM]
  IN /\ handler /\ used_idx # used.idx
     /\ bdisk' = [bdisk EXCEPT ![info[id]] = FALSE]
     /\ used_idx' = (used_idx + 1) % IDX
     /\ UNCHANGED <<dfree, desc, info, avail, left, moved, dpc, handler, deviceVars>>

IntrEnd ==
  /\ handler /\ used_idx = used.idx
  /\ handler' = FALSE
  /\ UNCHANGED <<driverVars, used_idx, dpc, deviceVars>>

\* virtio_disk_intr(), with the device's writes to the used ring between its steps.
IntrStep == IntrAck \/ IntrLoop \/ IntrEnd

-----------------------------------------------------------------------------
\* virtio_disk_init(), or a quiet moment later, when the ring indices are about to wrap.
VirtioInit ==
  /\ dfree = Desc
  /\ desc = [i \in Desc |-> [b |-> NoOne, next |-> NoNext]]
  /\ info = [i \in Desc |-> NoOne]
  /\ used_idx \in {0, IDX - 2} /\ seen = used_idx /\ inflight = {}
  /\ avail = [ring |-> [i \in Desc |-> 0], idx |-> used_idx] /\ used = avail
  /\ dpc = [p \in Callers |-> "idle"]
  /\ bdisk = [p \in Callers |-> FALSE] /\ moved = bdisk
  /\ left = MAXREQ
  /\ handler = FALSE /\ irq = FALSE

CallerStep(p) == virtio_disk_rw(p) \/ AllocFails(p) \/ Submit(p) \/ Finish(p)
DeviceStep == DeviceTake \/ \E d \in Desc : DeviceComplete(d)
VirtioNext == (\E p \in Callers : CallerStep(p)) \/ DeviceStep \/ IntrStep
VirtioDone == left = 0 /\ (\A p \in Callers : dpc[p] = "idle") /\ ~ irq /\ ~ handler

VirtioSpec ==
  /\ VirtioInit /\ [][VirtioNext]_virtioVars
  /\ \A p \in Callers : WF_virtioVars(CallerStep(p))
  /\ WF_virtioVars(DeviceStep) /\ WF_virtioVars(IntrStep)

\* Every request is answered, in whatever order the device works and however the
\* handler's reading of the used ring races with it, and no process goes on before the
\* device has moved its data; a freed descriptor reaches a process that waits for three.
RequestsServed ==
  /\ [][\A p \in Callers : dpc[p] = "wait" /\ dpc'[p] = "idle" => moved[p]]_virtioVars
  /\ \A p \in Callers : (dpc[p] # "idle") ~> (dpc[p] = "idle")
=============================================================================
