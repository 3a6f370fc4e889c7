----------------------------- MODULE MlfqHistory ----------------------------
(***************************************************************************)
(* Module Mlfq with a history variable that tells how often one expiry of  *)
(* the timer of cpu0 has been counted.                                     *)
(***************************************************************************)
EXTENDS Mlfq

VARIABLE counted    \* how often cpu0 has counted its latest timer expiry

hvars == <<vars, counted>>

HInit == Init /\ counted = 0

HNext ==
  /\ Next
  /\ counted' = IF timer[cpu0] # "pending" /\ timer'[cpu0] = "pending" THEN 0
                ELSE IF pc[cpu0] = "tick" /\ pc'[cpu0] # "tick" THEN counted + 1
                ELSE counted

HSpec == HInit /\ [][HNext]_hvars

\* The interrupt request of one timer expiry is cleared by the handler that counts
\* it ("this also clears the interrupt request"), so no expiry is counted twice.
\* clockintr() yields before it sets the timer and breaks this.
OneTickPerExpiry == counted <= 1
=============================================================================
