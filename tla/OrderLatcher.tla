---------------------------- MODULE OrderLatcher ----------------------------
(***************************************************************************)
(* The order field latch (tx_order_latcher.sv): on a doorbell pulse it     *)
(* takes a snapshot of the order registers, unless the frame builder is    *)
(* busy, in which case the pulse is dropped.  There is no queue.           *)
(***************************************************************************)
EXTENDS Naturals

VARIABLES cmd_valid,   (* a new command, for one cycle                     *)
          cmd          (* the snapshot the frame is built from             *)

latcherVars == <<cmd_valid, cmd>>

LatcherReset(zero) == cmd_valid = FALSE /\ cmd = zero
ClearLatcher(zero) == cmd_valid' = FALSE /\ cmd' = zero

\* Variant: the pulse is masked by a command that is just being handed over,
\* and not by a frame on the wire.
AcceptsUnmasked(doorbell, busy) == doorbell /\ ~cmd_valid
AcceptOrder(doorbell, busy) == doorbell /\ ~busy

LatcherEdge(fields, doorbell, busy) ==
  /\ cmd_valid' = AcceptOrder(doorbell, busy)
  /\ cmd' = IF AcceptOrder(doorbell, busy) THEN fields ELSE cmd
============================================================================
