---------------------------- MODULE OrderEgress ----------------------------
(***************************************************************************)
(* What the order path promises: an order it takes on is a snapshot of the *)
(* registers at one instant, and exactly the bytes of that snapshot reach  *)
(* the wire, each once and in order, whatever is written to the registers  *)
(* in the meantime.  No other order is taken on before the frame ends.     *)
(***************************************************************************)
EXTENDS Naturals, Sequences

CONSTANTS Registers, Words, Nobody,
          FrameOf(_)   (* the sequence of bytes of an order                *)

VARIABLES regs,    (* the order registers                                  *)
          job,     (* the order being sent, or Nobody                      *)
          frame    (* the bytes of the latest frame that reached the sink  *)

vars == <<regs, job, frame>>

Init == /\ regs = [r \in Registers |-> 0]
        /\ job = Nobody
        /\ frame = <<>>

Write == \/ UNCHANGED regs
         \/ \E r \in Registers, v \in Words : regs' = [regs EXCEPT ![r] = v]

TakeOn == /\ job = Nobody
          /\ job' = regs
          /\ frame' = <<>>

Emit == /\ job # Nobody
        /\ frame' = Append(frame, FrameOf(job)[Len(frame) + 1])
        /\ job' = IF Len(frame') = Len(FrameOf(job)) THEN Nobody ELSE job

\* A reset cuts the frame short.
Abort == /\ regs' = [r \in Registers |-> 0]
         /\ job' = Nobody
         /\ frame' = <<>>

Next == \/ Write /\ (TakeOn \/ Emit \/ UNCHANGED <<job, frame>>)
        \/ Abort

Spec == Init /\ [][Next]_vars
============================================================================
