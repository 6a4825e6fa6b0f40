------------------------------ MODULE TxDriver ------------------------------
(***************************************************************************)
(* The order path with a PS that keeps to the egress sequence: write every *)
(* order register, see TX_READY = 1, ring the doorbell.  The accesses are  *)
(* those of the bus tasks of tb_tx_top.sv (write_order_fields,             *)
(* ring_doorbell, axi_write, axi_read); the PS program that makes them is  *)
(* outside the repository.                                                 *)
(*                                                                         *)
(* The interconnect may delay the address, the data, the response and the  *)
(* read by any number of cycles, each on its own.  A policy says whether   *)
(* the PS waits for the response of a write before its next access, and    *)
(* whether it looks at TX_READY before the fields are written or after,    *)
(* as src/README.md:259 has it.                                            *)
(***************************************************************************)
EXTENDS TxTop, FiniteSets

CONSTANT Policies

ASSUME PolicyAssumption == Policies \subseteq [posted : BOOLEAN,
                                               check_first : BOOLEAN]

VARIABLES policy,     (* how this PS orders its accesses                   *)
          drv_pc,     (* the part of the sequence it is in                 *)
          todo,       (* order registers still to be written               *)
          wanted,     (* the order it means to send                        *)
          rung,       (* history: the order it last rang the doorbell for  *)
          aw_line,    (* address issued and not yet accepted, or None      *)
          w_line,     (* word issued and not yet accepted, or None         *)
          ar_line     (* TX_READY once a read is issued, until accepted    *)

driverVars == <<policy, drv_pc, todo, wanted, rung, aw_line, w_line, ar_line>>
allVars    == <<vars, driverVars>>

DriverInit == /\ policy \in Policies
              /\ drv_pc = IF policy.check_first THEN "check" ELSE "fields"
              /\ todo = Fields
              /\ wanted \in Orders
              /\ rung = NoOrder
              /\ aw_line = None
              /\ w_line = None
              /\ ar_line = None

Quiet  == aw_line = None /\ w_line = None /\ ar_line = None
MayIssue == /\ Quiet
            /\ ~rvalid
            /\ policy.posted \/ ~bvalid

Issue(addr, word) == /\ aw_line' = addr
                     /\ w_line' = word
                     /\ UNCHANGED ar_line

IssueRead == /\ ar_line' = "TX_READY"
             /\ UNCHANGED <<aw_line, w_line>>

WriteField == /\ drv_pc = "fields" /\ MayIssue
              /\ \E f \in todo :
                   /\ Issue(f, wanted[f])
                   /\ todo' = todo \ {f}
              /\ drv_pc' = IF todo' # {} THEN "fields"
                           ELSE IF policy.check_first THEN "bell" ELSE "check"
              /\ UNCHANGED <<vars, policy, wanted, rung>>

CheckReady == /\ drv_pc = "check" /\ MayIssue
              /\ IssueRead
              /\ drv_pc' = "answer"
              /\ UNCHANGED <<vars, policy, todo, wanted, rung>>

RingDoorbell == /\ drv_pc = "bell" /\ MayIssue
                /\ Issue("DOORBELL", 1)
                /\ drv_pc' = "rung"
                /\ rung' = wanted
                /\ UNCHANGED <<vars, policy, todo, wanted>>

\* The doorbell write has been accepted; the next order may begin.
NextOrder == /\ drv_pc = "rung" /\ MayIssue
             /\ todo' = Fields
             /\ wanted' \in Orders
             /\ drv_pc' = IF policy.check_first THEN "check" ELSE "fields"
             /\ UNCHANGED <<vars, policy, rung, aw_line, w_line, ar_line>>

----------------------------------------------------------------------------
(* A clock edge: the lines carry what has been issued, or, when the        *)
(* interconnect holds it back, nothing.                                    *)
Offered(line) == {line, None}

Taken(ready, line, shown) == IF ready /\ shown # None THEN None ELSE line

\* The answer to the check is taken off the read channel.
TakeAnswer(rready) ==
  IF rvalid /\ rready /\ drv_pc = "answer"
  THEN IF rdata = 1
       THEN IF policy.check_first THEN "fields" ELSE "bell"
       ELSE "check"
  ELSE drv_pc

DriverEdge(aw, w, bready, ar, rready, tready) ==
  /\ ClockEdge(aw, w, bready, ar, rready, tready)
  /\ aw_line' = Taken(AwReady, aw_line, aw)
  /\ w_line' = Taken(WReady, w_line, w)
  /\ ar_line' = Taken(ArReady, ar_line, ar)
  /\ drv_pc' = TakeAnswer(rready)
  /\ UNCHANGED <<policy, todo, wanted, rung>>

AnyEdge == \E aw \in Offered(aw_line), w \in Offered(w_line),
              ar \in Offered(ar_line), bready \in Accepts(bvalid),
              rready \in Accepts(rvalid), tready \in Accepts(Tvalid) :
                DriverEdge(aw, w, bready, ar, rready, tready)

DriverNext == AnyEdge \/ WriteField \/ CheckReady \/ RingDoorbell \/ NextOrder

DriverSpec == Init /\ DriverInit /\ [][DriverNext]_allVars

(* Fairness: the interconnect shows what has been issued, the PS takes the *)
(* responses, the sink takes bytes, each infinitely often but not all at   *)
(* the same edges; and the PS goes on with an order it has begun.          *)
ShowingEdge == \E bready \in Accepts(bvalid), rready \in Accepts(rvalid),
                  tready \in Accepts(Tvalid) :
                    DriverEdge(aw_line, w_line, bready, ar_line, rready, tready)
TakingEdge  == \E aw \in Offered(aw_line), w \in Offered(w_line),
                  ar \in Offered(ar_line), tready \in Accepts(Tvalid) :
                    DriverEdge(aw, w, bvalid, ar, rvalid, tready)
SinkEdge    == \E aw \in Offered(aw_line), w \in Offered(w_line),
                  ar \in Offered(ar_line), bready \in Accepts(bvalid),
                  rready \in Accepts(rvalid) :
                    DriverEdge(aw, w, bready, ar, rready, Tvalid)

FairDriverSpec == /\ DriverSpec
                  /\ WF_allVars(ShowingEdge)
                  /\ WF_allVars(TakingEdge)
                  /\ WF_allVars(SinkEdge)
                  /\ WF_allVars(WriteField \/ CheckReady \/ RingDoorbell)

----------------------------------------------------------------------------
(* Properties.                                                             *)

\* No order of a PS that keeps to the sequence is dropped: when its doorbell
\* pulses, TX_READY is 1, so the latch accepts it.
NoOrderDropped == doorbell_pulse => tx_ready

\* The doorbell latches the order the PS means to send, with all its fields,
\* although the writes reach the registers one at a time.
LatchesWholeOrder == doorbell_pulse => ord = rung

\* An order whose PS asks for TX_READY is delivered in the end, byte by byte.
EveryOrderDelivered ==
  \A order \in Orders : (drv_pc = "answer" /\ wanted = order)
                           ~> (rung = order /\ frame = FrameOf(order))
============================================================================
