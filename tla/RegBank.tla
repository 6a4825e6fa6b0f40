------------------------------ MODULE RegBank ------------------------------
(***************************************************************************)
(* The AXI4-Lite register bank between the PS and the order path           *)
(* (axi_lite_regbank.sv): a write FSM that accepts address and data in     *)
(* either order, the order-field registers, the one-cycle doorbell pulse,  *)
(* and a two-state read FSM.                                               *)
(*                                                                         *)
(* One step is one rising clock edge.  A channel carries a value, or None  *)
(* when its valid line is low.  The symbol and side of an order are        *)
(* unpacked from one word; here a field is a whole register.               *)
(***************************************************************************)
EXTENDS Naturals

CONSTANTS Fields,   (* the order-field registers, 0x40 to 0x4C             *)
          Data,     (* the words a register may hold                       *)
          None      (* no value on a channel                               *)

Controls == {"DOORBELL", "TX_READY", "OTHER"}
Addrs    == Fields \cup Controls
Orders   == [Fields -> Data]

ASSUME FieldsAssumption == Fields \cap Controls = {}
ASSUME DataAssumption   == Data \subseteq Nat /\ {0, 1} \subseteq Data
ASSUME NoneAssumption   == None \notin Addrs /\ None \notin Data /\ None \notin Orders

VARIABLES wr_state, wr_addr_q, wr_data_q, bvalid, ord, doorbell_pulse,
          rd_state, rdata, rvalid

wrVars      == <<wr_state, wr_addr_q, wr_data_q, bvalid>>
rdVars      == <<rd_state, rdata, rvalid>>
regBankVars == <<wrVars, ord, doorbell_pulse, rdVars>>

RegBankTypeOK ==
  /\ wr_state \in {"W_IDLE", "W_WAIT_DATA", "W_WAIT_ADDR", "W_RESP"}
  /\ wr_addr_q \in Addrs
  /\ wr_data_q \in Data
  /\ bvalid \in BOOLEAN
  /\ ord \in Orders
  /\ doorbell_pulse \in BOOLEAN
  /\ rd_state \in {"R_IDLE", "R_RESP"}
  /\ rdata \in Data
  /\ rvalid \in BOOLEAN

NoOrder == [f \in Fields |-> 0]

RegBankReset == /\ wr_state = "W_IDLE"
                /\ wr_addr_q = "OTHER"
                /\ wr_data_q = 0
                /\ bvalid = FALSE
                /\ ord = NoOrder
                /\ doorbell_pulse = FALSE
                /\ rd_state = "R_IDLE"
                /\ rdata = 0
                /\ rvalid = FALSE

\* rst_n falls: every register of the bank clears.
ClearRegBank == /\ wr_state' = "W_IDLE"
                /\ wr_addr_q' = "OTHER"
                /\ wr_data_q' = 0
                /\ bvalid' = FALSE
                /\ ord' = NoOrder
                /\ doorbell_pulse' = FALSE
                /\ rd_state' = "R_IDLE"
                /\ rdata' = 0
                /\ rvalid' = FALSE

----------------------------------------------------------------------------
(* Ready lines depend on the state register alone.                         *)
AwReady == wr_state \in {"W_IDLE", "W_WAIT_ADDR"}
WReady  == wr_state \in {"W_IDLE", "W_WAIT_DATA"}
ArReady == rd_state = "R_IDLE"

\* Variant: in the idle state one of the two channels is enough.
WrCommitOnEither(aw, w) == (WReady /\ w # None) \/ (AwReady /\ aw # None)
\* The cycle in which address and data are both known.
WrCommit(aw, w) == \/ wr_state = "W_IDLE" /\ aw # None /\ w # None
                   \/ wr_state = "W_WAIT_DATA" /\ w # None
                   \/ wr_state = "W_WAIT_ADDR" /\ aw # None

\* Variant: the address is always the latched one.
CommitAddrLatched(aw) == wr_addr_q
CommitAddr(aw) == IF wr_state = "W_WAIT_DATA" THEN wr_addr_q ELSE aw
CommitData(w) == IF wr_state = "W_WAIT_ADDR" THEN wr_data_q ELSE w

HoldAddress(aw, w) == /\ wr_state = "W_IDLE" /\ aw # None /\ w = None
                      /\ wr_state' = "W_WAIT_DATA"
                      /\ wr_addr_q' = aw
                      /\ UNCHANGED <<wr_data_q, bvalid>>

HoldData(aw, w) == /\ wr_state = "W_IDLE" /\ aw = None /\ w # None
                   /\ wr_state' = "W_WAIT_ADDR"
                   /\ wr_data_q' = w
                   /\ UNCHANGED <<wr_addr_q, bvalid>>

Commit(aw, w) == /\ WrCommit(aw, w)
                 /\ wr_state' = "W_RESP"
                 /\ bvalid' = TRUE
                 /\ UNCHANGED <<wr_addr_q, wr_data_q>>

Respond(bready) == /\ wr_state = "W_RESP" /\ bready
                   /\ wr_state' = "W_IDLE"
                   /\ bvalid' = FALSE
                   /\ UNCHANGED <<wr_addr_q, wr_data_q>>

WriteStall(aw, w, bready) ==
  /\ \/ wr_state = "W_IDLE" /\ aw = None /\ w = None
     \/ wr_state = "W_WAIT_DATA" /\ w = None
     \/ wr_state = "W_WAIT_ADDR" /\ aw = None
     \/ wr_state = "W_RESP" /\ ~bready
  /\ UNCHANGED wrVars

\* The registers behind the commit.  Only an odd word rings the doorbell, and
\* the pulse falls back on every other edge.
RingsDoorbell(aw, w) == /\ WrCommit(aw, w)
                        /\ CommitAddr(aw) = "DOORBELL"
                        /\ CommitData(w) % 2 = 1

\* Variant: a doorbell whose address and word came apart is lost.
NextPulseTogether(aw, w) == RingsDoorbell(aw, w) /\ wr_state = "W_IDLE"
NextPulse(aw, w) == RingsDoorbell(aw, w)

NextOrd(aw, w) ==
  IF WrCommit(aw, w) /\ CommitAddr(aw) \in Fields
  THEN [ord EXCEPT ![CommitAddr(aw)] = CommitData(w)]
  ELSE ord

WritePath(aw, w, bready) ==
  /\ \/ HoldAddress(aw, w)
     \/ HoldData(aw, w)
     \/ Commit(aw, w)
     \/ Respond(bready)
     \/ WriteStall(aw, w, bready)
  /\ ord' = NextOrd(aw, w)
  /\ doorbell_pulse' = NextPulse(aw, w)

----------------------------------------------------------------------------
\* What a read of an address returns; reading the doorbell rings nothing.
RdData(ar, tx_ready) ==
  IF ar = "TX_READY" THEN IF tx_ready THEN 1 ELSE 0
  ELSE IF ar \in Fields THEN ord[ar] ELSE 0

AcceptRead(ar, tx_ready) == /\ ArReady /\ ar # None
                            /\ rdata' = RdData(ar, tx_ready)
                            /\ rvalid' = TRUE
                            /\ rd_state' = "R_RESP"

FinishRead(rready) == /\ rd_state = "R_RESP" /\ rready
                      /\ rvalid' = FALSE
                      /\ rd_state' = "R_IDLE"
                      /\ UNCHANGED rdata

ReadStall(ar, rready) == /\ \/ ArReady /\ ar = None
                            \/ rd_state = "R_RESP" /\ ~rready
                         /\ UNCHANGED rdVars

ReadPath(ar, rready, tx_ready) == \/ AcceptRead(ar, tx_ready)
                                  \/ FinishRead(rready)
                                  \/ ReadStall(ar, rready)

RegBankEdge(aw, w, bready, ar, rready, tx_ready) ==
  /\ WritePath(aw, w, bready)
  /\ ReadPath(ar, rready, tx_ready)
============================================================================
