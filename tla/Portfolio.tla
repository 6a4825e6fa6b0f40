----------------------------- MODULE Portfolio -----------------------------
(***************************************************************************)
(* What the trading core promises, without its table, loop and sweep: a    *)
(* position, a set of pending orders, and a net exposure of the two        *)
(* together that no accepted order may carry past the limit.  An order     *)
(* takes effect on the position exactly once, no sooner than the fill      *)
(* delay after it was accepted.                                            *)
(***************************************************************************)
EXTENDS Integers

CONSTANTS Limit,   (* the most shares, long or short, the portfolio may be  *)
                   (* committed to                                          *)
          Delay,   (* the least age at which an order fills                 *)
          Lots     (* the signed share amounts an order may have            *)

VARIABLES time,      (* the clock                                           *)
          position,  (* shares already filled                               *)
          exposure,  (* shares filled or pending                            *)
          pending,   (* accepted orders that have not filled                *)
          last_id    (* the ID of the last accepted order                   *)

vars == <<time, position, exposure, pending, last_id>>

Magnitude(n) == IF n < 0 THEN -n ELSE n

Init == /\ time = 0
        /\ position = 0
        /\ exposure = 0
        /\ pending = {}
        /\ last_id = 0

Tick == /\ time' \in Nat
        /\ time' >= time
        /\ UNCHANGED <<position, exposure, pending, last_id>>

\* An order for the given signed number of shares is accepted.
Accept(shares) == /\ time' \in Nat
                  /\ time' >= time
                  /\ Magnitude(exposure + shares) <= Limit
                  /\ exposure' = exposure + shares
                  /\ last_id' = last_id + 1
                  /\ pending' = pending \cup
                       {[id |-> last_id', shares |-> shares, at |-> time']}
                  /\ UNCHANGED position

\* A pending order that is old enough fills.
Fill(o) == /\ time - o.at >= Delay
           /\ position' = position + o.shares
           /\ pending' = pending \ {o}
           /\ UNCHANGED <<time, exposure, last_id>>

Next == \/ Tick
        \/ \E shares \in Lots : Accept(shares)
        \/ \E o \in pending : Fill(o)

Spec == Init /\ [][Next]_vars
============================================================================
