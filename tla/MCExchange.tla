----------------------------- MODULE MCExchange -----------------------------
(* Slices of two and three messages, one of which breaks off in the middle *)
(* and one whose book has a row too few.  The first has the numbers of the *)
(* golden frames: each byte of a field differs from the others.            *)
EXTENDS ExchangeSession

Message(time, type, id, qty, price, side) ==
  [time |-> time, type |-> type, id |-> id, qty |-> qty, price |-> price, side |-> side]
Quote(bid, ask) == [bid |-> bid, ask |-> ask]

MCDays ==
  {[messages |-> <<Message(1, 1, 10001, 100, 150500050, 1),
                   Message(1, 4, 66051, 513, 310200049, -1)>>,
    book     |-> <<Quote(150500050, 150500051), Quote(150500149, 150500150)>>],
   [messages |-> <<Message(1, 1, 7, 1, 200, 1), Message(2, 3, 7, 1, 200, 1),
                   Message(3, 1, 8, 1, 151, -1)>>,
    book     |-> <<Quote(51, 150), Quote(150, 250), Quote(200, 200)>>],
   [messages |-> <<Message(1, 1, 9, 1, 300, 1), Message(2, 1, 10, -1, 300, 1)>>,
    book     |-> <<Quote(100, 100), Quote(100, 100)>>],
   [messages |-> <<Message(1, 1, 11, 1, 300, 1)>>, book |-> <<>>]}
============================================================================
