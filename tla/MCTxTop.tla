------------------------------ MODULE MCTxTop ------------------------------
(* The order path with two one-bit registers and a four-byte frame that has *)
(* a header byte, both registers and the padding byte.                      *)
EXTENDS TxTop

MCLayout == <<"HEADER", "id", "qty", "PAD">>
============================================================================
