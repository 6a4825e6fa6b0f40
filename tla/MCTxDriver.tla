----------------------------- MODULE MCTxDriver -----------------------------
(* A PS that sends orders of two one-bit registers over the order path, and *)
(* never stops.                                                             *)
EXTENDS TxDriver

MCLayout == <<"HEADER", "id", "qty">>

MCPolicy(posted, check_first) == [posted |-> posted, check_first |-> check_first]

\* Writes awaited or posted, TX_READY read before the fields or after them; not
\* both posted and read before them (src/README.md:259 has fields, check,
\* doorbell).
MCSafePolicies == {MCPolicy(FALSE, FALSE), MCPolicy(TRUE, FALSE),
                   MCPolicy(FALSE, TRUE)}
============================================================================
