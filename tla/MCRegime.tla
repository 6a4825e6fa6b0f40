------------------------------ MODULE MCRegime ------------------------------
(* Two markets, one of which swings more widely every day; and all markets  *)
(* of six days with closes of two, three and four.                          *)
EXTENDS Regime

MCMarkets    == {<<10, 11, 9, 13, 6, 12>>, <<10, 11, 12, 11, 9, 10>>}
MCAllMarkets == [1 .. 6 -> {2, 3, 4}]
MCPartial    == {}
MCVolatility(c) == [num |-> Distance(c[3] * c[1], c[2] * c[2]), den |-> c[2] * c[1]]
=============================================================================
