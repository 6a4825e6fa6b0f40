--------------------------- MODULE MCConfigLoader ---------------------------
(* Two configs pushed over each other and over a file that was there       *)
(* before: an older one, or one of several that a hand has spoilt.         *)
EXTENDS ConfigLoader

MCRingSize == 4
MCCeiling  == [limit \in Limits |-> 3]

MCConfig(strategy, regime, parameter, limit, in_flight) ==
  [operator_id |-> "alice", strategy_id |-> strategy, regime_label |-> regime,
   parameters  |-> [key \in KeySet(ParameterKeys) |->
                      IF key \in {"entry_thresh", "dev_thresh"} THEN <<0, "half">>
                      ELSE Whole(parameter)],
   risk_limits |-> [[l \in Limits |-> limit] EXCEPT !["max_in_flight"] = in_flight]]

OldConfig == MCConfig("defensive", "volatile", 1, 3, 3)
MCConfigs == {MCConfig("momentum", "trending", 2, 2, 1),
              MCConfig("mean_reversion", "ranging", 3, 3, 2)}

\* The value of one key replaced.
Spoilt(key, token) ==
  LET text == Document(OldConfig)
  IN  [text EXCEPT ![SelectInSeq(text, LAMBDA t : t = Str(key)) + 2] = token]
Without(key) ==
  LET text == Document(OldConfig)
      at   == SelectInSeq(text, LAMBDA t : t = Str(key))
  IN  SubSeq(text, 1, at - 1) \o SubSeq(text, at + 3, Len(text))

MCSoundTexts == {<<>>, Document(OldConfig), Without("max_in_flight")}
MCOtherTexts == MCSoundTexts \cup
  {Spoilt("max_in_flight", Num(Whole(4))), Spoilt("max_in_flight", Num(<<2, "half">>)),
   Spoilt("max_notional_cad", Num(Whole(4))), Spoilt("max_order_rate", Num(Whole(0))),
   Spoilt("lookback", Num(Whole(4))), Spoilt("entry_thresh", Num(<<0, "tiny">>)),
   Spoilt("max_in_flight", Str("2")), Without("window")}

\* Texts in step but for the digits of a number, or a member further apart.
MCShift(tokens, inside) == [tokens |-> tokens, inside |-> inside]
MCShifts == {MCShift(n, TRUE) : n \in {0, 3}}

\* For two days with the same strategy: texts of the same length, which differ in
\* digits only, and nothing there before the first push.
MCTwoDays == {MCConfig("momentum", "trending", n, n, n) : n \in {1, 2}}
MCNoText  == {<<>>}
MCInStep  == {MCShift(0, FALSE)}
============================================================================
