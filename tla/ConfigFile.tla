----------------------------- MODULE ConfigFile -----------------------------
(***************************************************************************)
(* The config file between the end-of-day pipeline, which writes it        *)
(* (approval/config.py), and the trading core, which scans it with strstr  *)
(* and strtod (config_loader.c).                                           *)
(*                                                                         *)
(* A document is a sequence of tokens.  A string token is a name or a      *)
(* value, and the loader does not tell which; the number <<whole, frac>>   *)
(* is whole plus nothing, a half, or something too small for a float.      *)
(***************************************************************************)
EXTENDS Integers, Sequences, SequencesExt

CONSTANTS
  RingSize,     (* RING_SIZE: look-back and window stay below it           *)
  Ceiling,      (* the FS3 ceiling of each limit                           *)
  None          (* nothing: no ratio, no sweep, no file, no config         *)

Limits == {"max_notional_cad", "max_position_shares", "max_order_rate",
           "max_in_flight"}

ASSUME CeilingAssumption == /\ RingSize \in Nat
                            /\ Ceiling \in [Limits -> Nat \ {0}]

Fractions == {"none", "half", "tiny"}
Str(text)  == [kind |-> "str", text |-> text]
Cut(text)  == [kind |-> "cut", text |-> text]   \* the file ends in a string
Num(v)     == [kind |-> "num", whole |-> v[1], frac |-> v[2]]
Mark(char) == [kind |-> "mark", char |-> char]
Whole(n)   == <<n, "none">>

----------------------------------------------------------------------------
(* pretty_json(approved_config(candidate, ...)): the keys of every object  *)
(* are sorted.  Commas, and members no loader key can meet, are left out.  *)

Member(key, value) == <<Str(key), Mark(":"), value>>
Object(key, members) ==
  <<Str(key), Mark(":"), Mark("{")>> \o FlattenSeq(members) \o <<Mark("}")>>

KeySet(keys) == {keys[i] : i \in DOMAIN keys}

ParameterKeys == <<"base_lot", "dev_thresh", "entry_thresh", "lookback",
                   "pos_scalar", "spread_floor", "window">>
LimitKeys     == <<"max_in_flight", "max_notional_cad", "max_order_rate",
                   "max_position_shares">>

Numbers(keys, values) == [i \in DOMAIN keys |-> Member(keys[i], Num(values[keys[i]]))]

ApprovalObject(c) ==
  Object("approval", <<Member("operator_id", Str(c.operator_id)),
                       Member("timestamp", Str("time of approval"))>>)
ParametersObject(c) == Object("parameters", Numbers(ParameterKeys, c.parameters))
LimitsObject(c) ==
  Object("risk_limits", Numbers(LimitKeys, [k \in Limits |-> Whole(c.risk_limits[k])]))

\* Variant: the keys in the order in which the dictionary was built.
DocumentUnsorted(c) ==
  Member("strategy_id", Str(c.strategy_id)) \o Member("regime_label", Str(c.regime_label))
  \o ParametersObject(c) \o LimitsObject(c) \o ApprovalObject(c)
Document(c) ==
  ApprovalObject(c) \o ParametersObject(c) \o Member("regime_label", Str(c.regime_label))
  \o LimitsObject(c) \o Member("strategy_id", Str(c.strategy_id))

\* What a reader finds of a document of which only a part is there: some of the
\* tokens, and of the next one perhaps a part.
Pieces(token) ==
  CASE token.kind = "str" -> {Cut(token.text), Cut("part of a text")}
    [] token.kind = "num" -> {Num(Whole(n)) : n \in 0 .. token.whole}
    [] OTHER -> {}
Part(doc, n) == {SubSeq(doc, 1, n)}
                \cup IF n < Len(doc)
                     THEN {Append(SubSeq(doc, 1, n), piece) : piece \in Pieces(doc[n + 1])}
                     ELSE {}

\* How far an old text may be ahead of a new one that is written over it: by so
\* many tokens, and inside a token as well.
Shift == [tokens : Int, inside : BOOLEAN]

\* What is left of two tokens when the text changes over inside them: one of
\* them, or something of both, of numbers the digits (one each) if these do not
\* fall on each other.
Seams(front, rear, inside) ==
  CASE front.kind = "str" /\ rear.kind = "str" /\ front # rear ->
         {front, rear, Str("part of a text")}
    [] front.kind = "num" /\ rear.kind = "num" /\ inside ->
         {front, rear, Num(<<10 * front.whole + rear.whole, rear.frac>>)}
    [] OTHER -> {}

\* What the file holds when n tokens of a document have been written over an old
\* text: the head of the one and the tail of the other, or a part of the document
\* once the old text is used up.
Overwritten(doc, n, old, shift) ==
  LET head == SubSeq(doc, 1, n)
      tail == SubSeq(old, n + shift.tokens + 1, Len(old))
  IN  IF tail = <<>> THEN Part(doc, n)
      ELSE {head \o tail} \cup
           IF n = Len(doc) THEN {}
           ELSE {Append(head, seam) \o Tail(tail) :
                   seam \in Seams(doc[n + 1], Head(tail), shift.inside)}

----------------------------------------------------------------------------
(* config_loader.c                                                         *)

Nothing == [kind |-> "nothing"]    \* find_value returns NULL
End     == [kind |-> "end"]        \* it returns a pointer to the final NUL

\* find_value: the first string equal to the key, the first colon after it, and
\* what follows that.
FindValue(text, key) ==
  LET name  == SelectInSeq(text, LAMBDA t : t = Str(key))
      colon == SelectInSubSeq(text, name + 1, Len(text), LAMBDA t : t = Mark(":"))
  IN IF name = 0 \/ colon = 0 THEN Nothing
     ELSE IF colon = Len(text) THEN End
     ELSE text[colon + 1]

IsNumber(t)  == t.kind = "num"
IsInteger(t) == IsNumber(t) /\ t.frac = "none"
IsString(t)  == t.kind \in {"str", "cut"}
Value(t)     == <<t.whole, t.frac>>

\* checked_positive(require_int(...)), and (float)d > 0
PositiveInteger(t) == IsInteger(t) /\ t.whole > 0
PositiveFloat(t)   == /\ IsNumber(t)
                      /\ t.whole > 0 \/ (t.whole = 0 /\ t.frac = "half")

\* Variant: the ceiling itself is refused.
CheckedLimitStrict(text, key) ==
  LET t == FindValue(text, key) IN IsInteger(t) /\ t.whole \in 1 .. Ceiling[key] - 1
\* checked_limit
CheckedLimit(text, key) ==
  LET t == FindValue(text, key) IN IsInteger(t) /\ t.whole \in 1 .. Ceiling[key]

\* opt_int: absent or a string is no value; strtod reads 0 from anything but a
\* number, and a fraction is cut off.
OptIntAbsent(t) == t.kind = "nothing" \/ IsString(t)
OptInt(t)       == IF IsNumber(t) THEN t.whole ELSE 0

\* Variant: the ceiling of the optional limit is not looked at.
InFlightAcceptedUnchecked(text) ==
  LET t == FindValue(text, "max_in_flight") IN OptIntAbsent(t) \/ OptInt(t) > 0
InFlightAccepted(text) ==
  LET t == FindValue(text, "max_in_flight")
  IN  OptIntAbsent(t) \/ OptInt(t) \in 1 .. Ceiling["max_in_flight"]

InFlightLimit(text) ==
  LET t == FindValue(text, "max_in_flight")
  IN  IF OptIntAbsent(t) THEN Ceiling["max_in_flight"] ELSE OptInt(t)

StrategyIndex == [momentum |-> 0, mean_reversion |-> 1, defensive |-> 2]

\* load_config comes to its end; any other text is refused, with exit(1).
Accepts(text) ==
  LET v(key) == FindValue(text, key) IN
  /\ IsString(v("strategy_id")) /\ v("strategy_id").text \in DOMAIN StrategyIndex
  /\ PositiveInteger(v("base_lot"))
  /\ \A key \in {"lookback", "window"} :
       IsInteger(v(key)) /\ v(key).whole \in 1 .. RingSize - 1
  /\ IsInteger(v("spread_floor"))
  /\ \A key \in {"entry_thresh", "dev_thresh", "pos_scalar"} : PositiveFloat(v(key))
  /\ \A key \in Limits \ {"max_in_flight"} : CheckedLimit(text, key)
  /\ InFlightAccepted(text)

\* g_strategy, g_risk and g_strategy_id after load_config.
Loaded(text) ==
  [parameters  |-> [key \in KeySet(ParameterKeys) |->
                      Value(FindValue(text, key))],
   risk_limits |-> [key \in Limits |->
                      IF key = "max_in_flight" THEN InFlightLimit(text)
                      ELSE FindValue(text, key).whole],
   strategy    |-> StrategyIndex[FindValue(text, "strategy_id").text]]

----------------------------------------------------------------------------
(* What passes from the approval pipeline to the loader.                   *)

Number      == Nat \X Fractions
Positive(v) == v[1] > 0 \/ v[2] = "half"
LoaderKeys  == KeySet(ParameterKeys) \cup Limits \cup {"strategy_id"}

\* The configs the loader is written for; it would take a text that is one of
\* its keys for that key.
Deliverable(c) ==
  /\ c.strategy_id \in DOMAIN StrategyIndex
  /\ c.regime_label \notin LoaderKeys
  /\ c.parameters \in [KeySet(ParameterKeys) -> Number]
  /\ \A key \in KeySet(ParameterKeys) : Positive(c.parameters[key])
  /\ \A key \in {"base_lot", "spread_floor"} : c.parameters[key][2] = "none"
  /\ \A key \in {"lookback", "window"} :
       c.parameters[key] \in (1 .. RingSize - 1) \X {"none"}
  /\ c.risk_limits \in [Limits -> Nat]
  /\ \A limit \in Limits : c.risk_limits[limit] \in 1 .. Ceiling[limit]
=============================================================================
