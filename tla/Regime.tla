------------------------------- MODULE Regime -------------------------------
(***************************************************************************)
(* The market regime of a day (ingest_validate_eod.py and                  *)
(* percentile_classifier.py): daily bars are downloaded, validated and     *)
(* kept in a file; volatility and trend strength of each day are ranked    *)
(* within the history up to the day that is asked for, and the two ranks   *)
(* give the label that run_sweep is started with.                          *)
(*                                                                         *)
(* Dates are numbers.  A bar may come without a close, or without some     *)
(* other column.  Volatility is any function of the closes of its window;  *)
(* trend strength and the interpolation of percentiles are exact           *)
(* fractions, floats in the code.  A table whose index has no duplicates   *)
(* is a function of the index, and sorting is said by ranks: how many come *)
(* before.                                                                 *)
(***************************************************************************)
EXTENDS Integers, Sequences, SequencesExt, FiniteSets, FiniteSetsExt

CONSTANTS
  Markets,             (* the closes of all days there are                  *)
  NaN,                 (* no close                                          *)
  Partial,             (* the days whose bar lacks another column           *)
  Volatility(_),       (* std of the log returns of a window, annualized    *)
  LongWindow,          (* 20: returns in a window, closes in the slow mean  *)
  ShortWindow,         (* 5: closes in the fast mean                        *)
  CalibrationWindow,   (* --calibration_window                              *)
  EvaluationDays,      (* 126                                               *)
  Unknown              (* no file, no label                                 *)

Ratios == [num : Int, den : Nat \ {0}]

\* The closes that rolling(LongWindow) of the returns reaches back to.
ClosesTo(closes, d) == [k \in 1 .. LongWindow + 1 |-> closes[d - LongWindow - 1 + k]]

ASSUME WindowAssumption == /\ LongWindow \in Nat \ {0}
                           /\ ShortWindow \in 1 .. LongWindow
                           /\ CalibrationWindow \in Nat /\ EvaluationDays \in Nat
ASSUME MarketAssumption == Markets \subseteq Seq((Nat \ {0}) \cup {NaN})
ASSUME VolatilityAssumption ==
  \A closes \in Markets : \A d \in LongWindow + 1 .. Len(closes) :
    NaN \notin Range(ClosesTo(closes, d)) => Volatility(ClosesTo(closes, d)) \in Ratios

VARIABLES
  market,      (* the closes of one of Markets                              *)
  validated,   (* the file of validated bars, or Unknown                    *)
  label        (* what the classifier printed last                          *)

regime_vars == <<market, validated, label>>

RegimeInit == /\ market \in Markets
              /\ validated = Unknown /\ label = Unknown

----------------------------------------------------------------------------
(* Ingest                                                                  *)

\* The bars up to a day as they may be downloaded: in order, or not, or with a
\* day twice.
Bars(last)      == [d \in 1 .. last |->
                     [date |-> d, close |-> market[d], whole |-> d \notin Partial]]
Downloads(last) == {Bars(last), Reverse(Bars(last)), Append(Bars(last), Last(Bars(last)))}

\* sort_index, of bars on different dates.
SortIndex(bars) ==
  LET UpTo(date) == Cardinality({i \in DOMAIN bars : bars[i].date <= date})
  IN  [r \in DOMAIN bars |-> bars[CHOOSE i \in DOMAIN bars : UpTo(bars[i].date) = r]]

ValidOhlcv(bars) == /\ \A i, j \in DOMAIN bars : bars[i].date = bars[j].date => i = j
                    /\ Len(bars) >= CalibrationWindow + EvaluationDays

\* A download that fails validation leaves the file of the last one.
Ingest(bars) == /\ validated' = IF ValidOhlcv(bars) THEN SortIndex(bars) ELSE validated
                /\ UNCHANGED <<market, label>>

----------------------------------------------------------------------------
(* Features                                                                *)

NotBelow(a, b)   == a.num * b.den >= b.num * a.den
LastOf(closes, n) == SumFunctionOnSet(closes, LongWindow - n + 2 .. LongWindow + 1)
Distance(a, b)   == IF a < b THEN b - a ELSE a - b

\* |SMA5 - SMA20| / SMA20
TrendStrength(closes) ==
  LET slow == LastOf(closes, LongWindow)
      fast == LastOf(closes, ShortWindow)
  IN  [num |-> Distance(fast * LongWindow, slow * ShortWindow), den |-> slow * ShortWindow]

\* calculate_market_features: a row for each day that has LongWindow returns
\* behind it, no close missing among them and a bar that is whole (dropna).
Features(bars) ==
  LET sorted    == SortIndex(bars)
      closes    == [i \in DOMAIN sorted |-> sorted[i].close]
      complete  == {i \in LongWindow + 1 .. Len(sorted) :
                      sorted[i].whole /\ NaN \notin Range(ClosesTo(closes, i))}
      Place(date) == CHOOSE i \in complete : sorted[i].date = date
  IN  [date \in {sorted[i].date : i \in complete} |->
         [vol   |-> Volatility(ClosesTo(closes, Place(date))),
          trend |-> TrendStrength(ClosesTo(closes, Place(date)))]]

----------------------------------------------------------------------------
(* Classification                                                          *)

Column(rows, name) == [date \in DOMAIN rows |-> rows[date][name]]

\* The value at place r of the sorted values: fewer than r are below it, and r or
\* more are not above it.
Ranked(values, r) ==
  values[CHOOSE k \in DOMAIN values :
           /\ Cardinality({j \in DOMAIN values : ~NotBelow(values[j], values[k])}) < r
           /\ Cardinality({j \in DOMAIN values : NotBelow(values[k], values[j])}) >= r]

\* np.percentile: linear between the two nearest ranks.
Percentile(values, q) ==
  LET place == (Cardinality(DOMAIN values) - 1) * q
      rest  == place % 100
      low   == Ranked(values, place \div 100 + 1)
      high  == Ranked(values, place \div 100 + (IF rest = 0 THEN 1 ELSE 2))
  IN  [num |-> low.num * high.den * (100 - rest) + high.num * low.den * rest,
       den |-> 100 * low.den * high.den]

\* Variant: the percentiles are those of all days in the file.
HistoryWhole(rows, target) == rows
\* Up to and including the day.
History(rows, target) == [date \in {d \in DOMAIN rows : d <= target} |-> rows[date]]

\* classify_market_regime
RegimeOf(rows, target) ==
  LET history == History(rows, target)
      AtLeast(name, q) == NotBelow(history[target][name], Percentile(Column(history, name), q))
  IN  IF AtLeast("vol", 75) THEN "volatile"
      ELSE IF AtLeast("trend", 60) THEN "trending"
      ELSE "ranging"

\* A day that has no row is an error.
Classify(target) ==
  /\ validated # Unknown
  /\ LET rows == Features(validated) IN
       IF target \in DOMAIN rows
       THEN label' = [date |-> target, regime |-> RegimeOf(rows, target)]
       ELSE label' = Unknown
  /\ UNCHANGED <<market, validated>>

RegimeNext ==
  \/ \E last \in DOMAIN market : \E bars \in Downloads(last) : Ingest(bars)
  \/ \E target \in DOMAIN market : Classify(target)

RegimeSpec == RegimeInit /\ [][RegimeNext]_regime_vars

----------------------------------------------------------------------------
(* Properties.                                                             *)

\* What the classifier computes, in words: a day's label is that of the evening
\* of the day, whatever is downloaded later and in whatever order, and the
\* interpolated thresholds come down to counting.  The day is volatile when at
\* least three quarters of all the days before it were no more volatile, else
\* trending when three fifths of them had no stronger trend; a tie is on the side
\* of the defensive strategy.  (src/README.md:619 has the thresholds from a
\* calibration window instead: CalibratedBefore.)
NoMore(values, day) ==
  Cardinality({d \in DOMAIN values : d < day /\ NotBelow(values[day], values[d])})
LabelIsRank ==
  label # Unknown =>
    LET history  == Features(Bars(label.date))
        before   == Cardinality(DOMAIN history) - 1
        volatile == 4 * NoMore(Column(history, "vol"), label.date) >= 3 * before
        trending == 5 * NoMore(Column(history, "trend"), label.date) >= 3 * before
    IN  /\ label.date \in DOMAIN history
        /\ label.regime = IF volatile THEN "volatile"
                          ELSE IF trending THEN "trending" ELSE "ranging"

\* src/README.md:600, 619 and 627: the thresholds are percentiles over a
\* calibration window that lies entirely before the day they are applied to.
\* Stated for any place of the window, and once there are days enough for one.
RegimeAgainst(sample, row) ==
  LET AtLeast(name, q) == NotBelow(row[name], Percentile(Column(sample, name), q))
  IN  IF AtLeast("vol", 75) THEN "volatile"
      ELSE IF AtLeast("trend", 60) THEN "trending"
      ELSE "ranging"
WindowsBefore(rows, day) ==
  {[d \in {d \in DOMAIN rows : first <= d /\ d <= last} |-> rows[d]] :
     first, last \in {d \in DOMAIN rows : d < day}}
CalibratedBefore ==
  label # Unknown =>
    LET rows    == Features(Bars(label.date))
        windows == {w \in WindowsBefore(rows, label.date) :
                      Cardinality(DOMAIN w) = CalibrationWindow}
    IN  windows # {} =>
          \E w \in windows : label.regime = RegimeAgainst(w, rows[label.date])

\* src/README.md:573: percentile thresholds make a single label for all days
\* impossible.  Stated for a full history of days that all differ.
AllDiffer(values) ==
  \A j, k \in DOMAIN values :
    NotBelow(values[j], values[k]) /\ NotBelow(values[k], values[j]) => j = k
NotOneLabel ==
  validated # Unknown =>
    LET rows == Features(validated) IN
      /\ Cardinality(DOMAIN rows) >= EvaluationDays
      /\ AllDiffer(Column(rows, "vol")) /\ AllDiffer(Column(rows, "trend"))
      => Cardinality({RegimeOf(rows, day) : day \in DOMAIN rows}) > 1
============================================================================
