--------------------------- MODULE DeploymentProofs ---------------------------
(***************************************************************************)
(* Proofs about the way of the parameters from the day's regime and the    *)
(* sweep to the trading core.                                              *)
(*                                                                         *)
(* The sweep, for every grid and list of measurements: the grid is         *)
(* lexicographic, by the place of each point; the first best wins (Scan is *)
(* what the loop knows of the part of the grid it has walked); a result is *)
(* refused only when the settings have changed (SweepStory).               *)
(*                                                                         *)
(* The config: a document is laid out the same way whatever the config,    *)
(* and each key of the loader stands in it once. The loader, for any text  *)
(* on the disk: main() gets what load_config has checked, because the file *)
(* is read once and the values are kept (Kept), and what it accepts is the *)
(* whole of what was pushed (LoaderStory).                                 *)
(*                                                                         *)
(* The label of the day, for every market: the file holds the bars up to   *)
(* some day, sorted (RegimeInv), a day's row does not depend on the bars   *)
(* behind it, and a value reaches an interpolated percentile exactly when  *)
(* enough values are below it or equal.                                    *)
(***************************************************************************)
EXTENDS EodDay, ConfigLoader, Folding

----------------------------------------------------------------------------
(* The sweep's selection.                                                  *)

Sharpe(list, i) == list[i].outcome.sharpe

\* w is the first best of the list, with ratio s.
FirstBest(list, w, s) ==
  /\ w \in 1 .. Len(list) /\ s \in Int /\ Sharpe(list, w) = s
  /\ \A i \in 1 .. Len(list) : Sharpe(list, i) # None =>
       /\ Sharpe(list, i) <= s
       /\ i < w => Sharpe(list, i) < s

NoneDefined(list) == \A i \in 1 .. Len(list) : Sharpe(list, i) = None

IsSeq(list) == \E S : list \in Seq(S)

\* A list of results, of measurements that are allowed, numbered from 0.
IsResults(list) ==
  /\ IsSeq(list)
  /\ \A i \in 1 .. Len(list) : /\ list[i].candidate_index = i - 1
                               /\ list[i].outcome \in Outcomes

Scan == /\ IsResults(results)
        /\ \/ /\ winner_index = None /\ winner_sharpe = None
              /\ NoneDefined(results)
           \/ /\ winner_index \in Nat
              /\ FirstBest(results, winner_index + 1, winner_sharpe)

SweepInv == Scan /\ WinnerIsFirstBest

\* Appending to a sequence of anything.
LEMMA AppendAny ==
  ASSUME NEW list, IsSeq(list), NEW e
  PROVE  /\ IsSeq(Append(list, e))
         /\ Len(list) \in Nat /\ Len(Append(list, e)) = Len(list) + 1
         /\ \A i \in 1 .. Len(list) : Append(list, e)[i] = list[i]
         /\ Append(list, e)[Len(list) + 1] = e
<1>1. PICK S : list \in Seq(S)  BY DEF IsSeq
<1>2. list \in Seq(S \cup {e})
  <2>1. Len(list) \in Nat /\ DOMAIN list = 1 .. Len(list) /\ list \in [1 .. Len(list) -> S]
    BY <1>1
  <2>2. list \in [1 .. Len(list) -> S \cup {e}]  BY <2>1
  <2>. QED  BY <2>1, <2>2
<1>3. Append(list, e) \in Seq(S \cup {e})  BY <1>2
<1>. QED  BY <1>2, <1>3 DEF IsSeq

\* A ratio is a number or None, never both.
LEMMA SharpeTyped ==
  ASSUME NEW o \in Outcomes
  PROVE  o.sharpe = None \/ o.sharpe \in Int
BY OutcomeAssumption DEF LegalOutcome

LEMMA ScanInit == Init => Scan
<1>. SUFFICES ASSUME Init PROVE Scan  OBVIOUS
<1>1. results = <<>> /\ winner_index = None /\ winner_sharpe = None  BY DEF Init
<1>2. results \in Seq({}) /\ Len(results) = 0  BY <1>1
<1>3. IsResults(results)  BY <1>2 DEF IsResults, IsSeq
<1>. QED  BY <1>1, <1>2, <1>3 DEF Scan, NoneDefined

\* One more candidate.
LEMMA ScanStep ==
  ASSUME Scan, NEW outcome \in Outcomes, EvaluateCandidate(outcome)
  PROVE  Scan'
<1>. DEFINE n == Len(results)
            e == [candidate_index |-> n, parameters |-> Grid[n + 1], outcome |-> outcome]
<1>1. results' = Append(results, e)  BY DEF EvaluateCandidate
<1>0. IsSeq(results)  BY DEF Scan, IsResults
<1>. HIDE DEF e
<1>2. /\ IsSeq(results')
      /\ n \in Nat /\ Len(results') = n + 1
      /\ \A i \in 1 .. n : results'[i] = results[i]
      /\ results'[n + 1] = e
  BY <1>0, <1>1, AppendAny
<1>. HIDE DEF n
<1>3. e.candidate_index = n /\ e.outcome = outcome  BY DEF e
<1>4. /\ \A i \in 1 .. n : Sharpe(results', i) = Sharpe(results, i)
      /\ Sharpe(results', n + 1) = outcome.sharpe
  BY <1>2, <1>3 DEF Sharpe
<1>5. IsResults(results')
  <2>. SUFFICES ASSUME NEW i \in 1 .. n + 1
                PROVE  results'[i].candidate_index = i - 1 /\ results'[i].outcome \in Outcomes
    BY <1>2 DEF IsResults
  <2>1. CASE i \in 1 .. n
    BY <2>1, <1>2 DEF Scan, IsResults, n
  <2>2. CASE i = n + 1
    BY <2>2, <1>2, <1>3
  <2>. QED  BY <2>1, <2>2, <1>2
<1>6. outcome.sharpe = None \/ outcome.sharpe \in Int  BY SharpeTyped
<1>7. CASE Wins(outcome)
  <2>1. winner_index' = n /\ winner_sharpe' = outcome.sharpe /\ outcome.sharpe \in Int
    BY <1>6, <1>7 DEF EvaluateCandidate, Wins, n
  <2>2. \A i \in 1 .. n : Sharpe(results, i) # None => Sharpe(results, i) < outcome.sharpe
    <3>1. CASE NoneDefined(results)  BY <3>1 DEF NoneDefined, n
    <3>2. CASE /\ winner_index \in Nat
               /\ FirstBest(results, winner_index + 1, winner_sharpe)
      <4>. SUFFICES ASSUME NEW i \in 1 .. n, Sharpe(results, i) # None
                    PROVE  Sharpe(results, i) < outcome.sharpe
        OBVIOUS
      <4>1. winner_sharpe \in Int /\ Sharpe(results, i) <= winner_sharpe
        BY <3>2 DEF FirstBest, n
      <4>2. winner_sharpe < outcome.sharpe
        BY <4>1, <1>7, <2>1, NoneAssumption DEF Wins
      <4>3. results[i].outcome \in Outcomes  BY DEF Scan, IsResults, n
      <4>4. Sharpe(results, i) \in Int  BY <4>3, SharpeTyped DEF Sharpe
      <4>. QED  BY <4>1, <4>2, <4>4, <2>1
    <3>. QED  BY <3>1, <3>2 DEF Scan
  <2>3. FirstBest(results', n + 1, winner_sharpe')
    <3>1. \A i \in 1 .. n + 1 : Sharpe(results', i) # None =>
            /\ Sharpe(results', i) <= outcome.sharpe
            /\ i < n + 1 => Sharpe(results', i) < outcome.sharpe
      <4>. SUFFICES ASSUME NEW i \in 1 .. n + 1, Sharpe(results', i) # None
                    PROVE  /\ Sharpe(results', i) <= outcome.sharpe
                           /\ i < n + 1 => Sharpe(results', i) < outcome.sharpe
        OBVIOUS
      <4>1. CASE i = n + 1  BY <4>1, <1>2, <1>4, <2>1
      <4>2. CASE i \in 1 .. n
        <5>1. Sharpe(results, i) # None /\ Sharpe(results', i) = Sharpe(results, i)
          BY <4>2, <1>4
        <5>2. results[i].outcome \in Outcomes  BY <4>2 DEF Scan, IsResults, n
        <5>3. Sharpe(results, i) \in Int  BY <5>1, <5>2, SharpeTyped DEF Sharpe
        <5>. QED  BY <5>1, <5>3, <4>2, <2>1, <2>2
      <4>. QED  BY <4>1, <4>2, <1>2
    <3>. QED  BY <3>1, <1>2, <1>4, <2>1 DEF FirstBest
  <2>. QED  BY <1>2, <1>5, <2>1, <2>3 DEF Scan
<1>8. CASE ~Wins(outcome)
  <2>1. winner_index' = winner_index /\ winner_sharpe' = winner_sharpe
    BY <1>8 DEF EvaluateCandidate
  <2>2. CASE winner_index = None /\ winner_sharpe = None /\ NoneDefined(results)
    <3>1. outcome.sharpe = None  BY <2>2, <1>8 DEF Wins
    <3>2. NoneDefined(results')
      BY <3>1, <2>2, <1>2, <1>4 DEF NoneDefined, n
    <3>. QED  BY <3>2, <2>1, <2>2, <1>5 DEF Scan
  <2>3. CASE /\ winner_index \in Nat
             /\ FirstBest(results, winner_index + 1, winner_sharpe)
    <3>1. winner_sharpe \in Int /\ winner_index + 1 \in 1 .. n
      BY <2>3 DEF FirstBest, n
    <3>2. outcome.sharpe # None => outcome.sharpe <= winner_sharpe
      BY <3>1, <1>6, <1>8, NoneAssumption DEF Wins
    <3>3. \A i \in 1 .. n + 1 : Sharpe(results', i) # None =>
            /\ Sharpe(results', i) <= winner_sharpe
            /\ i < winner_index + 1 => Sharpe(results', i) < winner_sharpe
      <4>. SUFFICES ASSUME NEW i \in 1 .. n + 1, Sharpe(results', i) # None
                    PROVE  /\ Sharpe(results', i) <= winner_sharpe
                           /\ i < winner_index + 1 => Sharpe(results', i) < winner_sharpe
        OBVIOUS
      <4>1. CASE i = n + 1  BY <4>1, <1>2, <1>4, <2>3, <3>1, <3>2
      <4>2. CASE i \in 1 .. n  BY <4>2, <1>4, <2>3 DEF FirstBest, n
      <4>. QED  BY <4>1, <4>2, <1>2
    <3>4. FirstBest(results', winner_index + 1, winner_sharpe)
      BY <3>1, <3>3, <1>2, <1>4, <2>3 DEF FirstBest, n
    <3>. QED  BY <3>4, <2>1, <2>3, <1>5 DEF Scan
  <2>. QED  BY <2>2, <2>3 DEF Scan
<1>. QED  BY <1>7, <1>8

\* Writing the result turns what the loop knows into the property.
LEMMA ResultIsFirstBest ==
  ASSUME Scan, WriteResult
  PROVE  WinnerIsFirstBest'
<1>. DEFINE w == (IF winner_index = None THEN 0 ELSE winner_index) + 1
            r == sweep_result'
<1>1. /\ r.results = results /\ r.winner = results[w]
      /\ r.selection_status = SelectionStatus
  BY DEF WriteResult
<1>2. PICK S : results \in Seq(S)  BY DEF Scan, IsResults, IsSeq
<1>3. Len(results) \in Nat /\ DOMAIN results = 1 .. Len(results) /\ Len(results) > 0
  BY <1>2 DEF WriteResult
<1>4. w \in 1 .. Len(results)
  <2>1. CASE winner_index = None  BY <2>1, <1>3
  <2>2. CASE winner_index \in Nat /\ FirstBest(results, winner_index + 1, winner_sharpe)
    BY <2>2, NoneAssumption DEF FirstBest
  <2>. QED  BY <2>1, <2>2 DEF Scan
<1>5. results[w].candidate_index + 1 = w
  BY <1>4 DEF Scan, IsResults
<1>. HIDE DEF w, r
<1>6. CASE winner_index = None /\ NoneDefined(results)
  <2>1. w = 1 /\ r.selection_status = "NOT_OPTIMIZED"
    BY <1>1, <1>6 DEF w, SelectionStatus
  <2>2. {i \in DOMAIN r.results : r.results[i].outcome.sharpe # None} = {}
    BY <1>1, <1>3, <1>6 DEF NoneDefined, Sharpe
  <2>. QED  BY <1>1, <1>5, <2>1, <2>2 DEF WinnerIsFirstBest, r
<1>7. CASE winner_index \in Nat /\ FirstBest(results, winner_index + 1, winner_sharpe)
  <2>1. w = winner_index + 1 /\ r.selection_status = "OPTIMIZED"
    BY <1>1, <1>7, NoneAssumption DEF w, SelectionStatus
  <2>2. Sharpe(results, w) = winner_sharpe /\ winner_sharpe \in Int
    BY <1>7, <2>1 DEF FirstBest
  <2>3. w \in {i \in DOMAIN r.results : r.results[i].outcome.sharpe # None}
    BY <2>2, <1>1, <1>3, <1>4, NoneAssumption DEF Sharpe
  <2>4. \A i \in {j \in DOMAIN r.results : r.results[j].outcome.sharpe # None} :
          /\ r.results[i].outcome.sharpe <= r.results[w].outcome.sharpe
          /\ i < w => r.results[i].outcome.sharpe < r.results[w].outcome.sharpe
    BY <1>1, <1>3, <1>7, <2>1, <2>2 DEF FirstBest, Sharpe
  <2>. QED  BY <1>1, <1>5, <2>1, <2>3, <2>4 DEF WinnerIsFirstBest, r
<1>. QED  BY <1>6, <1>7 DEF Scan

LEMMA SweepInvInit == Init => SweepInv
BY ScanInit DEF SweepInv, Init, WinnerIsFirstBest

LEMMA SweepInvNext == SweepInv /\ [Next]_vars => SweepInv'
<1>. SUFFICES ASSUME SweepInv, [Next]_vars PROVE SweepInv'  OBVIOUS
<1>1. ASSUME NEW outcome \in Outcomes, EvaluateCandidate(outcome) PROVE SweepInv'
  BY <1>1, ScanStep DEF SweepInv, EvaluateCandidate, WinnerIsFirstBest
<1>2. CASE WriteResult
  <2>1. Scan'  BY <1>2 DEF SweepInv, Scan, WriteResult
  <2>. QED  BY <2>1, <1>2, ResultIsFirstBest DEF SweepInv
<1>3. CASE UNCHANGED <<results, winner_index, winner_sharpe, sweep_result>>
  BY <1>3 DEF SweepInv, Scan, WinnerIsFirstBest
<1>4. ASSUME NEW regime \in Regimes, StartSweep(regime) PROVE SweepInv'
  BY <1>3, <1>4 DEF StartSweep
<1>5. CASE BuildCandidateConfig  BY <1>3, <1>5 DEF BuildCandidateConfig
<1>6. CASE EditSettings  BY <1>3, <1>6 DEF EditSettings
<1>7. CASE UNCHANGED vars  BY <1>3, <1>7 DEF vars
<1>. QED  BY <1>1, <1>2, <1>4, <1>5, <1>6, <1>7 DEF Next

\* Whatever was measured, the winner is the first of the highest defined Sharpe
\* ratios; without one it is the first candidate, marked NOT_OPTIMIZED
\* (run_sweep).
THEOREM SelectionCorrect == Spec => []WinnerIsFirstBest
<1>1. SweepInv => WinnerIsFirstBest  BY DEF SweepInv
<1>. QED  BY SweepInvInit, SweepInvNext, <1>1, PTL DEF Spec

----------------------------------------------------------------------------
(* The grid.                                                               *)

LEMMA AxesAre ==
  ASSUME NEW strategy \in DOMAIN Axes
  PROVE  LET a == Axes[strategy]
         IN  /\ Len(a) \in Nat \ {0} /\ DOMAIN a = 1 .. Len(a)
             /\ \A j \in DOMAIN a : \A k \in DOMAIN a : a[j] = a[k] => j = k
<1>1. CASE strategy = "momentum"
  BY <1>1 DEF Axes
<1>2. CASE strategy = "mean_reversion"
  BY <1>2 DEF Axes
<1>3. CASE strategy = "defensive"
  BY <1>3 DEF Axes
<1>4. DOMAIN Axes = {"momentum", "mean_reversion", "defensive"}
  BY DEF Axes
<1>. QED
  BY <1>1, <1>2, <1>3, <1>4

\* Points of any strategy's grid, and of the parts it is built from.
Names  == UNION {AxisSet(strategy) : strategy \in DOMAIN Axes}
Point  == UNION {[S -> Number] : S \in SUBSET Names}
Points == Seq(Point) \ {<<>>}
Values == Seq(Number) \ {<<>>}

\* w is the point with one more value.
Carries(w, point, axis, value) ==
  /\ DOMAIN w = DOMAIN point \cup {axis} /\ w[axis] = value
  /\ \A name \in DOMAIN point \ {axis} : w[name] = point[name]

LEMMA WithIs ==
  ASSUME NEW point \in Point, NEW axis \in Names, NEW value \in Number
  PROVE  /\ With(point, axis, value) \in Point
         /\ Carries(With(point, axis, value), point, axis, value)
<1>. DEFINE one == [key \in {axis} |-> value]
            w   == With(point, axis, value)
<1>1. PICK S \in SUBSET Names : point \in [S -> Number]
  BY DEF Point
<1>2. DOMAIN one = {axis} /\ one[axis] = value
  OBVIOUS
<1>3. w = [key \in S \cup {axis} |-> IF key \in {axis} THEN one[key] ELSE point[key]]
  <2>1. DOMAIN point = S
    BY <1>1
  <2>. HIDE DEF one
  <2>. QED
    BY <1>2, <2>1, Zenon DEF With, Update, one
<1>. HIDE DEF one
<1>4. w \in [S \cup {axis} -> Number]
  <2>1. ASSUME NEW key \in S \cup {axis}
        PROVE  (IF key \in {axis} THEN one[key] ELSE point[key]) \in Number
    BY <1>1, <1>2
  <2>. HIDE DEF w
  <2>. QED
    BY <1>3, <2>1
<1>5. S \cup {axis} \in SUBSET Names
  OBVIOUS
<1>6. w \in Point
  <2>. HIDE DEF w
  <2>. QED
    BY <1>4, <1>5 DEF Point
<1>7. w[axis] = value /\ \A name \in S \ {axis} : w[name] = point[name]
  <2>. HIDE DEF w
  <2>. QED
    BY <1>2, <1>3
<1>. QED
  BY <1>1, <1>4, <1>6, <1>7 DEF Carries

\* itertools.product, one axis at a time: point i with value j comes at place
\* (i - 1) * m + j.
IsExtension(longer, points, axis, values) ==
  IsTable(longer, Len(points), Len(values),
          [i \in 1 .. Len(points) |->
            [j \in 1 .. Len(values) |-> With(points[i], axis, values[j])]])

LEMMA ExtendIs ==
  ASSUME NEW points \in Points, NEW axis \in Names, NEW values \in Values
  PROVE  /\ Extend(points, axis, values) \in Points
         /\ IsExtension(Extend(points, axis, values), points, axis, values)
<1>. DEFINE n == Len(points)
            m == Len(values)
            row(i) == [j \in 1 .. m |-> With(points[i], axis, values[j])]
            rows == [i \in 1 .. n |-> row(i)]
            longer == Extend(points, axis, values)
<1>1. /\ points \in Seq(Point) /\ n \in Nat \ {0} /\ DOMAIN points = 1 .. n
      /\ \A i \in 1 .. n : points[i] \in Point
  BY DEF Points
<1>2. /\ m \in Nat \ {0} /\ DOMAIN values = 1 .. m
      /\ \A j \in 1 .. m : values[j] \in Number
  BY DEF Values
<1>3. longer = FlattenSeq(rows)
  <2>. HIDE DEF n, m
  <2>. QED
    BY <1>1, <1>2, Zenon DEF Extend
<1>. HIDE DEF n, m, longer
<1>4. ASSUME NEW i \in 1 .. n  PROVE row(i) \in Seq(Point) /\ Len(row(i)) = m
  <2>1. \A j \in 1 .. m : With(points[i], axis, values[j]) \in Point
    BY <1>1, <1>2, WithIs
  <2>2. row(i) \in [1 .. m -> Point]
    BY <2>1
  <2>. HIDE DEF row
  <2>. QED
    BY <1>2, <2>2
<1>5. rows \in [1 .. n -> Seq(Point)] /\ \A i \in 1 .. n : Len(rows[i]) = m
  <2>. HIDE DEF row
  <2>. QED
    BY <1>4
<1>6. longer \in Seq(Point) /\ IsTable(longer, n, m, rows)
  <2>. HIDE DEF rows
  <2>. QED
    BY <1>1, <1>2, <1>3, <1>5, FlattenTable
<1>7. longer # <<>>
  <2>1. 1 \in 1 .. n /\ 1 \in 1 .. m
    BY <1>1, <1>2
  <2>2. PlaceOf(1, 1, m) \in 1 .. Len(longer)
    <3>. HIDE DEF rows
    <3>. QED
      BY <1>6, <2>1 DEF IsTable
  <2>3. Len(<<>>) = 0 /\ 1 .. 0 = {}
    OBVIOUS
  <2>. QED
    BY <2>2, <2>3
<1>8. longer \in Points
  BY <1>6, <1>7 DEF Points
<1>9. IsExtension(longer, points, axis, values)
  BY <1>6 DEF IsExtension, n, m
<1>. QED
  BY <1>8, <1>9 DEF longer

\* The points of the first k axes: place[i][q] is where point i has its value of
\* axis a[q] in the list v[q].
Before(c, d, k) ==
  \E q \in 1 .. k : (\A r \in 1 .. q - 1 : c[r] = d[r]) /\ c[q] < d[q]
PlacesFit(points, place, a, v, k) ==
  \A i \in 1 .. Len(points) :
    /\ place[i] \in [1 .. k -> Nat]
    /\ DOMAIN points[i] = {a[q] : q \in 1 .. k}
    /\ \A q \in 1 .. k : /\ place[i][q] \in 1 .. Len(v[q])
                         /\ points[i][a[q]] = v[q][place[i][q]]
NoneLeftOut(points, place, v, k) ==
  \A c \in [1 .. k -> Nat] :
    (\A q \in 1 .. k : c[q] \in 1 .. Len(v[q])) => \E i \in 1 .. Len(points) : place[i] = c
InOrder(points, place, k) ==
  \A i \in 1 .. Len(points) : \A j \in 1 .. Len(points) :
    i < j => Before(place[i], place[j], k)
IsGrid(points, place, a, v, k) ==
  PlacesFit(points, place, a, v, k) /\ NoneLeftOut(points, place, v, k)
  /\ InOrder(points, place, k)

LEMMA GridStart ==
  ASSUME NEW a, NEW v
  PROVE  <<<<>>>> \in Points /\ \E place : IsGrid(<<<<>>>>, place, a, v, 0)
<1>. DEFINE start == <<<<>>>>
            none  == [q \in {} |-> 0]
            place == [i \in {1} |-> none]
<1>1. <<>> \in [{} -> Number] /\ {} \in SUBSET Names
  OBVIOUS
<1>2. <<>> \in Point
  BY <1>1 DEF Point
<1>3. start \in Seq(Point) /\ Len(start) = 1 /\ start[1] = <<>>
  BY <1>2
<1>4. start \in Points
  <2>1. Len(<<>>) = 0
    OBVIOUS
  <2>. QED
    BY <1>3, <2>1 DEF Points
<1>5. 1 .. 0 = {} /\ 1 .. 1 = {1} /\ DOMAIN <<>> = {}
  OBVIOUS
<1>6. none \in [{} -> Nat] /\ \A c \in [{} -> Nat] : c = none
  OBVIOUS
<1>7. place[1] = none
  OBVIOUS
<1>. HIDE DEF start, none, place
<1>8. PlacesFit(start, place, a, v, 0)
  <2>1. {a[q] : q \in 1 .. 0} = {}
    BY <1>5
  <2>. QED
    BY <1>3, <1>5, <1>6, <1>7, <2>1 DEF PlacesFit
<1>9. NoneLeftOut(start, place, v, 0)
  <2>1. ASSUME NEW c \in [1 .. 0 -> Nat]  PROVE place[1] = c /\ 1 \in 1 .. Len(start)
    BY <1>3, <1>5, <1>6, <1>7
  <2>. QED
    BY <2>1 DEF NoneLeftOut
<1>10. InOrder(start, place, 0)
  <2>1. \A i \in 1 .. 1 : \A j \in 1 .. 1 : ~(i < j)
    OBVIOUS
  <2>. QED
    BY <1>3, <2>1 DEF InOrder
<1>11. IsGrid(start, place, a, v, 0)
  BY <1>8, <1>9, <1>10 DEF IsGrid
<1>. QED
  BY <1>4, <1>11 DEF start

LEMMA GridStep ==
  ASSUME NEW k \in Nat, NEW a, NEW v, NEW points \in Points, NEW place,
         a[k + 1] \in Names, v[k + 1] \in Values, \A q \in 1 .. k : a[q] # a[k + 1],
         IsGrid(points, place, a, v, k)
  PROVE  \E longer_place :
           IsGrid(Extend(points, a[k + 1], v[k + 1]), longer_place, a, v, k + 1)
<1>. DEFINE axis   == a[k + 1]
            values == v[k + 1]
            longer == Extend(points, axis, values)
            n == Len(points)
            m == Len(values)
            Row(x) == CHOOSE i \in 1 .. n : \E j \in 1 .. m : x = PlaceOf(i, j, m)
            Col(x) == CHOOSE j \in 1 .. m : x = PlaceOf(Row(x), j, m)
            both(x) == [q \in 1 .. k + 1 |-> IF q = k + 1 THEN Col(x) ELSE place[Row(x)][q]]
            lp == [x \in 1 .. n * m |-> both(x)]
<1>1. /\ n \in Nat \ {0} /\ m \in Nat \ {0}
      /\ \A i \in 1 .. n : points[i] \in Point
      /\ \A j \in 1 .. m : values[j] \in Number
  <2>1. points \in Seq(Point) /\ points # <<>> /\ values \in Seq(Number) /\ values # <<>>
    BY DEF Points, Values
  <2>. HIDE DEF values
  <2>. QED
    BY <2>1
<1>2. /\ Len(longer) = n * m
      /\ \A i \in 1 .. n : \A j \in 1 .. m :
           /\ PlaceOf(i, j, m) \in 1 .. n * m
           /\ longer[PlaceOf(i, j, m)] = With(points[i], axis, values[j])
  <2>1. IsExtension(longer, points, axis, values)
    BY ExtendIs
  <2>. HIDE DEF longer, axis, values
  <2>. QED
    BY <2>1 DEF IsExtension, IsTable
<1>3. 1 .. k + 1 = (1 .. k) \cup {k + 1} /\ k + 1 \notin 1 .. k
  OBVIOUS
<1>. HIDE DEF longer, axis, values, n, m
<1>4. ASSUME NEW x \in 1 .. n * m
      PROVE  Row(x) \in 1 .. n /\ Col(x) \in 1 .. m /\ x = PlaceOf(Row(x), Col(x), m)
  <2>1. \E i \in 1 .. n : \E j \in 1 .. m : x = PlaceOf(i, j, m)
    BY <1>1, TablePlaces
  <2>2. Row(x) \in 1 .. n /\ \E j \in 1 .. m : x = PlaceOf(Row(x), j, m)
    BY <2>1
  <2>. HIDE DEF Row
  <2>. QED
    BY <2>2
<1>. HIDE DEF Row, Col
<1>5. \A x \in 1 .. n * m : lp[x] = both(x)
  OBVIOUS
<1>6. ASSUME NEW x \in 1 .. n * m
      PROVE  /\ both(x) \in [1 .. k + 1 -> Nat]
             /\ both(x)[k + 1] = Col(x)
             /\ \A q \in 1 .. k : both(x)[q] = place[Row(x)][q]
  <2>1. place[Row(x)] \in [1 .. k -> Nat] /\ Col(x) \in Nat
    BY <1>4, <1>1 DEF IsGrid, PlacesFit, n
  <2>2. ASSUME NEW q \in 1 .. k + 1
        PROVE  (IF q = k + 1 THEN Col(x) ELSE place[Row(x)][q]) \in Nat
    BY <1>3, <2>1
  <2>3. k + 1 \in 1 .. k + 1 /\ \A q \in 1 .. k : q \in 1 .. k + 1 /\ q # k + 1
    OBVIOUS
  <2>. QED
    BY <2>2, <2>3
<1>. HIDE DEF both, lp
<1>7. PlacesFit(longer, lp, a, v, k + 1)
  <2>1. ASSUME NEW x \in 1 .. n * m
        PROVE  /\ lp[x] \in [1 .. k + 1 -> Nat]
               /\ DOMAIN longer[x] = {a[q] : q \in 1 .. k + 1}
               /\ \A q \in 1 .. k + 1 : /\ lp[x][q] \in 1 .. Len(v[q])
                                        /\ longer[x][a[q]] = v[q][lp[x][q]]
    <3>. DEFINE i == Row(x)
                j == Col(x)
    <3>1. i \in 1 .. n /\ j \in 1 .. m /\ longer[x] = With(points[i], axis, values[j])
      BY <1>2, <1>4
    <3>2. lp[x] = both(x)
      BY <1>5
    <3>3. points[i] \in Point /\ values[j] \in Number /\ axis \in Names
      BY <1>1, <3>1 DEF axis
    <3>4. /\ DOMAIN points[i] = {a[q] : q \in 1 .. k}
          /\ \A q \in 1 .. k : /\ place[i][q] \in 1 .. Len(v[q])
                               /\ points[i][a[q]] = v[q][place[i][q]]
      BY <3>1 DEF IsGrid, PlacesFit, n
    <3>. HIDE DEF i, j
    <3>5. /\ DOMAIN longer[x] = DOMAIN points[i] \cup {axis}
          /\ longer[x][axis] = values[j]
          /\ \A name \in DOMAIN points[i] \ {axis} : longer[x][name] = points[i][name]
      <4>1. Carries(longer[x], points[i], axis, values[j])
        BY <3>1, <3>3, WithIs, Zenon
      <4>. QED
        BY <4>1 DEF Carries
    <3>6. DOMAIN longer[x] = {a[q] : q \in 1 .. k + 1}
      BY <1>3, <3>4, <3>5 DEF axis
    <3>7. ASSUME NEW q \in 1 .. k + 1
          PROVE  /\ both(x)[q] \in 1 .. Len(v[q])
                 /\ longer[x][a[q]] = v[q][both(x)[q]]
      <4>1. CASE q = k + 1
        <5>1. both(x)[q] = j
          BY <1>6, <4>1 DEF j
        <5>. QED
          BY <3>1, <3>5, <4>1, <5>1 DEF axis, values, m
      <4>2. CASE q \in 1 .. k
        <5>1. both(x)[q] = place[i][q]
          BY <1>6, <4>2 DEF i
        <5>2. a[q] \in DOMAIN points[i] \ {axis}
          BY <3>4, <4>2 DEF axis
        <5>. QED
          BY <3>4, <3>5, <4>2, <5>1, <5>2
      <4>. QED
        BY <1>3, <4>1, <4>2
    <3>. QED
      BY <1>6, <3>2, <3>6, <3>7
  <2>. QED
    BY <1>2, <2>1 DEF PlacesFit
<1>8. NoneLeftOut(longer, lp, v, k + 1)
  <2>1. ASSUME NEW c \in [1 .. k + 1 -> Nat], \A q \in 1 .. k + 1 : c[q] \in 1 .. Len(v[q])
        PROVE  \E x \in 1 .. n * m : lp[x] = c
    <3>. DEFINE first == [q \in 1 .. k |-> c[q]]
                j == c[k + 1]
    <3>1. first \in [1 .. k -> Nat] /\ \A q \in 1 .. k : first[q] = c[q]
      BY <1>3
    <3>2. \A q \in 1 .. k : first[q] \in 1 .. Len(v[q])
      BY <1>3, <2>1, <3>1
    <3>3. j \in 1 .. m
      BY <2>1 DEF m, values
    <3>. HIDE DEF first
    <3>4. PICK i \in 1 .. n : place[i] = first
      BY <3>1, <3>2 DEF IsGrid, NoneLeftOut, n
    <3>. DEFINE x == PlaceOf(i, j, m)
    <3>5. x \in 1 .. n * m
      BY <1>2, <3>3
    <3>6. Row(x) = i /\ Col(x) = j
      <4>1. /\ Row(x) \in 1 .. n /\ Col(x) \in 1 .. m
            /\ PlaceOf(Row(x), Col(x), m) = PlaceOf(i, j, m)
        BY <1>4, <3>5
      <4>2. Row(x) \in Nat /\ i \in Nat /\ m \in Nat
        BY <1>1, <4>1
      <4>. HIDE DEF x, j
      <4>. QED
        BY <3>3, <4>1, <4>2, TableOrder
    <3>. HIDE DEF x, j
    <3>7. \A q \in 1 .. k + 1 : both(x)[q] = c[q]
      <4>1. both(x)[k + 1] = c[k + 1]
        BY <1>6, <3>5, <3>6 DEF j
      <4>2. \A q \in 1 .. k : both(x)[q] = c[q]
        BY <1>6, <3>1, <3>4, <3>5, <3>6
      <4>. QED
        BY <1>3, <4>1, <4>2
    <3>8. both(x) = c
      BY <1>6, <3>5, <3>7
    <3>. QED
      BY <1>5, <3>5, <3>8
  <2>. QED
    BY <1>2, <2>1 DEF NoneLeftOut
<1>9. InOrder(longer, lp, k + 1)
  <2>1. ASSUME NEW x \in 1 .. n * m, NEW y \in 1 .. n * m, x < y
        PROVE  Before(both(x), both(y), k + 1)
    <3>1. /\ Row(x) \in 1 .. n /\ Col(x) \in 1 .. m /\ x = PlaceOf(Row(x), Col(x), m)
          /\ Row(y) \in 1 .. n /\ Col(y) \in 1 .. m /\ y = PlaceOf(Row(y), Col(y), m)
      BY <1>4
    <3>2. Row(x) \in Nat /\ Row(y) \in Nat /\ m \in Nat
      BY <1>1, <3>1
    <3>3. PlaceOf(Row(x), Col(x), m) < PlaceOf(Row(y), Col(y), m)
      BY <2>1, <3>1
    <3>4. Row(x) < Row(y) \/ (Row(x) = Row(y) /\ Col(x) < Col(y))
      BY <3>1, <3>2, <3>3, TableOrder
    <3>5. CASE Row(x) < Row(y)
      <4>1. Before(place[Row(x)], place[Row(y)], k)
        BY <3>1, <3>5 DEF IsGrid, InOrder, n
      <4>2. PICK q \in 1 .. k : /\ \A r \in 1 .. q - 1 : place[Row(x)][r] = place[Row(y)][r]
                                /\ place[Row(x)][q] < place[Row(y)][q]
        BY <4>1 DEF Before
      <4>3. q \in 1 .. k + 1 /\ \A r \in 1 .. q - 1 : r \in 1 .. k
        OBVIOUS
      <4>. QED
        BY <1>6, <4>2, <4>3 DEF Before
    <3>6. CASE Row(x) = Row(y) /\ Col(x) < Col(y)
      <4>1. k + 1 \in 1 .. k + 1 /\ (k + 1) - 1 = k
        OBVIOUS
      <4>2. \A r \in 1 .. k : both(x)[r] = both(y)[r]
        BY <1>6, <3>6
      <4>3. both(x)[k + 1] < both(y)[k + 1]
        BY <1>6, <3>6
      <4>. QED
        BY <4>1, <4>2, <4>3 DEF Before
    <3>. QED
      BY <3>4, <3>5, <3>6
  <2>. QED
    BY <1>2, <1>5, <2>1 DEF InOrder
<1>10. IsGrid(longer, lp, a, v, k + 1)
  BY <1>7, <1>8, <1>9 DEF IsGrid
<1>. QED
  BY <1>10 DEF longer, axis, values

\* The lists of values of a strategy, and how many points they have.
Lists(strategy, s) ==
  [k \in 1 .. Len(Axes[strategy]) |-> s.grids[strategy][Axes[strategy][k]]]

Distinct(list) ==
  \A i \in 1 .. Len(list) : \A j \in 1 .. Len(list) : list[i] = list[j] => i = j

LEMMA ListsAre ==
  ASSUME NEW s \in Settings, NEW strategy \in DOMAIN Axes,
         NEW k \in 1 .. Len(Axes[strategy])
  PROVE  /\ Axes[strategy][k] \in AxisSet(strategy) /\ Axes[strategy][k] \in Names
         /\ Lists(strategy, s)[k] = s.grids[strategy][Axes[strategy][k]]
         /\ Lists(strategy, s)[k] \in Values
         /\ Distinct(Lists(strategy, s)[k])
<1>. DEFINE axis == Axes[strategy][k]
            v    == s.grids[strategy][axis]
<1>1. axis \in AxisSet(strategy)
  BY AxesAre DEF AxisSet
<1>2. axis \in Names
  BY <1>1 DEF Names
<1>3. LegalSettings(s)
  BY SettingsAssumption
<1>4. v \in Seq(Number) /\ v # <<>> /\ IsInjective(v)
  BY <1>1, <1>3 DEF LegalSettings
<1>5. Lists(strategy, s)[k] = v
  BY DEF Lists
<1>. HIDE DEF axis, v
<1>6. v \in Values /\ DOMAIN v = 1 .. Len(v)
  BY <1>4 DEF Values
<1>7. Distinct(v)
  BY <1>4, <1>6 DEF IsInjective, Distinct
<1>. QED
  BY <1>1, <1>2, <1>5, <1>6, <1>7 DEF axis, v

\* ParameterGrid, axis by axis.
IsGridRun(run, n, a, v) ==
  /\ run[0] = <<<<>>>>
  /\ \A k \in 1 .. n : run[k] = Extend(run[k - 1], a[k], v[k])

LEMMA GridRunExists ==
  ASSUME NEW s \in Settings, NEW strategy \in DOMAIN Axes
  PROVE  LET a == Axes[strategy]
             n == Len(a)
         IN  \E run \in [0 .. n -> Points] :
               IsGridRun(run, n, a, Lists(strategy, s)) /\ ParameterGrid(strategy, s) = run[n]
<1>. DEFINE a == Axes[strategy]
            n == Len(a)
            v == Lists(strategy, s)
            U == 1 .. n
            base == <<<<>>>>
            st   == [p \in U \X Points |-> Extend(p[2], a[p[1]], v[p[1]])]
            Rec(i) == i = [S \in SUBSET U |->
                        IF S = {} THEN base
                        ELSE Extend(i[S \ {Max(S)}], a[Max(S)], s.grids[strategy][a[Max(S)]])]
            iter == CHOOSE i : Rec(i)
<1>0. n \in Nat \ {0} /\ DOMAIN a = U
  BY AxesAre
<1>1. \A k \in U : a[k] \in Names /\ v[k] \in Values /\ v[k] = s.grids[strategy][a[k]]
  BY ListsAre
<1>2. base \in Points
  BY GridStart
<1>. HIDE DEF a, v
<1>3. st \in [U \X Points -> Points]
  <2>1. ASSUME NEW p \in U \X Points  PROVE Extend(p[2], a[p[1]], v[p[1]]) \in Points
    <3>1. p[2] \in Points /\ a[p[1]] \in Names /\ v[p[1]] \in Values
      BY <1>1
    <3>. QED
      BY <3>1, ExtendIs
  <2>. QED
    BY <2>1
<1>4. PICK g \in [SUBSET U -> Points] : IsLeftFold(g, n, base, st)
  <2>. HIDE DEF base, st, n
  <2>1. n \in Nat /\ st \in [(1 .. n) \X Points -> Points]
    BY <1>0, <1>3
  <2>2. HasLeftFold(n, Points, base, st)
    BY <1>2, <2>1, LeftFoldExists, Zenon
  <2>. QED
    BY <2>2 DEF HasLeftFold
<1>5. Rec(g)
  <2>1. ASSUME NEW S \in SUBSET U, S # {}
        PROVE  g[S] = Extend(g[S \ {Max(S)}], a[Max(S)], s.grids[strategy][a[Max(S)]])
    <3>1. Max(S) \in S
      <4>1. S \subseteq 0 .. n
        BY <1>0
      <4>. HIDE DEF n
      <4>. QED
        BY <1>0, <2>1, <4>1, MaxShape
    <3>2. Max(S) \in U /\ S \ {Max(S)} \in SUBSET U
      BY <3>1
    <3>3. <<Max(S), g[S \ {Max(S)}]>> \in U \X Points
      BY <3>2
    <3>4. g[S] = st[<<Max(S), g[S \ {Max(S)}]>>]
      <4>. HIDE DEF st, base
      <4>. QED
        BY <1>4, <2>1 DEF IsLeftFold
    <3>5. v[Max(S)] = s.grids[strategy][a[Max(S)]]
      BY <1>1, <3>2
    <3>. QED
      BY <3>3, <3>4, <3>5
  <2>2. g[{}] = base
    <3>. HIDE DEF base, st
    <3>. QED
      BY <1>4 DEF IsLeftFold
  <2>. HIDE DEF base
  <2>. QED
    BY <2>1, <2>2
<1>6. Rec(iter)
  <2>. HIDE DEF Rec
  <2>. QED
    BY <1>5, Zenon
<1>7. ParameterGrid(strategy, s) = iter[U]
  BY <1>0, Zenon DEF ParameterGrid, FoldLeft, MapThenFoldSet, a
<1>. HIDE DEF iter
<1>. DEFINE run == [k \in 0 .. n |-> iter[1 .. k]]
<1>8. run[0] = base
  <2>1. 1 .. 0 = {} /\ {} \in SUBSET U /\ 0 \in 0 .. n
    BY <1>0
  <2>2. iter[{}] = base
    BY <1>6, <2>1
  <2>. QED
    BY <2>1, <2>2
<1>9. ASSUME NEW k \in U  PROVE run[k] = Extend(run[k - 1], a[k], v[k])
  <2>1. Max(1 .. k) = k /\ (1 .. k) \ {k} = 1 .. k - 1
    <3>1. k \in Nat \ {0}
      OBVIOUS
    <3>. QED
      BY <3>1, MaxInterval
  <2>2. 1 .. k \in SUBSET U /\ 1 .. k # {} /\ k \in 0 .. n /\ k - 1 \in 0 .. n
    <3>1. 1 \in 1 .. k
      OBVIOUS
    <3>2. k \in 0 .. n /\ k - 1 \in 0 .. n /\ 1 .. k \in SUBSET U
      BY <1>0
    <3>. QED
      BY <3>1, <3>2
  <2>3. iter[1 .. k] = Extend(iter[(1 .. k) \ {Max(1 .. k)}], a[Max(1 .. k)],
                              s.grids[strategy][a[Max(1 .. k)]])
    <3>. HIDE DEF base
    <3>. QED
      BY <1>6, <2>2
  <2>4. v[k] = s.grids[strategy][a[k]]
    BY <1>1
  <2>. QED
    BY <2>1, <2>2, <2>3, <2>4
<1>. HIDE DEF base
<1>10. run \in [0 .. n -> Points]
  <2>. DEFINE G == {k \in Nat : k <= n => run[k] \in Points}
  <2>1. 0 \in G
    BY <1>2, <1>8
  <2>2. ASSUME NEW k \in Nat, k \in G  PROVE k + 1 \in G
    <3>1. SUFFICES ASSUME k + 1 <= n  PROVE run[k + 1] \in Points
      OBVIOUS
    <3>2. k + 1 \in U /\ (k + 1) - 1 = k /\ k <= n
      BY <1>0, <3>1
    <3>3. run[k] \in Points
      BY <2>2, <3>2
    <3>4. run[k + 1] = Extend(run[k], a[k + 1], v[k + 1])
      BY <1>9, <3>2
    <3>. HIDE DEF run
    <3>. QED
      BY <1>1, <3>2, <3>3, <3>4, ExtendIs
  <2>3. Nat \subseteq G
    <3>. HIDE DEF G
    <3>. QED
      BY <2>1, <2>2, NatSetInduction
  <2>4. ASSUME NEW k \in 0 .. n  PROVE run[k] \in Points
    <3>1. k \in Nat /\ k <= n
      BY <1>0
    <3>. HIDE DEF run
    <3>. QED
      BY <2>3, <3>1
  <2>5. run = [k \in 0 .. n |-> run[k]]
    OBVIOUS
  <2>. HIDE DEF run, G
  <2>. QED
    BY <2>4, <2>5
<1>11. ParameterGrid(strategy, s) = run[n]
  BY <1>0, <1>7
<1>. HIDE DEF run
<1>12. IsGridRun(run, n, a, v)
  BY <1>8, <1>9 DEF IsGridRun, base
<1>. QED
  BY <1>10, <1>11, <1>12 DEF a, v

\* The grid of a strategy has every combination of its values once, in order.
LEMMA GridIs ==
  ASSUME NEW s \in Settings, NEW strategy \in DOMAIN Axes
  PROVE  LET a == Axes[strategy]
         IN  /\ ParameterGrid(strategy, s) \in Points
             /\ \E place : IsGrid(ParameterGrid(strategy, s), place, a, Lists(strategy, s), Len(a))
<1>. DEFINE a == Axes[strategy]
            n == Len(a)
            v == Lists(strategy, s)
<1>0. /\ n \in Nat \ {0} /\ DOMAIN a = 1 .. n
      /\ \A j \in 1 .. n : \A k \in 1 .. n : a[j] = a[k] => j = k
  BY AxesAre
<1>1. PICK run \in [0 .. n -> Points] :
        IsGridRun(run, n, a, v) /\ ParameterGrid(strategy, s) = run[n]
  BY GridRunExists
<1>2. \A k \in 1 .. n : a[k] \in Names /\ v[k] \in Values
  BY ListsAre
<1>. HIDE DEF a, n, v
<1>. DEFINE Good(k) == \E place : IsGrid(run[k], place, a, v, k)
            G == {k \in Nat : k <= n => Good(k)}
<1>3. 0 \in G
  BY <1>1, GridStart DEF IsGridRun
<1>4. ASSUME NEW k \in Nat, k \in G  PROVE k + 1 \in G
  <2>1. SUFFICES ASSUME k + 1 <= n  PROVE Good(k + 1)
    OBVIOUS
  <2>2. /\ k + 1 \in 1 .. n /\ (k + 1) - 1 = k /\ k <= n /\ k \in 0 .. n
        /\ \A q \in 1 .. k : q \in 1 .. n /\ q # k + 1
    BY <1>0, <2>1
  <2>3. run[k] \in Points /\ a[k + 1] \in Names /\ v[k + 1] \in Values
    BY <1>1, <1>2, <2>2
  <2>4. \A q \in 1 .. k : a[q] # a[k + 1]
    BY <1>0, <2>2
  <2>5. PICK place : IsGrid(run[k], place, a, v, k)
    BY <1>4, <2>2
  <2>6. \E longer_place : IsGrid(Extend(run[k], a[k + 1], v[k + 1]), longer_place, a, v, k + 1)
    BY <2>3, <2>4, <2>5, GridStep
  <2>7. run[k + 1] = Extend(run[k], a[k + 1], v[k + 1])
    BY <1>1, <2>2 DEF IsGridRun
  <2>. QED
    BY <2>6, <2>7
<1>5. Nat \subseteq G
  <2>. HIDE DEF G
  <2>. QED
    BY <1>3, <1>4, NatSetInduction
<1>6. Good(n) /\ run[n] \in Points
  BY <1>0, <1>1, <1>5
<1>. QED
  BY <1>1, <1>6 DEF a, n, v

\* What the count multiplies is the length of the grid.
LEMMA CountIs ==
  ASSUME NEW s \in Settings, NEW strategy \in DOMAIN Axes
  PROVE  ExpectedCount(strategy, s) = Len(ParameterGrid(strategy, s))
<1>. DEFINE a == Axes[strategy]
            n == Len(a)
            v == Lists(strategy, s)
            U == 1 .. n
            st == [p \in U \X Nat |-> p[2] * Len(v[p[1]])]
            Rec(i) == i = [S \in SUBSET U |->
                        IF S = {} THEN 1
                        ELSE i[S \ {Max(S)}] * Len(s.grids[strategy][a[Max(S)]])]
            iter == CHOOSE i : Rec(i)
<1>0. n \in Nat \ {0} /\ DOMAIN a = U
  BY AxesAre
<1>1. \A k \in U : /\ a[k] \in Names /\ v[k] \in Values
                   /\ v[k] = s.grids[strategy][a[k]] /\ Len(v[k]) \in Nat
  <2>1. \A k \in U : a[k] \in Names /\ v[k] \in Values /\ v[k] = s.grids[strategy][a[k]]
    BY ListsAre
  <2>. HIDE DEF a, n, v
  <2>2. \A k \in U : Len(v[k]) \in Nat
    BY <2>1 DEF Values
  <2>. QED
    BY <2>1, <2>2
<1>2. PICK run \in [0 .. n -> Points] :
        IsGridRun(run, n, a, v) /\ ParameterGrid(strategy, s) = run[n]
  BY GridRunExists
<1>. HIDE DEF a, v
<1>3. st \in [U \X Nat -> Nat]
  <2>1. ASSUME NEW p \in U \X Nat  PROVE p[2] * Len(v[p[1]]) \in Nat
    <3>1. p[2] \in Nat /\ Len(v[p[1]]) \in Nat
      BY <1>1
    <3>. QED
      BY <3>1
  <2>. QED
    BY <2>1
<1>4. PICK g \in [SUBSET U -> Nat] : IsLeftFold(g, n, 1, st)
  <2>. HIDE DEF st, n
  <2>1. n \in Nat /\ st \in [(1 .. n) \X Nat -> Nat] /\ 1 \in Nat
    BY <1>0, <1>3
  <2>2. HasLeftFold(n, Nat, 1, st)
    BY <2>1, LeftFoldExists, Zenon
  <2>. QED
    BY <2>2 DEF HasLeftFold
<1>5. Rec(g)
  <2>1. ASSUME NEW S \in SUBSET U, S # {}
        PROVE  g[S] = g[S \ {Max(S)}] * Len(s.grids[strategy][a[Max(S)]])
    <3>1. Max(S) \in S
      <4>1. S \subseteq 0 .. n
        BY <1>0
      <4>. HIDE DEF n
      <4>. QED
        BY <1>0, <2>1, <4>1, MaxShape
    <3>2. Max(S) \in U /\ S \ {Max(S)} \in SUBSET U
      BY <3>1
    <3>3. <<Max(S), g[S \ {Max(S)}]>> \in U \X Nat
      BY <3>2
    <3>4. g[S] = st[<<Max(S), g[S \ {Max(S)}]>>]
      <4>. HIDE DEF st
      <4>. QED
        BY <1>4, <2>1 DEF IsLeftFold
    <3>5. v[Max(S)] = s.grids[strategy][a[Max(S)]]
      BY <1>1, <3>2
    <3>. QED
      BY <3>3, <3>4, <3>5
  <2>2. g[{}] = 1
    <3>. HIDE DEF st
    <3>. QED
      BY <1>4 DEF IsLeftFold
  <2>. QED
    BY <2>1, <2>2
<1>6. Rec(iter)
  <2>. HIDE DEF Rec
  <2>. QED
    BY <1>5, Zenon
<1>7. ExpectedCount(strategy, s) = iter[U]
  BY <1>0, Zenon DEF ExpectedCount, FoldLeft, MapThenFoldSet, a
<1>. HIDE DEF iter, n
<1>. DEFINE G == {k \in Nat : k <= n => iter[1 .. k] = Len(run[k])}
<1>8. 0 \in G
  <2>1. 1 .. 0 = {} /\ {} \in SUBSET U
    OBVIOUS
  <2>2. iter[{}] = 1
    BY <1>6, <2>1
  <2>3. Len(run[0]) = 1
    BY <1>2 DEF IsGridRun
  <2>. QED
    BY <2>1, <2>2, <2>3
<1>9. ASSUME NEW k \in Nat, k \in G  PROVE k + 1 \in G
  <2>1. SUFFICES ASSUME k + 1 <= n  PROVE iter[1 .. k + 1] = Len(run[k + 1])
    OBVIOUS
  <2>2. k + 1 \in U /\ k <= n /\ k \in 0 .. n /\ (k + 1) - 1 = k
    BY <1>0, <2>1
  <2>3. Max(1 .. k + 1) = k + 1 /\ (1 .. k + 1) \ {k + 1} = 1 .. (k + 1) - 1
    <3>1. k + 1 \in Nat \ {0}
      OBVIOUS
    <3>. QED
      BY <3>1, MaxInterval
  <2>4. 1 .. k + 1 \in SUBSET U /\ 1 .. k + 1 # {}
    <3>1. 1 \in 1 .. k + 1
      OBVIOUS
    <3>2. 1 .. k + 1 \in SUBSET U
      BY <1>0, <2>1
    <3>. QED
      BY <3>1, <3>2
  <2>5. iter[1 .. k + 1] = iter[1 .. k] * Len(v[k + 1])
    <3>1. iter[1 .. k + 1] = iter[(1 .. k + 1) \ {Max(1 .. k + 1)}]
                               * Len(s.grids[strategy][a[Max(1 .. k + 1)]])
      BY <1>6, <2>4
    <3>. QED
      BY <1>1, <2>2, <2>3, <3>1
  <2>6. Len(run[k + 1]) = Len(run[k]) * Len(v[k + 1])
    <3>1. run[k + 1] = Extend(run[k], a[k + 1], v[k + 1]) /\ run[k] \in Points
      BY <1>2, <2>2 DEF IsGridRun
    <3>2. IsExtension(run[k + 1], run[k], a[k + 1], v[k + 1])
      BY <1>1, <2>2, <3>1, ExtendIs
    <3>. QED
      BY <3>2 DEF IsExtension, IsTable
  <2>7. iter[1 .. k] = Len(run[k])
    BY <1>9, <2>2
  <2>. QED
    BY <2>5, <2>6, <2>7
<1>10. Nat \subseteq G
  <2>. HIDE DEF G
  <2>. QED
    BY <1>8, <1>9, NatSetInduction
<1>11. n \in G
  BY <1>0, <1>10
<1>. QED
  BY <1>0, <1>2, <1>7, <1>11

----------------------------------------------------------------------------
(* From the grid to the candidate config.                                  *)

\* The results so far are those of the first points of the grid, and what was
\* written is what was found, with the settings it was found under.
SweepStory ==
  /\ settings \in Settings
  /\ sweep = None => results = <<>>
  /\ sweep # None => sweep.settings \in Settings /\ sweep.regime \in Regimes
  /\ \A i \in 1 .. Len(results) : i <= Len(Grid) /\ results[i].parameters = Grid[i]
  /\ sweep_result # None =>
       /\ sweep # None /\ results # <<>> /\ Len(results) = Len(Grid)
       /\ sweep_result.regime = sweep.regime
       /\ sweep_result.strategy_id = StrategyOf[sweep.regime]
       /\ sweep_result.settings = sweep.settings
       /\ sweep_result.results = results
       /\ \E i \in 1 .. Len(results) : sweep_result.winner = results[i]

LEMMA StoryInit == Init => SweepStory
<1>. SUFFICES ASSUME Init PROVE SweepStory
  OBVIOUS
<1>1. Len(<<>>) = 0 /\ 1 .. 0 = {}
  OBVIOUS
<1>. QED
  BY <1>1 DEF Init, SweepStory

LEMMA StoryNext == SweepInv /\ SweepStory /\ [Next]_vars => SweepStory'
<1>. SUFFICES ASSUME SweepInv, SweepStory, [Next]_vars PROVE SweepStory'
  OBVIOUS
<1>1. ASSUME NEW regime \in Regimes, StartSweep(regime) PROVE SweepStory'
  <2>1. sweep = None /\ results' = <<>> /\ sweep_result' = None
    BY <1>1 DEF StartSweep, SweepStory
  <2>2. sweep' = [settings |-> settings, regime |-> regime] /\ settings' = settings
    BY <1>1 DEF StartSweep
  <2>3. Len(<<>>) = 0 /\ 1 .. 0 = {}
    OBVIOUS
  <2>. QED
    BY <2>1, <2>2, <2>3 DEF SweepStory
<1>2. ASSUME NEW outcome \in Outcomes, EvaluateCandidate(outcome) PROVE SweepStory'
  <2>. DEFINE n == Len(results)
              e == [candidate_index |-> n, parameters |-> Grid[n + 1], outcome |-> outcome]
  <2>1. /\ sweep # None /\ n < Len(Grid) /\ results' = Append(results, e)
        /\ sweep' = sweep /\ settings' = settings /\ sweep_result' = sweep_result
    BY <1>2 DEF EvaluateCandidate
  <2>2. Grid' = Grid
    BY <2>1 DEF Grid
  <2>3. IsSeq(results)
    BY DEF SweepInv, Scan, IsResults
  <2>4. e.parameters = Grid[n + 1]
    OBVIOUS
  <2>. HIDE DEF e
  <2>5. /\ n \in Nat /\ Len(results') = n + 1
        /\ \A i \in 1 .. n : results'[i] = results[i]
        /\ results'[n + 1] = e
    BY <2>1, <2>3, AppendAny
  <2>6. sweep_result = None
    BY <2>1, <2>5 DEF SweepStory
  <2>7. Len(Grid) \in Nat
    <3>1. sweep.settings \in Settings /\ StrategyOf[sweep.regime] \in DOMAIN Axes
      BY <2>1 DEF SweepStory, Regimes, StrategyOf, Axes
    <3>2. Grid \in Seq(Point)
      BY <3>1, GridIs DEF Grid, Points
    <3>. QED
      BY <3>2
  <2>8. ASSUME NEW i \in 1 .. n + 1
        PROVE  i <= Len(Grid) /\ results'[i].parameters = Grid[i]
    <3>1. CASE i = n + 1
      BY <2>1, <2>4, <2>5, <2>7, <3>1
    <3>2. CASE i \in 1 .. n
      BY <2>5, <3>2 DEF SweepStory
    <3>. QED
      BY <2>5, <3>1, <3>2
  <2>. HIDE DEF n
  <2>. QED
    BY <2>1, <2>2, <2>5, <2>6, <2>8 DEF SweepStory
<1>3. CASE WriteResult
  <2>1. /\ sweep # None /\ Len(results) = Len(Grid) /\ results # <<>>
        /\ sweep' = sweep /\ settings' = settings /\ results' = results
    BY <1>3 DEF WriteResult
  <2>2. /\ sweep_result'.regime = sweep.regime
        /\ sweep_result'.strategy_id = StrategyOf[sweep.regime]
        /\ sweep_result'.settings = sweep.settings
        /\ sweep_result'.results = results
        /\ sweep_result'.winner = results[(IF winner_index = None THEN 0 ELSE winner_index) + 1]
    BY <1>3 DEF WriteResult
  <2>3. Grid' = Grid
    BY <2>1 DEF Grid
  <2>4. (IF winner_index = None THEN 0 ELSE winner_index) + 1 \in 1 .. Len(results)
    <3>1. CASE winner_index = None
      <4>1. Len(results) \in Nat \ {0}
        <5>1. PICK S : results \in Seq(S)
          BY DEF SweepInv, Scan, IsResults, IsSeq
        <5>. QED
          BY <2>1, <5>1
      <4>. QED
        BY <3>1, <4>1
    <3>2. CASE winner_index # None
      BY <3>2 DEF SweepInv, Scan, FirstBest
    <3>. QED
      BY <3>1, <3>2
  <2>. QED
    BY <2>1, <2>2, <2>3, <2>4 DEF SweepStory
<1>4. CASE UNCHANGED <<sweep, results, sweep_result>> /\ settings' \in Settings
  BY <1>4 DEF SweepStory, Grid
<1>5. CASE BuildCandidateConfig
  BY <1>4, <1>5 DEF BuildCandidateConfig, SweepStory
<1>6. CASE EditSettings
  BY <1>4, <1>6 DEF EditSettings
<1>7. CASE UNCHANGED vars
  BY <1>4, <1>7 DEF vars, SweepStory
<1>. QED
  BY <1>1, <1>2, <1>3, <1>5, <1>6, <1>7 DEF Next

\* The whole grid has been walked when there is a result.
LEMMA WholeGrid ==
  ASSUME SweepInv, SweepStory, sweep_result # None
  PROVE  LET strategy == sweep_result.strategy_id
             s        == sweep_result.settings
             points   == ParameterGrid(strategy, s)
             all      == sweep_result.results
         IN  /\ strategy \in DOMAIN Axes /\ s \in Settings /\ strategy = StrategyOf[sweep_result.regime]
             /\ sweep_result.regime \in Regimes
             /\ points \in Points /\ Len(points) \in Nat \ {0}
             /\ Len(all) = Len(points) /\ DOMAIN all = 1 .. Len(points)
             /\ \A i \in 1 .. Len(points) : all[i].parameters = points[i]
<1>1. /\ sweep # None /\ sweep.settings \in Settings /\ sweep.regime \in Regimes
      /\ Len(results) = Len(Grid) /\ sweep_result.results = results
      /\ \A i \in 1 .. Len(results) : results[i].parameters = Grid[i]
  BY DEF SweepStory
<1>2. StrategyOf[sweep.regime] \in DOMAIN Axes
  BY <1>1 DEF Regimes, StrategyOf, Axes
<1>3. Grid = ParameterGrid(sweep_result.strategy_id, sweep_result.settings)
  BY DEF Grid, SweepStory
<1>4. Grid \in Points
  BY <1>1, <1>2, GridIs DEF Grid
<1>5. Len(Grid) \in Nat \ {0}
  BY <1>4 DEF Points
<1>6. DOMAIN results = 1 .. Len(results)
  BY DEF SweepInv, Scan, IsResults, IsSeq
<1>. QED
  BY <1>1, <1>2, <1>3, <1>4, <1>5, <1>6 DEF SweepStory

\* The place of a value in a list without repetitions.
PlaceIn(v, x) == SelectInSeq(v, LAMBDA u : u = x)
LEMMA PlaceIs ==
  ASSUME NEW v, Len(v) \in Nat, NEW i \in 1 .. Len(v),
         \A j \in 1 .. Len(v) : v[j] = v[i] => j = i
  PROVE  PlaceIn(v, v[i]) = i
<1>. DEFINE I == {j \in 1 .. Len(v) : v[j] = v[i]}
<1>1. I = {i}
  OBVIOUS
<1>2. Min(I) = i
  <2>1. i \in Int
    OBVIOUS
  <2>. HIDE DEF I
  <2>. QED
    BY <1>1, <2>1 DEF Min
<1>3. PlaceIn(v, v[i]) = IF I # {} THEN Min(I) ELSE 0
  BY DEF PlaceIn, SelectInSeq
<1>. QED
  BY <1>1, <1>2, <1>3

\* Every combination of the settings' values is a candidate, and candidates come
\* in the order of their places in the settings (itertools.product), for
\* any number of values of each parameter.
THEOREM GridInOrder == Spec => []GridIsLexicographic
<1>1. SweepInv /\ SweepStory => GridIsLexicographic
  <2>. SUFFICES ASSUME SweepInv, SweepStory, sweep_result # None  PROVE GridIsLexicographic
    BY DEF GridIsLexicographic
  <2>. DEFINE strategy == sweep_result.strategy_id
              s == sweep_result.settings
              a == Axes[strategy]
              n == Len(a)
              v == Lists(strategy, s)
              points == ParameterGrid(strategy, s)
              all == sweep_result.results
              point(i) == all[i].parameters
              values(k) == s.grids[strategy][a[k]]
  <2>1. /\ strategy \in DOMAIN Axes /\ s \in Settings
        /\ DOMAIN all = 1 .. Len(points) /\ Len(points) \in Nat
        /\ \A i \in 1 .. Len(points) : point(i) = points[i]
    BY WholeGrid
  <2>2. n \in Nat \ {0} /\ DOMAIN a = 1 .. n
    BY <2>1, AxesAre
  <2>3. \A k \in 1 .. n : v[k] = values(k) /\ v[k] \in Values /\ Distinct(v[k])
    BY <2>1, ListsAre
  <2>4. PICK place : IsGrid(points, place, a, v, n)
    BY <2>1, GridIs
  <2>. HIDE DEF strategy, s, a, n, v, points, all, point, values
  <2>5. \A i \in 1 .. Len(points) :
          /\ place[i] \in [1 .. n -> Nat]
          /\ \A k \in 1 .. n : /\ place[i][k] \in 1 .. Len(v[k])
                               /\ point(i)[a[k]] = v[k][place[i][k]]
    BY <2>1, <2>4 DEF IsGrid, PlacesFit
  <2>6. ASSUME NEW p, \A k \in 1 .. n : p[k] \in Range(values(k))
        PROVE  \E i \in 1 .. Len(points) : \A k \in 1 .. n : point(i)[a[k]] = p[k]
    <3>. DEFINE at(k) == CHOOSE j \in 1 .. Len(v[k]) : v[k][j] = p[k]
                c == [k \in 1 .. n |-> at(k)]
    <3>1. ASSUME NEW k \in 1 .. n
          PROVE  at(k) \in 1 .. Len(v[k]) /\ v[k][at(k)] = p[k] /\ at(k) \in Nat
      <4>1. v[k] = values(k) /\ v[k] \in Seq(Number) /\ Len(v[k]) \in Nat
        BY <2>3 DEF Values
      <4>2. DOMAIN v[k] = 1 .. Len(v[k])
        BY <4>1
      <4>3. \E j \in 1 .. Len(v[k]) : v[k][j] = p[k]
        BY <2>6, <4>1, <4>2 DEF Range
      <4>. QED
        BY <4>1, <4>3
    <3>. HIDE DEF at
    <3>2. c \in [1 .. n -> Nat] /\ \A k \in 1 .. n : c[k] \in 1 .. Len(v[k])
      BY <3>1
    <3>3. PICK i \in 1 .. Len(points) : place[i] = c
      <4>. HIDE DEF c
      <4>. QED
        BY <2>4, <3>2 DEF IsGrid, NoneLeftOut
    <3>4. ASSUME NEW k \in 1 .. n  PROVE point(i)[a[k]] = p[k]
      <4>1. point(i)[a[k]] = v[k][place[i][k]]
        BY <2>5
      <4>2. place[i][k] = at(k)
        BY <3>3
      <4>. QED
        BY <3>1, <4>1, <4>2
    <3>. QED
      BY <3>4
  <2>7. ASSUME NEW i \in 1 .. Len(points), NEW k \in 1 .. n
        PROVE  PlaceIn(values(k), point(i)[a[k]]) = place[i][k]
    <3>1. /\ values(k) = v[k] /\ Len(v[k]) \in Nat /\ Distinct(v[k])
          /\ place[i][k] \in 1 .. Len(v[k]) /\ point(i)[a[k]] = v[k][place[i][k]]
      BY <2>3, <2>5 DEF Values
    <3>2. PlaceIn(v[k], v[k][place[i][k]]) = place[i][k]
      BY <3>1, PlaceIs DEF Distinct
    <3>. QED
      BY <3>1, <3>2
  <2>8. ASSUME NEW i \in 1 .. Len(points), NEW j \in 1 .. Len(points), i < j
        PROVE  \E k \in 1 .. n :
                 /\ \A m \in 1 .. k - 1 : PlaceIn(values(m), point(i)[a[m]])
                                            = PlaceIn(values(m), point(j)[a[m]])
                 /\ PlaceIn(values(k), point(i)[a[k]]) < PlaceIn(values(k), point(j)[a[k]])
    <3>1. Before(place[i], place[j], n)
      BY <2>4, <2>8 DEF IsGrid, InOrder
    <3>2. PICK k \in 1 .. n : /\ \A m \in 1 .. k - 1 : place[i][m] = place[j][m]
                              /\ place[i][k] < place[j][k]
      BY <3>1 DEF Before
    <3>3. \A m \in 1 .. k - 1 : m \in 1 .. n
      BY <2>2
    <3>4. ASSUME NEW m \in 1 .. k - 1
          PROVE  PlaceIn(values(m), point(i)[a[m]]) = PlaceIn(values(m), point(j)[a[m]])
      BY <2>7, <3>2, <3>3
    <3>5. PlaceIn(values(k), point(i)[a[k]]) < PlaceIn(values(k), point(j)[a[k]])
      BY <2>7, <3>2
    <3>. QED
      BY <3>4, <3>5
  <2>. DEFINE Complete ==
                \A p \in [DOMAIN a -> UNION {Range(values(k)) : k \in DOMAIN a}] :
                  (\A k \in DOMAIN a : p[k] \in Range(values(k))) =>
                    \E i \in DOMAIN all : \A k \in DOMAIN a : point(i)[a[k]] = p[k]
              Ordered ==
                \A i, j \in DOMAIN all : i < j =>
                  \E k \in DOMAIN a :
                    /\ \A m \in 1 .. k - 1 : PlaceIn(values(m), point(i)[a[m]])
                                               = PlaceIn(values(m), point(j)[a[m]])
                    /\ PlaceIn(values(k), point(i)[a[k]]) < PlaceIn(values(k), point(j)[a[k]])
  <2>9. Complete
    <3>1. ASSUME NEW p, \A k \in DOMAIN a : p[k] \in Range(values(k))
          PROVE  \E i \in DOMAIN all : \A k \in DOMAIN a : point(i)[a[k]] = p[k]
      <4>1. PICK i \in 1 .. Len(points) : \A k \in 1 .. n : point(i)[a[k]] = p[k]
        BY <2>2, <2>6, <3>1
      <4>. QED
        BY <2>1, <2>2, <4>1
    <3>. QED
      BY <3>1
  <2>10. Ordered
    BY <2>1, <2>2, <2>8
  <2>. QED
    BY <2>9, <2>10, Zenon DEF GridIsLexicographic, PlaceIn, strategy, s, a, all, point, values
<1>. QED
  BY SweepInvInit, SweepInvNext, StoryInit, StoryNext, <1>1, PTL DEF Spec

LEMMA AxisSets ==
  /\ DOMAIN Axes = {"momentum", "mean_reversion", "defensive"}
  /\ AxisSet("momentum") = {"lookback", "entry_thresh", "pos_scalar"}
  /\ AxisSet("mean_reversion") = {"window", "dev_thresh", "pos_scalar"}
  /\ AxisSet("defensive") = {"spread_floor", "pos_scalar"}
<1>1. DOMAIN Axes = {"momentum", "mean_reversion", "defensive"}
  BY DEF Axes
<1>2. \A strategy \in DOMAIN Axes :
        AxisSet(strategy) = {Axes[strategy][k] : k \in 1 .. Len(Axes[strategy])}
  BY AxesAre DEF AxisSet
<1>3. AxisSet("momentum") = {"lookback", "entry_thresh", "pos_scalar"}
  <2>1. Axes["momentum"] = <<"lookback", "entry_thresh", "pos_scalar">>
    BY DEF Axes
  <2>2. Len(Axes["momentum"]) = 3 /\ 1 .. 3 = {1, 2, 3}
    BY <2>1
  <2>. QED
    BY <1>1, <1>2, <2>1, <2>2
<1>4. AxisSet("mean_reversion") = {"window", "dev_thresh", "pos_scalar"}
  <2>1. Axes["mean_reversion"] = <<"window", "dev_thresh", "pos_scalar">>
    BY DEF Axes
  <2>2. Len(Axes["mean_reversion"]) = 3 /\ 1 .. 3 = {1, 2, 3}
    BY <2>1
  <2>. QED
    BY <1>1, <1>2, <2>1, <2>2
<1>5. AxisSet("defensive") = {"spread_floor", "pos_scalar"}
  <2>1. Axes["defensive"] = <<"spread_floor", "pos_scalar">>
    BY DEF Axes
  <2>2. Len(Axes["defensive"]) = 2 /\ 1 .. 2 = {1, 2}
    BY <2>1
  <2>. QED
    BY <1>1, <1>2, <2>1, <2>2
<1>. QED
  BY <1>1, <1>3, <1>4, <1>5

\* The winner is a point of the grid, found with the settings the sweep used.
LEMMA WinnerFits ==
  ASSUME SweepInv, SweepStory, sweep_result # None
  PROVE  /\ Validates(sweep_result, sweep_result.settings)
         /\ InGrid(sweep_result, sweep_result.settings)
<1>. DEFINE r == sweep_result
            strategy == r.strategy_id
            s == r.settings
            points == ParameterGrid(strategy, s)
            all == r.results
            a == Axes[strategy]
            n == Len(a)
            v == Lists(strategy, s)
<1>1. /\ strategy \in DOMAIN Axes /\ s \in Settings /\ strategy = StrategyOf[r.regime]
      /\ Len(points) \in Nat \ {0}
      /\ Len(all) = Len(points) /\ DOMAIN all = 1 .. Len(points)
      /\ \A i \in 1 .. Len(points) : all[i].parameters = points[i]
  BY WholeGrid
<1>2. PICK w \in 1 .. Len(points) : r.winner = all[w]
  BY <1>1 DEF SweepStory
<1>3. \A i \in 1 .. Len(points) : all[i].candidate_index = i - 1 /\ all[i].outcome \in Outcomes
  BY <1>1 DEF SweepInv, Scan, IsResults, SweepStory
<1>4. Validates(r, s)
  <2>1. Len(all) = ExpectedCount(strategy, s)
    BY <1>1, CountIs
  <2>2. all # <<>>
    <3>1. Len(<<>>) = 0
      OBVIOUS
    <3>. QED
      BY <1>1, <3>1
  <2>3. /\ r.winner.candidate_index = w - 1 /\ w - 1 \in 0 .. Len(all) - 1
        /\ r.winner = all[r.winner.candidate_index + 1]
    BY <1>1, <1>2, <1>3
  <2>4. r.selection_status = "OPTIMIZED" => r.winner.outcome.sharpe # None
    <3>1. SUFFICES ASSUME r.selection_status = "OPTIMIZED"
                   PROVE  r.winner.outcome.sharpe # None
      OBVIOUS
    <3>2. \E i \in DOMAIN all : all[i].outcome.sharpe # None
      BY <3>1 DEF SweepInv, WinnerIsFirstBest
    <3>3. r.winner.candidate_index + 1 \in {i \in DOMAIN all : all[i].outcome.sharpe # None}
      BY <3>2 DEF SweepInv, WinnerIsFirstBest
    <3>. QED
      BY <2>3, <3>3
  <2>5. LegalOutcome(r.winner.outcome)
    BY <1>2, <1>3, OutcomeAssumption
  <2>. HIDE DEF all, s, strategy, points, r
  <2>6. SameSettings(r, s)
    BY DEF SameSettings, s
  <2>7. /\ r.winner.outcome.accepted + r.winner.outcome.rejected = r.winner.outcome.signals
        /\ r.winner.outcome.fills = r.winner.outcome.accepted
    BY <2>5 DEF LegalOutcome
  <2>8. \A i \in DOMAIN all : all[i].candidate_index = i - 1
    BY <1>1, <1>3
  <2>. QED
    BY <1>1, <2>1, <2>2, <2>3, <2>4, <2>6, <2>7, <2>8 DEF Validates, all, strategy
<1>5. InGrid(r, s)
  <2>1. PICK place : IsGrid(points, place, a, v, n)
    BY <1>1, GridIs
  <2>2. r.winner.parameters = points[w]
    BY <1>1, <1>2
  <2>3. AxisSet(strategy) = {a[k] : k \in 1 .. n}
    BY <1>1, AxesAre DEF AxisSet
  <2>4. \A k \in 1 .. n : v[k] = s.grids[strategy][a[k]]
    BY <1>1, ListsAre
  <2>. HIDE DEF a, n, v, s, strategy, points, r
  <2>5. /\ DOMAIN points[w] = {a[k] : k \in 1 .. n}
        /\ \A k \in 1 .. n : /\ place[w][k] \in 1 .. Len(v[k])
                             /\ points[w][a[k]] = v[k][place[w][k]]
    BY <2>1 DEF IsGrid, PlacesFit
  <2>6. ASSUME NEW axis \in AxisSet(strategy)
        PROVE  Contains(s.grids[strategy][axis], r.winner.parameters[axis])
    <3>1. PICK k \in 1 .. n : axis = a[k]
      BY <2>3
    <3>. QED
      BY <2>2, <2>4, <2>5, <3>1 DEF Contains
  <2>. QED
    BY <2>2, <2>3, <2>5, <2>6 DEF InGrid, strategy
<1>. QED
  BY <1>4, <1>5

\* The approval pipeline refuses what a sweep wrote exactly when the settings are
\* no longer those of the sweep, whatever the grids and the measurements
\* (validate_sweep_result, _parameters_for_ps).
THEOREM OnlyStaleIsRefused == Spec => []RefusedOnlyWhenStale
<1>1. SweepInv /\ SweepStory => RefusedOnlyWhenStale
  <2>. SUFFICES ASSUME SweepInv, SweepStory, sweep_result # None  PROVE RefusedOnlyWhenStale
    BY DEF RefusedOnlyWhenStale
  <2>1. Validates(sweep_result, settings) => sweep_result.settings = settings
    BY DEF Validates, SameSettings
  <2>2. sweep_result.settings = settings =>
          Validates(sweep_result, settings) /\ InGrid(sweep_result, settings)
    BY WinnerFits
  <2>. QED
    BY <2>1, <2>2 DEF RefusedOnlyWhenStale
<1>. QED
  BY SweepInvInit, SweepInvNext, StoryInit, StoryNext, <1>1, PTL DEF Spec

\* What load_config asks of a parameter.
Fits(key, x) ==
  /\ x \in Number /\ Positive(x)
  /\ key \in {"base_lot", "spread_floor"} => x[2] = "none"
  /\ key \in {"lookback", "window"} => x \in (1 .. RingSize - 1) \X {"none"}

LEMMA GridFits ==
  ASSUME NEW s \in Settings, NEW strategy \in DOMAIN Axes, NEW axis \in AxisSet(strategy)
  PROVE  LET values == s.grids[strategy][axis]
         IN  1 \in 1 .. Len(values) /\ \A i \in 1 .. Len(values) : Fits(axis, values[i])
<1>. DEFINE values == s.grids[strategy][axis]
<1>1. LegalSettings(s)
  BY SettingsAssumption
<1>2. /\ values \in Seq(Number) /\ values # <<>>
      /\ \A i \in DOMAIN values : Positive(values[i])
      /\ axis \in {"lookback", "window"} =>
           \A i \in DOMAIN values : values[i] \in (1 .. RingSize - 1) \X {"none"}
      /\ axis = "spread_floor" => \A i \in DOMAIN values : values[i][2] = "none"
  BY <1>1 DEF LegalSettings
<1>3. axis # "base_lot"
  BY AxisSets
<1>. HIDE DEF values
<1>4. DOMAIN values = 1 .. Len(values) /\ Len(values) \in Nat \ {0}
  BY <1>2
<1>5. \A i \in 1 .. Len(values) : values[i] \in Number
  BY <1>2
<1>6. \A i \in 1 .. Len(values) : Fits(axis, values[i])
  BY <1>2, <1>3, <1>4, <1>5 DEF Fits
<1>. QED
  BY <1>4, <1>6 DEF values

LEMMA KeysAre ==
  KeySet(ParameterKeys) = {"base_lot", "dev_thresh", "entry_thresh", "lookback",
                           "pos_scalar", "spread_floor", "window"}
<1>1. Len(ParameterKeys) = 7 /\ DOMAIN ParameterKeys = 1 .. 7
  BY DEF ParameterKeys
<1>2. 1 .. 7 = {1, 2, 3, 4, 5, 6, 7}
  OBVIOUS
<1>3. /\ ParameterKeys[1] = "base_lot" /\ ParameterKeys[2] = "dev_thresh"
      /\ ParameterKeys[3] = "entry_thresh" /\ ParameterKeys[4] = "lookback"
      /\ ParameterKeys[5] = "pos_scalar" /\ ParameterKeys[6] = "spread_floor"
      /\ ParameterKeys[7] = "window"
  BY DEF ParameterKeys
<1>. QED
  BY <1>1, <1>2, <1>3 DEF KeySet

LEMMA PlaceholdersFit ==
  ASSUME NEW s \in Settings
  PROVE  /\ DOMAIN Placeholders(s) = KeySet(ParameterKeys) \ {"pos_scalar"}
         /\ \A key \in DOMAIN Placeholders(s) : Fits(key, Placeholders(s)[key])
<1>. DEFINE P == Placeholders(s)
<1>1. /\ P.lookback = s.grids["momentum"]["lookback"][1]
      /\ P.window = s.grids["mean_reversion"]["window"][1]
      /\ P.entry_thresh = s.grids["momentum"]["entry_thresh"][1]
      /\ P.dev_thresh = s.grids["mean_reversion"]["dev_thresh"][1]
      /\ P.spread_floor = s.grids["defensive"]["spread_floor"][1]
      /\ P.base_lot = Whole(s.base_lot)
      /\ DOMAIN P = {"lookback", "window", "entry_thresh", "dev_thresh", "spread_floor",
                     "base_lot"}
  BY DEF Placeholders
<1>. HIDE DEF P
<1>2. Fits("lookback", P.lookback) /\ Fits("entry_thresh", P.entry_thresh)
  <2>1. "momentum" \in DOMAIN Axes /\ {"lookback", "entry_thresh"} \subseteq AxisSet("momentum")
    BY AxisSets
  <2>. QED
    BY <1>1, <2>1, GridFits
<1>3. Fits("window", P.window) /\ Fits("dev_thresh", P.dev_thresh)
  <2>1. /\ "mean_reversion" \in DOMAIN Axes
        /\ {"window", "dev_thresh"} \subseteq AxisSet("mean_reversion")
    BY AxisSets
  <2>. QED
    BY <1>1, <2>1, GridFits
<1>4. Fits("spread_floor", P.spread_floor)
  <2>1. "defensive" \in DOMAIN Axes /\ "spread_floor" \in AxisSet("defensive")
    BY AxisSets
  <2>. QED
    BY <1>1, <2>1, GridFits
<1>5. Fits("base_lot", P.base_lot)
  <2>1. s.base_lot \in Nat \ {0}
    BY SettingsAssumption DEF LegalSettings
  <2>. QED
    BY <1>1, <2>1 DEF Fits, Whole, Number, Fractions, Positive
<1>6. DOMAIN P = KeySet(ParameterKeys) \ {"pos_scalar"}
  BY <1>1, KeysAre
<1>7. \A key \in DOMAIN P : Fits(key, P[key])
  BY <1>1, <1>2, <1>3, <1>4, <1>5
<1>. QED
  BY <1>6, <1>7 DEF P

LEMMA CandidateFits ==
  ASSUME SweepInv, SweepStory, BuildCandidateConfig
  PROVE  /\ sweep_result # None /\ sweep_result' = sweep_result
         /\ Deliverable(candidate')
         /\ candidate'.risk_limits = sweep_result.settings.risk_limits
         /\ \A axis \in AxisSet(candidate'.strategy_id) :
              candidate'.parameters[axis] = sweep_result.winner.parameters[axis]
<1>. DEFINE r == sweep_result
            strategy == r.strategy_id
            w == r.winner.parameters
            P == Placeholders(settings)
            c == candidate'
            keys == KeySet(ParameterKeys)
<1>1. /\ r # None /\ r' = r /\ Validates(r, settings) /\ InGrid(r, settings)
      /\ c.strategy_id = strategy /\ c.parameters = ParametersForPs(r, settings)
      /\ c.risk_limits = settings.risk_limits /\ c.regime_label = r.regime
  BY DEF BuildCandidateConfig
<1>2. /\ r.settings = settings /\ settings \in Settings /\ strategy \in DOMAIN Axes
      /\ r.regime \in Regimes
  BY <1>1, WholeGrid DEF Validates, SameSettings
<1>3. /\ DOMAIN w = AxisSet(strategy)
      /\ \A axis \in AxisSet(strategy) :
           \E i \in 1 .. Len(settings.grids[strategy][axis]) :
             w[axis] = settings.grids[strategy][axis][i]
  BY <1>1 DEF InGrid, Contains
<1>4. /\ DOMAIN P = keys \ {"pos_scalar"}
      /\ \A key \in DOMAIN P : Fits(key, P[key])
  BY <1>2, PlaceholdersFit
<1>5. c.parameters = [key \in DOMAIN P \cup DOMAIN w |-> IF key \in DOMAIN w THEN w[key] ELSE P[key]]
  BY <1>1 DEF ParametersForPs, Update
<1>. HIDE DEF r, strategy, w, P, c, keys
<1>6. ASSUME NEW axis \in AxisSet(strategy)  PROVE Fits(axis, w[axis])
  <2>1. PICK i \in 1 .. Len(settings.grids[strategy][axis]) :
          w[axis] = settings.grids[strategy][axis][i]
    BY <1>3
  <2>. QED
    BY <1>2, <2>1, GridFits
<1>7. DOMAIN P \cup DOMAIN w = keys
  <2>1. AxisSet(strategy) \subseteq keys /\ "pos_scalar" \in AxisSet(strategy)
    BY <1>2, AxisSets, KeysAre DEF keys
  <2>. QED
    BY <1>3, <1>4, <2>1
<1>8. ASSUME NEW key \in keys
      PROVE  /\ Fits(key, c.parameters[key])
             /\ key \in AxisSet(strategy) => c.parameters[key] = w[key]
  BY <1>3, <1>4, <1>5, <1>6, <1>7
<1>9. Deliverable(c)
  <2>1. c.strategy_id \in DOMAIN StrategyIndex
    BY <1>1, <1>2, AxisSets DEF StrategyIndex
  <2>2. c.parameters \in [keys -> Number]
    BY <1>5, <1>7, <1>8 DEF Fits
  <2>3. \A key \in {"base_lot", "spread_floor", "lookback", "window"} : key \in keys
    BY KeysAre DEF keys
  <2>4. \A key \in keys : Positive(c.parameters[key])
    BY <1>8 DEF Fits
  <2>5. \A key \in {"base_lot", "spread_floor"} : c.parameters[key][2] = "none"
    BY <1>8, <2>3 DEF Fits
  <2>6. \A key \in {"lookback", "window"} :
          c.parameters[key] \in (1 .. RingSize - 1) \X {"none"}
    BY <1>8, <2>3 DEF Fits
  <2>7. /\ c.risk_limits \in [Limits -> Nat]
        /\ \A limit \in Limits : c.risk_limits[limit] \in 1 .. Ceiling[limit]
    BY <1>1, <1>2, SettingsAssumption DEF LegalSettings
  <2>8. c.regime_label \notin LoaderKeys
    <3>1. Regimes = {"trending", "ranging", "volatile"}
      BY DEF Regimes, StrategyOf
    <3>. QED
      BY <1>1, <1>2, <3>1, KeysAre DEF LoaderKeys, Limits
  <2>. QED
    BY <2>1, <2>2, <2>4, <2>5, <2>6, <2>7, <2>8 DEF Deliverable, keys
<1>10. \A axis \in AxisSet(c.strategy_id) : c.parameters[axis] = w[axis]
  BY <1>1, <1>3, <1>7, <1>8
<1>. QED
  BY <1>1, <1>2, <1>9, <1>10 DEF r, c, w

\* The config that comes before the operator is one the loader is written for,
\* with the winner's parameters and the limits it was measured under, for all
\* grids, measurements and edits of the settings (build_candidate_config).
THEOREM CandidateFitsTheLoader == Spec => []CandidateIsDeliverable
<1>. DEFINE Inv == CandidateIsDeliverable /\ (candidate # None => sweep_result # None)
<1>1. Init => Inv
  BY DEF Init, CandidateIsDeliverable
<1>2. SweepInv /\ SweepStory /\ Inv /\ [Next]_vars => Inv'
  <2>. SUFFICES ASSUME SweepInv, SweepStory, Inv, [Next]_vars PROVE Inv'
    OBVIOUS
  <2>1. CASE BuildCandidateConfig
    BY <2>1, CandidateFits DEF CandidateIsDeliverable
  <2>2. CASE candidate' = candidate /\ (sweep_result = None \/ sweep_result' = sweep_result)
    <3>1. CASE candidate = None
      BY <2>2, <3>1 DEF CandidateIsDeliverable
    <3>2. CASE candidate # None
      <4>1. sweep_result' = sweep_result /\ candidate' = candidate
        BY <2>2, <3>2
      <4>. QED
        BY <4>1 DEF CandidateIsDeliverable
    <3>. QED
      BY <3>1, <3>2
  <2>3. ASSUME NEW regime \in Regimes, StartSweep(regime) PROVE Inv'
    BY <2>2, <2>3 DEF StartSweep
  <2>4. ASSUME NEW outcome \in Outcomes, EvaluateCandidate(outcome) PROVE Inv'
    BY <2>2, <2>4 DEF EvaluateCandidate
  <2>5. CASE WriteResult
    BY <2>2, <2>5 DEF WriteResult
  <2>6. CASE EditSettings
    BY <2>2, <2>6 DEF EditSettings
  <2>7. CASE UNCHANGED vars
    BY <2>2, <2>7 DEF vars
  <2>. QED
    BY <2>1, <2>3, <2>4, <2>5, <2>6, <2>7 DEF Next
<1>3. Inv => CandidateIsDeliverable
  OBVIOUS
<1>. QED
  BY SweepInvInit, SweepInvNext, StoryInit, StoryNext, <1>1, <1>2, <1>3, PTL DEF Spec

----------------------------------------------------------------------------
(* The config file: where its tokens are.                                  *)

\* c is a and then b.
IsConcat(c, a, b) ==
  /\ IsSeq(c) /\ Len(c) = Len(a) + Len(b) /\ Len(a) \in Nat /\ Len(b) \in Nat
  /\ \A i \in 1 .. Len(a) : c[i] = a[i]
  /\ \A i \in 1 .. Len(b) : c[Len(a) + i] = b[i]

LEMMA ConcatAny ==
  ASSUME NEW a, NEW b, IsSeq(a), IsSeq(b)
  PROVE  IsConcat(a \o b, a, b)
<1>1. PICK S : a \in Seq(S)
  BY DEF IsSeq
<1>2. PICK T : b \in Seq(T)
  BY DEF IsSeq
<1>. DEFINE U == S \cup T
<1>3. a \in Seq(U) /\ b \in Seq(U)
  BY <1>1, <1>2
<1>4. /\ a \o b \in Seq(U) /\ Len(a \o b) = Len(a) + Len(b) /\ Len(a) \in Nat /\ Len(b) \in Nat
      /\ \A i \in 1 .. Len(a) + Len(b) :
           (a \o b)[i] = IF i <= Len(a) THEN a[i] ELSE b[i - Len(a)]
  <2>. HIDE DEF U
  <2>. QED
    BY <1>3, ConcatProperties
<1>5. IsSeq(a \o b)
  <2>. HIDE DEF U
  <2>. QED
    BY <1>4 DEF IsSeq
<1>6. ASSUME NEW i \in 1 .. Len(b)  PROVE (a \o b)[Len(a) + i] = b[i]
  <2>1. Len(a) + i \in 1 .. Len(a) + Len(b) /\ ~(Len(a) + i <= Len(a)) /\ (Len(a) + i) - Len(a) = i
    BY <1>4
  <2>. QED
    BY <1>4, <2>1
<1>. QED
  BY <1>4, <1>5, <1>6 DEF IsConcat

LEMMA Triple ==
  ASSUME NEW T, NEW a \in T, NEW b \in T, NEW c \in T
  PROVE  /\ <<a, b, c>> \in Seq(T) /\ Len(<<a, b, c>>) = 3
         /\ <<a, b, c>>[1] = a /\ <<a, b, c>>[2] = b /\ <<a, b, c>>[3] = c
  OBVIOUS

LEMMA Pair ==
  ASSUME NEW a, NEW b, NEW f, f = [i \in 1 .. 2 |-> f[i]], f[1] = a, f[2] = b
  PROVE  <<a, b>> = f
<1>. DEFINE T == {a, b}
<1>1. <<a, b>> \in [1 .. 2 -> T] /\ <<a, b>>[1] = a /\ <<a, b>>[2] = b
  OBVIOUS
<1>2. f \in [1 .. 2 -> T]
  OBVIOUS
<1>. DEFINE g == <<a, b>>
<1>3. \A i \in 1 .. 2 : g[i] = f[i]
  BY <1>1
<1>4. g \in [1 .. 2 -> T]
  BY <1>1
<1>. HIDE DEF g, T
<1>5. g = f
  BY <1>2, <1>3, <1>4
<1>. QED
  BY <1>5 DEF g

\* Tokens of different kinds, or of different content, differ.
LEMMA TokensDiffer ==
  ASSUME NEW x, NEW y, NEW v
  PROVE  /\ Str(x) = Str(y) => x = y
         /\ Str(x) # Mark(y) /\ Str(x) # Num(v) /\ Str(x) # Cut(y) /\ Mark(x) # Num(v)
<1>1. /\ Str(x).kind = "str" /\ Str(x).text = x /\ Str(y).text = y
      /\ Mark(y).kind = "mark" /\ Mark(x).kind = "mark" /\ Num(v).kind = "num" /\ Cut(y).kind = "cut"
  BY DEF Str, Mark, Num, Cut
<1>. QED
  BY <1>1

\* An object of n members.
IsObject(o, key, n, names, values) ==
  /\ IsSeq(o) /\ Len(o) = 3 * n + 4
  /\ o[1] = Str(key) /\ o[2] = Mark(":") /\ o[3] = Mark("{") /\ o[3 * n + 4] = Mark("}")
  /\ \A i \in 1 .. n : /\ o[3 * i + 1] = Str(names[i])
                       /\ o[3 * i + 2] = Mark(":")
                       /\ o[3 * i + 3] = values[i]

LEMMA ObjectIs ==
  ASSUME NEW key, NEW n \in Nat \ {0}, NEW names, NEW values, NEW members,
         members = [i \in 1 .. n |-> Member(names[i], values[i])]
  PROVE  IsObject(Object(key, members), key, n, names, values)
<1>. DEFINE T == {Str(names[i]) : i \in 1 .. n} \cup {Mark(":")} \cup {values[i] : i \in 1 .. n}
            flat == FlattenSeq(members)
            head == <<Str(key), Mark(":"), Mark("{")>>
            tail == <<Mark("}")>>
<1>1. ASSUME NEW i \in 1 .. n
      PROVE  /\ members[i] \in Seq(T) /\ Len(members[i]) = 3
             /\ members[i][1] = Str(names[i]) /\ members[i][2] = Mark(":")
             /\ members[i][3] = values[i]
  <2>1. members[i] = <<Str(names[i]), Mark(":"), values[i]>>
    BY DEF Member
  <2>2. Str(names[i]) \in T /\ Mark(":") \in T /\ values[i] \in T
    OBVIOUS
  <2>. HIDE DEF T
  <2>. DEFINE row == <<Str(names[i]), Mark(":"), values[i]>>
  <2>3. row \in Seq(T) /\ Len(row) = 3 /\ row[1] = Str(names[i]) /\ row[2] = Mark(":")
        /\ row[3] = values[i]
    BY <2>2, Triple
  <2>. HIDE DEF row
  <2>4. members[i] = row
    BY <2>1 DEF row
  <2>. QED
    BY <2>3, <2>4
<1>2. members \in [1 .. n -> Seq(T)]
  <2>. HIDE DEF T
  <2>. QED
    BY <1>1
<1>3. flat \in Seq(T) /\ IsTable(flat, n, 3, members)
  <2>. HIDE DEF T
  <2>1. \A i \in 1 .. n : Len(members[i]) = 3
    BY <1>1
  <2>. QED
    BY <1>2, <2>1, FlattenTable
<1>4. IsSeq(flat) /\ Len(flat) = 3 * n
  <2>. HIDE DEF T
  <2>1. n * 3 = 3 * n
    OBVIOUS
  <2>. QED
    BY <1>3, <2>1 DEF IsSeq, IsTable
<1>5. /\ IsSeq(head) /\ Len(head) = 3 /\ head[1] = Str(key) /\ head[2] = Mark(":")
      /\ head[3] = Mark("{")
      /\ IsSeq(tail) /\ Len(tail) = 1 /\ tail[1] = Mark("}")
  <2>. DEFINE H == {Str(key), Mark(":"), Mark("{")}
              B == {Mark("}")}
  <2>1. head \in Seq(H) /\ tail \in Seq(B)
    OBVIOUS
  <2>2. IsSeq(head) /\ IsSeq(tail)
    <3>. HIDE DEF H, B, head, tail
    <3>. QED
      BY <2>1 DEF IsSeq
  <2>. QED
    BY <2>2
<1>. HIDE DEF T, flat, head, tail
<1>. DEFINE front == head \o flat
            o == front \o tail
<1>12. IsConcat(front, head, flat)
  BY <1>4, <1>5, ConcatAny
<1>. HIDE DEF front
<1>6. /\ IsSeq(front) /\ Len(front) = 3 + 3 * n
      /\ \A i \in 1 .. 3 : front[i] = head[i]
      /\ \A i \in 1 .. 3 * n : front[3 + i] = flat[i]
  BY <1>4, <1>5, <1>12 DEF IsConcat
<1>13. IsConcat(o, front, tail)
  BY <1>5, <1>6, ConcatAny
<1>. HIDE DEF o
<1>7. /\ IsSeq(o) /\ Len(o) = 3 * n + 4
      /\ \A i \in 1 .. 3 + 3 * n : o[i] = front[i]
      /\ o[3 * n + 4] = tail[1]
  <2>1. /\ IsSeq(o) /\ Len(o) = Len(front) + Len(tail)
        /\ \A i \in 1 .. Len(front) : o[i] = front[i]
        /\ \A i \in 1 .. Len(tail) : o[Len(front) + i] = tail[i]
    BY <1>13 DEF IsConcat
  <2>3. Len(front) = 3 + 3 * n
    BY <1>6
  <2>4. Len(tail) = 1
    BY <1>5
  <2>2. Len(front) + 1 = 3 * n + 4 /\ Len(front) + Len(tail) = 3 * n + 4
    BY <2>3, <2>4
  <2>5. o[Len(front) + 1] = tail[1]
    BY <2>1, <2>4
  <2>6. IsSeq(o) /\ Len(o) = 3 * n + 4
    BY <2>1, <2>2
  <2>7. \A i \in 1 .. 3 + 3 * n : o[i] = front[i]
    BY <2>1, <2>3
  <2>8. o[3 * n + 4] = tail[1]
    BY <2>2, <2>5
  <2>. QED
    BY <2>6, <2>7, <2>8
<1>8. o[1] = Str(key) /\ o[2] = Mark(":") /\ o[3] = Mark("{") /\ o[3 * n + 4] = Mark("}")
  <2>1. front[1] = head[1] /\ front[2] = head[2] /\ front[3] = head[3]
    BY <1>6
  <2>2. o[1] = front[1] /\ o[2] = front[2] /\ o[3] = front[3]
    BY <1>7
  <2>3. o[3 * n + 4] = tail[1]
    BY <1>7
  <2>. QED
    BY <1>5, <2>1, <2>2, <2>3
<1>9. ASSUME NEW i \in 1 .. n, NEW j \in 1 .. 3
      PROVE  o[3 * i + j] = members[i][j]
  <2>1. PlaceOf(i, j, 3) = 3 * i + j - 3 /\ 3 * i + j - 3 \in 1 .. 3 * n
    BY DEF PlaceOf
  <2>2. flat[3 * i + j - 3] = members[i][j]
    BY <1>3, <2>1 DEF IsTable
  <2>3. 3 + (3 * i + j - 3) = 3 * i + j /\ 3 * i + j \in 1 .. 3 + 3 * n
    BY <2>1
  <2>. QED
    BY <1>6, <1>7, <2>1, <2>2, <2>3
<1>10. ASSUME NEW i \in 1 .. n
       PROVE  /\ o[3 * i + 1] = Str(names[i]) /\ o[3 * i + 2] = Mark(":")
              /\ o[3 * i + 3] = values[i]
  BY <1>1, <1>9
<1>11. Object(key, members) = o
  BY DEF Object, o, front, flat, head, tail
<1>. QED
  BY <1>7, <1>8, <1>10, <1>11 DEF IsObject

\* The strings of an object: its key, the keys of its members, their values.
NameIn(p, x, key, n, names, values) ==
  \/ x = key
  \/ \E i \in 1 .. n : p = 3 * i + 1 /\ x = names[i]
  \/ \E i \in 1 .. n : values[i] = Str(x)

LEMMA ObjectNames ==
  ASSUME NEW o, NEW key, NEW n \in Nat, NEW names, NEW values,
         IsObject(o, key, n, names, values), NEW p \in 1 .. 3 * n + 4, NEW x, o[p] = Str(x)
  PROVE  NameIn(p, x, key, n, names, values)
<1>. USE DEF NameIn
<1>3. Str(x) # Mark(":") /\ Str(x) # Mark("{") /\ Str(x) # Mark("}")
  BY TokensDiffer
<1>4. \A y : Str(x) = Str(y) => x = y
  BY TokensDiffer
<1>1. CASE p \in {1, 2, 3, 3 * n + 4}
  BY <1>1, <1>3, <1>4 DEF IsObject
<1>2. CASE p \notin {1, 2, 3, 3 * n + 4}
  <2>1. PICK i \in 1 .. n, j \in 1 .. 3 : p = 3 * i + j
    <3>. DEFINE q == (p - 1) \div 3
    <3>1. q \in 1 .. n /\ p - 3 * q \in 1 .. 3
      BY <1>2
    <3>2. p = 3 * q + (p - 3 * q)
      BY <3>1
    <3>. HIDE DEF q
    <3>. QED
      BY <3>1, <3>2
  <2>2. j = 1 \/ j = 2 \/ j = 3
    BY <2>1
  <2>3. CASE j = 1
    BY <1>4, <2>1, <2>3 DEF IsObject
  <2>4. CASE j = 2
    BY <1>3, <2>1, <2>4 DEF IsObject
  <2>5. CASE j = 3
    BY <2>1, <2>5 DEF IsObject
  <2>. QED
    BY <2>2, <2>3, <2>4, <2>5
<1>. QED
  BY <1>1, <1>2
\* The blocks of the document of a config: where each begins, and what it holds.
ParameterTokens(c) == [i \in 1 .. 7 |-> Num(c.parameters[ParameterKeys[i]])]
LimitTokens(c)     == [i \in 1 .. 4 |-> Num(Whole(c.risk_limits[LimitKeys[i]]))]
ApprovalNames      == <<"operator_id", "timestamp">>
ApprovalTokens(c)  == <<Str(c.operator_id), Str("time of approval")>>

IsMember(m, key, token) ==
  IsSeq(m) /\ Len(m) = 3 /\ m[1] = Str(key) /\ m[2] = Mark(":") /\ m[3] = token

IsDocument(d, c, approval, parameters, regime, limits, strategy) ==
  /\ IsObject(approval, "approval", 2, ApprovalNames, ApprovalTokens(c))
  /\ IsObject(parameters, "parameters", 7, ParameterKeys, ParameterTokens(c))
  /\ IsMember(regime, "regime_label", Str(c.regime_label))
  /\ IsObject(limits, "risk_limits", 4, LimitKeys, LimitTokens(c))
  /\ IsMember(strategy, "strategy_id", Str(c.strategy_id))
  /\ IsSeq(d) /\ Len(d) = 57
  /\ \A i \in 1 .. 10 : d[i] = approval[i]
  /\ \A i \in 1 .. 25 : d[10 + i] = parameters[i]
  /\ \A i \in 1 .. 3  : d[35 + i] = regime[i]
  /\ \A i \in 1 .. 16 : d[38 + i] = limits[i]
  /\ \A i \in 1 .. 3  : d[54 + i] = strategy[i]

LEMMA MemberIs ==
  ASSUME NEW key, NEW token
  PROVE  IsMember(Member(key, token), key, token)
<1>. DEFINE T == {Str(key), Mark(":"), token}
<1>1. Str(key) \in T /\ Mark(":") \in T /\ token \in T
  OBVIOUS
<1>. DEFINE m == <<Str(key), Mark(":"), token>>
<1>2. m \in Seq(T) /\ Len(m) = 3 /\ m[1] = Str(key) /\ m[2] = Mark(":") /\ m[3] = token
  <2>. HIDE DEF T
  <2>. QED
    BY <1>1, Triple
<1>. HIDE DEF T, m
<1>3. Member(key, token) = m
  BY DEF Member, m
<1>. QED
  BY <1>2, <1>3 DEF IsMember, IsSeq

LEMMA NumbersAre ==
  ASSUME NEW c
  PROVE  /\ ParametersObject(c) =
              Object("parameters", [i \in 1 .. 7 |-> Member(ParameterKeys[i], ParameterTokens(c)[i])])
         /\ LimitsObject(c) =
              Object("risk_limits", [i \in 1 .. 4 |-> Member(LimitKeys[i], LimitTokens(c)[i])])
<1>1. DOMAIN ParameterKeys = 1 .. 7 /\ DOMAIN LimitKeys = 1 .. 4
  BY DEF ParameterKeys, LimitKeys
<1>2. \A i \in 1 .. 4 : LimitKeys[i] \in Limits
  BY DEF LimitKeys, Limits
<1>3. Numbers(ParameterKeys, c.parameters)
      = [i \in 1 .. 7 |-> Member(ParameterKeys[i], ParameterTokens(c)[i])]
  BY <1>1 DEF Numbers, ParameterTokens
<1>4. Numbers(LimitKeys, [k \in Limits |-> Whole(c.risk_limits[k])])
      = [i \in 1 .. 4 |-> Member(LimitKeys[i], LimitTokens(c)[i])]
  BY <1>1, <1>2 DEF Numbers, LimitTokens
<1>. QED
  BY <1>3, <1>4 DEF ParametersObject, LimitsObject

LEMMA DocumentIs ==
  ASSUME NEW c
  PROVE  \E approval, parameters, regime, limits, strategy :
           IsDocument(Document(c), c, approval, parameters, regime, limits, strategy)
<1>. DEFINE a == ApprovalObject(c)
            p == ParametersObject(c)
            r == Member("regime_label", Str(c.regime_label))
            l == LimitsObject(c)
            s == Member("strategy_id", Str(c.strategy_id))
<1>1. IsObject(a, "approval", 2, ApprovalNames, ApprovalTokens(c))
  <2>. DEFINE members == [i \in 1 .. 2 |-> Member(ApprovalNames[i], ApprovalTokens(c)[i])]
              listed == <<Member("operator_id", Str(c.operator_id)),
                          Member("timestamp", Str("time of approval"))>>
  <2>1. listed = members
    <3>1. /\ ApprovalNames[1] = "operator_id" /\ ApprovalTokens(c)[1] = Str(c.operator_id)
          /\ ApprovalNames[2] = "timestamp" /\ ApprovalTokens(c)[2] = Str("time of approval")
      BY DEF ApprovalNames, ApprovalTokens
    <3>2. /\ members[1] = Member("operator_id", Str(c.operator_id))
          /\ members[2] = Member("timestamp", Str("time of approval"))
      <4>1. /\ members[1] = Member(ApprovalNames[1], ApprovalTokens(c)[1])
            /\ members[2] = Member(ApprovalNames[2], ApprovalTokens(c)[2])
        <5>1. 1 \in 1 .. 2 /\ 2 \in 1 .. 2
          OBVIOUS
        <5>. QED
          BY <5>1, Zenon
      <4>. HIDE DEF members
      <4>. QED
        BY <3>1, <4>1, Zenon
    <3>3. members = [i \in 1 .. 2 |-> members[i]]
      OBVIOUS
    <3>. HIDE DEF members
    <3>. QED
      BY <3>2, <3>3, Pair
  <2>2. a = Object("approval", members)
    <3>. HIDE DEF members
    <3>. QED
      BY <2>1 DEF ApprovalObject
  <2>3. 2 \in Nat \ {0}
    OBVIOUS
  <2>. HIDE DEF a
  <2>. QED
    BY <2>2, <2>3, ObjectIs, Zenon
<1>2. IsObject(p, "parameters", 7, ParameterKeys, ParameterTokens(c))
  <2>. HIDE DEF p
  <2>1. p = Object("parameters", [i \in 1 .. 7 |-> Member(ParameterKeys[i], ParameterTokens(c)[i])])
    BY NumbersAre DEF p
  <2>2. 7 \in Nat \ {0}
    OBVIOUS
  <2>. QED
    BY <2>1, <2>2, ObjectIs, Zenon
<1>3. IsObject(l, "risk_limits", 4, LimitKeys, LimitTokens(c))
  <2>. HIDE DEF l
  <2>1. l = Object("risk_limits", [i \in 1 .. 4 |-> Member(LimitKeys[i], LimitTokens(c)[i])])
    BY NumbersAre DEF l
  <2>2. 4 \in Nat \ {0}
    OBVIOUS
  <2>. QED
    BY <2>1, <2>2, ObjectIs, Zenon
<1>4. /\ IsMember(r, "regime_label", Str(c.regime_label))
      /\ IsMember(s, "strategy_id", Str(c.strategy_id))
  BY MemberIs
<1>5. Document(c) = (((a \o p) \o r) \o l) \o s
  BY DEF Document
<1>. HIDE DEF a, p, r, l, s
<1>6. /\ IsSeq(a) /\ Len(a) = 10 /\ IsSeq(p) /\ Len(p) = 25 /\ IsSeq(r) /\ Len(r) = 3
      /\ IsSeq(l) /\ Len(l) = 16 /\ IsSeq(s) /\ Len(s) = 3
  <2>1. IsSeq(a) /\ Len(a) = 3 * 2 + 4
    BY <1>1 DEF IsObject
  <2>2. IsSeq(p) /\ Len(p) = 3 * 7 + 4
    BY <1>2 DEF IsObject
  <2>3. IsSeq(l) /\ Len(l) = 3 * 4 + 4
    BY <1>3 DEF IsObject
  <2>. QED
    BY <2>1, <2>2, <2>3, <1>4 DEF IsMember
<1>. DEFINE d2 == a \o p
            d3 == d2 \o r
            d4 == d3 \o l
            d  == d4 \o s
<1>7. IsSeq(d2) /\ Len(d2) = 35 /\ IsConcat(d2, a, p)
  <2>1. IsConcat(d2, a, p)
    BY <1>6, ConcatAny
  <2>. HIDE DEF d2
  <2>. QED
    BY <2>1, <1>6 DEF IsConcat
<1>. HIDE DEF d2
<1>8. IsSeq(d3) /\ Len(d3) = 38 /\ IsConcat(d3, d2, r)
  <2>1. IsConcat(d3, d2, r)
    BY <1>6, <1>7, ConcatAny
  <2>. HIDE DEF d3
  <2>. QED
    BY <2>1, <1>6, <1>7 DEF IsConcat
<1>. HIDE DEF d3
<1>9. IsSeq(d4) /\ Len(d4) = 54 /\ IsConcat(d4, d3, l)
  <2>1. IsConcat(d4, d3, l)
    BY <1>6, <1>8, ConcatAny
  <2>. HIDE DEF d4
  <2>. QED
    BY <2>1, <1>6, <1>8 DEF IsConcat
<1>. HIDE DEF d4
<1>10. IsSeq(d) /\ Len(d) = 57 /\ IsConcat(d, d4, s)
  <2>1. IsConcat(d, d4, s)
    BY <1>6, <1>9, ConcatAny
  <2>. HIDE DEF d
  <2>. QED
    BY <2>1, <1>6, <1>9 DEF IsConcat
<1>11. /\ \A i \in 1 .. 54 : d[i] = d4[i]
       /\ \A i \in 1 .. 38 : d4[i] = d3[i]
       /\ \A i \in 1 .. 35 : d3[i] = d2[i]
       /\ \A i \in 1 .. 10 : d2[i] = a[i]
  BY <1>6, <1>7, <1>8, <1>9, <1>10 DEF IsConcat
<1>12. /\ \A i \in 1 .. 25 : d2[10 + i] = p[i]
       /\ \A i \in 1 .. 3 : d3[35 + i] = r[i]
       /\ \A i \in 1 .. 16 : d4[38 + i] = l[i]
       /\ \A i \in 1 .. 3 : d[54 + i] = s[i]
  <2>. HIDE DEF d
  <2>. QED
    BY <1>6, <1>7, <1>8, <1>9, <1>10 DEF IsConcat
<1>13. Document(c) = d
  BY <1>5 DEF d2, d3, d4
<1>. HIDE DEF d
<1>14. ASSUME NEW i \in 1 .. 10  PROVE d[i] = a[i]
  BY <1>11
<1>15. ASSUME NEW i \in 1 .. 25  PROVE d[10 + i] = p[i]
  <2>1. 10 + i \in 1 .. 35 /\ 10 + i \in 1 .. 38 /\ 10 + i \in 1 .. 54
    OBVIOUS
  <2>. QED
    BY <1>11, <1>12, <2>1
<1>16. ASSUME NEW i \in 1 .. 3  PROVE d[35 + i] = r[i]
  <2>1. 35 + i \in 1 .. 38 /\ 35 + i \in 1 .. 54
    OBVIOUS
  <2>. QED
    BY <1>11, <1>12, <2>1
<1>17. ASSUME NEW i \in 1 .. 16  PROVE d[38 + i] = l[i]
  <2>1. 38 + i \in 1 .. 54
    OBVIOUS
  <2>. QED
    BY <1>11, <1>12, <2>1
<1>18. IsDocument(d, c, a, p, r, l, s)
  BY <1>1, <1>2, <1>3, <1>4, <1>10, <1>12, <1>14, <1>15, <1>16, <1>17 DEF IsDocument
<1>. QED
  BY <1>13, <1>18
----------------------------------------------------------------------------
(* What find_value finds.                                                  *)

\* Where find_value finds a key of the loader in a document.
AtKey(i, x) == \/ \E k \in 1 .. 7 : i = 11 + 3 * k /\ x = ParameterKeys[k]
               \/ \E k \in 1 .. 4 : i = 39 + 3 * k /\ x = LimitKeys[k]
               \/ i = 55 /\ x = "strategy_id"

LEMMA LoaderKeysAre ==
  /\ LoaderKeys = {"base_lot", "dev_thresh", "entry_thresh", "lookback", "pos_scalar",
                   "spread_floor", "window", "max_in_flight", "max_notional_cad",
                   "max_order_rate", "max_position_shares", "strategy_id"}
  /\ KeySet(ParameterKeys) = {"base_lot", "dev_thresh", "entry_thresh", "lookback",
                              "pos_scalar", "spread_floor", "window"}
  BY KeysAre DEF LoaderKeys, Limits

LEMMA KeysApart ==
  ASSUME NEW x, NEW i, NEW j, AtKey(i, x), AtKey(j, x)
  PROVE  i = j
<1>1. /\ \A k, m \in 1 .. 7 : ParameterKeys[k] = ParameterKeys[m] => k = m
      /\ \A k, m \in 1 .. 4 : LimitKeys[k] = LimitKeys[m] => k = m
      /\ \A k \in 1 .. 7 : \A m \in 1 .. 4 : ParameterKeys[k] # LimitKeys[m]
      /\ \A k \in 1 .. 7 : ParameterKeys[k] # "strategy_id"
      /\ \A m \in 1 .. 4 : LimitKeys[m] # "strategy_id"
  BY DEF ParameterKeys, LimitKeys
<1>. QED
  BY <1>1 DEF AtKey

\* The keys the loader looks for are where the document has them and nowhere
\* else, if no text of the operator's is one of them.
LEMMA KeysOnce ==
  ASSUME NEW c, c.operator_id \notin LoaderKeys, c.regime_label \notin LoaderKeys,
         c.strategy_id \notin LoaderKeys,
         NEW d, NEW approval, NEW parameters, NEW regime, NEW limits, NEW strategy,
         IsDocument(d, c, approval, parameters, regime, limits, strategy),
         NEW x \in LoaderKeys, NEW i \in 1 .. 57, d[i] = Str(x)
  PROVE  AtKey(i, x)
<1>1. /\ x \notin {"approval", "operator_id", "timestamp", "time of approval", "parameters",
                   "regime_label", "risk_limits"}
      /\ x # c.operator_id /\ x # c.regime_label /\ x # c.strategy_id
  BY LoaderKeysAre
<1>2. /\ \A y : Str(x) = Str(y) => x = y
      /\ \A v : Str(x) # Num(v)
      /\ \A y : Str(x) # Mark(y)
  BY TokensDiffer
<1>3. CASE i \in 1 .. 10
  <2>1. approval[i] = Str(x) /\ IsObject(approval, "approval", 2, ApprovalNames, ApprovalTokens(c))
        /\ i \in 1 .. 3 * 2 + 4
    BY <1>3 DEF IsDocument
  <2>9. 2 \in Nat
    OBVIOUS
  <2>2. \/ x = "approval"
        \/ \E k \in 1 .. 2 : i = 3 * k + 1 /\ x = ApprovalNames[k]
        \/ \E k \in 1 .. 2 : ApprovalTokens(c)[k] = Str(x)
    <3>1. NameIn(i, x, "approval", 2, ApprovalNames, ApprovalTokens(c))
      BY <2>1, <2>9, ObjectNames, Zenon
    <3>. QED
      BY <3>1 DEF NameIn
  <2>3. \A k \in 1 .. 2 : ApprovalNames[k] \in {"operator_id", "timestamp"}
    BY DEF ApprovalNames
  <2>4. \A k \in 1 .. 2 : ApprovalTokens(c)[k] # Str(x)
    <3>1. ApprovalTokens(c)[1] = Str(c.operator_id) /\ ApprovalTokens(c)[2] = Str("time of approval")
      BY DEF ApprovalTokens
    <3>2. \A k \in 1 .. 2 : k = 1 \/ k = 2
      OBVIOUS
    <3>3. Str(c.operator_id) # Str(x) /\ Str("time of approval") # Str(x)
      BY <1>1, <1>2
    <3>. QED
      BY <3>1, <3>2, <3>3
  <2>. QED
    BY <1>1, <2>2, <2>3, <2>4
<1>4. CASE i \in 11 .. 35
  <2>. DEFINE q == i - 10
  <2>1. q \in 1 .. 25 /\ i = 10 + q /\ q \in 1 .. 3 * 7 + 4
    BY <1>4
  <2>2. parameters[q] = Str(x)
        /\ IsObject(parameters, "parameters", 7, ParameterKeys, ParameterTokens(c))
    <3>. HIDE DEF q
    <3>. QED
      BY <2>1 DEF IsDocument
  <2>. HIDE DEF q
  <2>3. \/ x = "parameters"
        \/ \E k \in 1 .. 7 : q = 3 * k + 1 /\ x = ParameterKeys[k]
        \/ \E k \in 1 .. 7 : ParameterTokens(c)[k] = Str(x)
    <3>1. 7 \in Nat
      OBVIOUS
    <3>2. NameIn(q, x, "parameters", 7, ParameterKeys, ParameterTokens(c))
      BY <2>1, <2>2, <3>1, ObjectNames, Zenon
    <3>. QED
      BY <3>2 DEF NameIn
  <2>4. \A k \in 1 .. 7 : ParameterTokens(c)[k] = Num(c.parameters[ParameterKeys[k]])
    BY DEF ParameterTokens
  <2>5. PICK k \in 1 .. 7 : q = 3 * k + 1 /\ x = ParameterKeys[k]
    BY <1>1, <1>2, <2>3, <2>4
  <2>6. i = 11 + 3 * k
    BY <2>1, <2>5
  <2>. QED
    BY <2>5, <2>6 DEF AtKey
<1>5. CASE i \in 36 .. 38
  <2>1. i = 36 \/ i = 37 \/ i = 38
    BY <1>5
  <2>2. d[35 + 1] = Str("regime_label") /\ d[35 + 2] = Mark(":") /\ d[35 + 3] = Str(c.regime_label)
    BY DEF IsDocument, IsMember
  <2>3. d[36] = Str("regime_label") /\ d[37] = Mark(":") /\ d[38] = Str(c.regime_label)
    BY <2>2
  <2>. QED
    BY <1>1, <1>2, <2>1, <2>3
<1>6. CASE i \in 39 .. 54
  <2>. DEFINE q == i - 38
  <2>1. q \in 1 .. 16 /\ i = 38 + q /\ q \in 1 .. 3 * 4 + 4
    BY <1>6
  <2>2. limits[q] = Str(x)
        /\ IsObject(limits, "risk_limits", 4, LimitKeys, LimitTokens(c))
    <3>. HIDE DEF q
    <3>. QED
      BY <2>1 DEF IsDocument
  <2>. HIDE DEF q
  <2>3. \/ x = "risk_limits"
        \/ \E k \in 1 .. 4 : q = 3 * k + 1 /\ x = LimitKeys[k]
        \/ \E k \in 1 .. 4 : LimitTokens(c)[k] = Str(x)
    <3>1. 4 \in Nat
      OBVIOUS
    <3>2. NameIn(q, x, "risk_limits", 4, LimitKeys, LimitTokens(c))
      BY <2>1, <2>2, <3>1, ObjectNames, Zenon
    <3>. QED
      BY <3>2 DEF NameIn
  <2>4. \A k \in 1 .. 4 : LimitTokens(c)[k] = Num(Whole(c.risk_limits[LimitKeys[k]]))
    BY DEF LimitTokens
  <2>5. PICK k \in 1 .. 4 : q = 3 * k + 1 /\ x = LimitKeys[k]
    BY <1>1, <1>2, <2>3, <2>4
  <2>6. i = 39 + 3 * k
    BY <2>1, <2>5
  <2>. QED
    BY <2>5, <2>6 DEF AtKey
<1>7. CASE i \in 55 .. 57
  <2>1. i = 55 \/ i = 56 \/ i = 57
    BY <1>7
  <2>2. d[54 + 1] = Str("strategy_id") /\ d[54 + 2] = Mark(":") /\ d[54 + 3] = Str(c.strategy_id)
    BY DEF IsDocument, IsMember
  <2>3. d[55] = Str("strategy_id") /\ d[56] = Mark(":") /\ d[57] = Str(c.strategy_id)
    BY <2>2
  <2>4. d[56] # Str(x) /\ d[57] # Str(x)
    BY <1>1, <1>2, <2>3
  <2>5. i = 55
    BY <2>1, <2>4
  <2>6. x = "strategy_id"
    BY <1>2, <2>3, <2>5
  <2>. QED
    BY <2>5, <2>6 DEF AtKey
<1>. QED
  BY <1>3, <1>4, <1>5, <1>6, <1>7

\* What the document has at its keys.
HasKey(d, i, x, token) ==
  i \in 1 .. 55 /\ d[i] = Str(x) /\ d[i + 1] = Mark(":") /\ d[i + 2] = token

LEMMA KeysHaveValues ==
  ASSUME NEW c, NEW d, NEW approval, NEW parameters, NEW regime, NEW limits, NEW strategy,
         IsDocument(d, c, approval, parameters, regime, limits, strategy)
  PROVE  /\ \A k \in 1 .. 7 :
              HasKey(d, 11 + 3 * k, ParameterKeys[k], Num(c.parameters[ParameterKeys[k]]))
         /\ \A k \in 1 .. 4 :
              HasKey(d, 39 + 3 * k, LimitKeys[k], Num(Whole(c.risk_limits[LimitKeys[k]])))
         /\ HasKey(d, 55, "strategy_id", Str(c.strategy_id))
<1>1. ASSUME NEW k \in 1 .. 7
      PROVE  HasKey(d, 11 + 3 * k, ParameterKeys[k], Num(c.parameters[ParameterKeys[k]]))
  <2>1. /\ parameters[3 * k + 1] = Str(ParameterKeys[k])
        /\ parameters[3 * k + 2] = Mark(":")
        /\ parameters[3 * k + 3] = Num(c.parameters[ParameterKeys[k]])
    BY DEF IsDocument, IsObject, ParameterTokens
  <2>2. \A i \in 1 .. 25 : d[10 + i] = parameters[i]
    BY DEF IsDocument
  <2>3. /\ 3 * k + 1 \in 1 .. 25 /\ 10 + (3 * k + 1) = 11 + 3 * k
        /\ 3 * k + 2 \in 1 .. 25 /\ 10 + (3 * k + 2) = (11 + 3 * k) + 1
        /\ 3 * k + 3 \in 1 .. 25 /\ 10 + (3 * k + 3) = (11 + 3 * k) + 2
        /\ 11 + 3 * k \in 1 .. 55
    OBVIOUS
  <2>. QED
    BY <2>1, <2>2, <2>3 DEF HasKey
<1>2. ASSUME NEW k \in 1 .. 4
      PROVE  HasKey(d, 39 + 3 * k, LimitKeys[k], Num(Whole(c.risk_limits[LimitKeys[k]])))
  <2>1. /\ limits[3 * k + 1] = Str(LimitKeys[k])
        /\ limits[3 * k + 2] = Mark(":")
        /\ limits[3 * k + 3] = Num(Whole(c.risk_limits[LimitKeys[k]]))
    BY DEF IsDocument, IsObject, LimitTokens
  <2>2. \A i \in 1 .. 16 : d[38 + i] = limits[i]
    BY DEF IsDocument
  <2>3. /\ 3 * k + 1 \in 1 .. 16 /\ 38 + (3 * k + 1) = 39 + 3 * k
        /\ 3 * k + 2 \in 1 .. 16 /\ 38 + (3 * k + 2) = (39 + 3 * k) + 1
        /\ 3 * k + 3 \in 1 .. 16 /\ 38 + (3 * k + 3) = (39 + 3 * k) + 2
        /\ 39 + 3 * k \in 1 .. 55
    OBVIOUS
  <2>. QED
    BY <2>1, <2>2, <2>3 DEF HasKey
<1>3. HasKey(d, 55, "strategy_id", Str(c.strategy_id))
  <2>1. d[54 + 1] = Str("strategy_id") /\ d[54 + 2] = Mark(":") /\ d[54 + 3] = Str(c.strategy_id)
    BY DEF IsDocument, IsMember
  <2>2. 54 + 1 = 55 /\ 54 + 2 = 55 + 1 /\ 54 + 3 = 55 + 2 /\ 55 \in 1 .. 55
    OBVIOUS
  <2>. QED
    BY <2>1, <2>2 DEF HasKey
<1>. QED
  BY <1>1, <1>2, <1>3

\* find_value, for a text that holds the key once or not at all.
LEMMA FindIs ==
  ASSUME NEW text, Len(text) \in Nat, NEW key, NEW i \in 1 .. Len(text), text[i] = Str(key),
         \A j \in 1 .. Len(text) : text[j] = Str(key) => j = i
  PROVE  /\ i + 2 <= Len(text) /\ text[i + 1] = Mark(":") => FindValue(text, key) = text[i + 2]
         /\ i + 1 = Len(text) /\ text[i + 1] = Mark(":") => FindValue(text, key) = End
         /\ i = Len(text) => FindValue(text, key) = Nothing
<1>. DEFINE I == {j \in 1 .. Len(text) : text[j] = Str(key)}
            name == IF I # {} THEN Min(I) ELSE 0
            J == {j \in name + 1 .. Len(text) : text[j] = Mark(":")}
            colon == IF J # {} THEN Min(J) ELSE 0
<1>1. FindValue(text, key) = IF name = 0 \/ colon = 0 THEN Nothing
                             ELSE IF colon = Len(text) THEN End ELSE text[colon + 1]
  BY DEF FindValue, SelectInSeq, SelectInSubSeq
<1>2. I = {i} /\ i \in Int
  OBVIOUS
<1>3. Min(I) = i
  <2>. HIDE DEF I
  <2>. QED
    BY <1>2 DEF Min
<1>4. name = i
  BY <1>2, <1>3
<1>5. J = {j \in i + 1 .. Len(text) : text[j] = Mark(":")}
  BY <1>4
<1>. HIDE DEF I, name
<1>6. ASSUME i + 1 <= Len(text), text[i + 1] = Mark(":")  PROVE colon = i + 1
  <2>1. /\ i + 1 \in J /\ i + 1 \in Int
        /\ \A j \in J : j \in Int /\ i + 1 <= j
    BY <1>5, <1>6
  <2>2. Min(J) = i + 1
    <3>. HIDE DEF J
    <3>. QED
      BY <2>1 DEF Min
  <2>. QED
    BY <2>1, <2>2
<1>7. ASSUME i = Len(text)  PROVE colon = 0
  BY <1>5, <1>7
<1>. HIDE DEF J, colon
<1>8. i # 0 /\ i + 1 # 0
  OBVIOUS
<1>9. i + 2 <= Len(text) => i + 1 <= Len(text) /\ i + 1 # Len(text) /\ (i + 1) + 1 = i + 2
  OBVIOUS
<1>. QED
  BY <1>1, <1>4, <1>6, <1>7, <1>8, <1>9

LEMMA FindNothing ==
  ASSUME NEW text, Len(text) \in Nat, NEW key, \A j \in 1 .. Len(text) : text[j] # Str(key)
  PROVE  FindValue(text, key) = Nothing
<1>. DEFINE I == {j \in 1 .. Len(text) : text[j] = Str(key)}
            name == IF I # {} THEN Min(I) ELSE 0
            J == {j \in name + 1 .. Len(text) : text[j] = Mark(":")}
            colon == IF J # {} THEN Min(J) ELSE 0
<1>1. FindValue(text, key) = IF name = 0 \/ colon = 0 THEN Nothing
                             ELSE IF colon = Len(text) THEN End ELSE text[colon + 1]
  BY DEF FindValue, SelectInSeq, SelectInSubSeq
<1>2. name = 0
  OBVIOUS
<1>. HIDE DEF colon, name
<1>. QED
  BY <1>1, <1>2
----------------------------------------------------------------------------
(* Pushes that break off.                                                  *)

\* A text with the first n tokens of a document and perhaps a piece of the next.
IsPart(text, d, n) ==
  /\ Len(text) \in Nat
  /\ \A i \in 1 .. n : text[i] = d[i]
  /\ Len(text) = n \/ (n < Len(d) /\ Len(text) = n + 1 /\ text[n + 1] \in Pieces(d[n + 1]))

LEMMA PartIs ==
  ASSUME NEW d, IsSeq(d), NEW n \in 0 .. Len(d), NEW text \in Part(d, n)
  PROVE  IsPart(text, d, n)
<1>. DEFINE front == SubSeq(d, 1, n)
<1>1. PICK S : d \in Seq(S)
  BY DEF IsSeq
<1>2. Len(d) \in Nat /\ n \in Nat /\ \A i \in 1 .. n : d[i] \in S
  BY <1>1
<1>3. /\ front \in Seq(S) /\ Len(front) = IF 1 <= n THEN n - 1 + 1 ELSE 0
      /\ \A i \in 1 .. n - 1 + 1 : front[i] = d[1 + i - 1]
  BY <1>2, SubSeqProperties
<1>4. IsSeq(front) /\ Len(front) = n /\ \A i \in 1 .. n : front[i] = d[i]
  <2>1. n - 1 + 1 = n /\ \A i \in 1 .. n : 1 + i - 1 = i
    BY <1>2
  <2>. HIDE DEF front
  <2>. QED
    BY <1>2, <1>3, <2>1 DEF IsSeq
<1>5. CASE text = front
  <2>. HIDE DEF front
  <2>. QED
    BY <1>2, <1>4, <1>5 DEF IsPart
<1>6. ASSUME n < Len(d), NEW piece \in Pieces(d[n + 1]), text = Append(front, piece)
      PROVE  IsPart(text, d, n)
  <2>. HIDE DEF front
  <2>1. /\ Len(text) = n + 1 /\ \A i \in 1 .. n : text[i] = front[i]
        /\ text[n + 1] = piece
    BY <1>4, <1>6, AppendAny
  <2>. QED
    BY <1>2, <1>4, <1>6, <2>1 DEF IsPart
<1>. QED
  BY <1>5, <1>6 DEF Part

\* A piece of a token is no string, and there are none of a mark.
LEMMA PiecesAre ==
  ASSUME NEW x, NEW token
  PROVE  /\ Str(x) \notin Pieces(token)
         /\ Pieces(Mark(x)) = {}
         /\ Pieces(Str(x)) = {Cut(x), Cut("part of a text")}
<1>1. Str(x).kind = "str" /\ Str(x).text = x /\ Mark(x).kind = "mark"
  BY DEF Str, Mark
<1>2. Pieces(Mark(x)) = {} /\ Pieces(Str(x)) = {Cut(x), Cut("part of a text")}
  BY <1>1 DEF Pieces
<1>3. \A y : Cut(y).kind = "cut" /\ Num(y).kind = "num"
  BY DEF Cut, Num
<1>4. ASSUME Str(x) \in Pieces(token)  PROVE FALSE
  <2>1. CASE token.kind = "str"
    <3>1. Str(x) \in {Cut(token.text), Cut("part of a text")}
      BY <1>4, <2>1 DEF Pieces
    <3>. QED
      BY <1>1, <1>3, <3>1
  <2>2. CASE token.kind = "num"
    <3>1. Str(x) \in {Num(Whole(n)) : n \in 0 .. token.whole}
      BY <1>4, <2>2 DEF Pieces
    <3>. QED
      BY <1>1, <1>3, <3>1
  <2>3. CASE token.kind # "str" /\ token.kind # "num"
    BY <1>4, <2>3 DEF Pieces
  <2>. QED
    BY <2>1, <2>2, <2>3
<1>. QED
  BY <1>2, <1>4

\* The whole document, or all of it but the end of the last string.
AsWritten(text, c) ==
  \E d, approval, parameters, regime, limits, strategy :
    /\ IsDocument(d, c, approval, parameters, regime, limits, strategy)
    /\ Len(text) = 57 /\ \A i \in 1 .. 56 : text[i] = d[i]
    /\ text[57] \in {Str(c.strategy_id), Cut(c.strategy_id)}

Plain(c) == /\ c.operator_id \notin LoaderKeys /\ c.regime_label \notin LoaderKeys
            /\ c.strategy_id \in DOMAIN StrategyIndex

LEMMA StrategiesAre ==
  /\ DOMAIN StrategyIndex = {"momentum", "mean_reversion", "defensive"}
  /\ \A x \in DOMAIN StrategyIndex : x \notin LoaderKeys
  /\ "part of a text" \notin DOMAIN StrategyIndex
<1>1. DOMAIN StrategyIndex = {"momentum", "mean_reversion", "defensive"}
  BY DEF StrategyIndex
<1>. QED
  BY <1>1, LoaderKeysAre

\* The loader does not accept a file before the last value is there: that is the
\* strategy, whose key no shorter part has a value for.
LEMMA TornIsRefused ==
  ASSUME NEW c, Plain(c), NEW n \in 0 .. Len(Document(c)), NEW text \in Part(Document(c), n),
         Accepts(text)
  PROVE  AsWritten(text, c)
<1>1. PICK a, p, r, l, s : IsDocument(Document(c), c, a, p, r, l, s)
  BY DocumentIs
<1>. DEFINE d == Document(c)
<1>2. Len(d) = 57 /\ IsSeq(d)
  BY <1>1 DEF IsDocument
<1>3. IsPart(text, d, n)
  BY <1>2, PartIs
<1>4. d[55] = Str("strategy_id") /\ d[56] = Mark(":") /\ d[57] = Str(c.strategy_id)
  <2>1. HasKey(d, 55, "strategy_id", Str(c.strategy_id))
    BY <1>1, KeysHaveValues
  <2>. HIDE DEF d
  <2>. QED
    BY <2>1 DEF HasKey
<1>5. ASSUME NEW i \in 1 .. 57, d[i] = Str("strategy_id")  PROVE i = 55
  <2>1. "strategy_id" \in LoaderKeys
    BY LoaderKeysAre
  <2>2. AtKey(i, "strategy_id")
    BY <1>1, <1>5, <2>1, KeysOnce, StrategiesAre DEF Plain
  <2>3. AtKey(55, "strategy_id")
    BY DEF AtKey
  <2>. QED
    BY <2>2, <2>3, KeysApart
<1>. DEFINE v == FindValue(text, "strategy_id")
<1>6. IsString(v) /\ v.text \in DOMAIN StrategyIndex
  BY DEF Accepts
<1>7. v # Nothing /\ v # End
  BY <1>6 DEF IsString, Nothing, End
<1>. HIDE DEF d, v
<1>8. n \in 0 .. 57
  BY <1>2 DEF d
<1>9. ASSUME NEW i \in 1 .. Len(text), text[i] = Str("strategy_id")  PROVE i <= n /\ i = 55
  <2>1. i <= n
    <3>1. CASE i = n + 1
      <4>1. text[i] \in Pieces(d[n + 1])
        BY <1>3, <1>8, <3>1 DEF IsPart
      <4>2. text[i] # Str("strategy_id")
        BY <4>1, PiecesAre
      <4>. QED
        BY <1>9, <4>2
    <3>. QED
      BY <1>3, <1>8, <3>1 DEF IsPart
  <2>2. i \in 1 .. 57 /\ d[i] = Str("strategy_id")
    BY <1>3, <1>8, <1>9, <2>1 DEF IsPart
  <2>. QED
    BY <1>5, <2>1, <2>2
<1>10. n >= 55 /\ Len(text) >= 55 /\ text[55] = Str("strategy_id")
  <2>1. Len(text) \in Nat
    BY <1>3 DEF IsPart
  <2>2. PICK i \in 1 .. Len(text) : text[i] = Str("strategy_id")
    BY <1>7, <2>1, FindNothing DEF v
  <2>. QED
    BY <1>9, <2>1, <2>2
<1>11. /\ 55 = Len(text) => v = Nothing
       /\ 56 = Len(text) /\ text[56] = Mark(":") => v = End
       /\ 57 <= Len(text) /\ text[56] = Mark(":") => v = text[57]
  <2>1. Len(text) \in Nat /\ 55 \in 1 .. Len(text)
    BY <1>3, <1>10 DEF IsPart
  <2>2. \A j \in 1 .. Len(text) : text[j] = Str("strategy_id") => j = 55
    BY <1>9
  <2>3. /\ 55 + 2 <= Len(text) /\ text[55 + 1] = Mark(":") => v = text[55 + 2]
        /\ 55 + 1 = Len(text) /\ text[55 + 1] = Mark(":") => v = End
        /\ 55 = Len(text) => v = Nothing
    BY <1>10, <2>1, <2>2, FindIs DEF v
  <2>. QED
    BY <2>3
<1>12. n # 55
  <2>1. ASSUME n = 55  PROVE FALSE
    <3>1. Len(text) = 56 /\ text[56] \in Pieces(d[56])
      BY <1>3, <1>7, <1>11, <2>1 DEF IsPart
    <3>. QED
      BY <1>4, <3>1, PiecesAre
  <2>. QED
    BY <2>1
<1>13. /\ \A i \in 1 .. n : text[i] = d[i]
       /\ Len(text) \in Nat
       /\ Len(text) = n \/ (n < 57 /\ Len(text) = n + 1 /\ text[n + 1] \in Pieces(d[n + 1]))
  BY <1>2, <1>3 DEF IsPart
<1>14. n = 56 \/ n = 57
  BY <1>8, <1>10, <1>12
<1>15. text[56] = Mark(":")
  BY <1>4, <1>13, <1>14
<1>16. Len(text) = 57 /\ v = text[57]
  <2>1. Len(text) # 56
    BY <1>7, <1>11, <1>15
  <2>2. Len(text) = 57
    <3>1. Len(text) = n \/ (n < 57 /\ Len(text) = n + 1)
      BY <1>13
    <3>2. CASE n = 56
      BY <2>1, <3>1, <3>2
    <3>3. CASE n = 57
      BY <3>1, <3>3
    <3>. QED
      BY <1>14, <3>2, <3>3
  <2>. QED
    BY <1>11, <1>15, <2>2
<1>18. text[57] \in {Str(c.strategy_id), Cut(c.strategy_id)}
  <2>1. CASE n = 57
    BY <1>4, <1>13, <2>1
  <2>2. CASE n = 56
    <3>1. text[57] \in Pieces(d[57])
      BY <1>13, <1>16, <2>2
    <3>2. text[57] = Cut(c.strategy_id) \/ text[57] = Cut("part of a text")
      BY <1>4, <3>1, PiecesAre
    <3>3. Cut("part of a text").text = "part of a text"
      BY DEF Cut
    <3>4. text[57] # Cut("part of a text")
      BY <1>6, <1>16, <3>3, StrategiesAre
    <3>. QED
      BY <1>4, <3>2, <3>4
  <2>. QED
    BY <1>14, <2>1, <2>2
<1>19. \A i \in 1 .. 56 : text[i] = d[i]
  BY <1>13, <1>14
<1>17. IsDocument(d, c, a, p, r, l, s)
  BY <1>1 DEF d
<1>. QED
  BY <1>16, <1>17, <1>18, <1>19 DEF AsWritten

\* What the loader finds in a text as it was written.
LEMMA FoundAsWritten ==
  ASSUME NEW c, Plain(c), NEW text, AsWritten(text, c)
  PROVE  /\ \A x \in KeySet(ParameterKeys) : FindValue(text, x) = Num(c.parameters[x])
         /\ \A x \in Limits : FindValue(text, x) = Num(Whole(c.risk_limits[x]))
         /\ FindValue(text, "strategy_id") \in {Str(c.strategy_id), Cut(c.strategy_id)}
<1>1. PICK d, a, p, r, l, s :
        /\ IsDocument(d, c, a, p, r, l, s)
        /\ Len(text) = 57 /\ \A i \in 1 .. 56 : text[i] = d[i]
        /\ text[57] \in {Str(c.strategy_id), Cut(c.strategy_id)}
  BY DEF AsWritten
<1>2. ASSUME NEW x \in LoaderKeys, NEW i, NEW token, HasKey(d, i, x, token), AtKey(i, x)
      PROVE  FindValue(text, x) = text[i + 2]
  <2>1. i \in 1 .. 55 /\ d[i] = Str(x) /\ d[i + 1] = Mark(":")
    BY <1>2 DEF HasKey
  <2>2. i \in 1 .. Len(text) /\ text[i] = Str(x) /\ text[i + 1] = Mark(":")
        /\ i + 2 <= Len(text) /\ Len(text) \in Nat
    BY <1>1, <2>1
  <2>3. ASSUME NEW j \in 1 .. Len(text), text[j] = Str(x)  PROVE j = i
    <3>1. j # 57
      <4>1. Str(x) # Cut(c.strategy_id)
        BY TokensDiffer
      <4>2. Str(x) = Str(c.strategy_id) => x = c.strategy_id
        BY TokensDiffer
      <4>3. x # c.strategy_id
        BY <1>2, StrategiesAre DEF Plain
      <4>. QED
        BY <1>1, <2>3, <4>1, <4>2, <4>3
    <3>2. j \in 1 .. 57 /\ d[j] = Str(x)
      BY <1>1, <2>3, <3>1
    <3>3. AtKey(j, x)
      BY <1>1, <1>2, <3>2, KeysOnce, StrategiesAre DEF Plain
    <3>. QED
      BY <1>2, <3>3, KeysApart
  <2>. QED
    BY <2>2, <2>3, FindIs
<1>3. ASSUME NEW k \in 1 .. 7
      PROVE  FindValue(text, ParameterKeys[k]) = Num(c.parameters[ParameterKeys[k]])
  <2>. DEFINE i == 11 + 3 * k
              x == ParameterKeys[k]
  <2>1. HasKey(d, i, x, Num(c.parameters[x]))
    BY <1>1, KeysHaveValues
  <2>2. AtKey(i, x)
    BY DEF AtKey
  <2>3. x \in LoaderKeys
    BY DEF LoaderKeys, KeySet, ParameterKeys
  <2>4. i + 2 \in 1 .. 56
    OBVIOUS
  <2>. HIDE DEF i, x
  <2>5. FindValue(text, x) = text[i + 2]
    BY <1>2, <2>1, <2>2, <2>3
  <2>6. d[i + 2] = Num(c.parameters[x])
    BY <2>1 DEF HasKey
  <2>7. FindValue(text, x) = Num(c.parameters[x])
    BY <1>1, <2>4, <2>5, <2>6
  <2>. QED
    BY <2>7 DEF x
<1>4. ASSUME NEW k \in 1 .. 4
      PROVE  FindValue(text, LimitKeys[k]) = Num(Whole(c.risk_limits[LimitKeys[k]]))
  <2>. DEFINE i == 39 + 3 * k
              x == LimitKeys[k]
  <2>1. HasKey(d, i, x, Num(Whole(c.risk_limits[x])))
    BY <1>1, KeysHaveValues
  <2>2. AtKey(i, x)
    BY DEF AtKey
  <2>3. x \in LoaderKeys
    BY DEF LoaderKeys, Limits, LimitKeys
  <2>4. i + 2 \in 1 .. 56
    OBVIOUS
  <2>. HIDE DEF i, x
  <2>5. FindValue(text, x) = text[i + 2]
    BY <1>2, <2>1, <2>2, <2>3
  <2>6. d[i + 2] = Num(Whole(c.risk_limits[x]))
    BY <2>1 DEF HasKey
  <2>7. FindValue(text, x) = Num(Whole(c.risk_limits[x]))
    BY <1>1, <2>4, <2>5, <2>6
  <2>. QED
    BY <2>7 DEF x
<1>5. FindValue(text, "strategy_id") = text[57]
  <2>1. HasKey(d, 55, "strategy_id", Str(c.strategy_id)) /\ AtKey(55, "strategy_id")
    BY <1>1, KeysHaveValues DEF AtKey
  <2>2. "strategy_id" \in LoaderKeys /\ 55 + 2 = 57
    BY LoaderKeysAre
  <2>3. FindValue(text, "strategy_id") = text[55 + 2]
    BY <1>2, <2>1, <2>2
  <2>. QED
    BY <2>2, <2>3
<1>6. ASSUME NEW x \in KeySet(ParameterKeys)  PROVE FindValue(text, x) = Num(c.parameters[x])
  <2>1. PICK k \in 1 .. 7 : x = ParameterKeys[k]
    BY DEF KeySet, ParameterKeys
  <2>. QED
    BY <1>3, <2>1
<1>7. ASSUME NEW x \in Limits  PROVE FindValue(text, x) = Num(Whole(c.risk_limits[x]))
  <2>1. PICK k \in 1 .. 4 : x = LimitKeys[k]
    BY DEF Limits, LimitKeys
  <2>. QED
    BY <1>4, <2>1
<1>. QED
  BY <1>1, <1>5, <1>6, <1>7
\* What the getters are to return for a config.
AsApproved(c) == [parameters  |-> c.parameters,
                  risk_limits |-> c.risk_limits,
                  strategy    |-> StrategyIndex[c.strategy_id]]

\* A text as it was written is accepted, and gives the config it is of.
LEMMA LoadedAsWritten ==
  ASSUME NEW c, Deliverable(c), c.operator_id \notin LoaderKeys, NEW text, AsWritten(text, c)
  PROVE  Accepts(text) /\ Loaded(text) = AsApproved(c)
<1>. DEFINE v(x) == FindValue(text, x)
            keys == KeySet(ParameterKeys)
<1>1. /\ \A x \in keys : v(x) = Num(c.parameters[x])
      /\ \A x \in Limits : v(x) = Num(Whole(c.risk_limits[x]))
      /\ v("strategy_id") \in {Str(c.strategy_id), Cut(c.strategy_id)}
  BY FoundAsWritten DEF Deliverable, Plain
<1>. HIDE DEF v
<1>2. v("strategy_id").kind \in {"str", "cut"} /\ v("strategy_id").text = c.strategy_id
  BY <1>1 DEF Str, Cut
<1>3. ASSUME NEW x \in keys
      PROVE  /\ v(x).kind = "num" /\ v(x).whole = c.parameters[x][1] /\ v(x).frac = c.parameters[x][2]
             /\ v(x).whole \in Nat /\ v(x).frac \in Fractions
             /\ Value(v(x)) = c.parameters[x]
             /\ v(x).whole > 0 \/ v(x).frac = "half"
  <2>1. /\ v(x).kind = "num" /\ v(x).whole = c.parameters[x][1]
        /\ v(x).frac = c.parameters[x][2]
    BY <1>1 DEF Num
  <2>2. c.parameters[x] \in Nat \X Fractions /\ Positive(c.parameters[x])
    BY DEF Deliverable, Number
  <2>3. Value(v(x)) = c.parameters[x]
    BY <2>1, <2>2 DEF Value
  <2>. QED
    BY <2>1, <2>2, <2>3 DEF Positive
<1>4. ASSUME NEW x \in Limits
      PROVE  /\ v(x).kind = "num" /\ v(x).whole = c.risk_limits[x] /\ v(x).frac = "none"
             /\ v(x).whole \in 1 .. Ceiling[x] /\ v(x).whole \in Nat
  <2>1. v(x).kind = "num" /\ v(x).whole = c.risk_limits[x] /\ v(x).frac = "none"
    BY <1>1 DEF Num, Whole
  <2>. QED
    BY <2>1 DEF Deliverable
<1>5. Accepts(text)
  <2>1. IsString(v("strategy_id")) /\ v("strategy_id").text \in DOMAIN StrategyIndex
    BY <1>2 DEF IsString, Deliverable
  <2>2. \A x \in {"base_lot", "spread_floor", "lookback", "window", "entry_thresh", "dev_thresh",
                  "pos_scalar"} : x \in keys
    BY LoaderKeysAre
  <2>3. \A x \in {"base_lot", "spread_floor"} : c.parameters[x][2] = "none"
    BY DEF Deliverable
  <2>4. PositiveInteger(v("base_lot")) /\ IsInteger(v("spread_floor"))
    BY <1>3, <2>2, <2>3 DEF PositiveInteger, IsInteger, IsNumber
  <2>5. ASSUME NEW x \in {"lookback", "window"}
        PROVE  IsInteger(v(x)) /\ v(x).whole \in 1 .. RingSize - 1
    <3>1. c.parameters[x] \in (1 .. RingSize - 1) \X {"none"}
      BY DEF Deliverable
    <3>2. x \in keys
      BY <2>2
    <3>. QED
      BY <1>3, <3>1, <3>2 DEF IsInteger, IsNumber
  <2>6. \A x \in {"entry_thresh", "dev_thresh", "pos_scalar"} : PositiveFloat(v(x))
    <3>1. \A x \in keys : PositiveFloat(v(x))
      BY <1>3 DEF PositiveFloat, IsNumber
    <3>. QED
      BY <2>2, <3>1
  <2>7. \A x \in Limits \ {"max_in_flight"} : CheckedLimit(text, x)
    BY <1>4 DEF CheckedLimit, IsInteger, IsNumber, v
  <2>8. InFlightAccepted(text)
    <3>1. "max_in_flight" \in Limits
      BY DEF Limits
    <3>. QED
      BY <1>4, <3>1 DEF InFlightAccepted, OptInt, IsNumber, v
  <2>. QED
    BY <2>1, <2>4, <2>5, <2>6, <2>7, <2>8 DEF Accepts, v
<1>6. Loaded(text).parameters = c.parameters
  <2>1. c.parameters \in [keys -> Number]
    BY DEF Deliverable
  <2>2. Loaded(text).parameters = [x \in keys |-> Value(v(x))]
    BY DEF Loaded, v
  <2>3. \A x \in keys : Value(v(x)) = c.parameters[x]
    BY <1>3
  <2>. QED
    BY <2>1, <2>2, <2>3
<1>7. Loaded(text).risk_limits = c.risk_limits
  <2>1. c.risk_limits \in [Limits -> Nat]
    BY DEF Deliverable
  <2>2. Loaded(text).risk_limits =
          [x \in Limits |-> IF x = "max_in_flight" THEN InFlightLimit(text) ELSE v(x).whole]
    BY DEF Loaded, v
  <2>3. InFlightLimit(text) = c.risk_limits["max_in_flight"]
    <3>1. "max_in_flight" \in Limits
      BY DEF Limits
    <3>. QED
      BY <1>4, <3>1 DEF InFlightLimit, OptIntAbsent, IsString, OptInt, IsNumber, v
  <2>4. \A x \in Limits :
          (IF x = "max_in_flight" THEN InFlightLimit(text) ELSE v(x).whole) = c.risk_limits[x]
    BY <1>4, <2>3
  <2>. QED
    BY <2>1, <2>2, <2>4
<1>8. Loaded(text).strategy = StrategyIndex[c.strategy_id]
  BY <1>2 DEF Loaded, v
<1>9. Loaded(text) = [parameters |-> Loaded(text).parameters,
                      risk_limits |-> Loaded(text).risk_limits, strategy |-> Loaded(text).strategy]
  BY DEF Loaded
<1>. QED
  BY <1>5, <1>6, <1>7, <1>8, <1>9 DEF AsApproved

\* The whole of a document is a part of it, and no other text of its length is
\* needed for it: it is as it was written.
LEMMA WholeAsWritten ==
  ASSUME NEW c
  PROVE  /\ Len(Document(c)) = 57 /\ Document(c) \in Part(Document(c), 57)
         /\ AsWritten(Document(c), c)
<1>1. PICK a, p, r, l, s : IsDocument(Document(c), c, a, p, r, l, s)
  BY DocumentIs
<1>. DEFINE d == Document(c)
<1>2. Len(d) = 57 /\ IsSeq(d)
  BY <1>1 DEF IsDocument
<1>3. SubSeq(d, 1, 57) = d
  <2>1. PICK S : d \in Seq(S)
    BY <1>2 DEF IsSeq
  <2>. HIDE DEF d
  <2>2. \A i \in 1 .. 57 : d[i] \in S
    <3>1. \A i \in 1 .. Len(d) : d[i] \in S
      BY <2>1
    <3>. QED
      BY <1>2, <3>1
  <2>. DEFINE e == SubSeq(d, 1, 57)
  <2>3. /\ e \in Seq(S) /\ Len(e) = 57
        /\ \A i \in 1 .. 57 : e[i] = d[i]
    <3>1. /\ e \in Seq(S) /\ Len(e) = IF 1 <= 57 THEN 57 - 1 + 1 ELSE 0
          /\ \A i \in 1 .. 57 - 1 + 1 : e[i] = d[1 + i - 1]
      BY <2>2, SubSeqProperties
    <3>2. 57 - 1 + 1 = 57 /\ \A i \in 1 .. 57 : 1 + i - 1 = i
      OBVIOUS
    <3>. HIDE DEF e
    <3>. QED
      BY <3>1, <3>2
  <2>. HIDE DEF e
  <2>5. Len(e) = Len(d) /\ \A i \in 1 .. Len(e) : e[i] = d[i]
    BY <1>2, <2>3
  <2>4. e = d
    BY <2>1, <2>3, <2>5, SeqEqual
  <2>. QED
    BY <2>4 DEF e
<1>4. d \in Part(d, 57)
  <2>. HIDE DEF d
  <2>. QED
    BY <1>3 DEF Part
<1>5. d[57] = Str(c.strategy_id)
  <2>1. HasKey(d, 55, "strategy_id", Str(c.strategy_id))
    BY <1>1, KeysHaveValues
  <2>. HIDE DEF d
  <2>. QED
    BY <2>1 DEF HasKey
<1>6. AsWritten(d, c)
  <2>1. IsDocument(d, c, a, p, r, l, s)
    BY <1>1
  <2>. HIDE DEF d
  <2>. QED
    BY <1>2, <1>5, <2>1 DEF AsWritten
<1>. QED
  BY <1>2, <1>4, <1>6

----------------------------------------------------------------------------
(* The config loader.                                                      *)

InRange(l) == /\ \A limit \in Limits : l.risk_limits[limit] \in 1 .. Ceiling[limit]
              /\ \A axis \in {"lookback", "window"} :
                   l.parameters[axis][1] \in 1 .. RingSize - 1

\* The getters that have returned gave what is loaded, in order.
Kept == /\ loaded # None => InRange(loaded)
        /\ loaded = None => got = <<>>
        /\ \/ core = "off" /\ got = <<>>
           \/ core = "rejected"
           \/ core = "risk_limits" /\ got = <<>>
           \/ core = "parameters" /\ loaded # None /\ got = <<loaded.risk_limits>>
           \/ /\ core = "strategy" /\ loaded # None
              /\ got = <<loaded.risk_limits, loaded.parameters>>
           \/ /\ core = "trading" /\ loaded # None
              /\ got = <<loaded.risk_limits, loaded.parameters, loaded.strategy>>

\* A text that is accepted leaves limits within the ceilings, the optional one
\* included, and a ring that is long enough.
LEMMA AcceptedInRange ==
  ASSUME NEW text, Accepts(text)
  PROVE  InRange(Loaded(text))
<1>1. ASSUME NEW limit \in Limits
      PROVE  Loaded(text).risk_limits[limit] \in 1 .. Ceiling[limit]
  <2>1. CASE limit = "max_in_flight"
    <3>1. Loaded(text).risk_limits[limit] = InFlightLimit(text)
      BY <2>1 DEF Loaded, Limits
    <3>2. Ceiling[limit] \in 1 .. Ceiling[limit]
      BY CeilingAssumption
    <3>3. InFlightAccepted(text)  BY DEF Accepts
    <3>. QED  BY <2>1, <3>1, <3>2, <3>3 DEF InFlightLimit, InFlightAccepted
  <2>2. CASE limit # "max_in_flight"
    <3>1. Loaded(text).risk_limits[limit] = FindValue(text, limit).whole
      BY <2>2 DEF Loaded
    <3>2. CheckedLimit(text, limit)  BY <2>2 DEF Accepts
    <3>. QED  BY <3>1, <3>2 DEF CheckedLimit
  <2>. QED  BY <2>1, <2>2
<1>2. ASSUME NEW axis \in {"lookback", "window"}
      PROVE  Loaded(text).parameters[axis][1] \in 1 .. RingSize - 1
  <2>1. axis \in KeySet(ParameterKeys)
    <3>1. ParameterKeys[4] = "lookback" /\ ParameterKeys[7] = "window"
          /\ 4 \in DOMAIN ParameterKeys /\ 7 \in DOMAIN ParameterKeys
      BY DEF ParameterKeys
    <3>. QED  BY <3>1 DEF KeySet
  <2>2. Loaded(text).parameters[axis] = Value(FindValue(text, axis))
    BY <2>1 DEF Loaded
  <2>3. Value(FindValue(text, axis))[1] = FindValue(text, axis).whole
    BY DEF Value
  <2>. QED  BY <2>2, <2>3 DEF Accepts
<1>. QED  BY <1>1, <1>2 DEF InRange

\* Appending to a tuple.
LEMMA AppendTuple ==
  ASSUME NEW a, NEW b, NEW c
  PROVE  /\ Append(<<a>>, b) = <<a, b>> /\ Len(<<a>>) = 1
         /\ Append(<<a, b>>, c) = <<a, b, c>> /\ Len(<<a, b>>) = 2
<1>. DEFINE S == {a, b, c}
<1>1. <<a>> \in Seq(S) /\ Len(<<a>>) = 1 /\ <<a, b>> \in Seq(S) /\ Len(<<a, b>>) = 2
  OBVIOUS
<1>2. Append(<<a>>, b) = <<a, b>>
  <2>1. /\ Append(<<a>>, b) \in Seq(S) /\ Len(Append(<<a>>, b)) = 2
        /\ Append(<<a>>, b)[1] = a /\ Append(<<a>>, b)[2] = b
    BY <1>1
  <2>2. <<a, b>>[1] = a /\ <<a, b>>[2] = b  OBVIOUS
  <2>3. \A i \in 1 .. 2 : Append(<<a>>, b)[i] = <<a, b>>[i]  BY <2>1, <2>2
  <2>. QED  BY <1>1, <2>1, <2>3, SeqEqual
<1>3. Append(<<a, b>>, c) = <<a, b, c>>
  <2>1. /\ Append(<<a, b>>, c) \in Seq(S) /\ Len(Append(<<a, b>>, c)) = 3
        /\ Append(<<a, b>>, c)[1] = a /\ Append(<<a, b>>, c)[2] = b
        /\ Append(<<a, b>>, c)[3] = c
    BY <1>1
  <2>2. <<a, b, c>>[1] = a /\ <<a, b, c>>[2] = b /\ <<a, b, c>>[3] = c  OBVIOUS
  <2>3. <<a, b, c>> \in Seq(S) /\ Len(<<a, b, c>>) = 3  OBVIOUS
  <2>4. \A i \in 1 .. 3 : Append(<<a, b>>, c)[i] = <<a, b, c>>[i]  BY <2>1, <2>2
  <2>. QED  BY <2>1, <2>3, <2>4, SeqEqual
<1>. QED  BY <1>1, <1>2, <1>3

LEMMA KeptInit == LoaderInit => Kept
  BY DEF LoaderInit, Kept

LEMMA KeptNext == Kept /\ [LoaderNext]_loader_vars => Kept'
<1>. SUFFICES ASSUME Kept, [LoaderNext]_loader_vars PROVE Kept'
  OBVIOUS
<1>1. CASE UNCHANGED <<core, loaded, got>>  BY <1>1 DEF Kept
<1>2. ASSUME NEW c \in Configs, PushPart(c) PROVE Kept'
  BY <1>1, <1>2 DEF PushPart, Write
<1>3. ASSUME NEW c \in Configs, PushRest(c) PROVE Kept'
  BY <1>1, <1>3 DEF PushRest, Write
<1>4. CASE PushBreaks  BY <1>1, <1>4 DEF PushBreaks, core_vars
<1>5. CASE StartCore  BY <1>5 DEF StartCore, Kept, Getters
<1>6. CASE MeasureFile  BY <1>6 DEF MeasureFile, Kept
<1>7. CASE ReadFile
  <2>1. PICK text \in ReadTexts : LoadConfig(text)  BY <1>7 DEF ReadFile
  <2>2. loaded = None /\ got' = got /\ core \in Range(Getters)
    BY <1>7 DEF ReadFile
  <2>3. CASE Accepts(text) /\ loaded' = Loaded(text) /\ core' = core
    <3>1. InRange(loaded')  BY <2>3, AcceptedInRange
    <3>. QED  BY <3>1, <2>2, <2>3 DEF Kept
  <2>4. CASE core' = "rejected" /\ loaded' = loaded
    BY <2>2, <2>4 DEF Kept
  <2>. QED  BY <2>1, <2>3, <2>4 DEF LoadConfig
<1>8. CASE GetterReturns
  <2>1. loaded # None /\ loaded' = loaded /\ got' = Append(got, loaded[core])
    BY <1>8 DEF GetterReturns, KeepLoaded
  <2>2. Last(Getters) = "strategy" /\ Getters[2] = "parameters" /\ Getters[3] = "strategy"
    BY DEF Getters, Last
  <2>3. core \in {"risk_limits", "parameters", "strategy"}
    BY <1>8 DEF GetterReturns, Getters, Range
  <2>4. CASE core = "risk_limits" /\ got = <<>>
    BY <1>8, <2>1, <2>2, <2>4 DEF GetterReturns, Kept
  <2>5. CASE core = "parameters" /\ got = <<loaded.risk_limits>>
    <3>1. got' = <<loaded.risk_limits, loaded.parameters>> /\ Len(got) = 1
      BY <2>1, <2>5, AppendTuple
    <3>2. core' = "strategy"
      BY <1>8, <2>2, <2>5, <3>1 DEF GetterReturns
    <3>. QED  BY <2>1, <3>1, <3>2 DEF Kept
  <2>6. CASE core = "strategy" /\ got = <<loaded.risk_limits, loaded.parameters>>
    <3>1. got' = <<loaded.risk_limits, loaded.parameters, loaded.strategy>>
      BY <2>1, <2>6, AppendTuple
    <3>2. core' = "trading"
      BY <1>8, <2>2, <2>6 DEF GetterReturns
    <3>. QED  BY <2>1, <3>1, <3>2 DEF Kept
  <2>. QED  BY <2>3, <2>4, <2>5, <2>6 DEF Kept
<1>9. CASE UNCHANGED loader_vars  BY <1>1, <1>9 DEF loader_vars, core_vars
<1>. QED
  BY <1>2, <1>3, <1>4, <1>5, <1>6, <1>7, <1>8, <1>9 DEF LoaderNext, CoreNext

\* Whatever the config file holds, whenever it is written and however much of
\* it has arrived, main() trades within the FS3 ceilings and with a look-back
\* and a window the ring has room for (checked_limit, load_config, main.c).
THEOREM CeilingsHold == LoaderSpec => []WithinCeilings
<1>1. Kept => WithinCeilings
  <2>. SUFFICES ASSUME Kept, core = "trading" PROVE WithinCeilings
    BY DEF WithinCeilings
  <2>1. got[1] = loaded.risk_limits /\ got[2] = loaded.parameters /\ InRange(loaded)
    BY DEF Kept
  <2>. QED  BY <2>1 DEF InRange, WithinCeilings
<1>. QED  BY KeptInit, KeptNext, <1>1, PTL DEF LoaderSpec

\* What is loaded is the config of which the text that was read is a part, if it
\* is one, and a loader that gave up had not read all of one.
ReadIs(c) == source \in Parts[c] => loaded = AsApproved(c)
LoaderStory ==
  /\ loaded # None => \A c \in Configs : ReadIs(c)
  /\ core = "rejected" => \A c \in Configs : source # Documents[c]

LEMMA PartsAre ==
  ASSUME NEW c \in Configs
  PROVE  /\ Documents[c] = Document(c) /\ Document(c) \in Parts[c]
         /\ Parts[c] = UNION {Part(Document(c), n) : n \in 0 .. Len(Document(c))}
         /\ \A text \in Parts[c] : Accepts(text) => Loaded(text) = AsApproved(c)
         /\ Accepts(Document(c)) /\ Document(c) # <<>>
<1>1. Documents[c] = Document(c)
      /\ Parts[c] = UNION {Part(Document(c), n) : n \in 0 .. Len(Document(c))}
  BY DEF Documents, Parts
<1>2. Deliverable(c) /\ c.operator_id \notin LoaderKeys /\ Plain(c)
  BY ConfigAssumption DEF Deliverable, Plain
<1>3. /\ Len(Document(c)) = 57 /\ Document(c) \in Part(Document(c), 57)
      /\ AsWritten(Document(c), c)
  BY WholeAsWritten
<1>4. Document(c) \in Parts[c]
  <2>1. 57 \in 0 .. Len(Document(c))
    BY <1>3
  <2>. QED
    BY <1>1, <1>3, <2>1
<1>5. ASSUME NEW text \in Parts[c], Accepts(text)  PROVE Loaded(text) = AsApproved(c)
  <2>1. PICK n \in 0 .. Len(Document(c)) : text \in Part(Document(c), n)
    BY <1>1
  <2>2. AsWritten(text, c)
    BY <1>2, <1>5, <2>1, TornIsRefused
  <2>. QED
    BY <1>2, <2>2, LoadedAsWritten
<1>6. Accepts(Document(c))
  BY <1>2, <1>3, LoadedAsWritten
<1>7. Document(c) # <<>>
  <2>1. ASSUME Document(c) = <<>>  PROVE FALSE
    <3>1. Len(Document(c)) = 0
      BY <2>1
    <3>. QED
      BY <1>3, <3>1
  <2>. QED
    BY <2>1
<1>. QED
  BY <1>1, <1>4, <1>5, <1>6, <1>7

LEMMA LoaderStoryInit == LoaderInit => LoaderStory
  BY DEF LoaderInit, LoaderStory

LEMMA LoaderStoryNext == Kept /\ LoaderStory /\ [LoaderNext]_loader_vars => LoaderStory'
<1>. SUFFICES ASSUME Kept, LoaderStory, [LoaderNext]_loader_vars PROVE LoaderStory'
  OBVIOUS
<1>1. ASSUME loaded' = loaded, source' = source, core' = core \/ core' # "rejected"
      PROVE  LoaderStory'
  BY <1>1 DEF LoaderStory, ReadIs
<1>2. ASSUME NEW c \in Configs, PushPart(c) \/ PushRest(c)  PROVE LoaderStory'
  BY <1>1, <1>2 DEF PushPart, PushRest, Write
<1>4. CASE PushBreaks
  BY <1>1, <1>4 DEF PushBreaks, core_vars
<1>5. CASE StartCore
  <2>1. core' = "risk_limits" /\ loaded' = None
    BY <1>5 DEF StartCore, Getters
  <2>. QED
    BY <2>1 DEF LoaderStory
<1>6. CASE MeasureFile
  <2>1. loaded' = loaded /\ loaded = None
    BY <1>6 DEF MeasureFile
  <2>2. CASE disk = <<>>
    <3>1. source' = <<>>
      BY <1>6, <2>2 DEF MeasureFile
    <3>2. \A c \in Configs : Documents[c] # <<>>
      BY PartsAre
    <3>. QED
      BY <2>1, <3>1, <3>2 DEF LoaderStory
  <2>3. CASE disk # <<>>
    BY <1>1, <1>6, <2>1, <2>3 DEF MeasureFile
  <2>. QED
    BY <2>2, <2>3
<1>7. CASE ReadFile
  <2>1. PICK text \in ReadTexts : LoadConfig(text) /\ source' = text
    BY <1>7 DEF ReadFile
  <2>2. loaded = None /\ core \in Range(Getters)
    BY <1>7 DEF ReadFile
  <2>3. core # "rejected"
    <3>1. Range(Getters) = {"risk_limits", "parameters", "strategy"}
      <4>1. DOMAIN Getters = {1, 2, 3}
        BY DEF Getters
      <4>. QED
        BY <4>1 DEF Getters, Range
    <3>. QED
      BY <2>2, <3>1
  <2>4. CASE Accepts(text) /\ loaded' = Loaded(text) /\ core' = core
    <3>1. \A c \in Configs : source' \in Parts[c] => loaded' = AsApproved(c)
      BY <2>1, <2>4, PartsAre
    <3>2. \A c \in Configs : ReadIs(c)'
      BY <3>1 DEF ReadIs
    <3>. QED
      BY <2>3, <2>4, <3>2 DEF LoaderStory
  <2>5. CASE ~Accepts(text) /\ core' = "rejected" /\ loaded' = loaded
    <3>1. \A c \in Configs : source' # Documents[c]
      BY <2>1, <2>5, PartsAre
    <3>. QED
      BY <2>2, <2>5, <3>1 DEF LoaderStory
  <2>. QED
    BY <2>1, <2>4, <2>5 DEF LoadConfig
<1>8. CASE GetterReturns
  <2>1. loaded' = loaded /\ source' = source
    BY <1>8 DEF GetterReturns, KeepLoaded
  <2>2. core' # "rejected"
    <3>1. /\ Last(Getters) = "strategy" /\ Getters[2] = "parameters" /\ Getters[3] = "strategy"
          /\ core \in {"risk_limits", "parameters", "strategy"}
      BY <1>8 DEF GetterReturns, Getters, Last, Range
    <3>2. CASE core = "risk_limits"
      <4>1. got = <<>>
        BY <3>2 DEF Kept
      <4>. QED
        BY <1>8, <3>1, <3>2, <4>1 DEF GetterReturns
    <3>3. CASE core = "parameters"
      <4>1. Len(got) = 1
        BY <3>3 DEF Kept
      <4>. QED
        BY <1>8, <3>1, <3>3, <4>1 DEF GetterReturns
    <3>4. CASE core = "strategy"
      BY <1>8, <3>1, <3>4 DEF GetterReturns
    <3>. QED
      BY <3>1, <3>2, <3>3, <3>4
  <2>. QED
    BY <1>1, <2>1, <2>2
<1>9. CASE UNCHANGED loader_vars
  BY <1>1, <1>9 DEF loader_vars, core_vars
<1>. QED
  BY <1>2, <1>4, <1>5, <1>6, <1>7, <1>8, <1>9 DEF LoaderNext, CoreNext

\* A core that has read an approved document, or as much as there was of it, and
\* goes on to trade, has the parameters, the limits and the strategy of just that
\* config, whatever else was on the file before and since: the key the loader
\* cannot do without is the last that is written (find_value, pretty_json), and
\* the getters read the file once (ensure_loaded).
THEOREM TradesWhatWasApproved == LoaderSpec => []TradesAsApproved
<1>1. Kept /\ LoaderStory => TradesAsApproved
  <2>. SUFFICES ASSUME Kept, LoaderStory, core = "trading",
                       NEW c \in Configs, source \in Parts[c]
                PROVE  GotConfig(c)
    BY DEF TradesAsApproved
  <2>1. got = <<loaded.risk_limits, loaded.parameters, loaded.strategy>> /\ loaded # None
    BY DEF Kept
  <2>2. loaded = AsApproved(c)
    BY <2>1 DEF LoaderStory, ReadIs
  <2>. QED
    BY <2>1, <2>2 DEF AsApproved, GotConfig
<1>. QED
  BY KeptInit, KeptNext, LoaderStoryInit, LoaderStoryNext, <1>1, PTL DEF LoaderSpec

\* A core the loader stopped had not read the whole of an approved config: what
\* the pipeline writes is accepted, for every config the loader is written for
\* (load_config, build_candidate_config).
THEOREM ApprovedLoads == LoaderSpec => []ApprovedIsAccepted
<1>1. LoaderStory => ApprovedIsAccepted
  BY DEF LoaderStory, ApprovedIsAccepted
<1>. QED
  BY KeptInit, KeptNext, LoaderStoryInit, LoaderStoryNext, <1>1, PTL DEF LoaderSpec

----------------------------------------------------------------------------
(* The regime: ranks.                                                      *)

\* Comparing fractions is a total order up to ties.
LEMMA ScaleUp ==
  ASSUME NEW x \in Int, NEW y \in Int, NEW z \in Nat \ {0}
  PROVE  x >= y <=> x * z >= y * z
<1>. DEFINE d == x - y
<1>1. d \in Int /\ x * z - y * z = d * z
  BY SMT
<1>2. x >= y <=> d >= 0
  OBVIOUS
<1>3. x * z >= y * z <=> d * z >= 0
  <2>. DEFINE a == x * z
              b == y * z
              c == d * z
  <2>1. a \in Int /\ b \in Int /\ c \in Int /\ a - b = c
    BY <1>1
  <2>. HIDE DEF a, b, c
  <2>2. a >= b <=> c >= 0
    BY <2>1
  <2>. QED
    BY <2>2 DEF a, b, c
<1>4. d >= 0 => d * z >= 0
  <2>. HIDE DEF d
  <2>. QED
    BY <1>1
<1>5. d < 0 => d * z < 0
  <2>. HIDE DEF d
  <2>. QED
    BY <1>1
<1>. QED
  <2>. DEFINE c == d * z
  <2>1. d \in Int /\ c \in Int
    BY <1>1
  <2>2. (d >= 0 => c >= 0) /\ (d < 0 => c < 0) /\ (x >= y <=> d >= 0)
        /\ (x * z >= y * z <=> c >= 0)
    BY <1>2, <1>3, <1>4, <1>5
  <2>. HIDE DEF c, d
  <2>. QED
    BY <2>1, <2>2

LEMMA NotBelowTotal ==
  ASSUME NEW a \in Ratios, NEW b \in Ratios
  PROVE  /\ NotBelow(a, a)
         /\ ~NotBelow(a, b) => NotBelow(b, a)
<1>1. a.num * a.den \in Int /\ a.num * b.den \in Int /\ b.num * a.den \in Int
  BY SMT DEF Ratios
<1>. QED
  BY <1>1 DEF NotBelow

LEMMA NotBelowTransitive ==
  ASSUME NEW a \in Ratios, NEW b \in Ratios, NEW c \in Ratios,
         NotBelow(a, b), NotBelow(b, c)
  PROVE  NotBelow(a, c)
<1>. DEFINE an == a.num
            ad == a.den
            bn == b.num
            bd == b.den
            cn == c.num
            cd == c.den
<1>1. an \in Int /\ bn \in Int /\ cn \in Int
      /\ ad \in Nat \ {0} /\ bd \in Nat \ {0} /\ cd \in Nat \ {0}
  BY DEF Ratios
<1>2. an * bd >= bn * ad /\ bn * cd >= cn * bd
  BY DEF NotBelow
<1>. HIDE DEF an, ad, bn, bd, cn, cd
<1>3. /\ an * bd \in Int /\ bn * ad \in Int /\ bn * cd \in Int /\ cn * bd \in Int
      /\ an * cd \in Int /\ cn * ad \in Int
  BY <1>1
<1>4. (an * bd) * cd >= (bn * ad) * cd
  BY <1>1, <1>2, <1>3, ScaleUp
<1>5. (bn * cd) * ad >= (cn * bd) * ad
  BY <1>1, <1>2, <1>3, ScaleUp
<1>6. /\ (an * bd) * cd = (an * cd) * bd
      /\ (bn * ad) * cd = (bn * cd) * ad
      /\ (cn * bd) * ad = (cn * ad) * bd
  BY <1>1, SMT
<1>7. (an * cd) * bd >= (cn * ad) * bd
  <2>. DEFINE x == (an * bd) * cd
              y == (bn * ad) * cd
              z == (cn * bd) * ad
  <2>1. x \in Int /\ y \in Int /\ z \in Int
    BY <1>1
  <2>2. x >= y /\ y >= z /\ x = (an * cd) * bd /\ z = (cn * ad) * bd
    BY <1>4, <1>5, <1>6
  <2>. HIDE DEF x, y, z
  <2>. QED
    BY <2>1, <2>2
<1>8. an * cd >= cn * ad
  BY <1>1, <1>3, <1>7, ScaleUp
<1>. QED
  BY <1>8 DEF NotBelow, an, ad, cn, cd

\* The rows whose value is no more, and those whose value is less, than that of v.
NotAbove(values, v) == {j \in DOMAIN values : NotBelow(values[v], values[j])}
Under(values, v)    == {j \in DOMAIN values : ~NotBelow(values[j], values[v])}
AtMost(values, v)   == Cardinality(NotAbove(values, v))

IsColumn(values) == /\ IsFiniteSet(DOMAIN values) /\ DOMAIN values # {}
                    /\ \A k \in DOMAIN values : values[k] \in Ratios

LEMMA CountsTyped ==
  ASSUME NEW values, IsColumn(values), NEW v \in DOMAIN values
  PROVE  /\ IsFiniteSet(NotAbove(values, v)) /\ IsFiniteSet(Under(values, v))
         /\ Cardinality(DOMAIN values) \in Nat \ {0}
         /\ AtMost(values, v) \in 1 .. Cardinality(DOMAIN values)
         /\ Cardinality(Under(values, v)) \in Nat
<1>. DEFINE D == DOMAIN values
            A == NotAbove(values, v)
            U == Under(values, v)
<1>1. IsFiniteSet(D) /\ A \subseteq D /\ U \subseteq D
  BY DEF IsColumn, NotAbove, Under
<1>2. v \in A
  BY NotBelowTotal DEF IsColumn, NotAbove
<1>. HIDE DEF D, A, U
<1>3. IsFiniteSet(A) /\ IsFiniteSet(U) /\ Cardinality(A) <= Cardinality(D)
  BY <1>1, FS_Subset
<1>4. Cardinality(D) \in Nat /\ Cardinality(A) \in Nat /\ Cardinality(U) \in Nat
  BY <1>1, <1>3, FS_CardinalityType
<1>5. Cardinality(A) # 0
  BY <1>2, <1>3, FS_EmptySet
<1>. QED
  BY <1>3, <1>4, <1>5 DEF D, A, U, AtMost

\* A higher value has no fewer values at most as high; a strictly higher one more.
LEMMA CountsGrow ==
  ASSUME NEW values, IsColumn(values), NEW u \in DOMAIN values, NEW w \in DOMAIN values
  PROVE  /\ NotBelow(values[u], values[w]) => AtMost(values, u) >= AtMost(values, w)
         /\ ~NotBelow(values[w], values[u]) => AtMost(values, u) > AtMost(values, w)
<1>. DEFINE A == NotAbove(values, u)
            B == NotAbove(values, w)
<1>1. IsFiniteSet(A) /\ IsFiniteSet(B)
  BY CountsTyped
<1>2. values[u] \in Ratios /\ values[w] \in Ratios /\ \A j \in DOMAIN values : values[j] \in Ratios
  BY DEF IsColumn
<1>3. NotBelow(values[u], values[w]) => B \subseteq A
  BY <1>2, NotBelowTransitive DEF NotAbove
<1>4. ~NotBelow(values[w], values[u]) => NotBelow(values[u], values[w]) /\ u \in A /\ u \notin B
  BY <1>2, NotBelowTotal DEF NotAbove
<1>. HIDE DEF A, B
<1>5. B \subseteq A => Cardinality(B) <= Cardinality(A)
  BY <1>1, FS_Subset
<1>6. B \subseteq A /\ Cardinality(B) = Cardinality(A) => B = A
  BY <1>1, FS_Subset
<1>7. Cardinality(A) \in Nat /\ Cardinality(B) \in Nat
  BY <1>1, FS_CardinalityType
<1>8. AtMost(values, u) = Cardinality(A) /\ AtMost(values, w) = Cardinality(B)
  BY DEF A, B, AtMost
<1>9. CASE ~NotBelow(values[u], values[w])
  BY <1>4, <1>9
<1>10. CASE NotBelow(values[u], values[w])
  <2>1. Cardinality(B) <= Cardinality(A)
    BY <1>3, <1>5, <1>10
  <2>2. ~NotBelow(values[w], values[u]) => Cardinality(B) # Cardinality(A)
    BY <1>3, <1>4, <1>6, <1>10
  <2>. QED
    BY <2>1, <2>2, <1>7, <1>8
<1>. QED
  BY <1>9, <1>10

\* Of some values there is a greatest.
LEMMA GreatestOf ==
  ASSUME NEW values, IsColumn(values), NEW S, S \subseteq DOMAIN values, S # {}
  PROVE  \E m \in S : \A j \in S : NotBelow(values[m], values[j])
<1>. DEFINE n == Cardinality(DOMAIN values)
            T == {n - AtMost(values, j) : j \in S}
<1>1. n \in Nat /\ \A j \in S : AtMost(values, j) \in 1 .. n
  BY CountsTyped
<1>2. T \subseteq Nat /\ T # {}
  BY <1>1
<1>3. PICK t \in T : \A y \in T : t <= y
  <2>. HIDE DEF T
  <2>. QED
    BY <1>2, Least
<1>4. PICK m \in S : t = n - AtMost(values, m)
  BY <1>3
<1>5. \A j \in S : ~(AtMost(values, j) > AtMost(values, m))
  <2>. TAKE j \in S
  <2>1. n - AtMost(values, m) <= n - AtMost(values, j)
    BY <1>3, <1>4
  <2>2. AtMost(values, m) \in 1 .. n /\ AtMost(values, j) \in 1 .. n
    BY <1>1
  <2>. HIDE DEF n
  <2>. QED
    BY <2>1, <2>2, <1>1
<1>6. \A j \in S : NotBelow(values[m], values[j])
  BY <1>5, CountsGrow
<1>. QED
  BY <1>6

\* k holds the value at place r of the sorted values.
HasRank(values, r, k) == /\ k \in DOMAIN values
                         /\ Cardinality(Under(values, k)) < r
                         /\ AtMost(values, k) >= r

LEMMA RankExists ==
  ASSUME NEW values, IsColumn(values), NEW r \in 1 .. Cardinality(DOMAIN values)
  PROVE  \E k \in DOMAIN values : HasRank(values, r, k)
<1>. DEFINE D == DOMAIN values
            n == Cardinality(D)
            C(k) == AtMost(values, k)
            T == {C(k) : k \in {j \in D : C(j) >= r}}
<1>1. n \in Nat /\ \A j \in D : C(j) \in 1 .. n
  BY CountsTyped DEF IsColumn
<1>2. PICK top \in D : \A j \in D : NotBelow(values[top], values[j])
  BY GreatestOf DEF IsColumn
<1>3. NotAbove(values, top) = D
  BY <1>2 DEF NotAbove
<1>4. T \subseteq Nat /\ T # {}
  <2>1. C(top) = n
    BY <1>3 DEF AtMost
  <2>2. C(top) >= r
    BY <2>1, <1>1
  <2>. QED
    BY <1>1, <2>2
<1>5. PICK t \in T : \A y \in T : t <= y
  <2>. HIDE DEF T
  <2>. QED
    BY <1>4, Least
<1>6. PICK k \in D : C(k) >= r /\ t = C(k)
  BY <1>5
<1>7. \A j \in D : C(j) >= r => C(k) <= C(j)
  BY <1>5, <1>6
<1>8. Cardinality(Under(values, k)) < r
  <2>1. SUFFICES ASSUME Cardinality(Under(values, k)) >= r  PROVE FALSE
    BY CountsTyped
  <2>. DEFINE S == Under(values, k)
  <2>2. IsFiniteSet(S) /\ Cardinality(S) \in Nat
    BY CountsTyped
  <2>3. S \subseteq D /\ S # {}
    <3>1. Cardinality(S) # 0
      BY <2>1, <2>2
    <3>. QED
      BY <3>1, FS_EmptySet DEF Under
  <2>4. PICK m \in S : \A j \in S : NotBelow(values[m], values[j])
    <3>. HIDE DEF S
    <3>. QED
      BY <2>3, GreatestOf
  <2>5. S \subseteq NotAbove(values, m) /\ m \in D
    BY <2>3, <2>4 DEF NotAbove
  <2>6. Cardinality(S) <= C(m) /\ C(m) \in 1 .. n
    <3>1. IsFiniteSet(NotAbove(values, m))
      BY <2>5, CountsTyped
    <3>. HIDE DEF S
    <3>. QED
      BY <2>5, <3>1, <1>1, FS_Subset DEF AtMost
  <2>7. C(m) >= r
    BY <2>1, <2>2, <2>6
  <2>8. ~NotBelow(values[m], values[k])
    BY <2>4 DEF Under
  <2>9. C(k) > C(m)
    BY <2>5, <2>8, CountsGrow
  <2>. QED
    BY <2>5, <2>7, <2>9, <1>7, <1>1
<1>. QED
  BY <1>6, <1>8 DEF HasRank

LEMMA RankedIs ==
  ASSUME NEW values, IsColumn(values), NEW r \in 1 .. Cardinality(DOMAIN values)
  PROVE  \E k \in DOMAIN values : HasRank(values, r, k) /\ Ranked(values, r) = values[k]
<1>1. \E k \in DOMAIN values : HasRank(values, r, k)
  BY RankExists
<1>. DEFINE c == CHOOSE k \in DOMAIN values :
                   /\ Cardinality({j \in DOMAIN values : ~NotBelow(values[j], values[k])}) < r
                   /\ Cardinality({j \in DOMAIN values : NotBelow(values[k], values[j])}) >= r
<1>2. c \in DOMAIN values /\ HasRank(values, r, c)
  BY <1>1 DEF HasRank, Under, NotAbove, AtMost
<1>3. Ranked(values, r) = values[c]
  BY DEF Ranked
<1>. QED
  BY <1>2, <1>3

\* A value reaches that of place r when r values are at most as high, and one of
\* which no more than r are at most as high does not exceed it.
LEMMA ReachesRank ==
  ASSUME NEW values, IsColumn(values), NEW r \in 1 .. Cardinality(DOMAIN values),
         NEW k, HasRank(values, r, k), NEW v \in DOMAIN values
  PROVE  /\ NotBelow(values[v], values[k]) <=> AtMost(values, v) >= r
         /\ AtMost(values, v) <= r => NotBelow(values[k], values[v])
<1>1. k \in DOMAIN values /\ Cardinality(Under(values, k)) < r /\ AtMost(values, k) >= r
  BY DEF HasRank
<1>2. /\ AtMost(values, v) \in Nat /\ AtMost(values, k) \in Nat /\ r \in Nat
      /\ Cardinality(Under(values, k)) \in Nat
  BY <1>1, CountsTyped
<1>3. ~NotBelow(values[v], values[k]) => AtMost(values, v) < r
  <2>1. SUFFICES ASSUME ~NotBelow(values[v], values[k])  PROVE AtMost(values, v) < r
    OBVIOUS
  <2>2. NotAbove(values, v) \subseteq Under(values, k)
    <3>1. \A j \in DOMAIN values : values[j] \in Ratios
      BY DEF IsColumn
    <3>. QED
      BY <2>1, <3>1, <1>1, NotBelowTransitive DEF NotAbove, Under
  <2>3. AtMost(values, v) <= Cardinality(Under(values, k))
    <3>1. IsFiniteSet(Under(values, k))
      BY <1>1, CountsTyped
    <3>. QED
      BY <2>2, <3>1, FS_Subset DEF AtMost
  <2>. QED
    BY <2>3, <1>1, <1>2
<1>4. NotBelow(values[v], values[k]) => AtMost(values, v) >= AtMost(values, k)
  BY <1>1, CountsGrow
<1>5. ~NotBelow(values[k], values[v]) => AtMost(values, v) > AtMost(values, k)
  BY <1>1, CountsGrow
<1>. QED
  BY <1>1, <1>2, <1>3, <1>4, <1>5

\* The sign of a product.
LEMMA SignOf ==
  ASSUME NEW x \in Int, NEW z \in Nat \ {0}
  PROVE  x * z \in Int /\ (x >= 0 <=> x * z >= 0) /\ (x > 0 <=> x * z > 0)
OBVIOUS

\* A value between two others, in the proportion of rest to 100.
Between(l, h, rest) == [num |-> l.num * h.den * (100 - rest) + h.num * l.den * rest,
                        den |-> 100 * l.den * h.den]
LEMMA BetweenIs ==
  ASSUME NEW v \in Ratios, NEW l \in Ratios, NEW h \in Ratios, NEW rest \in 0 .. 99
  PROVE  /\ NotBelow(v, l) /\ NotBelow(v, h) => NotBelow(v, Between(l, h, rest))
         /\ rest > 0 /\ NotBelow(l, v) /\ ~NotBelow(v, h) => ~NotBelow(v, Between(l, h, rest))
         /\ rest = 0 /\ ~NotBelow(v, l) => ~NotBelow(v, Between(l, h, rest))
<1>. DEFINE vn == v.num
            vd == v.den
            ln == l.num
            ld == l.den
            hn == h.num
            hd == h.den
            X  == vn * ld - ln * vd
            Y  == vn * hd - hn * vd
            p  == hd * (100 - rest)
            s  == ld * rest
            pn == ln * hd * (100 - rest) + hn * ld * rest
            pd == 100 * ld * hd
            Z  == vn * pd - pn * vd
<1>1. vn \in Int /\ ln \in Int /\ hn \in Int
      /\ vd \in Nat \ {0} /\ ld \in Nat \ {0} /\ hd \in Nat \ {0}
  BY DEF Ratios
<1>2. /\ NotBelow(v, l) <=> vn * ld >= ln * vd
      /\ NotBelow(v, h) <=> vn * hd >= hn * vd
      /\ NotBelow(l, v) <=> ln * vd >= vn * ld
      /\ NotBelow(v, Between(l, h, rest)) <=> vn * pd >= pn * vd
  BY DEF NotBelow, Between
<1>. HIDE DEF vn, vd, ln, ld, hn, hd
<1>3. /\ vn * ld \in Int /\ ln * vd \in Int /\ vn * hd \in Int /\ hn * vd \in Int
      /\ p \in Nat \ {0} /\ s \in Nat /\ (rest > 0 => s \in Nat \ {0}) /\ (rest = 0 => s = 0)
  <2>1. p \in Nat \ {0}
    <3>1. 100 - rest \in Nat \ {0}
      OBVIOUS
    <3>. QED
      BY <1>1, <3>1, SignOf
  <2>2. s \in Nat /\ (rest > 0 => s \in Nat \ {0}) /\ (rest = 0 => s = 0)
    <3>1. rest > 0 => s > 0
      BY <1>1, SignOf
    <3>. QED
      BY <1>1, <3>1
  <2>. QED
    BY <1>1, <2>1, <2>2
<1>4. pn \in Int /\ pd \in Int /\ vn * pd \in Int /\ pn * vd \in Int
  <2>1. pn \in Int /\ pd \in Int
    BY <1>1
  <2>. HIDE DEF pn, pd
  <2>. QED
    BY <1>1, <2>1
<1>5. Z = X * p + Y * s
  <2>1. pn * vd = (ln * vd) * p + (hn * vd) * s
    BY <1>1, SMT
  <2>2. vn * pd = (vn * ld) * p + (vn * hd) * s
    BY <1>1, SMT
  <2>3. /\ X * p = (vn * ld) * p - (ln * vd) * p
        /\ Y * s = (vn * hd) * s - (hn * vd) * s
    <3>. DEFINE a == vn * ld
                b == ln * vd
                c == vn * hd
                e == hn * vd
    <3>1. a \in Int /\ b \in Int /\ c \in Int /\ e \in Int /\ p \in Int /\ s \in Int
      BY <1>3
    <3>. HIDE DEF a, b, c, e, p, s
    <3>2. (a - b) * p = a * p - b * p /\ (c - e) * s = c * s - e * s
      BY <3>1
    <3>. QED
      BY <3>2 DEF a, b, c, e, p, s
  <2>. DEFINE a == (vn * ld) * p
              b == (ln * vd) * p
              c == (vn * hd) * s
              e == (hn * vd) * s
  <2>4. a \in Int /\ b \in Int /\ c \in Int /\ e \in Int
    BY <1>1
  <2>5. (a + c) - (b + e) = (a - b) + (c - e)
    <3>. HIDE DEF a, b, c, e
    <3>. QED
      BY <2>4
  <2>6. vn * pd = a + c /\ pn * vd = b + e /\ X * p = a - b /\ Y * s = c - e
    BY <2>1, <2>2, <2>3
  <2>. HIDE DEF a, b, c, e, X, Y, p, s, pn, pd
  <2>. QED
    BY <2>5, <2>6
<1>6. X \in Int /\ Y \in Int /\ Z \in Int
  BY <1>3, <1>4
<1>7. /\ vn * ld >= ln * vd <=> X >= 0
      /\ vn * hd >= hn * vd <=> Y >= 0
      /\ ln * vd >= vn * ld <=> ~(X > 0)
      /\ vn * pd >= pn * vd <=> Z >= 0
  <2>. DEFINE a == vn * ld
              b == ln * vd
              c == vn * hd
              e == hn * vd
              f == vn * pd
              g == pn * vd
  <2>1. /\ a \in Int /\ b \in Int /\ c \in Int /\ e \in Int /\ f \in Int /\ g \in Int
        /\ X = a - b /\ Y = c - e /\ Z = f - g
    BY <1>3, <1>4
  <2>. HIDE DEF a, b, c, e, f, g, X, Y, Z
  <2>2. (a >= b <=> X >= 0) /\ (c >= e <=> Y >= 0) /\ (b >= a <=> ~(X > 0)) /\ (f >= g <=> Z >= 0)
    BY <2>1
  <2>. QED
    BY <2>2 DEF a, b, c, e, f, g
<1>. HIDE DEF X, Y, Z, p, s, pn, pd
<1>8. X * p \in Int /\ (X >= 0 <=> X * p >= 0) /\ (X > 0 <=> X * p > 0)
  BY <1>3, <1>6, SignOf
<1>9. Y * s \in Int /\ (rest = 0 => Y * s = 0)
      /\ (rest > 0 => (Y >= 0 <=> Y * s >= 0))
  <2>1. rest > 0 => (Y >= 0 <=> Y * s >= 0)
    BY <1>3, <1>6, SignOf
  <2>2. rest = 0 => Y * s = 0
    BY <1>3, <1>6
  <2>. QED
    BY <2>1, <2>2, <1>3, <1>6
<1>10. /\ X >= 0 /\ Y >= 0 => Z >= 0
       /\ rest > 0 /\ ~(X > 0) /\ ~(Y >= 0) => ~(Z >= 0)
       /\ rest = 0 /\ ~(X >= 0) => ~(Z >= 0)
  <2>. DEFINE a == X * p
              b == Y * s
  <2>1. /\ a \in Int /\ (X >= 0 <=> a >= 0) /\ (X > 0 <=> a > 0)
        /\ b \in Int /\ (rest = 0 => b = 0) /\ (rest > 0 => (Y >= 0 <=> b >= 0))
        /\ Z = a + b
    BY <1>5, <1>8, <1>9
  <2>. HIDE DEF a, b
  <2>. QED
    BY <2>1, <1>6
<1>. QED
  BY <1>2, <1>7, <1>10

LEMMA PercentileIs ==
  ASSUME NEW values, IsColumn(values), NEW q \in 0 .. 100, NEW v \in DOMAIN values
  PROVE  NotBelow(values[v], Percentile(values, q))
           <=> 100 * (AtMost(values, v) - 1) >= (Cardinality(DOMAIN values) - 1) * q
<1>. DEFINE n     == Cardinality(DOMAIN values)
            place == (n - 1) * q
            a     == place \div 100
            rest  == place % 100
            second == a + (IF rest = 0 THEN 1 ELSE 2)
            c     == AtMost(values, v)
<1>1. n \in Nat \ {0} /\ c \in 1 .. n
  BY CountsTyped
<1>2. place \in Nat /\ place <= (n - 1) * 100
  <2>. DEFINE m == n - 1
  <2>1. m \in Nat
    BY <1>1
  <2>. HIDE DEF m
  <2>2. m * q \in Nat /\ m * q <= m * 100
    BY <2>1, SMT
  <2>. QED
    BY <2>2 DEF m
<1>3. a \in Nat /\ rest \in 0 .. 99 /\ place = 100 * a + rest
  <2>. HIDE DEF place
  <2>. QED
    BY <1>2
<1>. HIDE DEF n, place, c
<1>4. a + 1 \in 1 .. n /\ second \in 1 .. n
  <2>. HIDE DEF a, rest
  <2>. QED
    BY <1>1, <1>2, <1>3
<1>5. PICK l \in DOMAIN values : HasRank(values, a + 1, l) /\ Ranked(values, a + 1) = values[l]
  <2>. HIDE DEF a
  <2>. QED
    BY <1>4, RankedIs DEF n
<1>6. PICK h \in DOMAIN values : HasRank(values, second, h) /\ Ranked(values, second) = values[h]
  <2>. HIDE DEF second
  <2>. QED
    BY <1>4, RankedIs DEF n
<1>7. Percentile(values, q) = Between(values[l], values[h], rest)
  BY <1>5, <1>6 DEF Percentile, Between, n, place
<1>8. values[v] \in Ratios /\ values[l] \in Ratios /\ values[h] \in Ratios
  BY DEF IsColumn
<1>9. /\ NotBelow(values[v], values[l]) <=> c >= a + 1
      /\ c <= a + 1 => NotBelow(values[l], values[v])
  <2>. DEFINE r == a + 1
  <2>1. r \in 1 .. n /\ HasRank(values, r, l)
    BY <1>4, <1>5
  <2>. HIDE DEF r
  <2>2. /\ NotBelow(values[v], values[l]) <=> c >= r
        /\ c <= r => NotBelow(values[l], values[v])
    BY <2>1, ReachesRank DEF n, c
  <2>. QED
    BY <2>2 DEF r
<1>10. NotBelow(values[v], values[h]) <=> c >= second
  <2>. HIDE DEF second
  <2>. QED
    BY <1>4, <1>6, ReachesRank DEF n, c
<1>. DEFINE VL == NotBelow(values[v], values[l])
            LV == NotBelow(values[l], values[v])
            VH == NotBelow(values[v], values[h])
            VP == NotBelow(values[v], Percentile(values, q))
<1>11. /\ VL /\ VH => VP
       /\ rest > 0 /\ LV /\ ~VH => ~VP
       /\ rest = 0 /\ ~VL => ~VP
  <2>. HIDE DEF rest
  <2>. QED
    BY <1>3, <1>7, <1>8, BetweenIs
<1>12. (VL <=> c >= a + 1) /\ (c <= a + 1 => LV) /\ (VH <=> c >= second)
  BY <1>9, <1>10
<1>13. second = a + (IF rest = 0 THEN 1 ELSE 2)
  OBVIOUS
<1>14. VP <=> 100 * (c - 1) >= place
  <2>. HIDE DEF VL, LV, VH, VP, a, rest, second
  <2>1. CASE rest = 0
    <3>1. VP <=> c >= a + 1
      BY <2>1, <1>11, <1>12, <1>13
    <3>. QED
      BY <3>1, <2>1, <1>1, <1>3
  <2>2. CASE rest > 0
    <3>1. second = a + 2
      BY <2>2, <1>3, <1>13
    <3>2. VP <=> c >= a + 2
      BY <2>2, <3>1, <1>1, <1>3, <1>11, <1>12
    <3>. QED
      BY <3>2, <2>2, <1>1, <1>3
  <2>. QED
    BY <2>1, <2>2, <1>3
<1>. QED
  BY <1>14 DEF VP, place, n, c

----------------------------------------------------------------------------
(* The regime: the label.                                                  *)

\* The days up to last that have a row, and the row of each, read off the market.
Complete(last) == {d \in LongWindow + 1 .. last :
                     d \notin Partial /\ NaN \notin Range(ClosesTo(market, d))}
Row(d)  == [vol |-> Volatility(ClosesTo(market, d)), trend |-> TrendStrength(ClosesTo(market, d))]
Rows(last) == [d \in Complete(last) |-> Row(d)]

\* The file holds the bars up to some day in order, and the label is the one its own
\* day gets from the rows up to that day.
RegimeInv ==
  /\ market \in Markets
  /\ validated = Unknown \/ \E last \in DOMAIN market : validated = Bars(last)
  /\ \/ label = Unknown
     \/ \E target \in DOMAIN market :
          /\ target \in Complete(target)
          /\ label = [date |-> target, regime |-> RegimeOf(Rows(target), target)]

LEMMA MarketTyped ==
  ASSUME market \in Markets
  PROVE  /\ Len(market) \in Nat /\ DOMAIN market = 1 .. Len(market)
         /\ \A d \in DOMAIN market : market[d] = NaN \/ market[d] \in Nat \ {0}
<1>1. market \in Seq((Nat \ {0}) \cup {NaN})
  BY MarketAssumption
<1>. QED
  BY <1>1

LEMMA BarsAre ==
  ASSUME NEW last \in Nat
  PROVE  /\ DOMAIN Bars(last) = 1 .. last /\ Len(Bars(last)) = last
         /\ \A d \in 1 .. last : Bars(last)[d] = [date |-> d, close |-> market[d], whole |-> d \notin Partial]
         /\ \A d \in 1 .. last : Bars(last)[d].date = d
BY DEF Bars

\* Bars that are all there, in any order, are put in order.
LEMMA SortIs ==
  ASSUME NEW last \in Nat, NEW bars, DOMAIN bars = 1 .. last,
         \A i \in 1 .. last : /\ bars[i].date \in 1 .. last
                             /\ bars[i] = Bars(last)[bars[i].date],
         \A r \in 1 .. last : \E i \in 1 .. last : bars[i].date = r,
         \A r \in 1 .. last : Cardinality({i \in 1 .. last : bars[i].date <= r}) = r
  PROVE  SortIndex(bars) = Bars(last)
<1>. DEFINE UpTo(date) == Cardinality({i \in DOMAIN bars : bars[i].date <= date})
            Place(r) == CHOOSE i \in DOMAIN bars : UpTo(bars[i].date) = r
<1>1. \A r \in 1 .. last : UpTo(r) = r
  OBVIOUS
<1>. HIDE DEF UpTo
<1>2. ASSUME NEW r \in 1 .. last  PROVE bars[Place(r)] = Bars(last)[r]
  <2>1. \E i \in DOMAIN bars : UpTo(bars[i].date) = r
    <3>1. PICK i \in 1 .. last : bars[i].date = r
      OBVIOUS
    <3>2. UpTo(bars[i].date) = UpTo(r)
      BY <3>1
    <3>3. i \in DOMAIN bars
      OBVIOUS
    <3>. QED
      BY <3>2, <3>3, <1>1
  <2>2. Place(r) \in 1 .. last /\ UpTo(bars[Place(r)].date) = r
    BY <2>1
  <2>. HIDE DEF Place
  <2>3. bars[Place(r)].date = r
    BY <2>2, <1>1
  <2>. QED
    BY <2>2, <2>3
<1>3. SortIndex(bars) = [r \in 1 .. last |-> bars[Place(r)]]
  BY DEF SortIndex, UpTo
<1>. HIDE DEF Place
<1>4. Bars(last) = [r \in 1 .. last |-> Bars(last)[r]]
  BY DEF Bars
<1>. QED
  BY <1>2, <1>3, <1>4

LEMMA SortedBars ==
  ASSUME NEW last \in Nat
  PROVE  SortIndex(Bars(last)) = Bars(last) /\ SortIndex(Reverse(Bars(last))) = Bars(last)
<1>1. SortIndex(Bars(last)) = Bars(last)
  <2>1. ASSUME NEW r \in 1 .. last
        PROVE  Cardinality({i \in 1 .. last : Bars(last)[i].date <= r}) = r
    <3>1. \A i \in 1 .. last : Bars(last)[i].date = i
      BY BarsAre
    <3>3. {i \in 1 .. last : Bars(last)[i].date <= r} = {i \in 1 .. last : i <= r}
      BY <3>1
    <3>4. {i \in 1 .. last : i <= r} = 1 .. r
      OBVIOUS
    <3>2. Cardinality(1 .. r) = r
      BY FS_Interval
    <3>. QED
      BY <3>2, <3>3, <3>4
  <2>2. \A i \in 1 .. last : /\ Bars(last)[i].date \in 1 .. last
                            /\ Bars(last)[i] = Bars(last)[Bars(last)[i].date]
    BY BarsAre
  <2>3. \A r \in 1 .. last : \E i \in 1 .. last : Bars(last)[i].date = r
    BY BarsAre
  <2>4. DOMAIN Bars(last) = 1 .. last
    BY BarsAre
  <2>. DEFINE bars == Bars(last)
  <2>. QED
    BY <2>1, <2>2, <2>3, <2>4, SortIs
<1>2. SortIndex(Reverse(Bars(last))) = Bars(last)
  <2>. DEFINE bars == Reverse(Bars(last))
  <2>1. /\ DOMAIN bars = 1 .. last
        /\ \A i \in 1 .. last : bars[i] = Bars(last)[(last - i) + 1]
    BY BarsAre DEF Reverse
  <2>2. \A i \in 1 .. last : /\ (last - i) + 1 \in 1 .. last
                            /\ bars[i].date = (last - i) + 1
                            /\ bars[i] = Bars(last)[bars[i].date]
    <3>. TAKE i \in 1 .. last
    <3>. DEFINE e == (last - i) + 1
    <3>1. e \in 1 .. last
      OBVIOUS
    <3>2. bars[i] = Bars(last)[e]
      BY <2>1
    <3>. HIDE DEF e, bars
    <3>3. Bars(last)[e].date = e
      BY <3>1, BarsAre
    <3>4. bars[i].date = e
      BY <3>2, <3>3
    <3>. QED
      BY <3>1, <3>2, <3>4 DEF e
  <2>. HIDE DEF bars
  <2>3. ASSUME NEW r \in 1 .. last  PROVE \E i \in 1 .. last : bars[i].date = r
    <3>1. (last - r) + 1 \in 1 .. last /\ (last - ((last - r) + 1)) + 1 = r
      OBVIOUS
    <3>. QED
      BY <2>2, <3>1
  <2>4. ASSUME NEW r \in 1 .. last
        PROVE  Cardinality({i \in 1 .. last : bars[i].date <= r}) = r
    <3>1. {i \in 1 .. last : bars[i].date <= r} = (last - r) + 1 .. last
      BY <2>2
    <3>2. Cardinality((last - r) + 1 .. last) = r
      <4>1. (last - r) + 1 \in Int /\ last \in Int
        OBVIOUS
      <4>2. Cardinality((last - r) + 1 .. last)
              = IF (last - r) + 1 > last THEN 0 ELSE last - ((last - r) + 1) + 1
        BY <4>1, FS_Interval
      <4>. QED
        BY <4>2
    <3>. QED
      BY <3>1, <3>2
  <2>5. DOMAIN bars = 1 .. last
    BY <2>1
  <2>6. \A i \in 1 .. last : /\ bars[i].date \in 1 .. last
                            /\ bars[i] = Bars(last)[bars[i].date]
    BY <2>2
  <2>7. SortIndex(bars) = Bars(last)
    BY <2>3, <2>4, <2>5, <2>6, SortIs
  <2>. QED
    BY <2>7 DEF bars
<1>. QED
  BY <1>1, <1>2

LEMMA FeaturesAre ==
  ASSUME market \in Markets, NEW last \in DOMAIN market
  PROVE  Features(Bars(last)) = Rows(last)
<1>1. last \in Nat /\ LongWindow \in Nat \ {0}
  BY MarketTyped, WindowAssumption
<1>. DEFINE sorted == SortIndex(Bars(last))
            closes == [i \in DOMAIN sorted |-> sorted[i].close]
            complete == {i \in LongWindow + 1 .. Len(sorted) :
                           sorted[i].whole /\ NaN \notin Range(ClosesTo(closes, i))}
            Place(date) == CHOOSE i \in complete : sorted[i].date = date
<1>2. sorted = Bars(last)
  BY <1>1, SortedBars
<1>3. /\ DOMAIN sorted = 1 .. last /\ Len(sorted) = last
      /\ \A d \in 1 .. last : sorted[d] = [date |-> d, close |-> market[d], whole |-> d \notin Partial]
  BY <1>1, <1>2, BarsAre
<1>. HIDE DEF sorted
<1>4. \A i \in LongWindow + 1 .. last : ClosesTo(closes, i) = ClosesTo(market, i)
  <2>. TAKE i \in LongWindow + 1 .. last
  <2>1. \A k \in 1 .. LongWindow + 1 : closes[i - LongWindow - 1 + k] = market[i - LongWindow - 1 + k]
    BY <1>1, <1>3
  <2>. QED
    BY <2>1 DEF ClosesTo
<1>12. \A i \in LongWindow + 1 .. last : sorted[i].whole = (i \notin Partial)
  BY <1>1, <1>3
<1>5. complete = Complete(last)
  <2>1. complete = {i \in LongWindow + 1 .. last :
                      sorted[i].whole /\ NaN \notin Range(ClosesTo(closes, i))}
    BY <1>3
  <2>. HIDE DEF complete, closes
  <2>. QED
    BY <2>1, <1>4, <1>12, Zenon DEF Complete
<1>6. \A i \in Complete(last) : i \in 1 .. last /\ i \in LongWindow + 1 .. last
  BY <1>1 DEF Complete
<1>11. \A i \in Complete(last) : sorted[i].date = i
  BY <1>3, <1>6
<1>7. {sorted[i].date : i \in complete} = Complete(last)
  <2>. HIDE DEF complete
  <2>. QED
    BY <1>5, <1>11
<1>8. \A d \in Complete(last) : Place(d) = d
  <2>. HIDE DEF complete
  <2>. QED
    BY <1>5, <1>11
<1>9. Features(Bars(last)) =
        [date \in {sorted[i].date : i \in complete} |->
           [vol   |-> Volatility(ClosesTo(closes, Place(date))),
            trend |-> TrendStrength(ClosesTo(closes, Place(date)))]]
  BY DEF Features, sorted
<1>. HIDE DEF closes, complete, Place
<1>10. \A d \in Complete(last) :
         [vol   |-> Volatility(ClosesTo(closes, Place(d))),
          trend |-> TrendStrength(ClosesTo(closes, Place(d)))] = Row(d)
  BY <1>4, <1>6, <1>8 DEF Row
<1>. QED
  BY <1>7, <1>9, <1>10 DEF Rows

\* What comes later is not in the history.
LEMMA HistoryIs ==
  ASSUME NEW last \in Nat, NEW target \in Nat, target <= last
  PROVE  History(Rows(last), target) = Rows(target)
<1>1. LongWindow \in Nat
  BY WindowAssumption
<1>2. {d \in Complete(last) : d <= target} = Complete(target)
  BY <1>1 DEF Complete
<1>. QED
  BY <1>2 DEF History, Rows

\* Closes that are there have positive means.
LEMMA MeanPositive ==
  ASSUME NEW closes, \A k \in 1 .. LongWindow + 1 : closes[k] \in Nat \ {0},
         NEW n \in 1 .. LongWindow
  PROVE  LastOf(closes, n) \in Nat \ {0}
<1>. DEFINE S == LongWindow - n + 2 .. LongWindow + 1
            x == LongWindow + 1
            R == S \ {x}
<1>1. /\ LongWindow \in Nat \ {0} /\ x \in S /\ LongWindow - n + 2 \in Int
      /\ \A k \in S : closes[k] \in Nat \ {0}
  BY WindowAssumption
<1>2. IsFiniteSet(S)
  BY <1>1, FS_Interval
<1>. HIDE DEF x, S
<1>3. IsFiniteSet(R) /\ Weighs(closes, S) /\ \A k \in R : closes[k] \in Nat
  BY <1>1, <1>2, FS_Subset DEF Weighs
<1>4. SumFunctionOnSet(closes, S) = closes[x] + SumFunctionOnSet(closes, R)
  BY <1>1, <1>2, <1>3, SumTake
<1>5. SumFunctionOnSet(closes, R) \in Nat
  <2>. HIDE DEF R
  <2>. QED
    BY <1>3, SumNat
<1>6. closes[x] \in Nat \ {0}
  BY <1>1
<1>. HIDE DEF R
<1>7. SumFunctionOnSet(closes, S) \in Nat \ {0}
  BY <1>4, <1>5, <1>6
<1>. QED
  BY <1>7 DEF LastOf, S

LEMMA TrendTyped ==
  ASSUME NEW closes, \A k \in 1 .. LongWindow + 1 : closes[k] \in Nat \ {0}
  PROVE  TrendStrength(closes) \in Ratios
<1>. DEFINE slow == LastOf(closes, LongWindow)
            fast == LastOf(closes, ShortWindow)
<1>1. LongWindow \in Nat \ {0} /\ LongWindow \in 1 .. LongWindow /\ ShortWindow \in 1 .. LongWindow
  BY WindowAssumption
<1>2. slow \in Nat \ {0} /\ fast \in Nat \ {0}
  BY <1>1, MeanPositive
<1>3. TrendStrength(closes)
        = [num |-> Distance(fast * LongWindow, slow * ShortWindow), den |-> slow * ShortWindow]
  BY DEF TrendStrength
<1>. HIDE DEF slow, fast
<1>4. ShortWindow \in Nat \ {0}
  BY <1>1
<1>5. slow * ShortWindow \in Nat \ {0}
  <2>1. slow * ShortWindow > 0
    BY <1>2, <1>4, SignOf
  <2>2. slow * ShortWindow \in Nat
    BY <1>2, <1>4
  <2>. QED
    BY <2>1, <2>2
<1>6. fast * LongWindow \in Nat
  BY <1>1, <1>2
<1>. DEFINE a == fast * LongWindow
            b == slow * ShortWindow
<1>7. a \in Nat /\ b \in Nat \ {0}
  BY <1>5, <1>6
<1>8. TrendStrength(closes) = [num |-> Distance(a, b), den |-> b]
  BY <1>3
<1>. HIDE DEF a, b
<1>. QED
  BY <1>7, <1>8 DEF Ratios, Distance

LEMMA RowTyped ==
  ASSUME market \in Markets, NEW last \in DOMAIN market, NEW d \in Complete(last)
  PROVE  Row(d).vol \in Ratios /\ Row(d).trend \in Ratios
<1>1. /\ last \in 1 .. Len(market) /\ Len(market) \in Nat /\ DOMAIN market = 1 .. Len(market)
      /\ \A i \in DOMAIN market : market[i] = NaN \/ market[i] \in Nat \ {0}
  BY MarketTyped
<1>2. LongWindow \in Nat \ {0}
  BY WindowAssumption
<1>3. d \in LongWindow + 1 .. last /\ d \in LongWindow + 1 .. Len(market)
      /\ NaN \notin Range(ClosesTo(market, d))
  BY <1>1, <1>2 DEF Complete
<1>4. Volatility(ClosesTo(market, d)) \in Ratios
  BY <1>3, VolatilityAssumption
<1>5. \A k \in 1 .. LongWindow + 1 : ClosesTo(market, d)[k] \in Nat \ {0}
  <2>. TAKE k \in 1 .. LongWindow + 1
  <2>1. d - LongWindow - 1 + k \in DOMAIN market
    BY <1>1, <1>2, <1>3
  <2>2. ClosesTo(market, d)[k] = market[d - LongWindow - 1 + k]
    BY DEF ClosesTo
  <2>3. ClosesTo(market, d)[k] # NaN
    BY <1>3 DEF Range, ClosesTo
  <2>. QED
    BY <1>1, <2>1, <2>2, <2>3
<1>6. TrendStrength(ClosesTo(market, d)) \in Ratios
  <2>. DEFINE closes == ClosesTo(market, d)
  <2>1. \A k \in 1 .. LongWindow + 1 : closes[k] \in Nat \ {0}
    BY <1>5
  <2>. HIDE DEF closes
  <2>2. TrendStrength(closes) \in Ratios
    BY <2>1, TrendTyped
  <2>. QED
    BY <2>2 DEF closes
<1>. QED
  BY <1>4, <1>6 DEF Row

LEMMA ColumnIs ==
  ASSUME market \in Markets, NEW target \in DOMAIN market, target \in Complete(target),
         NEW name \in {"vol", "trend"}
  PROVE  LET values == Column(Rows(target), name) IN
         /\ IsColumn(values)
         /\ DOMAIN values = Complete(target)
         /\ values[target] = Rows(target)[target][name]
         /\ NoMore(values, target) = AtMost(values, target) - 1
<1>. DEFINE values == Column(Rows(target), name)
            D == Complete(target)
<1>1. LongWindow \in Nat \ {0} /\ target \in Nat
  BY MarketTyped, WindowAssumption
<1>2. /\ DOMAIN values = D
      /\ \A d \in D : values[d] = Row(d)[name] /\ values[d] = Rows(target)[d][name]
  BY DEF Column, Rows
<1>3. \A d \in D : values[d] \in Ratios
  BY <1>2, RowTyped
<1>4. IsFiniteSet(D)
  <2>1. IsFiniteSet(LongWindow + 1 .. target) /\ D \subseteq LongWindow + 1 .. target
    BY <1>1, FS_Interval DEF Complete
  <2>. QED
    BY <2>1, FS_Subset
<1>5. \A d \in D : d \in Nat /\ d <= target
  BY <1>1 DEF Complete
<1>. HIDE DEF values, D
<1>6. target \in D
  BY DEF D
<1>7. IsColumn(values)
  BY <1>2, <1>3, <1>4, <1>6 DEF IsColumn
<1>8. NoMore(values, target) = AtMost(values, target) - 1
  <2>. DEFINE A == NotAbove(values, target)
  <2>1. IsFiniteSet(A) /\ target \in A
    BY <1>2, <1>3, <1>6, <1>7, CountsTyped, NotBelowTotal DEF NotAbove
  <2>2. {d \in DOMAIN values : d < target /\ NotBelow(values[target], values[d])} = A \ {target}
    BY <1>1, <1>2, <1>5 DEF NotAbove
  <2>. HIDE DEF A
  <2>3. Cardinality(A \ {target}) = Cardinality(A) - 1
    BY <2>1, FS_RemoveElement
  <2>. QED
    BY <2>2, <2>3 DEF NoMore, AtMost, A
<1>. QED
  BY <1>2, <1>6, <1>7, <1>8 DEF values, D

\* The label a day gets from the rows up to it.
LEMMA LabelOf ==
  ASSUME market \in Markets, NEW target \in DOMAIN market, target \in Complete(target)
  PROVE  LET rows   == Rows(target)
             before == Cardinality(DOMAIN rows) - 1
         IN  RegimeOf(rows, target) =
               IF 4 * NoMore(Column(rows, "vol"), target) >= 3 * before THEN "volatile"
               ELSE IF 5 * NoMore(Column(rows, "trend"), target) >= 3 * before THEN "trending"
               ELSE "ranging"
<1>. DEFINE rows == Rows(target)
            vols == Column(rows, "vol")
            trends == Column(rows, "trend")
            n == Cardinality(DOMAIN rows)
            cv == AtMost(vols, target)
            ct == AtMost(trends, target)
<1>1. target \in Nat /\ DOMAIN rows = Complete(target)
  BY MarketTyped DEF Rows
<1>2. History(rows, target) = rows
  BY <1>1, HistoryIs
<1>3. /\ IsColumn(vols) /\ DOMAIN vols = Complete(target)
      /\ vols[target] = rows[target]["vol"] /\ NoMore(vols, target) = cv - 1
  BY ColumnIs
<1>4. /\ IsColumn(trends) /\ DOMAIN trends = Complete(target)
      /\ trends[target] = rows[target]["trend"] /\ NoMore(trends, target) = ct - 1
  BY ColumnIs
<1>. HIDE DEF rows, vols, trends
<1>5. n \in Nat \ {0} /\ cv \in 1 .. n /\ ct \in 1 .. n
  BY <1>1, <1>3, <1>4, CountsTyped
<1>6. NotBelow(vols[target], Percentile(vols, 75)) <=> 100 * (cv - 1) >= (n - 1) * 75
  <2>1. 75 \in 0 .. 100 /\ target \in DOMAIN vols /\ Cardinality(DOMAIN vols) = n
    BY <1>1, <1>3
  <2>. DEFINE q == 75
  <2>. HIDE DEF n, cv, q
  <2>2. NotBelow(vols[target], Percentile(vols, q)) <=> 100 * (cv - 1) >= (n - 1) * q
    BY <1>3, <2>1, PercentileIs DEF cv, q
  <2>. QED
    BY <2>2 DEF q
<1>7. NotBelow(trends[target], Percentile(trends, 60)) <=> 100 * (ct - 1) >= (n - 1) * 60
  <2>1. 60 \in 0 .. 100 /\ target \in DOMAIN trends /\ Cardinality(DOMAIN trends) = n
    BY <1>1, <1>4
  <2>. DEFINE q == 60
  <2>. HIDE DEF n, ct, q
  <2>2. NotBelow(trends[target], Percentile(trends, q)) <=> 100 * (ct - 1) >= (n - 1) * q
    BY <1>4, <2>1, PercentileIs DEF ct, q
  <2>. QED
    BY <2>2 DEF q
<1>8. RegimeOf(rows, target) =
        IF NotBelow(vols[target], Percentile(vols, 75)) THEN "volatile"
        ELSE IF NotBelow(trends[target], Percentile(trends, 60)) THEN "trending"
        ELSE "ranging"
  BY <1>2, <1>3, <1>4 DEF RegimeOf, vols, trends
<1>. HIDE DEF n, cv, ct
<1>9. /\ 100 * (cv - 1) >= (n - 1) * 75 <=> 4 * (cv - 1) >= 3 * (n - 1)
      /\ 100 * (ct - 1) >= (n - 1) * 60 <=> 5 * (ct - 1) >= 3 * (n - 1)
  BY <1>5
<1>10. RegimeOf(rows, target) =
         IF 4 * NoMore(vols, target) >= 3 * (n - 1) THEN "volatile"
         ELSE IF 5 * NoMore(trends, target) >= 3 * (n - 1) THEN "trending"
         ELSE "ranging"
  BY <1>3, <1>4, <1>6, <1>7, <1>8, <1>9
<1>. QED
  BY <1>10 DEF rows, vols, trends, n

LEMMA RegimeStart == RegimeInit => RegimeInv
BY DEF RegimeInit, RegimeInv

LEMMA RegimeKept == RegimeInv /\ [RegimeNext]_regime_vars => RegimeInv'
<1>. SUFFICES ASSUME RegimeInv, [RegimeNext]_regime_vars  PROVE RegimeInv'
  OBVIOUS
<1>1. market' = market
  BY DEF RegimeNext, Ingest, Classify, regime_vars
<1>2. /\ market' \in Markets
      /\ \A last : Bars(last)' = Bars(last) /\ Complete(last)' = Complete(last)
      /\ \A last : Rows(last)' = Rows(last)
  BY <1>1 DEF RegimeInv, Bars, Complete, Rows, Row
<1>3. market \in Markets /\ Len(market) \in Nat /\ DOMAIN market = 1 .. Len(market)
  BY MarketTyped DEF RegimeInv
<1>. DEFINE FileInv == validated = Unknown \/ \E last \in DOMAIN market : validated = Bars(last)
            LabelInv == \/ label = Unknown
                        \/ \E target \in DOMAIN market :
                             /\ target \in Complete(target)
                             /\ label = [date |-> target, regime |-> RegimeOf(Rows(target), target)]
<1>4. FileInv /\ LabelInv
  BY DEF RegimeInv
<1>5. FileInv' /\ LabelInv' => RegimeInv'
  BY <1>2 DEF RegimeInv
<1>6. UNCHANGED validated => FileInv'
  BY <1>1, <1>2, <1>4
<1>7. UNCHANGED label => LabelInv'
  <2>1. SUFFICES ASSUME UNCHANGED label  PROVE LabelInv'
    OBVIOUS
  <2>2. CASE label = Unknown
    BY <2>1, <2>2
  <2>3. CASE label # Unknown
    <3>1. PICK target \in DOMAIN market :
            /\ target \in Complete(target)
            /\ label = [date |-> target, regime |-> RegimeOf(Rows(target), target)]
      BY <1>4, <2>3
    <3>2. /\ target \in DOMAIN market' /\ target \in Complete(target)'
          /\ label' = [date |-> target, regime |-> RegimeOf(Rows(target)', target)]
      BY <1>1, <1>2, <2>1, <3>1
    <3>. QED
      BY <3>2
  <2>. QED
    BY <2>2, <2>3
<1>8. ASSUME NEW last \in DOMAIN market, NEW bars \in Downloads(last), Ingest(bars)
      PROVE  FileInv'
  <2>1. last \in Nat /\ last >= 1
    BY <1>3
  <2>2. CASE ~ValidOhlcv(bars)
    BY <1>6, <1>8, <2>2 DEF Ingest
  <2>3. CASE ValidOhlcv(bars)
    <3>1. bars # Append(Bars(last), Last(Bars(last)))
      <4>1. SUFFICES ASSUME bars = Append(Bars(last), Last(Bars(last)))  PROVE FALSE
        OBVIOUS
      <4>2. Bars(last) \in Seq(Range(Bars(last))) /\ Len(Bars(last)) = last
        <5>1. Bars(last) \in [1 .. last -> Range(Bars(last))]
          BY <2>1 DEF Bars, Range
        <5>. QED
          BY <2>1, <5>1, BarsAre
      <4>3. Last(Bars(last)) = Bars(last)[last]
        BY <4>2 DEF Last
      <4>4. Bars(last)[last] \in Range(Bars(last))
        BY <2>1, BarsAre DEF Range
      <4>. DEFINE b == Bars(last)
                  e == Bars(last)[last]
      <4>5. b \in Seq(Range(b)) /\ Len(b) = last /\ e \in Range(b) /\ bars = Append(b, e) /\ b[last] = e
        BY <4>1, <4>2, <4>3, <4>4
      <4>. HIDE DEF b, e
      <4>6. /\ DOMAIN bars = 1 .. last + 1 /\ bars[last] = e /\ bars[last + 1] = e
        BY <4>5, <2>1
      <4>. QED
        BY <4>6, <2>1, <2>3 DEF ValidOhlcv
    <3>2. SortIndex(bars) = Bars(last)
      BY <2>1, <3>1, SortedBars DEF Downloads
    <3>3. validated' = Bars(last)'
      BY <1>2, <1>8, <2>3, <3>2 DEF Ingest
    <3>. QED
      BY <1>1, <3>3
  <2>. QED
    BY <2>2, <2>3
<1>9. ASSUME NEW target \in DOMAIN market, Classify(target)
      PROVE  LabelInv'
  <2>1. PICK last \in DOMAIN market : validated = Bars(last)
    BY <1>4, <1>9 DEF Classify
  <2>2. Features(validated) = Rows(last)
    BY <1>3, <2>1, FeaturesAre
  <2>3. CASE target \notin DOMAIN Rows(last)
    BY <1>9, <2>2, <2>3 DEF Classify
  <2>4. CASE target \in DOMAIN Rows(last)
    <3>1. target \in Complete(last) /\ target \in Nat /\ last \in Nat
      BY <1>3, <2>4 DEF Rows
    <3>2. target <= last /\ target \in Complete(target)
      BY <3>1, WindowAssumption DEF Complete
    <3>3. History(Rows(last), target) = Rows(target) /\ History(Rows(target), target) = Rows(target)
      BY <3>1, <3>2, HistoryIs
    <3>4. RegimeOf(Rows(last), target) = RegimeOf(Rows(target), target)
      BY <3>3 DEF RegimeOf
    <3>5. label' = [date |-> target, regime |-> RegimeOf(Rows(last), target)]
      BY <1>9, <2>2, <2>4 DEF Classify
    <3>6. /\ target \in DOMAIN market' /\ target \in Complete(target)'
          /\ label' = [date |-> target, regime |-> RegimeOf(Rows(target)', target)]
      BY <1>1, <1>2, <3>2, <3>4, <3>5
    <3>. QED
      BY <3>6
  <2>. QED
    BY <2>3, <2>4
<1>10. CASE \E last \in DOMAIN market : \E bars \in Downloads(last) : Ingest(bars)
  <2>1. LabelInv'
    BY <1>7, <1>10 DEF Ingest
  <2>2. FileInv'
    BY <1>8, <1>10
  <2>. QED
    BY <1>5, <2>1, <2>2
<1>11. CASE \E target \in DOMAIN market : Classify(target)
  <2>1. FileInv'
    BY <1>6, <1>11 DEF Classify
  <2>2. LabelInv'
    BY <1>9, <1>11
  <2>. QED
    BY <1>5, <2>1, <2>2
<1>12. CASE UNCHANGED regime_vars
  BY <1>5, <1>6, <1>7, <1>12 DEF regime_vars
<1>. QED
  BY <1>10, <1>11, <1>12 DEF RegimeNext

LEMMA RegimeMeans == RegimeInv => LabelIsRank
<1>. SUFFICES ASSUME RegimeInv, label # Unknown  PROVE LabelIsRank
  BY DEF LabelIsRank
<1>1. PICK target \in DOMAIN market :
        /\ target \in Complete(target)
        /\ label = [date |-> target, regime |-> RegimeOf(Rows(target), target)]
  BY DEF RegimeInv
<1>2. market \in Markets
  BY DEF RegimeInv
<1>3. Features(Bars(target)) = Rows(target)
  BY <1>2, FeaturesAre
<1>4. label.date = target /\ label.regime = RegimeOf(Rows(target), target)
  BY <1>1
<1>5. target \in DOMAIN Rows(target)
  BY <1>1 DEF Rows
<1>. QED
  BY <1>1, <1>2, <1>3, <1>4, <1>5, LabelOf DEF LabelIsRank

\* The label printed for a day is the one that counting gives on the rows the day
\* itself had: volatile when at least three quarters of the days before were no
\* more volatile, else trending when three fifths of them had no stronger trend.
\* So for every market and volatility measure, whatever is downloaded later and in
\* whatever order its bars come.
THEOREM LabelCounts == RegimeSpec => []LabelIsRank
<1>1. RegimeInv => LabelIsRank
  BY RegimeMeans
<1>. QED
  BY <1>1, RegimeStart, RegimeKept, PTL DEF RegimeSpec

\* A day does nothing to the market's part but what Regime has.
LEMMA DayMarket == DaySpec => RegimeSpec
<1>1. DayInit => RegimeInit
  BY DEF DayInit
<1>2. [DayNext]_day_vars => [RegimeNext]_regime_vars
  BY DEF DayNext, RegimeStep, SweepOfTheDay, SweepStep, day_vars
<1>. QED
  BY <1>1, <1>2, PTL DEF DaySpec, RegimeSpec

\* And to the sweep's but what Sweep has, for the label it is started with is always
\* one the sweep has a strategy for. What is proved of Sweep holds on every such day.
THEOREM DaySweep == DaySpec => Spec
<1>1. DayInit => Init
  BY DEF DayInit
<1>2. LabelIsRank /\ [DayNext]_day_vars => [Next]_vars
  <2>. SUFFICES ASSUME LabelIsRank, [DayNext]_day_vars  PROVE [Next]_vars
    OBVIOUS
  <2>1. CASE RegimeStep
    BY <2>1 DEF RegimeStep
  <2>2. CASE SweepOfTheDay
    <3>1. label.regime \in {"volatile", "trending", "ranging"} /\ StartSweep(label.regime)
      BY <2>2 DEF SweepOfTheDay, LabelIsRank
    <3>2. label.regime \in Regimes
      BY <3>1 DEF Regimes, StrategyOf
    <3>. QED
      BY <3>1, <3>2 DEF Next
  <2>3. CASE SweepStep
    BY <2>3 DEF SweepStep, Next
  <2>4. CASE UNCHANGED day_vars
    BY <2>4 DEF day_vars
  <2>. QED
    BY <2>1, <2>2, <2>3, <2>4 DEF DayNext
<1>3. DaySpec => []LabelIsRank
  BY DayMarket, LabelCounts, PTL
<1>. QED
  BY <1>1, <1>2, <1>3, PTL DEF DaySpec, Spec
=============================================================================
