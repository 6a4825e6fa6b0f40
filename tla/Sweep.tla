------------------------------- MODULE Sweep -------------------------------
(***************************************************************************)
(* The parameter sweep (backtest/sweep.py) and what the approval pipeline  *)
(* makes of its result (approval/config.py, approval/review.py): the grid  *)
(* is walked in the order of the settings, the first candidate with the    *)
(* highest Sharpe ratio wins, and the result becomes a candidate config if *)
(* it was made with the settings of the day.  Between the two commands,    *)
(* and during each, the settings file may be edited.                       *)
(***************************************************************************)
EXTENDS ConfigFile, FiniteSets

CONSTANTS
  Settings,    (* what the settings file may hold                           *)
  Outcomes     (* what a backtest of a candidate may measure                *)

StrategyOf == [trending |-> "momentum", ranging |-> "mean_reversion",
               volatile |-> "defensive"]
Regimes    == DOMAIN StrategyOf

\* The swept parameters of a strategy, in the order of the grid.
Axes == [momentum       |-> <<"lookback", "entry_thresh", "pos_scalar">>,
         mean_reversion |-> <<"window", "dev_thresh", "pos_scalar">>,
         defensive      |-> <<"spread_floor", "pos_scalar">>]
AxisSet(strategy) == {Axes[strategy][i] : i \in DOMAIN Axes[strategy]}

\* load_settings lets nothing else through (a number too small for a float,
\* which it does let through, is left out).
LegalSettings(s) ==
  /\ s.base_lot \in Nat \ {0}
  /\ \A strategy \in DOMAIN Axes : \A axis \in AxisSet(strategy) :
       LET values == s.grids[strategy][axis] IN
       /\ values \in Seq(Number) /\ values # <<>> /\ IsInjective(values)
       /\ \A i \in DOMAIN values : Positive(values[i])
       /\ axis \in {"lookback", "window"} =>
            \A i \in DOMAIN values : values[i] \in (1 .. RingSize - 1) \X {"none"}
       /\ axis = "spread_floor" => \A i \in DOMAIN values : values[i][2] = "none"
  /\ s.risk_limits \in [Limits -> Nat]
  /\ \A limit \in Limits : s.risk_limits[limit] \in 1 .. Ceiling[limit]
  /\ s.min_trades \in Nat \ {0}

\* run_backtest and calculate_metrics: no Sharpe ratio without a fill, and
\* every accepted order is filled.
LegalOutcome(o) == /\ o.signals = o.accepted + o.rejected /\ o.fills = o.accepted
                   /\ o.fills = 0 => o.sharpe = None
                   /\ o.sharpe = None \/ o.sharpe \in Int

ASSUME SettingsAssumption == \A s \in Settings : LegalSettings(s)
ASSUME NoneAssumption     == None \notin Int
ASSUME OutcomeAssumption  == \A o \in Outcomes : LegalOutcome(o)

VARIABLES
  settings,        (* the settings file                                     *)
  sweep,           (* the run of run_sweep: its settings and regime, or None *)
  results,         (* its list of results                                   *)
  winner_index, winner_sharpe,
  sweep_result,    (* the result file, or None                              *)
  candidate        (* the candidate config with its findings, or None       *)

vars == <<settings, sweep, results, winner_index, winner_sharpe, sweep_result,
          candidate>>

----------------------------------------------------------------------------
(* run_sweep                                                               *)

\* dict.update
Update(f, g) ==
  [key \in DOMAIN f \cup DOMAIN g |-> IF key \in DOMAIN g THEN g[key] ELSE f[key]]

With(point, axis, value) == Update(point, [key \in {axis} |-> value])

\* Variant: the first axis runs fastest.
ExtendInside(points, axis, values) ==
  FlattenSeq([j \in DOMAIN values |->
    [i \in DOMAIN points |-> With(points[i], axis, values[j])]])
\* itertools.product: the last axis runs fastest.
Extend(points, axis, values) ==
  FlattenSeq([i \in DOMAIN points |->
    [j \in DOMAIN values |-> With(points[i], axis, values[j])]])

ParameterGrid(strategy, s) ==
  FoldLeft(LAMBDA points, axis : Extend(points, axis, s.grids[strategy][axis]),
           <<<<>>>>, Axes[strategy])

Init == /\ settings \in Settings
        /\ sweep = None
        /\ results = <<>>
        /\ winner_index = None /\ winner_sharpe = None
        /\ sweep_result = None
        /\ candidate = None

StartSweep(regime) ==
  /\ sweep = None
  /\ sweep' = [settings |-> settings, regime |-> regime]
  /\ UNCHANGED <<settings, results, winner_index, winner_sharpe, sweep_result,
                 candidate>>

Grid == ParameterGrid(StrategyOf[sweep.regime], sweep.settings)

\* Variant: a tie goes to the later candidate.
WinsLast(outcome) ==
  outcome.sharpe # None /\ (winner_sharpe = None \/ outcome.sharpe >= winner_sharpe)
\* Variant: the first candidate leads, defined or not.
WinsUndefined(outcome) ==
  winner_sharpe = None \/ (outcome.sharpe # None /\ outcome.sharpe > winner_sharpe)
Wins(outcome) ==
  outcome.sharpe # None /\ (winner_sharpe = None \/ outcome.sharpe > winner_sharpe)

\* One round of the loop; candidate_index counts from 0.
EvaluateCandidate(outcome) ==
  /\ sweep # None /\ Len(results) < Len(Grid)
  /\ results' = Append(results, [candidate_index |-> Len(results),
                                 parameters      |-> Grid[Len(results) + 1],
                                 outcome         |-> outcome])
  /\ IF Wins(outcome)
     THEN winner_index' = Len(results) /\ winner_sharpe' = outcome.sharpe
     ELSE UNCHANGED <<winner_index, winner_sharpe>>
  /\ UNCHANGED <<settings, sweep, sweep_result, candidate>>

SelectionStatus == IF winner_index = None THEN "NOT_OPTIMIZED" ELSE "OPTIMIZED"

WriteResult ==
  /\ sweep # None /\ sweep_result = None /\ Len(results) = Len(Grid)
  /\ results # <<>>
  /\ sweep_result' =
       [regime           |-> sweep.regime,
        strategy_id      |-> StrategyOf[sweep.regime],
        selection_status |-> SelectionStatus,
        winner           |-> results[(IF winner_index = None THEN 0 ELSE winner_index) + 1],
        results          |-> results,
        settings         |-> sweep.settings]
  /\ UNCHANGED <<settings, sweep, results, winner_index, winner_sharpe, candidate>>

----------------------------------------------------------------------------
(* The approval pipeline                                                   *)

\* Variant: the last axis is forgotten in the count.
ExpectedCountShort(strategy, s) == Len(s.grids[strategy][Axes[strategy][1]])
ExpectedCount(strategy, s) ==
  FoldLeft(LAMBDA n, axis : n * Len(s.grids[strategy][axis]), 1, Axes[strategy])

SameSettings(r, s) == r.settings = s

\* validate_sweep_result, for a file run_sweep has written: it rests on the
\* hash of the settings, the count, and the activity of the winner.
Validates(r, s) ==
  /\ r.strategy_id = StrategyOf[r.regime]
  /\ SameSettings(r, s)
  /\ r.results # <<>>
  /\ Len(r.results) = ExpectedCount(r.strategy_id, s)
  /\ \A i \in DOMAIN r.results : r.results[i].candidate_index = i - 1
  /\ r.winner.candidate_index \in 0 .. Len(r.results) - 1
  /\ r.winner = r.results[r.winner.candidate_index + 1]
  /\ r.selection_status = "OPTIMIZED" => r.winner.outcome.sharpe # None
  /\ LET activity == r.winner.outcome IN
       /\ activity.accepted + activity.rejected = activity.signals
       /\ activity.fills = activity.accepted

Placeholders(s) ==
  LET of(strategy, axis) == s.grids[strategy][axis][1] IN
  [lookback     |-> of("momentum", "lookback"),
   window       |-> of("mean_reversion", "window"),
   entry_thresh |-> of("momentum", "entry_thresh"),
   dev_thresh   |-> of("mean_reversion", "dev_thresh"),
   spread_floor |-> of("defensive", "spread_floor"),
   base_lot     |-> Whole(s.base_lot)]

\* Variant: the placeholders take the winner's place.
ParametersForPsSwapped(r, s) == Update(r.winner.parameters, Placeholders(s))
\* _parameters_for_ps: the winner's parameters, and for the strategies that
\* lost the first of each axis.
ParametersForPs(r, s) == Update(Placeholders(s), r.winner.parameters)

InGrid(r, s) ==
  /\ DOMAIN r.winner.parameters = AxisSet(r.strategy_id)
  /\ \A axis \in AxisSet(r.strategy_id) :
       Contains(s.grids[r.strategy_id][axis], r.winner.parameters[axis])

\* review_winner: the codes of the findings.
Findings(r, s) ==
  {code \in {"RISK_ATTEMPTS_REJECTED", "LIMIT_EXCEEDED", "MAX_DRAWDOWN_HIGH",
             "TRADE_COUNT_LOW", "NOT_OPTIMIZED"} :
     LET o == r.winner.outcome IN
     CASE code = "RISK_ATTEMPTS_REJECTED" -> o.rejected > 0
       [] code = "LIMIT_EXCEEDED"  -> \E limit \in Limits : o.maxima[limit] > s.risk_limits[limit]
       [] code = "MAX_DRAWDOWN_HIGH" -> o.drawdown > s.max_drawdown
       [] code = "TRADE_COUNT_LOW" -> o.fills < s.min_trades
       [] code = "NOT_OPTIMIZED"   -> r.selection_status = "NOT_OPTIMIZED"}

BuildCandidateConfig ==
  /\ sweep_result # None /\ candidate = None
  /\ Validates(sweep_result, settings)
  /\ InGrid(sweep_result, settings)
  /\ candidate' = [strategy_id  |-> sweep_result.strategy_id,
                   regime_label |-> sweep_result.regime,
                   parameters   |-> ParametersForPs(sweep_result, settings),
                   risk_limits  |-> settings.risk_limits,
                   findings     |-> Findings(sweep_result, settings)]
  /\ UNCHANGED <<settings, sweep, results, winner_index, winner_sharpe, sweep_result>>

EditSettings == /\ settings' \in Settings \ {settings}
                /\ UNCHANGED <<sweep, results, winner_index, winner_sharpe,
                               sweep_result, candidate>>

Next == \/ \E regime \in Regimes : StartSweep(regime)
        \/ \E outcome \in Outcomes : EvaluateCandidate(outcome)
        \/ WriteResult
        \/ BuildCandidateConfig
        \/ EditSettings

Spec == Init /\ [][Next]_vars

----------------------------------------------------------------------------
TypeOK == /\ settings \in Settings
          /\ \A i \in DOMAIN results :
               /\ results[i].outcome \in Outcomes
               /\ \E s \in DOMAIN Axes : results[i].parameters \in [AxisSet(s) -> Number]
          /\ winner_index \in 0 .. Len(results) - 1 \cup {None}
          /\ winner_index = None <=> winner_sharpe = None

\* The sweep picks the highest Sharpe ratio, and of equals the first in grid
\* order; if none is defined it picks the first candidate and says so.
WinnerIsFirstBest ==
  sweep_result # None =>
    LET all     == sweep_result.results
        sharpe(i) == all[i].outcome.sharpe
        defined == {i \in DOMAIN all : sharpe(i) # None}
        w       == sweep_result.winner.candidate_index + 1
    IN /\ all[w] = sweep_result.winner
       /\ sweep_result.selection_status = "OPTIMIZED" <=> defined # {}
       /\ defined = {} => w = 1
       /\ defined # {} => /\ w \in defined
                          /\ \A i \in defined : sharpe(i) <= sharpe(w)
                          /\ \A i \in defined : i < w => sharpe(i) < sharpe(w)

\* The candidates are all combinations of the settings' values, each once, in
\* lexicographic order of their places in the settings: what makes the winner of
\* a tie the same on every machine.
GridIsLexicographic ==
  sweep_result # None =>
    LET axes       == Axes[sweep_result.strategy_id]
        values(k)  == sweep_result.settings.grids[sweep_result.strategy_id][axes[k]]
        point(i)   == sweep_result.results[i].parameters
        place(i, k) == SelectInSeq(values(k), LAMBDA v : v = point(i)[axes[k]])
        all        == DOMAIN sweep_result.results
    IN /\ \A p \in [DOMAIN axes -> UNION {Range(values(k)) : k \in DOMAIN axes}] :
            (\A k \in DOMAIN axes : p[k] \in Range(values(k))) =>
              \E i \in all : \A k \in DOMAIN axes : point(i)[axes[k]] = p[k]
       /\ \A i, j \in all : i < j =>
            \E k \in DOMAIN axes : /\ \A m \in 1 .. k - 1 : place(i, m) = place(j, m)
                                   /\ place(i, k) < place(j, k)

\* The approval pipeline refuses a sweep result exactly when the settings have
\* changed since, whatever the sweep measured.
RefusedOnlyWhenStale ==
  sweep_result # None =>
    (Validates(sweep_result, settings) /\ InGrid(sweep_result, settings)
       <=> sweep_result.settings = settings)

\* Whatever the sweep measured and however the settings were edited, the config
\* that comes before the operator is one the loader is written for, and holds
\* the winner's parameters and the limits the winner was measured under.
CandidateIsDeliverable ==
  candidate # None =>
    /\ Deliverable(candidate)
    /\ candidate.risk_limits = sweep_result.settings.risk_limits
    /\ \A axis \in AxisSet(candidate.strategy_id) :
         candidate.parameters[axis] = sweep_result.winner.parameters[axis]
============================================================================
