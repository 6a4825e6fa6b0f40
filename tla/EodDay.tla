------------------------------- MODULE EodDay -------------------------------
(***************************************************************************)
(* The end of a day: the classifier's label is what the operator starts    *)
(* the sweep with, and the sweep's result becomes the candidate config.    *)
(***************************************************************************)
EXTENDS Sweep, Regime

CONSTANT SweptMarkets   (* BOUND: the markets a sweep is followed through on *)

day_vars == <<vars, regime_vars>>

DayInit == Init /\ RegimeInit

RegimeStep == RegimeNext /\ UNCHANGED vars

\* run_sweep --regime
SweepOfTheDay == /\ market \in SweptMarkets /\ label # Unknown
                 /\ StartSweep(label.regime)
                 /\ UNCHANGED regime_vars

SweepStep == /\ \/ \E outcome \in Outcomes : EvaluateCandidate(outcome)
                \/ WriteResult
                \/ BuildCandidateConfig
                \/ EditSettings
             /\ UNCHANGED regime_vars

DayNext == RegimeStep \/ SweepOfTheDay \/ SweepStep

DaySpec == DayInit /\ [][DayNext]_day_vars
============================================================================
