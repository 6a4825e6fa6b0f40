---------------------------- MODULE MCApproval ----------------------------
(* Two sessions, one after the other or overlapping, over results of each  *)
(* kind the gates tell apart and one that validation refuses.              *)
EXTENDS Approval, TLC

Result1(name, selection, warnings, valid) ==
  [name |-> name, selection_status |-> selection,
   has_warnings |-> warnings, valid |-> valid]

MCResults == {Result1("clean", "OPTIMIZED", FALSE, TRUE),
              Result1("warned", "OPTIMIZED", TRUE, TRUE),
              Result1("placeholder", "NOT_OPTIMIZED", TRUE, TRUE),
              Result1("stale", "OPTIMIZED", FALSE, FALSE)}
MCPairResults == {r \in MCResults : r.name \in {"warned", "placeholder", "stale"}}

MCPhrases     == {"APPROVE", "ACKNOWLEDGE WARNINGS", "OVERRIDE NOT_OPTIMIZED",
                  "REJECT", "empty", "EOF"}
MCPairPhrases == MCPhrases \ {"empty", "EOF"}

SessionSymmetry == Permutations(Sessions)
============================================================================
