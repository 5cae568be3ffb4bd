----------------------------- MODULE MCChainRun -----------------------------
(***************************************************************************)
(* A chain with the shape of research_decision_v1: a search node, a        *)
(* quality evaluator whose loop path starts and ends at itself, and the    *)
(* risk classifier, whose output may need a human review.                  *)
(***************************************************************************)
EXTENDS ChainRun, TLC

CONSTANTS search, quality, risk, refine

MCOrder == <<search, quality, risk>>
MCPath == refine :> <<quality, search, quality>>
MCMaxIterations == refine :> 2

MCShortOrder == <<quality, risk>>
MCShortPath == refine :> <<quality>>
MCOneIteration == refine :> 1

(* Like the shipped blueprints, the instances lead back.                    *)
ASSUME ShippedShape == Backward

Symmetry == Permutations(Procs)
=============================================================================
