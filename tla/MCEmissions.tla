---------------------------- MODULE MCEmissions -----------------------------
(* Two agents, one of which may be an orchestrator as well.  Two or three   *)
(* eras are settled: a weight, a change of it, and the claims in between.   *)
EXTENDS Emissions, TLC

CONSTANTS a1, a2

MCAccounts  == {a1, a2}
MCFounders  == {a1, a2}
MCHeads     == {a2}
MCWeights   == {0, 2}
MCOrchestratorWeights == {0, 1}
MCVolumes   == {3, 12}
MCOverrides == {12}
MCBurns     == {1}
=============================================================================
