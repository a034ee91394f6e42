--------------------------- MODULE MCOrchestrator ---------------------------
(* Three accounts, each of which may be orchestrator and sub-agent at once. *)
(* An inbox holds one offer, or two where the cap on links is the question; *)
(* a registrant may ask for more sub-agents than it may have.               *)
EXTENDS Orchestrator, TLC

CONSTANTS a1, a2, a3

MCAccounts   == {a1, a2, a3}
MCDeclarable == {1, 2, 3}
Symmetry     == Permutations(MCAccounts)
=============================================================================
