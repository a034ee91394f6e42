------------------------------ MODULE MCEscrow ------------------------------
(* One buyer and one provider that may have two agreements open at a time:  *)
(* enough for a slot, a reserve or a question of one to be taken for the    *)
(* other's.  Amounts are in CMN; the windows keep the runtime's order       *)
(* (answer and challenge before dispute time-out, grace on top of each).    *)
EXTENDS Escrow, TLC

CONSTANTS b1, p1, treasury, panel

MCBuyers    == {b1}
MCProviders == {p1}
MCWinners   == {2, 3}
MCAmounts   == {1000}
=============================================================================
