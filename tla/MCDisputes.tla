----------------------------- MODULE MCDisputes -----------------------------
(* The escrow as in MCEscrow, or the oracle: a behaviour is one of the two. *)
(*                                                                          *)
(* The oracle has one dispute and one other request of the same buyer's,    *)
(* which one agent may answer; either key may be asked by the buyer first.  *)
(* Where votes are the question four agents may answer the dispute: enough  *)
(* for a tie, and for three answers that differ; where its end is, three.   *)
EXTENDS MCEscrow, Oracle

CONSTANTS r1, r2, r3, r4, dispute, other, yes, no, dunno, winners

MCRespondents  == {r1, r2, r3, r4}
MCHashes       == {dispute, other}
MCDisputeBuyer == dispute :> b1
MCFourAnswer   == dispute :> MCRespondents @@ other :> {r1}
MCThreeAnswer  == dispute :> {r1, r2, r3} @@ other :> {r1}

AskedFor(bounty, mode, minResponses, threshold, deadline) ==
  [bounty |-> bounty, mode |-> mode, minResponses |-> minResponses,
   threshold |-> threshold, deadline |-> deadline, window |-> 0]
MCTerms == {AskedFor(3, "Factual", 2, 100, 1), AskedFor(2, "Adversarial", 0, 50, 0)}
MCMoreTerms == MCTerms \cup {AskedFor(2, "Factual", 1, 50, 0)}

-----------------------------------------------------------------------------

VARIABLE pallet

allVars == <<pallet, vars, oracleVars>>

DisputesInit == pallet \in {"escrow", "oracle"} /\ Init /\ OracleInit

InEscrow == pallet = "escrow" /\ UNCHANGED <<pallet, oracleVars>>
InOracle == pallet = "oracle" /\ UNCHANGED <<pallet, vars>>

DisputesNext == (InEscrow /\ Next) \/ (InOracle /\ OracleNext)

\* Keepers and OracleKeepers, each of the pallet that runs.
DisputesFairness ==
  /\ WF_allVars((InEscrow /\ Tick) \/ (InOracle /\ OracleTick))
  /\ \A id \in Ids : /\ WF_allVars(InEscrow /\ ExpireAgreement(id))
                     /\ WF_allVars(InEscrow /\ ExpireRequest(id))
                     /\ WF_allVars(InEscrow /\ FinaliseRequest(id))
  /\ \A h \in Hashes : /\ WF_allVars(InOracle /\ FinaliseOracleRequest(h))
                       /\ WF_allVars(InOracle /\ ExpireOracleRequest(h))

DisputesSafety == DisputesInit /\ [][DisputesNext]_allVars
DisputesSpec == DisputesSafety /\ DisputesFairness
=============================================================================
