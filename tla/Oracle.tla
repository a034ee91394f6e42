------------------------------- MODULE Oracle -------------------------------
(***************************************************************************)
(* pallet-oracle: questions with a bounty.  Agents answer until a          *)
(* deadline; when the challenge window has passed as well, anyone may have *)
(* the answers counted: the bounty goes to those who gave the winning one. *)
(* The escrow asks its dispute questions here and takes the verdict from   *)
(* the count; Escrow models what it does with it, and sees a question from *)
(* outside, as answered or not.                                            *)
(*                                                                         *)
(* A request is keyed by the hash of its question.  The key of a dispute   *)
(* is the hash of (buyer, provider, seq), which anybody may use for a      *)
(* request of their own; the escrow posts one dispute per key, ever.       *)
(*                                                                         *)
(* Left out: OracleResults and the counters of an era, which nothing here  *)
(* reads, and the capability a request may ask for: an agent without it is *)
(* one that does not answer.                                               *)
(***************************************************************************)
EXTENDS Integers, FiniteSets, Functions, Currency

CONSTANTS
  Posters, Respondents,  \* agents that ask, agents that answer
  Winners,               \* where what the winners are paid is added up
  Scored,                \* the agents whose record of answers is kept
  Hashes,                \* keys of requests
  DisputeBuyer,          \* the buyer of each dispute, by the dispute's key
  AnswersTo,             \* the agents that answer a request, by its key
  Answers, ProviderAnswer, \* hashes of answers, and the one that pays a provider
  Terms,                 \* what a poster may ask for
  DisputeBounty, DisputeSpan,  \* what the escrow asks for
  PosterEndowment,       \* free balance of every poster at the start
  \* runtime parameters
  MinOracleBounty, OpenRequestLimit, MinChallengeSpan, MinConsensusThreshold,
  MaxResponsesPerRequest,
  LastOracleBlock        \* the last block of the run

DisputeHashes == DOMAIN DisputeBuyer

Modes == {"Factual", "Adversarial"}

TermRecord ==
  [bounty : Nat, mode : Modes, minResponses : Nat, threshold : Nat,
   deadline : Nat, window : Nat]

ASSUME OracleParameters ==
  /\ {DisputeBounty, DisputeSpan, PosterEndowment, MinOracleBounty,
      OpenRequestLimit, MinChallengeSpan, MinConsensusThreshold,
      MaxResponsesPerRequest, LastOracleBlock} \subseteq Nat
  /\ Terms \subseteq TermRecord
  /\ IsFiniteSet(Respondents)
  /\ Scored \subseteq Respondents
  /\ DisputeHashes \subseteq Hashes
  /\ DisputeBuyer \in [DisputeHashes -> Posters]
  /\ AnswersTo \in [Hashes -> SUBSET Respondents]
  /\ ProviderAnswer \in Answers

VARIABLES
  oracleBlock,       \* frame_system block number
  oracleRequests,    \* OracleRequests
  oracleResponses,   \* OracleResponses: the answer of each respondent, by key
  oracleAccuracy,    \* OracleAccuracy, from which OracleScore is computed
  oracleLedger,      \* balances
  verdicts           \* what on_dispute_resolved was told, or "none", or not "asked" yet

oracleVars == <<oracleBlock, oracleRequests, oracleResponses, oracleAccuracy,
                oracleLedger, verdicts>>

-----------------------------------------------------------------------------

OracleAccounts == Posters \cup {Winners}

\* The status is Open until the first answer and Collecting from then on.
OracleRequest ==
  [creator : Posters, terms : TermRecord, responseCount : Nat, dispute : BOOLEAN]

Posted(creator, terms, dispute) ==
  [creator |-> creator, terms |-> terms, responseCount |-> 0, dispute |-> dispute]

IsOpen(id)      == id \in DOMAIN oracleRequests
DeadlineOf(id)  == oracleRequests[id].terms.deadline
BountyOf(id)    == oracleRequests[id].terms.bounty
Responded(id)   == DOMAIN oracleResponses[id]
VotersFor(id, answer) == {a \in Responded(id) : oracleResponses[id][a] = answer}

NoAnswers == [a \in {} |-> 0]

PutRequest(id, request) ==
  oracleRequests' = [h \in DOMAIN oracleRequests \cup {id} |->
                       IF h = id THEN request ELSE oracleRequests[h]]

OracleInit ==
  /\ oracleBlock = 0
  /\ oracleRequests = [h \in {} |-> 0]
  /\ oracleResponses = [h \in Hashes |-> NoAnswers]
  /\ oracleAccuracy = [a \in Scored |-> [correct |-> 0, total |-> 0]]
  /\ oracleLedger = [free     |-> [a \in OracleAccounts |->
                                     IF a \in Posters THEN PosterEndowment ELSE 0],
                     reserved |-> [a \in OracleAccounts |-> 0]]
  /\ verdicts = [h \in DisputeHashes |-> "none"]

-----------------------------------------------------------------------------
(* Asking.                                                                 *)

HasRoom == Cardinality(DOMAIN oracleRequests) < OpenRequestLimit

MayAsk(terms) ==
  /\ terms.bounty >= MinOracleBounty
  /\ terms.threshold \in MinConsensusThreshold .. 100
  /\ terms.window >= MinChallengeSpan

\* A deadline that has passed already is not refused.
CreateOracleRequest(poster, id, terms) ==
  /\ MayAsk(terms)
  /\ HasRoom
  /\ ~IsOpen(id)
  /\ CanReserve(oracleLedger, poster, terms.bounty)
  /\ oracleLedger' = Reserve(oracleLedger, poster, terms.bounty)
  /\ PutRequest(id, Posted(poster, terms, FALSE))
  /\ UNCHANGED <<oracleBlock, oracleResponses, oracleAccuracy, verdicts>>

DisputeTerms ==
  [bounty |-> DisputeBounty, mode |-> "Factual", minResponses |-> 3,
   threshold |-> 67, deadline |-> oracleBlock + DisputeSpan,
   window |-> MinChallengeSpan]

\* A request that stands at the key is replaced: its bounty stays reserved and
\* its answers stay where they are, under a count that starts again at zero.
PostDisputeQuestion(id) ==
  /\ oracleBlock + DisputeSpan + MinChallengeSpan < LastOracleBlock
  /\ verdicts[id] = "none"
  /\ HasRoom
  /\ CanReserve(oracleLedger, DisputeBuyer[id], DisputeBounty)
  /\ oracleLedger' = Reserve(oracleLedger, DisputeBuyer[id], DisputeBounty)
  /\ PutRequest(id, Posted(DisputeBuyer[id], DisputeTerms, TRUE))
  /\ verdicts' = [verdicts EXCEPT ![id] = "asked"]
  /\ UNCHANGED <<oracleBlock, oracleResponses, oracleAccuracy>>

-----------------------------------------------------------------------------
(* Answering.                                                              *)

MayAnswer(agent, id) ==
  /\ IsOpen(id)
  /\ oracleBlock <= DeadlineOf(id)
  /\ oracleRequests[id].responseCount < MaxResponsesPerRequest
  /\ agent \notin Responded(id)

\* One answer under each of the keys.
Answered(agent, ids, answer) ==
  /\ oracleResponses' = [h \in Hashes |->
       IF h \in ids
       THEN [a \in Responded(h) \cup {agent} |->
               IF a = agent THEN answer[h] ELSE oracleResponses[h][a]]
       ELSE oracleResponses[h]]
  /\ oracleRequests' = [h \in DOMAIN oracleRequests |->
       IF h \in ids THEN [oracleRequests[h] EXCEPT !.responseCount = @ + 1]
                    ELSE oracleRequests[h]]
  /\ UNCHANGED <<oracleBlock, oracleAccuracy, oracleLedger, verdicts>>

SubmitResponse(agent, id, answer) ==
  /\ MayAnswer(agent, id)
  /\ Answered(agent, {id}, [h \in {id} |-> answer])

\* Entries that submit_response would refuse are skipped, one by one; a key
\* named twice is answered by its first entry.
BatchSubmitResponse(agent, answer) ==
  Answered(agent, {id \in DOMAIN answer : MayAnswer(agent, id)}, answer)

-----------------------------------------------------------------------------
(* Counting.                                                               *)

\* Mutant: the percentage is divided first.
HundredthsFirst(total, threshold) == (total \div 100) * threshold

\* Rounded down: two of three reach 67 percent, and so do two of four.
VotesFor(total, threshold) == (total * threshold) \div 100

Required(id) ==
  LET votes == VotesFor(Cardinality(Responded(id)), oracleRequests[id].terms.threshold)
  IN  IF votes = 0 THEN 1 ELSE votes

Reaching(id) ==
  {answer \in Answers : Cardinality(VotersFor(id, answer)) >= Required(id)}

\* Mutant: rounded up, so that nothing is left over.
ShareRoundedUp(bounty, n) == (bounty + n - 1) \div n

ShareOf(bounty, n) == bounty \div n

\* Each of the n winners is paid its share, but for those whose account is gone;
\* what is not paid out stays in the creator's reserve.
BountyPaid(id, n, reached) ==
  Repatriate(oracleLedger, oracleRequests[id].creator, Winners,
             ShareOf(BountyOf(id), n) * reached)

\* update_accuracy, for everyone who answered.
Judged(id, winners) ==
  [a \in Scored |->
     IF a \in Responded(id)
     THEN [correct |-> oracleAccuracy[a].correct + (IF a \in winners THEN 1 ELSE 0),
           total   |-> oracleAccuracy[a].total + 1]
     ELSE oracleAccuracy[a]]

\* The request leaves, and every answer under its key.
Close(id) ==
  /\ oracleRequests' = Restrict(oracleRequests, DOMAIN oracleRequests \ {id})
  /\ oracleResponses' = [oracleResponses EXCEPT ![id] = NoAnswers]

\* The callback of a dispute: anything but the provider's answer is for the
\* buyer, having no winning answer at all included.
Resolve(id, won) ==
  verdicts' = IF oracleRequests[id].dispute
              THEN [verdicts EXCEPT ![id] = IF won THEN "provider" ELSE "buyer"]
              ELSE verdicts

MayFinalise(id) ==
  /\ IsOpen(id)
  /\ oracleRequests[id].responseCount > 0
  /\ oracleRequests[id].responseCount >= oracleRequests[id].terms.minResponses
  /\ oracleBlock > DeadlineOf(id) + oracleRequests[id].terms.window

Conclude(id, winners, won) ==
  /\ \E reached \in 0 .. Cardinality(winners) :
       oracleLedger' = BountyPaid(id, Cardinality(winners), reached)
  /\ oracleAccuracy' = Judged(id, winners)
  /\ Resolve(id, won)

\* Of several answers with enough votes the first in storage order wins, which
\* is the order of the hashed accounts: any of them, for all the agents know.
FinaliseFactual(id) ==
  \/ \E answer \in Reaching(id) :
       Conclude(id, VotersFor(id, answer), answer = ProviderAnswer)
  \/ /\ Reaching(id) = {}
     /\ oracleLedger' =
          Unreserve(oracleLedger, oracleRequests[id].creator, BountyOf(id))
     /\ oracleAccuracy' = Judged(id, {})
     /\ Resolve(id, FALSE)

\* Everyone wins, and the result is a digest of all the answers.
FinaliseAdversarial(id) == Conclude(id, Responded(id), FALSE)

FinaliseOracleRequest(id) ==
  /\ MayFinalise(id)
  /\ IF oracleRequests[id].terms.mode = "Factual" THEN FinaliseFactual(id)
                                                 ELSE FinaliseAdversarial(id)
  /\ Close(id)
  /\ UNCHANGED oracleBlock

\* Mutant: only a request nobody answered expires.
Unanswered(id) == oracleRequests[id].responseCount = 0

TooFewAnswers(id) ==
  \/ oracleRequests[id].responseCount = 0
  \/ oracleRequests[id].responseCount < oracleRequests[id].terms.minResponses

\* A dispute that expires is not reported to the escrow.
ExpireOracleRequest(id) ==
  /\ IsOpen(id)
  /\ TooFewAnswers(id)
  /\ oracleBlock > DeadlineOf(id)
  /\ oracleLedger' =
       Unreserve(oracleLedger, oracleRequests[id].creator, BountyOf(id))
  /\ Close(id)
  /\ UNCHANGED <<oracleBlock, oracleAccuracy, verdicts>>

OracleTick ==
  /\ oracleBlock < LastOracleBlock
  /\ oracleBlock' = oracleBlock + 1
  /\ UNCHANGED <<oracleRequests, oracleResponses, oracleAccuracy, oracleLedger,
                 verdicts>>

-----------------------------------------------------------------------------

\* The keys one batch of the agent's may name.
BatchKeys(agent) == {h \in Hashes : agent \in AnswersTo[h]}

Asking(id) ==
  \/ \E poster \in Posters, terms \in Terms : CreateOracleRequest(poster, id, terms)
  \/ id \in DisputeHashes /\ PostDisputeQuestion(id)

Answering(agent) ==
  \/ \E id \in BatchKeys(agent), answer \in Answers : SubmitResponse(agent, id, answer)
  \/ \E answer \in [BatchKeys(agent) -> Answers] : BatchSubmitResponse(agent, answer)

OracleNext ==
  \/ OracleTick
  \/ \E id \in Hashes : Asking(id)
  \/ \E agent \in Respondents : Answering(agent)
  \/ \E id \in Hashes : FinaliseOracleRequest(id) \/ ExpireOracleRequest(id)

OracleSpec == OracleInit /\ [][OracleNext]_oracleVars

\* Blocks keep coming, and somebody makes the two calls anyone may make.
OracleKeepers ==
  /\ WF_oracleVars(OracleTick)
  /\ \A id \in Hashes : /\ WF_oracleVars(FinaliseOracleRequest(id))
                        /\ WF_oracleVars(ExpireOracleRequest(id))

FairOracle == OracleSpec /\ OracleKeepers

-----------------------------------------------------------------------------
(* Properties.                                                             *)

OracleTypeOK ==
  /\ oracleBlock \in Nat
  /\ DOMAIN oracleRequests \subseteq Hashes
  /\ oracleRequests \in [DOMAIN oracleRequests -> OracleRequest]
  /\ \A h \in Hashes : /\ Responded(h) \subseteq Respondents
                       /\ oracleResponses[h] \in [Responded(h) -> Answers]
  /\ oracleAccuracy \in [Scored -> [correct : Nat, total : Nat]]
  /\ oracleLedger \in Ledger(OracleAccounts)
  /\ verdicts \in [DisputeHashes -> {"none", "asked", "provider", "buyer"}]

\* No count is ahead of the answers it counts, though a dispute posted over a
\* request keeps that request's answers and starts to count again.
CountsAreBacked ==
  \A id \in DOMAIN oracleRequests :
    oracleRequests[id].responseCount <= Cardinality(Responded(id))

\* No dispute is decided for a provider by fewer than three answers or by less
\* than half of those there are, whatever stood at its key before and however
\* the percentage is rounded.
VotedVerdict(id) ==
  verdicts'[id] = "provider" /\ verdicts[id] # "provider" =>
    /\ Cardinality(Responded(id)) >= 3
    /\ 2 * Cardinality(VotersFor(id, ProviderAnswer)) >= Cardinality(Responded(id))

VerdictIsVoted == [][\A id \in DisputeHashes : VotedVerdict(id)]_oracleVars

OpenBounties == [id \in DOMAIN oracleRequests |-> BountyOf(id)]

\* A poster's one undivided reserve covers the bounties of all its open
\* requests, so no count pays its winners out of another question's bounty.
BountiesAreReserved ==
  \A p \in Posters :
    SumFunctionOnSet(OpenBounties,
                     {id \in DOMAIN oracleRequests : oracleRequests[id].creator = p})
      <= oracleLedger.reserved[p]

\* Every request is closed in the end by the calls anyone may make: whatever the
\* number of its answers, one of counting and expiring is open to it.
RequestsEnd == \A id \in Hashes : IsOpen(id) ~> ~IsOpen(id)

=============================================================================
