---------------------------- MODULE OracleProofs ----------------------------
(***************************************************************************)
(* Machine-checked facts about Oracle, for every set of requests, terms    *)
(* and answers, any finite set of respondents and every value of the       *)
(* runtime's parameters.                                                   *)
(***************************************************************************)
EXTENDS Oracle, CurrencyProofs, FiniteSetTheorems, TLAPS

\* A dispute is asked on the terms of the pallet, at the key of a dispute.
DisputesOnTerms ==
  \A id \in DOMAIN oracleRequests : oracleRequests[id].dispute =>
    /\ id \in DisputeHashes
    /\ oracleRequests[id].terms.mode = "Factual"
    /\ oracleRequests[id].terms.minResponses = 3
    /\ oracleRequests[id].terms.threshold = 67

OracleInv == OracleTypeOK /\ CountsAreBacked /\ DisputesOnTerms

-----------------------------------------------------------------------------
(* Operators.                                                              *)

\* Two thirds, rounded down, of three or more answers are half of them.
LEMMA TwoThirdsAreHalf ==
  ASSUME NEW n \in Nat, n >= 3
  PROVE  /\ VotesFor(n, 67) # 0
         /\ 2 * VotesFor(n, 67) >= n
<1>1. VotesFor(n, 67) = (n * 67) \div 100
  BY DEF VotesFor
<1>2. 2 * ((n * 67) \div 100) >= n
  BY SMT
<1> QED BY <1>1, <1>2, SMT

\* A request as it is posted.
LEMMA PostedType ==
  ASSUME NEW creator \in Posters, NEW terms \in TermRecord, NEW dispute \in BOOLEAN
  PROVE  /\ Posted(creator, terms, dispute) \in OracleRequest
         /\ Posted(creator, terms, dispute).creator = creator
         /\ Posted(creator, terms, dispute).terms = terms
         /\ Posted(creator, terms, dispute).responseCount = 0
         /\ Posted(creator, terms, dispute).dispute = dispute
BY DEF Posted, OracleRequest

\* A request with one answer more.
LEMMA CountedType ==
  ASSUME NEW request \in OracleRequest
  PROVE  LET more == [request EXCEPT !.responseCount = @ + 1]
         IN  /\ more \in OracleRequest
             /\ more.terms = request.terms /\ more.dispute = request.dispute
             /\ more.responseCount = request.responseCount + 1
             /\ request.responseCount \in Nat
<1> USE DEF OracleRequest
<1>1. request.responseCount \in Nat /\ request.responseCount + 1 \in Nat
  OBVIOUS
<1>2. [request EXCEPT !.responseCount = @ + 1] \in OracleRequest
  BY <1>1
<1> QED BY <1>1, <1>2

\* What the escrow asks for are terms like any other.
LEMMA DisputeTermsType ==
  ASSUME oracleBlock \in Nat
  PROVE  /\ DisputeTerms \in TermRecord
         /\ DisputeTerms.mode = "Factual"
         /\ DisputeTerms.minResponses = 3
         /\ DisputeTerms.threshold = 67
<1>1. /\ oracleBlock + DisputeSpan \in Nat
      /\ DisputeBounty \in Nat /\ MinChallengeSpan \in Nat
  BY OracleParameters
<1> QED BY <1>1 DEF DisputeTerms, TermRecord, Modes

\* The answers under a key are finite in number, and so are those of one kind.
LEMMA AnswersFinite ==
  ASSUME OracleTypeOK, NEW id \in Hashes
  PROVE  /\ IsFiniteSet(Responded(id))
         /\ Cardinality(Responded(id)) \in Nat
         /\ \A answer : Cardinality(VotersFor(id, answer)) \in Nat
<1>1. Responded(id) \subseteq Respondents /\ IsFiniteSet(Respondents)
  BY OracleParameters DEF OracleTypeOK
<1>2. IsFiniteSet(Responded(id))
  BY <1>1, FS_Subset
<1>3. ASSUME NEW answer PROVE Cardinality(VotersFor(id, answer)) \in Nat
  <2>1. VotersFor(id, answer) \subseteq Responded(id)
    BY DEF VotersFor
  <2> QED BY <1>2, <2>1, FS_Subset, FS_CardinalityType
<1> QED BY <1>2, <1>3, FS_CardinalityType

-----------------------------------------------------------------------------
(* The invariant at the start.                                             *)

\* No request is open at the start, so every count is backed.
LEMMA OracleInvInit == OracleInit => OracleInv
<1> SUFFICES ASSUME OracleInit PROVE OracleInv
  OBVIOUS
<1>1. DOMAIN oracleRequests = {}
  BY DEF OracleInit
<1>2. oracleLedger \in Ledger(OracleAccounts)
  BY OracleParameters DEF OracleInit, Ledger
<1>3. \A h \in Hashes : DOMAIN oracleResponses[h] = {}
  BY DEF OracleInit, NoAnswers
<1>4. /\ oracleAccuracy \in [Scored -> [correct : Nat, total : Nat]]
      /\ verdicts \in [DisputeHashes -> {"none", "asked", "provider", "buyer"}]
      /\ oracleBlock \in Nat
  BY DEF OracleInit
<1>5. \A h \in Hashes : /\ Responded(h) \subseteq Respondents
                        /\ oracleResponses[h] \in [Responded(h) -> Answers]
  BY <1>3 DEF OracleInit, NoAnswers, Responded
<1>6. oracleRequests \in [DOMAIN oracleRequests -> OracleRequest]
  BY <1>1 DEF OracleInit
<1> QED BY <1>1, <1>2, <1>4, <1>5, <1>6
        DEF OracleInv, OracleTypeOK, CountsAreBacked, DisputesOnTerms

-----------------------------------------------------------------------------
(* The calls.                                                              *)

\* A request is put at a key, over another one or not.
LEMMA InvPut ==
  ASSUME OracleInv, NEW id \in Hashes, NEW creator \in Posters,
         NEW terms \in TermRecord, NEW dispute \in BOOLEAN,
         dispute => /\ id \in DisputeHashes /\ terms.mode = "Factual"
                    /\ terms.minResponses = 3 /\ terms.threshold = 67,
         PutRequest(id, Posted(creator, terms, dispute)),
         UNCHANGED <<oracleBlock, oracleResponses, oracleAccuracy>>,
         oracleLedger' \in Ledger(OracleAccounts),
         verdicts' \in [DisputeHashes -> {"none", "asked", "provider", "buyer"}]
  PROVE  OracleInv'
<1> DEFINE new == Posted(creator, terms, dispute)
<1>1. /\ new \in OracleRequest /\ new.terms = terms
      /\ new.responseCount = 0 /\ new.dispute = dispute
  BY PostedType
<1> HIDE DEF new
<1>2. /\ DOMAIN oracleRequests' = DOMAIN oracleRequests \cup {id}
      /\ oracleRequests'[id] = new
      /\ \A h \in DOMAIN oracleRequests \ {id} : oracleRequests'[h] = oracleRequests[h]
      /\ oracleRequests' \in [DOMAIN oracleRequests' -> OracleRequest]
  BY <1>1 DEF PutRequest, new, OracleInv, OracleTypeOK
<1>3. \A h : Responded(h)' = Responded(h)
  BY DEF Responded
<1>4. OracleTypeOK'
  BY <1>2, <1>3 DEF OracleInv, OracleTypeOK
<1>5. CountsAreBacked'
  <2> SUFFICES ASSUME NEW h \in DOMAIN oracleRequests'
               PROVE  oracleRequests'[h].responseCount <= Cardinality(Responded(h))
    BY <1>3 DEF CountsAreBacked
  <2>1. CASE h = id
    <3>1. Cardinality(Responded(id)) \in Nat
      BY AnswersFinite DEF OracleInv
    <3> QED BY <2>1, <3>1, <1>1, <1>2
  <2>2. CASE h # id
    BY <2>2, <1>2 DEF OracleInv, CountsAreBacked
  <2> QED BY <2>1, <2>2
<1>6. DisputesOnTerms'
  BY <1>1, <1>2 DEF OracleInv, DisputesOnTerms
<1> QED BY <1>4, <1>5, <1>6 DEF OracleInv

\* create_oracle_request posts at a key without a request.
LEMMA InvCreate ==
  ASSUME OracleInv, NEW id \in Hashes, NEW poster \in Posters, NEW terms \in Terms,
         CreateOracleRequest(poster, id, terms)
  PROVE  OracleInv'
<1>1. terms \in TermRecord /\ terms.bounty \in Nat /\ poster \in OracleAccounts
  BY OracleParameters DEF TermRecord, OracleAccounts
<1>2. oracleLedger' \in Ledger(OracleAccounts)
  BY <1>1, ReserveType DEF CreateOracleRequest, OracleInv, OracleTypeOK
<1>3. verdicts' = verdicts
  BY DEF CreateOracleRequest
<1> QED BY <1>1, <1>2, <1>3, InvPut DEF CreateOracleRequest, OracleInv, OracleTypeOK

\* post_dispute_question_internal posts over whatever stands at the key.
LEMMA InvDispute ==
  ASSUME OracleInv, NEW id \in DisputeHashes, PostDisputeQuestion(id)
  PROVE  OracleInv'
<1>1. /\ DisputeBuyer[id] \in Posters /\ DisputeBuyer[id] \in OracleAccounts
      /\ DisputeBounty \in Nat /\ id \in Hashes
  BY OracleParameters DEF OracleAccounts
<1>2. oracleLedger' \in Ledger(OracleAccounts)
  BY <1>1, ReserveType DEF PostDisputeQuestion, OracleInv, OracleTypeOK
<1>3. verdicts' \in [DisputeHashes -> {"none", "asked", "provider", "buyer"}]
  BY DEF PostDisputeQuestion, OracleInv, OracleTypeOK
<1>4. /\ DisputeTerms \in TermRecord /\ DisputeTerms.mode = "Factual"
      /\ DisputeTerms.minResponses = 3 /\ DisputeTerms.threshold = 67
  BY DisputeTermsType DEF OracleInv, OracleTypeOK
<1>5. /\ PutRequest(id, Posted(DisputeBuyer[id], DisputeTerms, TRUE))
      /\ UNCHANGED <<oracleBlock, oracleResponses, oracleAccuracy>>
  BY DEF PostDisputeQuestion
<1> HIDE DEF DisputeTerms
<1> QED BY <1>1, <1>2, <1>3, <1>4, <1>5, InvPut

\* One answer more is counted and one answer more is there.
LEMMA InvAnswered ==
  ASSUME OracleInv, NEW agent \in Respondents, NEW ids \in SUBSET Hashes, NEW answer,
         \A id \in ids : MayAnswer(agent, id) /\ answer[id] \in Answers,
         Answered(agent, ids, answer)
  PROVE  OracleInv'
<1>1. /\ DOMAIN oracleRequests' = DOMAIN oracleRequests
      /\ \A h \in DOMAIN oracleRequests \ ids : oracleRequests'[h] = oracleRequests[h]
      /\ \A h \in ids : h \in DOMAIN oracleRequests
           /\ oracleRequests'[h] =
                [oracleRequests[h] EXCEPT !.responseCount = @ + 1]
  BY DEF Answered, MayAnswer, IsOpen
<1>2. /\ \A h \in Hashes \ ids : oracleResponses'[h] = oracleResponses[h]
      /\ \A h \in ids : oracleResponses'[h] =
           [a \in Responded(h) \cup {agent} |->
              IF a = agent THEN answer[h] ELSE oracleResponses[h][a]]
  BY DEF Answered
<1>3. \A h \in Hashes : Responded(h)' =
        IF h \in ids THEN Responded(h) \cup {agent} ELSE Responded(h)
  BY <1>2 DEF Responded
<1>4. ASSUME NEW h \in DOMAIN oracleRequests
      PROVE  /\ oracleRequests'[h] \in OracleRequest
             /\ oracleRequests'[h].terms = oracleRequests[h].terms
             /\ oracleRequests'[h].dispute = oracleRequests[h].dispute
             /\ oracleRequests'[h].responseCount =
                  oracleRequests[h].responseCount + (IF h \in ids THEN 1 ELSE 0)
             /\ oracleRequests[h].responseCount \in Nat
  <2>1. oracleRequests[h] \in OracleRequest
    BY DEF OracleInv, OracleTypeOK
  <2>2. CASE h \in ids
    BY <1>1, <2>1, <2>2, CountedType
  <2>3. CASE h \notin ids
    BY <1>1, <2>1, <2>3 DEF OracleRequest
  <2> QED BY <2>2, <2>3
<1>5. OracleTypeOK'
  <2>1. oracleRequests' \in [DOMAIN oracleRequests' -> OracleRequest]
    <3>1. oracleRequests' = [h \in DOMAIN oracleRequests' |-> oracleRequests'[h]]
      BY DEF Answered
    <3> QED BY <3>1, <1>1, <1>4
  <2>2. ASSUME NEW h \in Hashes
        PROVE  /\ Responded(h)' \subseteq Respondents
               /\ oracleResponses'[h] \in [Responded(h)' -> Answers]
    <3>1. Responded(h) \subseteq Respondents
          /\ oracleResponses[h] \in [Responded(h) -> Answers]
      BY DEF OracleInv, OracleTypeOK
    <3>2. CASE h \in ids
      <4>1. answer[h] \in Answers
        BY <3>2
      <4>2. Responded(h)' = Responded(h) \cup {agent}
        BY <1>3, <3>2
      <4>3. oracleResponses'[h] =
              [a \in Responded(h) \cup {agent} |->
                 IF a = agent THEN answer[h] ELSE oracleResponses[h][a]]
        BY <1>2, <3>2
      <4> QED BY <3>1, <4>1, <4>2, <4>3
    <3>3. CASE h \notin ids
      BY <1>2, <1>3, <3>1, <3>3
    <3> QED BY <3>2, <3>3
  <2> QED BY <1>1, <2>1, <2>2 DEF OracleInv, OracleTypeOK, Answered
<1>6. CountsAreBacked'
  <2> SUFFICES ASSUME NEW h \in DOMAIN oracleRequests
               PROVE  oracleRequests'[h].responseCount <= Cardinality(Responded(h)')
    BY <1>1 DEF CountsAreBacked
  <2>1. h \in Hashes /\ oracleRequests[h].responseCount <= Cardinality(Responded(h))
    BY DEF OracleInv, OracleTypeOK, CountsAreBacked
  <2>2. IsFiniteSet(Responded(h)) /\ Cardinality(Responded(h)) \in Nat
    BY <2>1, AnswersFinite DEF OracleInv
  <2>3. CASE h \in ids
    <3>1. agent \notin Responded(h)
      BY <2>3 DEF MayAnswer
    <3>2. Cardinality(Responded(h) \cup {agent}) = Cardinality(Responded(h)) + 1
      BY <2>2, <3>1, FS_AddElement
    <3>3. Responded(h)' = Responded(h) \cup {agent}
      BY <1>3, <2>1, <2>3
    <3>4. oracleRequests'[h].responseCount = oracleRequests[h].responseCount + 1
      BY <1>4, <2>3
    <3>5. Cardinality(Responded(h)') = Cardinality(Responded(h)) + 1
      BY <3>2, <3>3
    <3> QED BY <1>4, <2>1, <2>2, <3>4, <3>5
  <2>4. CASE h \notin ids
    BY <1>1, <1>3, <2>1, <2>4
  <2> QED BY <2>3, <2>4
<1>7. DisputesOnTerms'
  BY <1>1, <1>4 DEF OracleInv, DisputesOnTerms
<1> QED BY <1>5, <1>6, <1>7 DEF OracleInv

\* submit_response and batch_submit_response.
LEMMA InvAnswering ==
  ASSUME OracleInv, NEW agent \in Respondents, Answering(agent)
  PROVE  OracleInv'
<1>1. CASE \E id \in BatchKeys(agent), answer \in Answers : SubmitResponse(agent, id, answer)
  <2>1. PICK id \in BatchKeys(agent), answer \in Answers : SubmitResponse(agent, id, answer)
    BY <1>1
  <2>2. {id} \in SUBSET Hashes
    BY DEF BatchKeys
  <2> DEFINE given == [h \in {id} |-> answer]
  <2>3. \A h \in {id} : MayAnswer(agent, h) /\ given[h] \in Answers
    BY <2>1 DEF SubmitResponse
  <2>4. Answered(agent, {id}, given)
    BY <2>1 DEF SubmitResponse
  <2> HIDE DEF given
  <2> QED BY <2>2, <2>3, <2>4, InvAnswered
<1>2. CASE \E answer \in [BatchKeys(agent) -> Answers] : BatchSubmitResponse(agent, answer)
  <2>1. PICK answer \in [BatchKeys(agent) -> Answers] : BatchSubmitResponse(agent, answer)
    BY <1>2
  <2>2. PICK ids : ids = {id \in DOMAIN answer : MayAnswer(agent, id)}
    OBVIOUS
  <2>3. ids \in SUBSET Hashes /\ \A id \in ids : MayAnswer(agent, id) /\ answer[id] \in Answers
    BY <2>2 DEF BatchKeys
  <2>4. Answered(agent, ids, answer)
    BY <2>1, <2>2 DEF BatchSubmitResponse
  <2> QED BY <2>3, <2>4, InvAnswered
<1> QED BY <1>1, <1>2 DEF Answering

\* A request that leaves takes its answers with it and leaves the others alone.
LEMMA InvClose ==
  ASSUME OracleInv, NEW id \in Hashes, Close(id),
         oracleBlock' = oracleBlock,
         oracleLedger' \in Ledger(OracleAccounts),
         oracleAccuracy' \in [Scored -> [correct : Nat, total : Nat]],
         verdicts' \in [DisputeHashes -> {"none", "asked", "provider", "buyer"}]
  PROVE  OracleInv'
<1>1. /\ DOMAIN oracleRequests' = DOMAIN oracleRequests \ {id}
      /\ \A h \in DOMAIN oracleRequests' : oracleRequests'[h] = oracleRequests[h]
      /\ oracleRequests' \in [DOMAIN oracleRequests' -> OracleRequest]
  BY DEF Close, Restrict, OracleInv, OracleTypeOK
<1>2. /\ \A h \in Hashes \ {id} : oracleResponses'[h] = oracleResponses[h]
      /\ oracleResponses'[id] = oracleResponses[id] \/ DOMAIN oracleResponses'[id] = {}
  BY DEF Close, NoAnswers
<1>3. ASSUME NEW h \in Hashes
      PROVE  /\ Responded(h)' \subseteq Respondents
             /\ oracleResponses'[h] \in [Responded(h)' -> Answers]
  <2>1. CASE oracleResponses'[h] = oracleResponses[h]
    BY <2>1 DEF Responded, OracleInv, OracleTypeOK
  <2>2. CASE oracleResponses'[h] = NoAnswers
    BY <2>2 DEF Responded, NoAnswers
  <2> QED BY <2>1, <2>2 DEF Close
<1>4. OracleTypeOK'
  BY <1>1, <1>3 DEF OracleInv, OracleTypeOK
<1>5. CountsAreBacked'
  <2> SUFFICES ASSUME NEW h \in DOMAIN oracleRequests'
               PROVE  oracleRequests'[h].responseCount <= Cardinality(Responded(h)')
    BY DEF CountsAreBacked
  <2>1. h \in Hashes \ {id} /\ h \in DOMAIN oracleRequests
    BY <1>1 DEF OracleInv, OracleTypeOK
  <2>2. Responded(h)' = Responded(h)
    BY <1>2, <2>1 DEF Responded
  <2> QED BY <1>1, <2>1, <2>2 DEF OracleInv, CountsAreBacked
<1>6. DisputesOnTerms'
  BY <1>1 DEF OracleInv, DisputesOnTerms
<1> QED BY <1>4, <1>5, <1>6 DEF OracleInv

\* What a count writes beside the request.
LEMMA CountType ==
  ASSUME OracleInv, NEW id \in Hashes, IsOpen(id)
  PROVE  /\ \A winners : Judged(id, winners) \in [Scored -> [correct : Nat, total : Nat]]
         /\ \A n, reached \in Nat : n > 0 =>
              BountyPaid(id, n, reached) \in Ledger(OracleAccounts)
         /\ Unreserve(oracleLedger, oracleRequests[id].creator, BountyOf(id))
              \in Ledger(OracleAccounts)
         /\ \A won : Resolve(id, won) =>
              verdicts' \in [DisputeHashes -> {"none", "asked", "provider", "buyer"}]
<1>1. /\ oracleRequests[id].creator \in OracleAccounts /\ Winners \in OracleAccounts
      /\ BountyOf(id) \in Nat
  <2>1. oracleRequests[id] \in OracleRequest
    BY DEF OracleInv, OracleTypeOK, IsOpen
  <2> QED BY <2>1 DEF OracleRequest, TermRecord, OracleAccounts, BountyOf
<1>2. oracleLedger \in Ledger(OracleAccounts)
  BY DEF OracleInv, OracleTypeOK
<1>3. ASSUME NEW winners
      PROVE  Judged(id, winners) \in [Scored -> [correct : Nat, total : Nat]]
  <2>1. \A a \in Scored : /\ oracleAccuracy[a].correct \in Nat
                          /\ oracleAccuracy[a].total \in Nat
                          /\ oracleAccuracy[a] \in [correct : Nat, total : Nat]
    BY DEF OracleInv, OracleTypeOK
  <2> QED BY <2>1 DEF Judged
<1>4. ASSUME NEW n \in Nat, NEW reached \in Nat, n > 0
      PROVE  BountyPaid(id, n, reached) \in Ledger(OracleAccounts)
  <2>1. ShareOf(BountyOf(id), n) \in Nat
    BY <1>1, <1>4 DEF ShareOf
  <2>2. ShareOf(BountyOf(id), n) * reached \in Nat
    BY <2>1
  <2> QED BY <1>1, <1>2, <2>2, RepatriateType DEF BountyPaid
<1>5. Unreserve(oracleLedger, oracleRequests[id].creator, BountyOf(id))
        \in Ledger(OracleAccounts)
  BY <1>1, <1>2, UnreserveType
<1>6. ASSUME NEW won, Resolve(id, won)
      PROVE  verdicts' \in [DisputeHashes -> {"none", "asked", "provider", "buyer"}]
  BY <1>6 DEF Resolve, OracleInv, OracleTypeOK
<1> QED BY <1>3, <1>4, <1>5, <1>6

\* Somebody won whenever a bounty is shared.
LEMMA SomebodyWon ==
  ASSUME OracleInv, NEW id \in Hashes, MayFinalise(id)
  PROVE  /\ Cardinality(Responded(id)) > 0
         /\ \A answer \in Reaching(id) : Cardinality(VotersFor(id, answer)) > 0
<1>1. /\ Cardinality(Responded(id)) \in Nat
      /\ \A answer : Cardinality(VotersFor(id, answer)) \in Nat
  BY AnswersFinite DEF OracleInv
<1>2. oracleRequests[id] \in OracleRequest
      /\ oracleRequests[id].responseCount <= Cardinality(Responded(id))
  BY DEF OracleInv, OracleTypeOK, CountsAreBacked, MayFinalise, IsOpen
<1>3. oracleRequests[id].responseCount \in Nat
      /\ oracleRequests[id].terms.threshold \in Nat
  BY <1>2 DEF OracleRequest, TermRecord
<1>4. Cardinality(Responded(id)) > 0
  BY <1>1, <1>2, <1>3 DEF MayFinalise
<1>5. VotesFor(Cardinality(Responded(id)), oracleRequests[id].terms.threshold) \in Nat
  <2>1. Cardinality(Responded(id)) * oracleRequests[id].terms.threshold \in Nat
    BY <1>1, <1>3
  <2> QED BY <2>1 DEF VotesFor
<1>6. Required(id) \in Nat /\ Required(id) > 0
  BY <1>5 DEF Required
<1> QED BY <1>1, <1>4, <1>6 DEF Reaching

\* finalise_request with winners, whichever of them can be paid.
LEMMA InvConclude ==
  ASSUME OracleInv, NEW id \in Hashes, IsOpen(id), NEW winners, NEW won,
         Cardinality(winners) \in Nat, Cardinality(winners) > 0,
         Conclude(id, winners, won), Close(id), oracleBlock' = oracleBlock
  PROVE  OracleInv'
<1>1. PICK reached \in 0 .. Cardinality(winners) :
        oracleLedger' = BountyPaid(id, Cardinality(winners), reached)
  BY DEF Conclude
<1>2. oracleLedger' \in Ledger(OracleAccounts)
  BY <1>1, CountType
<1>3. oracleAccuracy' \in [Scored -> [correct : Nat, total : Nat]]
  BY CountType DEF Conclude
<1>4. verdicts' \in [DisputeHashes -> {"none", "asked", "provider", "buyer"}]
  BY CountType DEF Conclude
<1> QED BY <1>2, <1>3, <1>4, InvClose

\* finalise_request in both modes.
LEMMA InvFinalise ==
  ASSUME OracleInv, NEW id \in Hashes, FinaliseOracleRequest(id)
  PROVE  OracleInv'
<1>1. /\ MayFinalise(id) /\ IsOpen(id) /\ Close(id) /\ oracleBlock' = oracleBlock
      /\ FinaliseFactual(id) \/ FinaliseAdversarial(id)
  BY DEF FinaliseOracleRequest, MayFinalise
<1>2. /\ Cardinality(Responded(id)) \in Nat
      /\ \A answer : Cardinality(VotersFor(id, answer)) \in Nat
  BY AnswersFinite DEF OracleInv
<1>3. CASE FinaliseAdversarial(id)
  BY <1>1, <1>2, <1>3, SomebodyWon, InvConclude DEF FinaliseAdversarial
<1>4. CASE \E answer \in Reaching(id) :
             Conclude(id, VotersFor(id, answer), answer = ProviderAnswer)
  <2>1. PICK answer \in Reaching(id) :
          Conclude(id, VotersFor(id, answer), answer = ProviderAnswer)
    BY <1>4
  <2>2. Cardinality(VotersFor(id, answer)) > 0
    BY <1>1, SomebodyWon
  <2> QED BY <1>1, <1>2, <2>1, <2>2, InvConclude
<1>5. CASE /\ oracleLedger' =
                Unreserve(oracleLedger, oracleRequests[id].creator, BountyOf(id))
           /\ oracleAccuracy' = Judged(id, {})
           /\ Resolve(id, FALSE)
  BY <1>1, <1>5, CountType, InvClose
<1> QED BY <1>1, <1>3, <1>4, <1>5 DEF FinaliseFactual

\* expire_request.
LEMMA InvExpire ==
  ASSUME OracleInv, NEW id \in Hashes, ExpireOracleRequest(id)
  PROVE  OracleInv'
<1>1. /\ IsOpen(id) /\ Close(id) /\ oracleBlock' = oracleBlock
      /\ oracleAccuracy' = oracleAccuracy /\ verdicts' = verdicts
      /\ oracleLedger' \in Ledger(OracleAccounts)
  BY CountType DEF ExpireOracleRequest
<1> QED BY <1>1, InvClose DEF OracleInv, OracleTypeOK

\* A step that touches no request, no answer and no balance.
LEMMA InvTick ==
  ASSUME OracleInv, OracleTick \/ UNCHANGED oracleVars
  PROVE  OracleInv'
<1>1. oracleBlock' \in Nat
  BY DEF OracleInv, OracleTypeOK, OracleTick, oracleVars
<1>2. UNCHANGED <<oracleRequests, oracleResponses, oracleAccuracy, oracleLedger, verdicts>>
  BY DEF OracleTick, oracleVars
<1>3. \A h : Responded(h)' = Responded(h)
  BY <1>2 DEF Responded
<1> QED BY <1>1, <1>2, <1>3
        DEF OracleInv, OracleTypeOK, CountsAreBacked, DisputesOnTerms

\* Every call of the pallet keeps the invariant.
LEMMA OracleInvStep == OracleInv /\ [OracleNext]_oracleVars => OracleInv'
<1> SUFFICES ASSUME OracleInv, [OracleNext]_oracleVars PROVE OracleInv'
  OBVIOUS
<1>1. CASE OracleTick \/ UNCHANGED oracleVars
  BY <1>1, InvTick
<1>2. CASE \E id \in Hashes : Asking(id)
  BY <1>2, InvCreate, InvDispute DEF Asking
<1>3. CASE \E agent \in Respondents : Answering(agent)
  BY <1>3, InvAnswering
<1>4. CASE \E id \in Hashes : FinaliseOracleRequest(id) \/ ExpireOracleRequest(id)
  BY <1>4, InvFinalise, InvExpire
<1> QED BY <1>1, <1>2, <1>3, <1>4 DEF OracleNext

-----------------------------------------------------------------------------
(* The vote behind a verdict.                                              *)

\* A request counted under the terms of a dispute has the votes.
LEMMA CountedAreHalf ==
  ASSUME OracleInv, NEW id \in Hashes, MayFinalise(id),
         oracleRequests[id].dispute, NEW answer \in Reaching(id)
  PROVE  /\ Cardinality(Responded(id)) >= 3
         /\ 2 * Cardinality(VotersFor(id, answer)) >= Cardinality(Responded(id))
<1>1. /\ oracleRequests[id].terms.minResponses = 3
      /\ oracleRequests[id].terms.threshold = 67
      /\ oracleRequests[id].responseCount <= Cardinality(Responded(id))
      /\ oracleRequests[id].responseCount >= 3
  BY DEF OracleInv, DisputesOnTerms, CountsAreBacked, MayFinalise, IsOpen
<1>2. oracleRequests[id].responseCount \in Nat
  BY DEF OracleInv, OracleTypeOK, OracleRequest, MayFinalise, IsOpen
<1>3. /\ Cardinality(Responded(id)) \in Nat
      /\ Cardinality(VotersFor(id, answer)) \in Nat
  BY AnswersFinite DEF OracleInv
<1>4. Cardinality(Responded(id)) >= 3
  BY <1>1, <1>2, <1>3
<1>5. PICK n \in Nat : n = Cardinality(Responded(id))
  BY <1>3
<1>6. VotesFor(n, 67) # 0 /\ 2 * VotesFor(n, 67) >= n
  BY <1>4, <1>5, TwoThirdsAreHalf
<1>7. Required(id) = VotesFor(n, 67)
  BY <1>1, <1>5, <1>6 DEF Required
<1>8. Cardinality(VotersFor(id, answer)) >= VotesFor(n, 67)
  BY <1>7 DEF Reaching
<1>9. VotesFor(n, 67) \in Int
  BY DEF VotesFor
<1> QED BY <1>3, <1>4, <1>5, <1>6, <1>8, <1>9

\* A step that decides for a provider has the votes to do so.
LEMMA VerdictStep ==
  OracleInv /\ [OracleNext]_oracleVars => \A id \in DisputeHashes : VotedVerdict(id)
<1> SUFFICES ASSUME OracleInv, [OracleNext]_oracleVars, NEW id \in DisputeHashes,
                    verdicts'[id] = "provider", verdicts[id] # "provider"
             PROVE  /\ Cardinality(Responded(id)) >= 3
                    /\ 2 * Cardinality(VotersFor(id, ProviderAnswer))
                         >= Cardinality(Responded(id))
  BY DEF VotedVerdict
<1>1. verdicts \in [DisputeHashes -> {"none", "asked", "provider", "buyer"}]
  BY DEF OracleInv, OracleTypeOK
<1>2. PICK h \in Hashes : FinaliseOracleRequest(h)
  <2>1. verdicts' # verdicts
    OBVIOUS
  <2>2. ~ UNCHANGED oracleVars /\ ~ OracleTick
    BY <2>1 DEF oracleVars, OracleTick
  <2>3. \A agent : ~ Answering(agent)
    BY <2>1 DEF Answering, SubmitResponse, BatchSubmitResponse, Answered
  <2>4. \A h \in Hashes : ~ Asking(h)
    BY <1>1, <2>1 DEF Asking, CreateOracleRequest, PostDisputeQuestion
  <2>5. \A h \in Hashes : ~ ExpireOracleRequest(h)
    BY <2>1 DEF ExpireOracleRequest
  <2> QED BY <2>2, <2>3, <2>4, <2>5 DEF OracleNext
<1>3. MayFinalise(h) /\ (FinaliseFactual(h) \/ FinaliseAdversarial(h))
  BY <1>2 DEF FinaliseOracleRequest
<1>4. /\ ~ Resolve(h, FALSE)
      /\ \A won : Resolve(h, won) => h = id /\ oracleRequests[h].dispute
  BY <1>1 DEF Resolve
<1>5. PICK answer \in Reaching(h) :
        Conclude(h, VotersFor(h, answer), answer = ProviderAnswer)
  BY <1>3, <1>4 DEF FinaliseFactual, FinaliseAdversarial, Conclude
<1>6. h = id /\ oracleRequests[h].dispute /\ answer = ProviderAnswer
  BY <1>4, <1>5 DEF Conclude
<1> QED BY <1>3, <1>5, <1>6, CountedAreHalf

-----------------------------------------------------------------------------
(* The reserve behind the bounties.                                        *)
(*                                                                         *)
(* BountiesAreReserved is a sum over a table from which every call writes  *)
(* or takes one key, so every call is compared with what the sum is        *)
(* without that key.                                                       *)

RequestsOf(p) == {id \in DOMAIN oracleRequests : oracleRequests[id].creator = p}

BountiesOf(p) == SumFunctionOnSet(OpenBounties, RequestsOf(p))

\* What the request at a key, if there is one, asks of a poster's reserve.
BountyAt(id, p) ==
  IF IsOpen(id) /\ oracleRequests[id].creator = p THEN BountyOf(id) ELSE 0

BountyInv == IsFiniteSet(DOMAIN oracleRequests) /\ BountiesAreReserved

\* A step that changes the table at one key changes a poster's sum by it.
LEMMA BountiesBesides ==
  ASSUME OracleTypeOK, OracleTypeOK', NEW id, NEW p,
         IsFiniteSet(DOMAIN oracleRequests), IsFiniteSet(DOMAIN oracleRequests'),
         DOMAIN oracleRequests' \ {id} = DOMAIN oracleRequests \ {id},
         \A h \in DOMAIN oracleRequests \ {id} : oracleRequests'[h] = oracleRequests[h]
  PROVE  \E rest \in Nat : /\ BountiesOf(p) = rest + BountyAt(id, p)
                           /\ BountiesOf(p)' = rest + BountyAt(id, p)'
<1> PICK f : f = OpenBounties
  OBVIOUS
<1> PICK g : g = OpenBounties'
  OBVIOUS
<1> PICK S : S = RequestsOf(p)
  OBVIOUS
<1> PICK T : T = RequestsOf(p)'
  OBVIOUS
<1>1. /\ S \subseteq DOMAIN oracleRequests /\ T \subseteq DOMAIN oracleRequests'
      /\ IsFiniteSet(S) /\ IsFiniteSet(T) /\ S \ {id} = T \ {id}
  BY FS_Subset DEF RequestsOf
<1>2. \A h \in S : f[h] = oracleRequests[h].terms.bounty /\ f[h] \in Nat
  BY <1>1 DEF OpenBounties, BountyOf, OracleTypeOK, OracleRequest, TermRecord
<1>3. \A h \in T : g[h] = oracleRequests'[h].terms.bounty /\ g[h] \in Nat
  BY <1>1 DEF OpenBounties, BountyOf, OracleTypeOK, OracleRequest, TermRecord
<1>4. \A h \in S \ {id} : f[h] = g[h]
  BY <1>1, <1>2, <1>3
<1>5. PICK rest \in Nat :
        /\ SumFunctionOnSet(f, S) = rest + (IF id \in S THEN f[id] ELSE 0)
        /\ SumFunctionOnSet(g, T) = rest + (IF id \in T THEN g[id] ELSE 0)
  BY <1>1, <1>2, <1>3, <1>4, SumBesides
<1>6. (IF id \in S THEN f[id] ELSE 0) = BountyAt(id, p)
  BY <1>2 DEF BountyAt, BountyOf, IsOpen, RequestsOf
<1>7. (IF id \in T THEN g[id] ELSE 0) = BountyAt(id, p)'
  BY <1>3 DEF BountyAt, BountyOf, IsOpen, RequestsOf
<1> QED BY <1>5, <1>6, <1>7 DEF BountiesOf

\* A poster's own bounty and its part of the reserve are natural numbers.
LEMMA BountyTypes ==
  ASSUME OracleTypeOK, NEW p \in Posters
  PROVE  /\ \A id : BountyAt(id, p) \in Nat
         /\ oracleLedger.reserved[p] \in Nat
BY DEF OracleTypeOK, BountyAt, BountyOf, IsOpen, OracleRequest, TermRecord, Ledger,
       OracleAccounts

\* A reserve that grows with the request, or falls by no more than the bounty of
\* the request that leaves, still covers the rest.
LEMMA ReserveFollows ==
  ASSUME OracleInv, OracleInv', BountyInv, NEW id,
         DOMAIN oracleRequests' \subseteq DOMAIN oracleRequests \cup {id},
         DOMAIN oracleRequests' \ {id} = DOMAIN oracleRequests \ {id},
         \A h \in DOMAIN oracleRequests \ {id} : oracleRequests'[h] = oracleRequests[h],
         \A p \in Posters : oracleLedger.reserved[p] + BountyAt(id, p)'
                              <= oracleLedger'.reserved[p] + BountyAt(id, p)
  PROVE  BountyInv'
<1>1. IsFiniteSet(DOMAIN oracleRequests')
  <2>1. IsFiniteSet(DOMAIN oracleRequests \cup {id})
    BY FS_AddElement DEF BountyInv
  <2> QED BY <2>1, FS_Subset
<1>2. ASSUME NEW p \in Posters
      PROVE  BountiesOf(p)' <= oracleLedger'.reserved[p]
  <2>1. PICK rest \in Nat : /\ BountiesOf(p) = rest + BountyAt(id, p)
                            /\ BountiesOf(p)' = rest + BountyAt(id, p)'
    BY <1>1, BountiesBesides DEF OracleInv, BountyInv
  <2>2. BountiesOf(p) <= oracleLedger.reserved[p]
    BY DEF BountyInv, BountiesAreReserved, BountiesOf, RequestsOf
  <2>3. BountyAt(id, p) \in Nat /\ oracleLedger.reserved[p] \in Nat
    BY BountyTypes DEF OracleInv
  <2>4. BountyAt(id, p)' \in Nat /\ oracleLedger'.reserved[p] \in Nat
    BY DEF OracleInv, OracleTypeOK, BountyAt, BountyOf, IsOpen, OracleRequest,
           TermRecord, Ledger, OracleAccounts
  <2> QED BY <2>1, <2>2, <2>3, <2>4
<1> QED BY <1>1, <1>2 DEF BountyInv, BountiesAreReserved, BountiesOf, RequestsOf

\* What reserve() adds for a poster is the bounty of the request it comes with.
LEMMA BountyPut ==
  ASSUME OracleInv, OracleInv', BountyInv, NEW id \in Hashes, NEW creator \in Posters,
         NEW terms \in TermRecord, NEW dispute \in BOOLEAN,
         PutRequest(id, Posted(creator, terms, dispute)),
         oracleLedger' = Reserve(oracleLedger, creator, terms.bounty)
  PROVE  BountyInv'
<1>1. /\ DOMAIN oracleRequests' = DOMAIN oracleRequests \cup {id}
      /\ oracleRequests'[id].creator = creator /\ oracleRequests'[id].terms = terms
      /\ \A h \in DOMAIN oracleRequests \ {id} : oracleRequests'[h] = oracleRequests[h]
  BY PostedType DEF PutRequest
<1>2. terms.bounty \in Nat
  BY DEF TermRecord
<1>3. ASSUME NEW p \in Posters
      PROVE  oracleLedger.reserved[p] + BountyAt(id, p)'
               <= oracleLedger'.reserved[p] + BountyAt(id, p)
  <2>1. BountyAt(id, p) \in Nat /\ oracleLedger.reserved[p] \in Nat
    BY BountyTypes DEF OracleInv
  <2>2. BountyAt(id, p)' = IF p = creator THEN terms.bounty ELSE 0
    BY <1>1 DEF BountyAt, BountyOf, IsOpen
  <2>3. oracleLedger'.reserved[p] =
          oracleLedger.reserved[p] + (IF p = creator THEN terms.bounty ELSE 0)
    BY <1>2, <2>1 DEF Reserve, OracleInv, OracleTypeOK, Ledger, OracleAccounts
  <2> QED BY <1>2, <2>1, <2>2, <2>3
<1> QED BY <1>1, <1>3, ReserveFollows

\* What a closing takes out of the reserve is at most the bounty that leaves.
LEMMA BountyClosed ==
  ASSUME OracleInv, OracleInv', BountyInv, NEW id \in Hashes, IsOpen(id), Close(id),
         NEW to \in OracleAccounts, NEW amount \in Nat, amount <= BountyOf(id),
         oracleLedger' = Repatriate(oracleLedger, oracleRequests[id].creator, to, amount)
  PROVE  BountyInv'
<1>1. /\ DOMAIN oracleRequests' = DOMAIN oracleRequests \ {id}
      /\ \A h \in DOMAIN oracleRequests' : oracleRequests'[h] = oracleRequests[h]
  BY DEF Close, Restrict
<1>2. ASSUME NEW p \in Posters
      PROVE  oracleLedger.reserved[p] + BountyAt(id, p)'
               <= oracleLedger'.reserved[p] + BountyAt(id, p)
  <2> PICK creator \in Posters : creator = oracleRequests[id].creator
    BY DEF OracleInv, OracleTypeOK, OracleRequest, IsOpen
  <2>1. /\ BountyAt(id, p) = IF p = creator THEN BountyOf(id) ELSE 0
        /\ BountyAt(id, p)' = 0
    BY <1>1 DEF BountyAt, IsOpen
  <2>2. BountyOf(id) \in Nat /\ oracleLedger.reserved[p] \in Nat
    BY BountyTypes
       DEF OracleInv, OracleTypeOK, BountyOf, IsOpen, OracleRequest, TermRecord
  <2>3. PICK moved \in Nat : /\ moved = Reachable(oracleLedger, creator, amount)
                             /\ moved <= amount
    BY BountyTypes DEF OracleInv, Reachable
  <2>4. oracleLedger'.reserved[p] =
          oracleLedger.reserved[p] - (IF p = creator THEN moved ELSE 0)
    <3>1. oracleLedger'.reserved = [oracleLedger.reserved EXCEPT ![creator] = @ - moved]
      BY <2>3 DEF Repatriate
    <3> QED BY <2>2, <3>1 DEF OracleInv, OracleTypeOK, Ledger, OracleAccounts
  <2> QED BY <2>1, <2>2, <2>3, <2>4
<1> QED BY <1>1, <1>2, ReserveFollows

\* The shares of a bounty are together no more than the bounty.
LEMMA SharesFit ==
  ASSUME NEW bounty \in Nat, NEW n \in Nat \ {0}, NEW reached \in 0 .. n
  PROVE  /\ ShareOf(bounty, n) * reached \in Nat
         /\ ShareOf(bounty, n) * reached <= bounty
<1>1. PICK q \in Nat : q = bounty \div n /\ n * q <= bounty
  BY SMT
<1>2. q * reached \in Nat /\ q * reached <= q * n
  BY SMT
<1>3. q * n = n * q
  BY SMT
<1> QED BY <1>1, <1>2, <1>3 DEF ShareOf

\* Giving a bounty back is a closing that takes the whole of it.
LEMMA BountyReturned ==
  ASSUME OracleInv, OracleInv', BountyInv, NEW id \in Hashes, IsOpen(id), Close(id),
         oracleLedger' = Unreserve(oracleLedger, oracleRequests[id].creator, BountyOf(id))
  PROVE  BountyInv'
<1>1. /\ oracleRequests[id].creator \in OracleAccounts
      /\ BountyOf(id) \in Nat /\ BountyOf(id) <= BountyOf(id)
  BY DEF OracleInv, OracleTypeOK, BountyOf, IsOpen, OracleRequest, TermRecord,
         OracleAccounts
<1> QED BY <1>1, BountyClosed DEF Unreserve

\* finalise_request with winners pays them their shares.
LEMMA BountyConclude ==
  ASSUME OracleInv, OracleInv', BountyInv, NEW id \in Hashes, IsOpen(id), Close(id),
         NEW winners, NEW won, Cardinality(winners) \in Nat, Cardinality(winners) > 0,
         Conclude(id, winners, won)
  PROVE  BountyInv'
<1>1. PICK reached \in 0 .. Cardinality(winners) :
        oracleLedger' = BountyPaid(id, Cardinality(winners), reached)
  BY DEF Conclude
<1>2. BountyOf(id) \in Nat
  BY DEF OracleInv, OracleTypeOK, BountyOf, IsOpen, OracleRequest, TermRecord
<1>3. /\ ShareOf(BountyOf(id), Cardinality(winners)) * reached \in Nat
      /\ ShareOf(BountyOf(id), Cardinality(winners)) * reached <= BountyOf(id)
  BY <1>2, SharesFit
<1> QED BY <1>1, <1>3, BountyClosed DEF BountyPaid, OracleAccounts

\* finalise_request in both modes.
LEMMA BountyFinalise ==
  ASSUME OracleInv, OracleInv', BountyInv, NEW id \in Hashes, FinaliseOracleRequest(id)
  PROVE  BountyInv'
<1>1. /\ MayFinalise(id) /\ IsOpen(id) /\ Close(id)
      /\ FinaliseFactual(id) \/ FinaliseAdversarial(id)
  BY DEF FinaliseOracleRequest, MayFinalise
<1>2. /\ Cardinality(Responded(id)) \in Nat
      /\ \A answer : Cardinality(VotersFor(id, answer)) \in Nat
  BY AnswersFinite DEF OracleInv
<1>3. CASE FinaliseAdversarial(id)
  BY <1>1, <1>2, <1>3, SomebodyWon, BountyConclude DEF FinaliseAdversarial
<1>4. CASE \E answer \in Reaching(id) :
             Conclude(id, VotersFor(id, answer), answer = ProviderAnswer)
  <2>1. PICK answer \in Reaching(id) :
          Conclude(id, VotersFor(id, answer), answer = ProviderAnswer)
    BY <1>4
  <2>2. Cardinality(VotersFor(id, answer)) > 0
    BY <1>1, SomebodyWon
  <2> QED BY <1>1, <1>2, <2>1, <2>2, BountyConclude
<1>5. CASE oracleLedger' =
             Unreserve(oracleLedger, oracleRequests[id].creator, BountyOf(id))
  BY <1>1, <1>5, BountyReturned
<1> QED BY <1>1, <1>3, <1>4, <1>5 DEF FinaliseFactual

\* Answers change no bounty, no creator and no balance.
LEMMA BountyAnswered ==
  ASSUME OracleInv, OracleInv', BountyInv, NEW agent, NEW ids, NEW answer,
         Answered(agent, ids, answer)
  PROVE  BountyInv'
<1>1. /\ DOMAIN oracleRequests' = DOMAIN oracleRequests
      /\ oracleLedger' = oracleLedger
  BY DEF Answered
<1>2. ASSUME NEW h \in DOMAIN oracleRequests
      PROVE  /\ oracleRequests'[h].creator = oracleRequests[h].creator
             /\ oracleRequests'[h].terms = oracleRequests[h].terms
  <2>1. oracleRequests[h] \in OracleRequest
    BY DEF OracleInv, OracleTypeOK
  <2>2. \/ oracleRequests'[h] = oracleRequests[h]
        \/ oracleRequests'[h] = [oracleRequests[h] EXCEPT !.responseCount = @ + 1]
    BY DEF Answered
  <2> QED BY <2>1, <2>2 DEF OracleRequest
<1>3. OpenBounties' = OpenBounties
  BY <1>1, <1>2 DEF OpenBounties, BountyOf
<1>4. \A p : RequestsOf(p)' = RequestsOf(p)
  BY <1>1, <1>2 DEF RequestsOf
<1> QED BY <1>1, <1>3, <1>4 DEF BountyInv, BountiesAreReserved, RequestsOf

\* Every call keeps the reserve of every poster above its open bounties.
LEMMA BountyStep ==
  OracleInv /\ OracleInv' /\ BountyInv /\ [OracleNext]_oracleVars => BountyInv'
<1> SUFFICES ASSUME OracleInv, OracleInv', BountyInv, [OracleNext]_oracleVars
             PROVE  BountyInv'
  OBVIOUS
<1>1. CASE OracleTick \/ UNCHANGED oracleVars
  <2>1. UNCHANGED <<oracleRequests, oracleLedger>>
    BY <1>1 DEF OracleTick, oracleVars
  <2> QED BY <2>1 DEF BountyInv, BountiesAreReserved, OpenBounties, BountyOf
<1>2. CASE \E id \in Hashes : Asking(id)
  <2>1. PICK id \in Hashes : Asking(id)
    BY <1>2
  <2>2. CASE \E poster \in Posters, terms \in Terms :
               CreateOracleRequest(poster, id, terms)
    BY <2>2, OracleParameters, BountyPut DEF CreateOracleRequest
  <2>3. CASE id \in DisputeHashes /\ PostDisputeQuestion(id)
    <3>1. DisputeTerms \in TermRecord /\ DisputeTerms.bounty = DisputeBounty
      BY DisputeTermsType DEF OracleInv, OracleTypeOK, DisputeTerms
    <3>2. DisputeBuyer[id] \in Posters
      BY <2>3, OracleParameters
    <3>3. /\ PutRequest(id, Posted(DisputeBuyer[id], DisputeTerms, TRUE))
          /\ oracleLedger' = Reserve(oracleLedger, DisputeBuyer[id], DisputeTerms.bounty)
      BY <2>3, <3>1 DEF PostDisputeQuestion
    <3> HIDE DEF DisputeTerms
    <3> QED BY <3>1, <3>2, <3>3, BountyPut
  <2> QED BY <2>1, <2>2, <2>3 DEF Asking
<1>3. CASE \E agent \in Respondents : Answering(agent)
  BY <1>3, BountyAnswered DEF Answering, SubmitResponse, BatchSubmitResponse
<1>4. CASE \E id \in Hashes : FinaliseOracleRequest(id) \/ ExpireOracleRequest(id)
  BY <1>4, BountyFinalise, BountyReturned DEF ExpireOracleRequest
<1> QED BY <1>1, <1>2, <1>3, <1>4 DEF OracleNext

\* Nothing is open and nothing reserved at the start.
LEMMA BountyInit == OracleInit => BountyInv
<1> SUFFICES ASSUME OracleInit PROVE BountyInv
  OBVIOUS
<1>1. DOMAIN oracleRequests = {} /\ \A p \in Posters : oracleLedger.reserved[p] = 0
  BY DEF OracleInit, OracleAccounts
<1>2. \A p : {id \in DOMAIN oracleRequests : oracleRequests[id].creator = p} = {}
  BY <1>1
<1> QED BY <1>1, <1>2, SumEmpty, FS_EmptySet DEF BountyInv, BountiesAreReserved

-----------------------------------------------------------------------------
(* The theorems.                                                           *)

\* The inductive invariant: every record keeps its type, no count is ahead of
\* its answers, and disputes stay on the pallet's terms, overwritten keys and
\* batches included.
THEOREM OracleInductive == OracleSpec => []OracleInv
BY OracleInvInit, OracleInvStep, PTL DEF OracleSpec

\* A provider wins a dispute only with three answers there and half of them its
\* own, for every number of respondents.
THEOREM VerdictsAreVoted == OracleSpec => VerdictIsVoted
<1>1. OracleInv /\ [OracleNext]_oracleVars
        => [\A id \in DisputeHashes : VotedVerdict(id)]_oracleVars
  BY VerdictStep
<1> QED BY <1>1, OracleInductive, PTL DEF OracleSpec, VerdictIsVoted

\* No count pays its winners out of another question's bounty: the one reserve
\* of a poster covers the bounties of all its open requests, overwritten ones,
\* shared ones and unpaid winners included.
THEOREM BountiesReserved == OracleSpec => []BountiesAreReserved
<1>1. BountyInv => BountiesAreReserved
  BY DEF BountyInv
<1> QED BY <1>1, OracleInductive, BountyInit, BountyStep, PTL DEF OracleSpec

=============================================================================
