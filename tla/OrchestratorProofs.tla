------------------------- MODULE OrchestratorProofs -------------------------
(***************************************************************************)
(* Machine-checked facts about Orchestrator, for every set of accounts,    *)
(* finite or not, and every value of the runtime's parameters.             *)
(***************************************************************************)
EXTENDS Orchestrator, FiniteSetTheorems, TLAPS

LinksInv ==
  /\ LinksAgree
  /\ ActiveCountIsExact
  /\ IsFiniteSet(subAgentLinks)

OffersInv ==
  /\ InboxCountIsExact
  /\ InboxIsBounded
  /\ IsFiniteSet(DOMAIN pendingLinkProposals)

IInv == TypeOK /\ LinksInv /\ OffersInv

-----------------------------------------------------------------------------
(* Operators.                                                              *)

\* Taking keys out of a table leaves the others as they were.
LEMMA WithoutKeys ==
  ASSUME NEW f, NEW keys
  PROVE  /\ DOMAIN WithoutAll(f, keys) = DOMAIN f \ keys
         /\ \A x \in DOMAIN f \ keys : WithoutAll(f, keys)[x] = f[x]
BY DEF WithoutAll, Restrict

\* Writing a key of a table leaves the others as they were.
LEMMA PutKey ==
  ASSUME NEW f, NEW key, NEW value
  PROVE  /\ DOMAIN Put(f, key, value) = DOMAIN f \cup {key}
         /\ Put(f, key, value)[key] = value
         /\ \A x \in DOMAIN f \ {key} : Put(f, key, value)[x] = f[x]
BY DEF Put

\* A table keeps the type of its values when keys are removed or one is written.
LEMMA TableType ==
  ASSUME NEW K, NEW V, NEW f, f \in [DOMAIN f -> V], DOMAIN f \subseteq K
  PROVE  /\ \A keys : /\ DOMAIN WithoutAll(f, keys) \subseteq K
                      /\ WithoutAll(f, keys) \in [DOMAIN WithoutAll(f, keys) -> V]
         /\ \A key \in K, value \in V :
              /\ DOMAIN Put(f, key, value) \subseteq K
              /\ Put(f, key, value) \in [DOMAIN Put(f, key, value) -> V]
BY DEF WithoutAll, Restrict, Put

LEMMA DecrementedType == \A n \in Nat : Decremented(n) \in Nat
BY DEF Decremented

-----------------------------------------------------------------------------
(* The type invariant.                                                     *)

LEMMA InitIInv == Init => IInv
<1> SUFFICES ASSUME Init PROVE IInv
  OBVIOUS
<1>1. TypeOK
  BY DEF Init, TypeOK
<1>2. LinksInv
  <2>1. subAgentLinks = {} /\ DOMAIN subAgentToOrchestrator = {}
        /\ DOMAIN registration = {}
    BY DEF Init
  <2>2. LinksAgree /\ ActiveCountIsExact
    BY <2>1 DEF LinksAgree, ActiveCountIsExact
  <2> QED BY <2>1, <2>2, FS_EmptySet DEF LinksInv
<1>3. OffersInv
  <2>1. DOMAIN pendingLinkProposals = {}
        /\ \A s \in Accounts : pendingProposalCount[s] = 0
    BY DEF Init
  <2>2. \A s : OffersTo(s) = {}
    BY <2>1 DEF OffersTo
  <2>3. Cardinality({}) = 0 /\ MaxPendingProposals \in Nat
    BY FS_EmptySet, RuntimeParameters
  <2>4. ASSUME NEW s \in Accounts
        PROVE  /\ pendingProposalCount[s] = Cardinality(OffersTo(s))
               /\ Cardinality(OffersTo(s)) <= MaxPendingProposals
    <3>1. Cardinality(OffersTo(s)) = 0
      BY <2>2, <2>3
    <3> QED BY <2>1, <2>3, <3>1
  <2>5. InboxCountIsExact /\ InboxIsBounded
    BY <2>1, <2>4 DEF InboxCountIsExact, InboxIsBounded
  <2> QED BY <2>1, <2>5, FS_EmptySet DEF OffersInv
<1> QED BY <1>1, <1>2, <1>3 DEF IInv

\* Offers and links are finite in number, and so is any part of them.
LEMMA Finite ==
  ASSUME IInv
  PROVE  /\ \A s : /\ IsFiniteSet(OffersTo(s))
                   /\ Cardinality(OffersTo(s)) \in Nat
         /\ \A o : /\ IsFiniteSet(LinksOf(o))
                   /\ Cardinality(LinksOf(o)) \in Nat
<1>1. ASSUME NEW s
      PROVE  IsFiniteSet(OffersTo(s)) /\ Cardinality(OffersTo(s)) \in Nat
  <2>1. OffersTo(s) \in SUBSET DOMAIN pendingLinkProposals
    BY DEF OffersTo
  <2> QED BY <2>1, FS_Subset, FS_CardinalityType DEF IInv, OffersInv
<1>2. ASSUME NEW o
      PROVE  IsFiniteSet(LinksOf(o)) /\ Cardinality(LinksOf(o)) \in Nat
  <2>1. LinksOf(o) \in SUBSET subAgentLinks
    BY DEF LinksOf
  <2> QED BY <2>1, FS_Subset, FS_CardinalityType DEF IInv, LinksInv
<1> QED BY <1>1, <1>2

-----------------------------------------------------------------------------
(* What a change of the offers leaves.                                     *)

\* A row that is removed gives its slot back, to its own sub-agent only.
LEMMA ProposalRemoved ==
  ASSUME IInv, NEW o, NEW s, HasOffer(o, s), RemoveProposal(o, s),
         DOMAIN registration' = DOMAIN registration
  PROVE  /\ OffersInv'
         /\ DOMAIN pendingLinkProposals' \subseteq Accounts \X Accounts
         /\ pendingLinkProposals' \in [DOMAIN pendingLinkProposals' -> Nat]
         /\ pendingProposalCount' \in [Accounts -> Nat]
<1>1. DOMAIN pendingLinkProposals' = DOMAIN pendingLinkProposals \ {<<o, s>>}
  BY WithoutKeys DEF RemoveProposal
<1>2. /\ DOMAIN pendingLinkProposals' \subseteq Accounts \X Accounts
      /\ pendingLinkProposals' \in [DOMAIN pendingLinkProposals' -> Nat]
      /\ pendingProposalCount' \in [Accounts -> Nat]
  BY TableType, DecrementedType DEF RemoveProposal, IInv, TypeOK
<1>3. s \in Accounts
  BY DEF IInv, TypeOK, HasOffer
<1>4. ASSUME NEW t \in Accounts
      PROVE  /\ pendingProposalCount'[t] = Cardinality(OffersTo(t)')
             /\ Cardinality(OffersTo(t)') <= MaxPendingProposals
  <2>1. pendingProposalCount[t] = Cardinality(OffersTo(t))
        /\ Cardinality(OffersTo(t)) <= MaxPendingProposals
        /\ Cardinality(OffersTo(t)) \in Nat
        /\ MaxPendingProposals \in Nat
    BY <1>4, Finite, RuntimeParameters
       DEF IInv, OffersInv, InboxCountIsExact, InboxIsBounded
  <2>2. CASE t = s
    <3>1. OffersTo(t)' = OffersTo(t) \ {<<o, s>>} /\ <<o, s>> \in OffersTo(t)
      BY <1>1, <2>2 DEF OffersTo, HasOffer
    <3>2. /\ Cardinality(OffersTo(t)') = Cardinality(OffersTo(t)) - 1
          /\ Cardinality(OffersTo(t)') \in Nat
      BY <3>1, Finite, FS_RemoveElement, FS_CardinalityType
    <3>3. pendingProposalCount'[t] = Decremented(pendingProposalCount[t])
      BY <1>3, <2>2 DEF RemoveProposal, IInv, TypeOK
    <3> QED BY <2>1, <3>2, <3>3 DEF Decremented
  <2>3. CASE t # s
    <3>1. OffersTo(t)' = OffersTo(t)
      BY <1>1, <2>3 DEF OffersTo
    <3>2. pendingProposalCount'[t] = pendingProposalCount[t]
      BY <1>4, <2>3 DEF RemoveProposal, IInv, TypeOK
    <3> QED BY <2>1, <3>1, <3>2
  <2> QED BY <2>2, <2>3
<1>5. \A offer \in DOMAIN pendingLinkProposals' : IsRegistered(offer[1])'
  BY <1>1 DEF IInv, OffersInv, InboxIsBounded, IsRegistered
<1>6. IsFiniteSet(DOMAIN pendingLinkProposals')
  BY <1>1, FS_RemoveElement DEF IInv, OffersInv
<1> QED BY <1>2, <1>4, <1>5, <1>6
        DEF OffersInv, InboxCountIsExact, InboxIsBounded

\* A change that keeps the offers, and every registration there was, keeps
\* what is known of them.
LEMMA OffersKept ==
  ASSUME IInv, UNCHANGED offers, DOMAIN registration \subseteq DOMAIN registration'
  PROVE  OffersInv'
BY DEF IInv, OffersInv, InboxCountIsExact, InboxIsBounded, OffersTo, IsRegistered,
       offers

\* A change that touches nothing about links keeps what is known of them.
LEMMA LinksKept ==
  ASSUME IInv, UNCHANGED links
  PROVE  LinksInv'
BY DEF IInv, LinksInv, LinksAgree, ActiveCountIsExact, LinksOf, IsRegistered, links

-----------------------------------------------------------------------------
(* One lemma per call.                                                     *)

LEMMA RegisterOrchestratorStep ==
  ASSUME IInv, NEW o \in Accounts, NEW n \in Declarable, RegisterOrchestrator(o, n)
  PROVE  IInv'
<1>1. n \in 0 .. MaxSubAgentsPerOrchestrator
  BY RuntimeParameters DEF RegisterOrchestrator, MayDeclare
<1>2. DOMAIN registration' = DOMAIN registration \cup {o}
      /\ registration'[o] = [maxSubAgents |-> n, activeSubCount |-> 0]
      /\ \A x \in DOMAIN registration \ {o} : registration'[x] = registration[x]
  BY DEF RegisterOrchestrator, Put
<1>3. DOMAIN registration' \subseteq Accounts
      /\ registration' \in [DOMAIN registration' -> Registration]
  <2>1. [maxSubAgents |-> n, activeSubCount |-> 0] \in Registration
    BY <1>1 DEF Registration
  <2> QED BY <2>1 DEF RegisterOrchestrator, Put, IInv, TypeOK
<1>4. TypeOK'
  BY <1>3 DEF RegisterOrchestrator, IInv, TypeOK, offers
<1>5. OffersInv'
  BY <1>2, OffersKept DEF RegisterOrchestrator
<1>6. LinksAgree'
  BY <1>2 DEF RegisterOrchestrator, IInv, LinksInv, LinksAgree, IsRegistered
<1>7. ActiveCountIsExact'
  <2> SUFFICES ASSUME NEW x \in DOMAIN registration'
               PROVE  registration'[x].activeSubCount = Cardinality(LinksOf(x)')
    BY DEF ActiveCountIsExact
  <2>1. LinksOf(x)' = LinksOf(x)
    BY DEF RegisterOrchestrator, LinksOf
  <2>2. CASE x = o
    \* An account that was not registered has no links.
    <3>1. LinksOf(o) = {}
      BY DEF LinksOf, IInv, LinksInv, LinksAgree, RegisterOrchestrator
    <3> QED BY <1>2, <2>1, <2>2, <3>1, FS_EmptySet
  <2>3. CASE x # o
    BY <1>2, <2>1, <2>3 DEF IInv, LinksInv, ActiveCountIsExact
  <2> QED BY <2>2, <2>3
<1> QED BY <1>4, <1>5, <1>6, <1>7 DEF IInv, LinksInv, RegisterOrchestrator

LEMMA ProposeStep ==
  ASSUME IInv, NEW o \in Accounts, NEW s \in Accounts, ProposeSubAgentLink(o, s)
  PROVE  IInv'
<1>1. DOMAIN pendingLinkProposals' = DOMAIN pendingLinkProposals \cup {<<o, s>>}
  BY PutKey DEF ProposeSubAgentLink
<1>2. now + LinkApprovalWindow \in Nat
  BY RuntimeParameters DEF IInv, TypeOK
<1>3. /\ DOMAIN pendingLinkProposals' \subseteq Accounts \X Accounts
      /\ pendingLinkProposals' \in [DOMAIN pendingLinkProposals' -> Nat]
  BY <1>2, TableType DEF ProposeSubAgentLink, IInv, TypeOK
<1>4. pendingProposalCount' \in [Accounts -> Nat]
  <2>1. pendingProposalCount \in [Accounts -> Nat]
    BY DEF IInv, TypeOK
  <2>2. pendingProposalCount[s] \in Nat /\ pendingProposalCount[s] + 1 \in Nat
    BY ONLY <2>1, s \in Accounts
  <2>3. PICK n \in Nat : pendingProposalCount' = [pendingProposalCount EXCEPT ![s] = n]
    <3>1. pendingProposalCount' =
            [pendingProposalCount EXCEPT ![s] = IF IsNewPair(o, s) THEN @ + 1 ELSE @]
      BY DEF ProposeSubAgentLink
    <3> QED BY ONLY <2>2, <3>1
  <2> QED BY ONLY <2>1, <2>3, s \in Accounts
<1>5. TypeOK'
  BY <1>3, <1>4 DEF ProposeSubAgentLink, IInv, TypeOK, links
<1>6. LinksInv'
  BY LinksKept DEF ProposeSubAgentLink
<1>7. ASSUME NEW t \in Accounts
      PROVE  /\ pendingProposalCount'[t] = Cardinality(OffersTo(t)')
             /\ Cardinality(OffersTo(t)') <= MaxPendingProposals
  <2>1. pendingProposalCount[t] = Cardinality(OffersTo(t))
        /\ Cardinality(OffersTo(t)) <= MaxPendingProposals
        /\ Cardinality(OffersTo(t)) \in Nat
        /\ MaxPendingProposals \in Nat
    BY <1>7, Finite, RuntimeParameters
       DEF IInv, OffersInv, InboxCountIsExact, InboxIsBounded
  <2>2. CASE t = s /\ IsNewPair(o, s)
    <3>1. OffersTo(t)' = OffersTo(t) \cup {<<o, s>>} /\ <<o, s>> \notin OffersTo(t)
      BY <1>1, <2>2 DEF OffersTo, IsNewPair, HasOffer
    <3>2. Cardinality(OffersTo(t)') = Cardinality(OffersTo(t)) + 1
      BY <3>1, Finite, FS_AddElement
    <3>3. /\ pendingProposalCount'[t] = pendingProposalCount[t] + 1
          /\ pendingProposalCount[t] < MaxPendingProposals
      BY <2>2 DEF ProposeSubAgentLink, IInv, TypeOK
    <3> QED BY <2>1, <3>2, <3>3
  <2>3. CASE ~(t = s /\ IsNewPair(o, s))
    <3>1. OffersTo(t)' = OffersTo(t)
      BY <1>1, <2>3 DEF OffersTo, IsNewPair, HasOffer
    <3>2. pendingProposalCount'[t] = pendingProposalCount[t]
      BY <1>7, <2>3 DEF ProposeSubAgentLink, IInv, TypeOK
    <3> QED BY <2>1, <3>1, <3>2
  <2> QED BY <2>2, <2>3
<1>8. \A offer \in DOMAIN pendingLinkProposals' : IsRegistered(offer[1])'
  BY <1>1 DEF ProposeSubAgentLink, IInv, OffersInv, InboxIsBounded, IsRegistered, links
<1>9. IsFiniteSet(DOMAIN pendingLinkProposals')
  BY <1>1, FS_AddElement DEF IInv, OffersInv
<1> QED BY <1>5, <1>6, <1>7, <1>8, <1>9
        DEF IInv, OffersInv, InboxCountIsExact, InboxIsBounded

LEMMA WithdrawStep ==
  ASSUME IInv, NEW o \in Accounts, NEW s \in Accounts, WithdrawProposal(o, s)
  PROVE  IInv'
<1>1. DOMAIN registration' = DOMAIN registration
  BY DEF WithdrawProposal, links
<1>2. /\ OffersInv'
      /\ DOMAIN pendingLinkProposals' \subseteq Accounts \X Accounts
      /\ pendingLinkProposals' \in [DOMAIN pendingLinkProposals' -> Nat]
      /\ pendingProposalCount' \in [Accounts -> Nat]
  BY <1>1, ProposalRemoved DEF WithdrawProposal
<1>3. TypeOK'
  BY <1>2 DEF WithdrawProposal, IInv, TypeOK, links
<1>4. LinksInv'
  BY LinksKept DEF WithdrawProposal
<1> QED BY <1>2, <1>3, <1>4 DEF IInv

\* The orchestrator of an offer is registered, and its record is well formed.
LEMMA RecordOf ==
  ASSUME IInv, NEW o, IsRegistered(o)
  PROVE  /\ registration[o] \in Registration
         /\ registration[o].activeSubCount = Cardinality(LinksOf(o))
BY DEF IInv, TypeOK, IsRegistered, LinksInv, ActiveCountIsExact

\* Writing the link count of a record leaves the other records as they were.
LEMMA LinkCountSet ==
  ASSUME IInv, NEW o, IsRegistered(o), NEW n \in Nat, SetLinkCount(o, n)
  PROVE  /\ DOMAIN registration' = DOMAIN registration
         /\ registration' \in [DOMAIN registration' -> Registration]
         /\ registration'[o].activeSubCount = n
         /\ \A x \in DOMAIN registration \ {o} : registration'[x] = registration[x]
<1>1. registration[o] \in Registration
  BY RecordOf
<1> QED BY <1>1 DEF SetLinkCount, IInv, TypeOK, IsRegistered, Registration

LEMMA AcceptStep ==
  ASSUME IInv, NEW o \in Accounts, NEW s \in Accounts, AcceptOrchestratorLink(s, o)
  PROVE  IInv'
<1>1. IsRegistered(o)
  BY DEF AcceptOrchestratorLink, HasOffer, IInv, OffersInv, InboxIsBounded
<1>2. /\ registration[o].activeSubCount = Cardinality(LinksOf(o))
      /\ Cardinality(LinksOf(o)) \in Nat
  BY <1>1, RecordOf, Finite
<1>3. /\ DOMAIN registration' = DOMAIN registration
      /\ registration' \in [DOMAIN registration' -> Registration]
      /\ registration'[o].activeSubCount = Cardinality(LinksOf(o)) + 1
      /\ \A x \in DOMAIN registration \ {o} : registration'[x] = registration[x]
  <2>1. SetLinkCount(o, Cardinality(LinksOf(o)) + 1)
    BY <1>2 DEF AcceptOrchestratorLink
  <2> QED BY <1>1, <1>2, <2>1, LinkCountSet
<1>4. /\ OffersInv'
      /\ DOMAIN pendingLinkProposals' \subseteq Accounts \X Accounts
      /\ pendingLinkProposals' \in [DOMAIN pendingLinkProposals' -> Nat]
      /\ pendingProposalCount' \in [Accounts -> Nat]
  BY <1>3, ProposalRemoved DEF AcceptOrchestratorLink
<1>5. /\ DOMAIN subAgentToOrchestrator' = DOMAIN subAgentToOrchestrator \cup {s}
      /\ subAgentToOrchestrator'[s] = o
      /\ \A x \in DOMAIN subAgentToOrchestrator :
           subAgentToOrchestrator'[x] = subAgentToOrchestrator[x]
      /\ s \notin DOMAIN subAgentToOrchestrator
  BY DEF AcceptOrchestratorLink, MayLink, IsLinked, Put
<1>6. subAgentLinks' = subAgentLinks \cup {<<o, s>>}
  BY DEF AcceptOrchestratorLink
<1>7. TypeOK'
  <2>1. DOMAIN subAgentToOrchestrator' \subseteq Accounts
        /\ subAgentToOrchestrator' \in [DOMAIN subAgentToOrchestrator' -> Accounts]
    BY TableType DEF AcceptOrchestratorLink, IInv, TypeOK
  <2> QED BY <1>3, <1>4, <1>6, <2>1 DEF AcceptOrchestratorLink, IInv, TypeOK
<1>8. LinksAgree'
  <2>1. subAgentLinks' = {<<subAgentToOrchestrator'[x], x>> :
                            x \in DOMAIN subAgentToOrchestrator'}
    BY <1>5, <1>6 DEF IInv, LinksInv, LinksAgree
  <2>2. \A link \in subAgentLinks' : IsRegistered(link[1])'
    BY <1>1, <1>3, <1>6 DEF IInv, LinksInv, LinksAgree, IsRegistered
  <2> QED BY <2>1, <2>2 DEF LinksAgree
<1>9. ActiveCountIsExact'
  <2> SUFFICES ASSUME NEW x \in DOMAIN registration'
               PROVE  registration'[x].activeSubCount = Cardinality(LinksOf(x)')
    BY DEF ActiveCountIsExact
  <2>1. CASE x = o
    <3>1. LinksOf(o)' = LinksOf(o) \cup {<<o, s>>}
      BY <1>6 DEF LinksOf
    <3>2. <<o, s>> \notin LinksOf(o)
      BY <1>5 DEF LinksOf, IInv, LinksInv, LinksAgree
    <3>3. Cardinality(LinksOf(o)') = Cardinality(LinksOf(o)) + 1
      BY <3>1, <3>2, Finite, FS_AddElement
    <3> QED BY <1>3, <2>1, <3>3
  <2>2. CASE x # o
    <3>1. LinksOf(x)' = LinksOf(x)
      BY <1>6, <2>2 DEF LinksOf
    <3> QED BY <1>3, <2>2, <3>1 DEF IInv, LinksInv, ActiveCountIsExact
  <2> QED BY <2>1, <2>2
<1>10. IsFiniteSet(subAgentLinks')
  BY <1>6, FS_AddElement DEF IInv, LinksInv
<1> QED BY <1>4, <1>7, <1>8, <1>9, <1>10 DEF IInv, LinksInv

LEMMA RemoveLinkStep ==
  ASSUME IInv, NEW o \in Accounts, NEW s \in Accounts, NEW caller,
         RemoveSubAgentLink(caller, o, s)
  PROVE  IInv'
<1>1. /\ <<o, s>> \in subAgentLinks
      /\ s \in DOMAIN subAgentToOrchestrator
      /\ subAgentToOrchestrator[s] = o
      /\ IsRegistered(o)
  BY DEF RemoveSubAgentLink, MayRemoveLink, IsLinked, IInv, LinksInv, LinksAgree
<1>2. /\ <<o, s>> \in LinksOf(o)
      /\ Cardinality(LinksOf(o) \ {<<o, s>>}) = Cardinality(LinksOf(o)) - 1
      /\ Cardinality(LinksOf(o) \ {<<o, s>>}) \in Nat
  <2>1. <<o, s>> \in LinksOf(o)
    BY <1>1 DEF LinksOf
  <2>2. IsFiniteSet(LinksOf(o))
    BY Finite
  <2>3. /\ Cardinality(LinksOf(o) \ {<<o, s>>}) = Cardinality(LinksOf(o)) - 1
        /\ IsFiniteSet(LinksOf(o) \ {<<o, s>>})
    BY <2>1, <2>2, FS_RemoveElement
  <2> QED BY <2>1, <2>3, FS_CardinalityType
<1>3. /\ DOMAIN registration' = DOMAIN registration
      /\ registration' \in [DOMAIN registration' -> Registration]
      /\ registration'[o].activeSubCount = Cardinality(LinksOf(o)) - 1
      /\ \A x \in DOMAIN registration \ {o} : registration'[x] = registration[x]
  <2>1. Decremented(registration[o].activeSubCount) = Cardinality(LinksOf(o)) - 1
    BY <1>1, <1>2, RecordOf, Finite DEF Decremented
  <2>2. SetLinkCount(o, Cardinality(LinksOf(o)) - 1)
    BY <2>1 DEF RemoveSubAgentLink
  <2> QED BY <1>1, <1>2, <2>2, LinkCountSet
<1>4. /\ DOMAIN subAgentToOrchestrator' = DOMAIN subAgentToOrchestrator \ {s}
      /\ \A x \in DOMAIN subAgentToOrchestrator' :
           subAgentToOrchestrator'[x] = subAgentToOrchestrator[x]
  BY DEF RemoveSubAgentLink, WithoutAll, Restrict
<1>5. subAgentLinks' = subAgentLinks \ {<<o, s>>}
  BY DEF RemoveSubAgentLink
<1>6. TypeOK'
  <2>1. DOMAIN subAgentToOrchestrator' \subseteq Accounts
        /\ subAgentToOrchestrator' \in [DOMAIN subAgentToOrchestrator' -> Accounts]
    BY TableType DEF RemoveSubAgentLink, IInv, TypeOK
  <2> QED BY <1>3, <1>5, <2>1 DEF RemoveSubAgentLink, IInv, TypeOK, offers
<1>7. LinksAgree'
  <2>1. subAgentLinks' = {<<subAgentToOrchestrator'[x], x>> :
                            x \in DOMAIN subAgentToOrchestrator'}
    BY <1>1, <1>4, <1>5 DEF IInv, LinksInv, LinksAgree
  <2>2. \A link \in subAgentLinks' : IsRegistered(link[1])'
    BY <1>3, <1>5 DEF IInv, LinksInv, LinksAgree, IsRegistered
  <2> QED BY <2>1, <2>2 DEF LinksAgree
<1>8. ActiveCountIsExact'
  <2> SUFFICES ASSUME NEW x \in DOMAIN registration'
               PROVE  registration'[x].activeSubCount = Cardinality(LinksOf(x)')
    BY DEF ActiveCountIsExact
  <2>1. CASE x = o
    <3>1. LinksOf(o)' = LinksOf(o) \ {<<o, s>>}
      BY <1>5 DEF LinksOf
    <3> QED BY <1>2, <1>3, <2>1, <3>1
  <2>2. CASE x # o
    <3>1. LinksOf(x)' = LinksOf(x)
      BY <1>5, <2>2 DEF LinksOf
    <3> QED BY <1>3, <2>2, <3>1 DEF IInv, LinksInv, ActiveCountIsExact
  <2> QED BY <2>1, <2>2
<1>9. IsFiniteSet(subAgentLinks')
  BY <1>5, FS_RemoveElement DEF IInv, LinksInv
<1>10. OffersInv'
  BY <1>3, OffersKept DEF RemoveSubAgentLink
<1> QED BY <1>6, <1>7, <1>8, <1>9, <1>10 DEF IInv, LinksInv

LEMMA DeregisterStep ==
  ASSUME IInv, NEW o \in Accounts, DeregisterOrchestrator(o)
  PROVE  IInv'
<1>1. /\ DOMAIN registration' = DOMAIN registration \ {o}
      /\ \A x \in DOMAIN registration' : registration'[x] = registration[x]
  BY DEF DeregisterOrchestrator, WithoutAll, Restrict
<1>2. DOMAIN pendingLinkProposals' = DOMAIN pendingLinkProposals \ OffersOf(o)
  BY WithoutKeys DEF DeregisterOrchestrator
<1>3. /\ DOMAIN subAgentToOrchestrator' =
           {s \in DOMAIN subAgentToOrchestrator : subAgentToOrchestrator[s] # o}
      /\ \A x \in DOMAIN subAgentToOrchestrator' :
           subAgentToOrchestrator'[x] = subAgentToOrchestrator[x]
  <2> DEFINE freed == {link[2] : link \in LinksOf(o)}
  <2>1. ASSUME NEW s \in DOMAIN subAgentToOrchestrator
        PROVE  s \in freed <=> subAgentToOrchestrator[s] = o
    <3>1. CASE subAgentToOrchestrator[s] = o
      <4>1. <<o, s>> \in LinksOf(o)
        BY <3>1 DEF LinksOf, IInv, LinksInv, LinksAgree
      <4> QED BY <3>1, <4>1
    <3>2. ASSUME s \in freed PROVE subAgentToOrchestrator[s] = o
      <4>1. PICK link \in LinksOf(o) : link[2] = s
        BY <3>2
      <4>2. link \in subAgentLinks /\ link[1] = o
        BY DEF LinksOf
      <4>3. PICK x \in DOMAIN subAgentToOrchestrator :
              link = <<subAgentToOrchestrator[x], x>>
        BY <4>2 DEF IInv, LinksInv, LinksAgree
      <4> QED BY <4>1, <4>2, <4>3
    <3> QED BY <3>1, <3>2
  <2>2. subAgentToOrchestrator' = WithoutAll(subAgentToOrchestrator, freed)
    BY DEF DeregisterOrchestrator, SubAgentsFreed
  <2> HIDE DEF freed
  <2>3. /\ DOMAIN subAgentToOrchestrator' = DOMAIN subAgentToOrchestrator \ freed
        /\ \A x \in DOMAIN subAgentToOrchestrator' :
             subAgentToOrchestrator'[x] = subAgentToOrchestrator[x]
    BY <2>2 DEF WithoutAll, Restrict
  <2> QED BY <2>1, <2>3
<1>4. subAgentLinks' = {link \in subAgentLinks : link[1] # o}
  BY DEF DeregisterOrchestrator, LinksOf
<1>5. pendingProposalCount' \in [Accounts -> Nat]
  BY DecrementedType DEF DeregisterOrchestrator, IInv, TypeOK
<1>6. TypeOK'
  <2>1. /\ DOMAIN subAgentToOrchestrator' \subseteq Accounts
        /\ subAgentToOrchestrator' \in [DOMAIN subAgentToOrchestrator' -> Accounts]
    BY TableType DEF DeregisterOrchestrator, SubAgentsFreed, IInv, TypeOK
  <2>2. /\ DOMAIN pendingLinkProposals' \subseteq Accounts \X Accounts
        /\ pendingLinkProposals' \in [DOMAIN pendingLinkProposals' -> Nat]
    BY TableType DEF DeregisterOrchestrator, IInv, TypeOK
  <2>3. /\ DOMAIN registration' \subseteq Accounts
        /\ registration' \in [DOMAIN registration' -> Registration]
    BY TableType DEF DeregisterOrchestrator, IInv, TypeOK
  <2> QED BY <1>4, <1>5, <2>1, <2>2, <2>3 DEF DeregisterOrchestrator, IInv, TypeOK
<1>7. LinksAgree'
  <2>1. subAgentLinks' = {<<subAgentToOrchestrator'[x], x>> :
                            x \in DOMAIN subAgentToOrchestrator'}
    BY <1>3, <1>4 DEF IInv, LinksInv, LinksAgree
  <2>2. \A link \in subAgentLinks' : IsRegistered(link[1])'
    BY <1>1, <1>4 DEF IInv, LinksInv, LinksAgree, IsRegistered
  <2> QED BY <2>1, <2>2 DEF LinksAgree
<1>8. ActiveCountIsExact'
  <2> SUFFICES ASSUME NEW x \in DOMAIN registration'
               PROVE  registration'[x].activeSubCount = Cardinality(LinksOf(x)')
    BY DEF ActiveCountIsExact
  <2>1. LinksOf(x)' = LinksOf(x)
    BY <1>1, <1>4 DEF LinksOf
  <2> QED BY <1>1, <2>1 DEF IInv, LinksInv, ActiveCountIsExact
<1>9. IsFiniteSet(subAgentLinks')
  <2>1. subAgentLinks' \in SUBSET subAgentLinks
    BY <1>4
  <2> QED BY <2>1, FS_Subset DEF IInv, LinksInv
<1>10. ASSUME NEW t \in Accounts
       PROVE  /\ pendingProposalCount'[t] = Cardinality(OffersTo(t)')
              /\ Cardinality(OffersTo(t)') <= MaxPendingProposals
  <2>1. pendingProposalCount[t] = Cardinality(OffersTo(t))
        /\ Cardinality(OffersTo(t)) <= MaxPendingProposals
        /\ Cardinality(OffersTo(t)) \in Nat
        /\ MaxPendingProposals \in Nat
    BY <1>10, Finite, RuntimeParameters
       DEF IInv, OffersInv, InboxCountIsExact, InboxIsBounded
  <2>2. OffersTo(t)' = OffersTo(t) \ {<<o, t>>}
    BY <1>2 DEF OffersTo, OffersOf, IInv, TypeOK
  <2>3. CASE HasOffer(o, t)
    <3>1. <<o, t>> \in OffersTo(t)
      BY <2>3 DEF OffersTo, HasOffer
    <3>2. /\ Cardinality(OffersTo(t)') = Cardinality(OffersTo(t)) - 1
          /\ Cardinality(OffersTo(t)') \in Nat
      BY <2>2, <3>1, Finite, FS_RemoveElement, FS_CardinalityType
    <3>3. pendingProposalCount'[t] = Decremented(pendingProposalCount[t])
      BY <2>3 DEF DeregisterOrchestrator
    <3> QED BY <2>1, <3>2, <3>3 DEF Decremented
  <2>4. CASE ~HasOffer(o, t)
    <3>1. OffersTo(t)' = OffersTo(t)
      BY <2>2, <2>4 DEF OffersTo, HasOffer
    <3>2. pendingProposalCount'[t] = pendingProposalCount[t]
      BY <2>4 DEF DeregisterOrchestrator
    <3> QED BY <2>1, <3>1, <3>2
  <2> QED BY <2>3, <2>4
<1>11. \A offer \in DOMAIN pendingLinkProposals' : IsRegistered(offer[1])'
  BY <1>1, <1>2 DEF OffersOf, IInv, OffersInv, InboxIsBounded, IsRegistered
<1>12. IsFiniteSet(DOMAIN pendingLinkProposals')
  <2>1. DOMAIN pendingLinkProposals' \in SUBSET DOMAIN pendingLinkProposals
    BY <1>2
  <2> QED BY <2>1, FS_Subset DEF IInv, OffersInv
<1> QED BY <1>6, <1>7, <1>8, <1>9, <1>10, <1>11, <1>12
        DEF IInv, LinksInv, OffersInv, InboxCountIsExact, InboxIsBounded

\* Steps that change neither links nor offers.
LEMMA OtherStep ==
  ASSUME IInv, UNCHANGED <<links, offers>>,
         now' \in Nat, standing' \in [Accounts -> Standing]
  PROVE  IInv'
<1>1. LinksInv'
  BY LinksKept
<1>2. OffersInv'
  BY OffersKept DEF links
<1> QED BY <1>1, <1>2 DEF IInv, TypeOK, links, offers

-----------------------------------------------------------------------------
(* The theorems.                                                           *)

\* Every step of the pallet keeps the inductive invariant.
LEMMA NextIInv == IInv /\ [Next]_vars => IInv'
<1> SUFFICES ASSUME IInv, [Next]_vars PROVE IInv'
  OBVIOUS
<1>1. CASE Tick
  BY <1>1, OtherStep DEF Tick, IInv, TypeOK
<1>2. ASSUME NEW a \in Accounts, ChangeStanding(a)
      PROVE  IInv'
  <2>1. standing' \in [Accounts -> Standing]
    BY <1>2 DEF ChangeStanding, IInv, TypeOK
  <2>2. now' \in Nat /\ UNCHANGED <<links, offers>>
    BY <1>2 DEF ChangeStanding, IInv, TypeOK
  <2> QED BY <2>1, <2>2, OtherStep
<1>3. ASSUME NEW a \in Accounts, OrchestratorCall(a)
      PROVE  IInv'
  BY <1>3, RegisterOrchestratorStep, DeregisterStep DEF OrchestratorCall
<1>4. ASSUME NEW o \in Accounts, NEW s \in Accounts, LinkCall(o, s)
      PROVE  IInv'
  BY <1>4, ProposeStep, AcceptStep, WithdrawStep, RemoveLinkStep DEF LinkCall
<1>5. CASE UNCHANGED vars
  BY <1>5, OtherStep DEF vars, IInv, TypeOK
<1> QED BY <1>1, <1>2, <1>3, <1>4, <1>5 DEF Next

\* Offers, links and their counts stay in step for every number of accounts.
THEOREM Inductive == Spec => []IInv
BY InitIInv, NextIInv, PTL DEF Spec

\* Every variable keeps its shape.
THEOREM TypeCorrect == Spec => []TypeOK
<1>1. IInv => TypeOK
  BY DEF IInv
<1> QED BY <1>1, Inductive, PTL

\* A sub-agent has one orchestrator, both records of a link say the same, the
\* orchestrator is registered, and active_sub_count is the number of its links,
\* across deregistration and return.
THEOREM LinksStayInStep == Spec => []LinksInStep
<1>1. IInv => LinksInStep
  BY DEF IInv, LinksInv, LinksInStep
<1> QED BY <1>1, Inductive, PTL

\* The inbox counter is the number of rows, along every path that writes them.
THEOREM InboxStaysCounted == Spec => []InboxCountIsExact
<1>1. IInv => InboxCountIsExact
  BY DEF IInv, OffersInv
<1> QED BY <1>1, Inductive, PTL

\* No sub-agent is made to hold more than MaxPendingProposals offers, and none
\* of an orchestrator that is gone.
THEOREM InboxStaysBounded == Spec => []InboxIsBounded
<1>1. IInv => InboxIsBounded
  BY DEF IInv, OffersInv
<1> QED BY <1>1, Inductive, PTL

=============================================================================
