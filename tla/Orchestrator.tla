---------------------------- MODULE Orchestrator ----------------------------
(***************************************************************************)
(* pallet-orchestrator: an agent of rank 2 registers as an orchestrator    *)
(* and offers links to other agents; a sub-agent takes one offer at a      *)
(* time.  The pallet keeps every fact twice: a link by orchestrator and by *)
(* sub-agent, the number of links beside the links, the number of open     *)
(* offers beside the offers.  This module models the offers and the links; *)
(* the rewards of orchestrators are in Emissions.                          *)
(***************************************************************************)
EXTENDS Integers, FiniteSets, Functions

CONSTANTS
  Accounts,
  Declarable,            \* values of max_sub_agents a registrant may choose
  MaxSubAgentsPerOrchestrator, LinkApprovalWindow, MaxPendingProposals,
  MaxBlock               \* the last block of the run

ASSUME RuntimeParameters ==
  /\ Declarable \subseteq Nat
  /\ {MaxSubAgentsPerOrchestrator, LinkApprovalWindow, MaxPendingProposals,
      MaxBlock} \subseteq Nat

VARIABLES
  now,                     \* frame_system block number
  standing,                \* agents and ranked collective: what an account is
  registration,            \* OrchestratorRegistration
  subAgentLinks,           \* keys of SubAgentLinks
  subAgentToOrchestrator,  \* SubAgentToOrchestrator
  pendingLinkProposals,    \* PendingLinkProposals: the block an offer is good to
  pendingProposalCount     \* PendingProposalCount

links  == <<registration, subAgentLinks, subAgentToOrchestrator>>
offers == <<pendingLinkProposals, pendingProposalCount>>
vars   == <<now, standing, links, offers>>

-----------------------------------------------------------------------------

\* Not an agent; an agent of rank 0 or 1; an agent of rank 2 or more.
Standing == {"outsider", "junior", "senior"}

Registration ==
  [maxSubAgents : 0 .. MaxSubAgentsPerOrchestrator, activeSubCount : Nat]

IsAgent(a)      == standing[a] # "outsider"
IsRegistered(o) == o \in DOMAIN registration
IsLinked(s)     == s \in DOMAIN subAgentToOrchestrator
HasOffer(o, s)  == <<o, s>> \in DOMAIN pendingLinkProposals

OffersTo(s) == {offer \in DOMAIN pendingLinkProposals : offer[2] = s}
OffersOf(o) == {offer \in DOMAIN pendingLinkProposals : offer[1] = o}
LinksOf(o)  == {link \in subAgentLinks : link[1] = o}

Put(f, key, value) ==
  [x \in DOMAIN f \cup {key} |-> IF x = key THEN value ELSE f[x]]

WithoutAll(f, keys) == Restrict(f, DOMAIN f \ keys)

Decremented(n) == IF n = 0 THEN 0 ELSE n - 1

Init ==
  /\ now = 0
  /\ standing \in [Accounts -> Standing]
  /\ registration = [o \in {} |-> 0]
  /\ subAgentLinks = {}
  /\ subAgentToOrchestrator = [s \in {} |-> 0]
  /\ pendingLinkProposals = [offer \in {} |-> 0]
  /\ pendingProposalCount = [s \in Accounts |-> 0]

-----------------------------------------------------------------------------
(* What the calls share.                                                   *)

\* Mutant: the row goes, its slot in the inbox does not.
RemoveRowOnly(o, s) ==
  /\ pendingLinkProposals' = WithoutAll(pendingLinkProposals, {<<o, s>>})
  /\ UNCHANGED pendingProposalCount

\* remove_proposal, of a row that is there.
RemoveProposal(o, s) ==
  /\ pendingLinkProposals' = WithoutAll(pendingLinkProposals, {<<o, s>>})
  /\ pendingProposalCount' = [pendingProposalCount EXCEPT ![s] = Decremented(@)]

IsNewPair(o, s) == ~HasOffer(o, s)

\* Mutant: an offer may be taken by a sub-agent that has an orchestrator.
LinkAnyway(s) == s \in Accounts

\* The one place where link exclusivity is enforced.
MayLink(s) == ~IsLinked(s)

SetLinkCount(o, n) ==
  registration' = [registration EXCEPT ![o].activeSubCount = n]

-----------------------------------------------------------------------------
(* The calls.                                                              *)

MayDeclare(n) == n <= MaxSubAgentsPerOrchestrator

RegisterOrchestrator(o, maxSubAgents) ==
  /\ standing[o] = "senior"
  /\ ~IsRegistered(o)
  /\ MayDeclare(maxSubAgents)
  /\ registration' =
       Put(registration, o, [maxSubAgents |-> maxSubAgents, activeSubCount |-> 0])
  /\ UNCHANGED <<now, standing, subAgentLinks, subAgentToOrchestrator, offers>>

\* Permissive: the sub-agent may be linked already.  An offer that is refreshed
\* takes no second slot and is not refused by a full inbox.
ProposeSubAgentLink(o, s) ==
  /\ IsRegistered(o)
  /\ o # s
  /\ IsAgent(s)
  /\ registration[o].activeSubCount < registration[o].maxSubAgents
  /\ IsNewPair(o, s) => pendingProposalCount[s] < MaxPendingProposals
  /\ pendingLinkProposals' =
       Put(pendingLinkProposals, <<o, s>>, now + LinkApprovalWindow)
  /\ pendingProposalCount' =
       [pendingProposalCount EXCEPT ![s] = IF IsNewPair(o, s) THEN @ + 1 ELSE @]
  /\ UNCHANGED <<now, standing, links>>

\* Neither the sub-agent's nor the orchestrator's standing is looked at again,
\* nor is the orchestrator's room.
AcceptOrchestratorLink(s, o) ==
  /\ MayLink(s)
  /\ HasOffer(o, s)
  /\ now <= pendingLinkProposals[<<o, s>>]
  /\ RemoveProposal(o, s)
  /\ subAgentLinks' = subAgentLinks \cup {<<o, s>>}
  /\ subAgentToOrchestrator' = Put(subAgentToOrchestrator, s, o)
  /\ SetLinkCount(o, registration[o].activeSubCount + 1)
  /\ UNCHANGED <<now, standing>>

\* A registered caller is taken for the orchestrator of the link, any other for
\* its sub-agent.
MayRemoveLink(caller, o, s) ==
  /\ IsLinked(s)
  /\ subAgentToOrchestrator[s] = o
  /\ IF IsRegistered(caller) THEN caller = o ELSE caller = s

RemoveSubAgentLink(caller, o, s) ==
  /\ MayRemoveLink(caller, o, s)
  /\ subAgentLinks' = subAgentLinks \ {<<o, s>>}
  /\ subAgentToOrchestrator' = WithoutAll(subAgentToOrchestrator, {s})
  /\ SetLinkCount(o, Decremented(registration[o].activeSubCount))
  /\ UNCHANGED <<now, standing, offers>>

\* decline_link_proposal by the sub-agent, cancel_link_proposal by the
\* orchestrator; an offer that has expired is removed like any other.
WithdrawProposal(o, s) ==
  /\ HasOffer(o, s)
  /\ RemoveProposal(o, s)
  /\ UNCHANGED <<now, standing, links>>

SubAgentsFreed(o) ==
  WithoutAll(subAgentToOrchestrator, {link[2] : link \in LinksOf(o)})

\* Both maps are drained to the end; every row gives its slot back.
DeregisterOrchestrator(o) ==
  /\ IsRegistered(o)
  /\ subAgentLinks' = subAgentLinks \ LinksOf(o)
  /\ subAgentToOrchestrator' = SubAgentsFreed(o)
  /\ pendingLinkProposals' = WithoutAll(pendingLinkProposals, OffersOf(o))
  /\ pendingProposalCount' =
       [s \in Accounts |-> IF HasOffer(o, s) THEN Decremented(pendingProposalCount[s])
                                             ELSE pendingProposalCount[s]]
  /\ registration' = WithoutAll(registration, {o})
  /\ UNCHANGED <<now, standing>>

\* Registering, being promoted, leaving: none of it calls this pallet.
ChangeStanding(a) ==
  /\ standing' \in {[standing EXCEPT ![a] = s] : s \in Standing \ {standing[a]}}
  /\ UNCHANGED <<now, links, offers>>

Tick ==
  /\ now < MaxBlock
  /\ now' = now + 1
  /\ UNCHANGED <<standing, links, offers>>

OrchestratorCall(o) ==
  \/ \E n \in Declarable : RegisterOrchestrator(o, n)
  \/ DeregisterOrchestrator(o)

LinkCall(o, s) ==
  \/ ProposeSubAgentLink(o, s)
  \/ AcceptOrchestratorLink(s, o)
  \/ WithdrawProposal(o, s)
  \/ \E caller \in {o, s} : RemoveSubAgentLink(caller, o, s)

Next ==
  \/ Tick
  \/ \E a \in Accounts : ChangeStanding(a) \/ OrchestratorCall(a)
  \/ \E o, s \in Accounts : LinkCall(o, s)

Spec == Init /\ [][Next]_vars

-----------------------------------------------------------------------------
(* Properties.                                                             *)

\* Every variable keeps its shape, and no registration declares more than it may.
TypeOK ==
  /\ now \in Nat
  /\ standing \in [Accounts -> Standing]
  /\ DOMAIN registration \subseteq Accounts
  /\ registration \in [DOMAIN registration -> Registration]
  /\ subAgentLinks \subseteq Accounts \X Accounts
  /\ DOMAIN subAgentToOrchestrator \subseteq Accounts
  /\ subAgentToOrchestrator \in [DOMAIN subAgentToOrchestrator -> Accounts]
  /\ DOMAIN pendingLinkProposals \subseteq Accounts \X Accounts
  /\ pendingLinkProposals \in [DOMAIN pendingLinkProposals -> Nat]
  /\ pendingProposalCount \in [Accounts -> Nat]

\* The two records of a link agree, so a sub-agent has one orchestrator at a
\* time, and every orchestrator in them is registered: no link outlives the
\* registration it was formed under.
LinksAgree ==
  /\ subAgentLinks =
       {<<subAgentToOrchestrator[s], s>> : s \in DOMAIN subAgentToOrchestrator}
  /\ \A link \in subAgentLinks : IsRegistered(link[1])

\* active_sub_count, which gates new offers, is the number of links, also after
\* an orchestrator deregistered, came back and is accepted by former sub-agents.
ActiveCountIsExact ==
  \A o \in DOMAIN registration :
    registration[o].activeSubCount = Cardinality(LinksOf(o))

\* Accepting, removing and deregistering keep the two records of a link and the
\* count of links in step with each other.
LinksInStep == LinksAgree /\ ActiveCountIsExact

\* PendingProposalCount[s] equals the number of PendingLinkProposals entries
\* whose second key is s, over all the paths that write the map.
InboxCountIsExact ==
  \A s \in Accounts : pendingProposalCount[s] = Cardinality(OffersTo(s))

\* No sub-agent is made to hold more than MaxPendingProposals offers, and none
\* of an orchestrator that is gone, which nobody could cancel.
InboxIsBounded ==
  /\ \A s \in Accounts : Cardinality(OffersTo(s)) <= MaxPendingProposals
  /\ \A offer \in DOMAIN pendingLinkProposals : IsRegistered(offer[1])

\* An orchestrator has no more links than it declared.
ActiveSubCountWithinCap ==
  \A o \in DOMAIN registration :
    registration[o].activeSubCount <= registration[o].maxSubAgents

\* Either party of a link can have it removed.
EitherPartyMayUnlink ==
  \A link \in subAgentLinks : \A caller \in {link[1], link[2]} :
    MayRemoveLink(caller, link[1], link[2])

=============================================================================
