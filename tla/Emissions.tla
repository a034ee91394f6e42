----------------------------- MODULE Emissions ------------------------------
(***************************************************************************)
(* pallet-emissions, with the reward side of pallet-orchestrator: an era   *)
(* is settled by anyone, the emission of the era is turned into growth of  *)
(* an accumulator of reward per unit of weight, and everyone mints his own *)
(* share when he claims it: growth since his debt, times the weight the    *)
(* last settlement left him.                                               *)
(*                                                                         *)
(* How a weight is computed from stake, rank, heartbeat, volume and votes  *)
(* is abstracted to a choice among Weights at each settlement, and so are  *)
(* the qualifying volume of the era and the orchestrators' weights: between*)
(* two settlements they go up or down, to zero and back.                   *)
(***************************************************************************)
EXTENDS Integers, FiniteSets, Functions

CONSTANTS
  Accounts,
  Weights, OrchestratorWeights,  \* outcomes of the two weight computations
  Volumes,                       \* outcomes of qualifying_volume_of, summed
  \* runtime parameters
  SupplyCap, TargetEmissionPerAgent, FloorEmissionPerEra,
  InitialEmissionsPerEra, EmissionVolumeAlphaBps, EraDuration,
  MaxEmissionOverrideEras,
  AccScale, MaxU128,             \* 2^64 and 2^128 - 1 in the code
  \* bounds of the instance
  Founders,                      \* the agents registered at genesis
  Heads,                         \* the accounts that may be orchestrators
  InitialIssuance,               \* what is issued at the start
  Overrides,                     \* amounts root may schedule
  Burns,                         \* amounts that fees and slashes destroy ...
  BurnFloor,                     \* ... while this much stays issued
  MaxBlock                       \* the last block of the run

ASSUME RuntimeParameters ==
  /\ Weights \cup OrchestratorWeights \cup Volumes \cup Overrides \cup Burns
       \cup {SupplyCap, TargetEmissionPerAgent, FloorEmissionPerEra,
             InitialEmissionsPerEra, EmissionVolumeAlphaBps, EraDuration,
             MaxEmissionOverrideEras, AccScale, MaxU128, InitialIssuance,
             BurnFloor, MaxBlock} \subseteq Nat
  /\ InitialIssuance <= SupplyCap
  /\ AccScale > 0
  /\ Founders \cup Heads \subseteq Accounts

VARIABLES
  now, era, eraStartBlock,
  lastSettledEra,                \* LastSettledEra; -1 for None
  emissionOverrides,             \* EmissionOverrides
  agentStake, members,           \* agents: AgentStake; the ranked collective
  accRewardPerStake, agentRewardDebt, agentWeightSnapshot,
  registration,                  \* orchestrator: OrchestratorRegistration
  volumeEarners,                 \* keys of EraOrchestratorVolume
  orchestratorGlobalAcc, orchestratorRewardDebt, orchestratorWeightSnapshot,
  issuance,                      \* total_issuance
  lastEraEmission,               \* LastEraEmission
  unclaimed,                     \* history: emission settled less rewards paid
  agentLag, orchestratorLag      \* history: see Behind

agents  == <<agentStake, members>>
rewards == <<accRewardPerStake, agentRewardDebt, agentWeightSnapshot, agentLag>>
orchestrators ==
  <<registration, volumeEarners, orchestratorGlobalAcc, orchestratorRewardDebt,
    orchestratorWeightSnapshot, orchestratorLag>>
schedule == <<now, era, eraStartBlock, lastSettledEra, emissionOverrides,
              lastEraEmission>>
money == <<issuance, unclaimed>>
vars  == <<agents, rewards, orchestrators, schedule, money>>

-----------------------------------------------------------------------------

Least(m, n) == IF m <= n THEN m ELSE n
Most(m, n)  == IF m >= n THEN m ELSE n

\* The saturating operations of u128.
Capped(n) == Least(n, MaxU128)

\* Settlements since a debt was brought up to date, as far as it is told apart:
\* 0 and 1 are a claimant who misses no era, 2 one who missed at least one.
Behind(lag) == [a \in Accounts |-> Least(lag[a] + 1, 2)]

Init ==
  /\ now = 0 /\ era = 0 /\ eraStartBlock = 0 /\ lastSettledEra = -1
  /\ emissionOverrides = [e \in {} |-> 0]
  /\ agentStake = Founders /\ members = Founders
  /\ accRewardPerStake = 0
  /\ agentRewardDebt = [a \in Accounts |-> 0]
  /\ agentWeightSnapshot = [a \in Accounts |-> 0]
  /\ registration = {} /\ volumeEarners = {}
  /\ orchestratorGlobalAcc = 0
  /\ orchestratorRewardDebt = [a \in Accounts |-> 0]
  /\ orchestratorWeightSnapshot = [a \in Accounts |-> 0]
  /\ issuance = InitialIssuance
  /\ lastEraEmission = 0 /\ unclaimed = 0
  /\ agentLag = [a \in Accounts |-> 0]
  /\ orchestratorLag = [a \in Accounts |-> 0]

-----------------------------------------------------------------------------
(* Settling an era.                                                        *)

ScheduledEmission ==
  Least(InitialEmissionsPerEra,
        Most(FloorEmissionPerEra,
             TargetEmissionPerAgent * Cardinality(agentStake)))

BaseEmission ==
  IF era \in DOMAIN emissionOverrides THEN emissionOverrides[era]
                                      ELSE ScheduledEmission

\* D7: an era mints at most alpha times the qualifying volume, overrides too.
EraEmission(volume) ==
  Least(BaseEmission, (volume * EmissionVolumeAlphaBps) \div 10000)

\* checked_mul: an emission that does not fit is not distributed.
Grown(acc, emission, weight) ==
  IF weight = 0 \/ emission * AccScale > MaxU128
  THEN acc
  ELSE Capped(acc + (emission * AccScale) \div weight)

\* Mutant: an agent that earned no weight keeps the one it had.
DormantWeightKept(weights, a) ==
  IF a \in agentStake /\ weights[a] > 0 THEN weights[a] ELSE agentWeightSnapshot[a]

\* An account that is no agent any more keeps its snapshot, and cannot claim.
WeightAfter(weights, a) ==
  IF a \in agentStake THEN weights[a] ELSE agentWeightSnapshot[a]

\* Every snapshot of the era before is cleared.
OrchestratorWeightAfter(weights, o) ==
  IF o \in DOMAIN weights THEN weights[o] ELSE 0

\* Volumes whose weights are all zero stay for the next era: they are cleared
\* by settle, which is not called then.
SettleOrchestrators(share, weights, total) ==
  /\ orchestratorWeightSnapshot' =
       [o \in Accounts |-> OrchestratorWeightAfter(weights, o)]
  /\ orchestratorGlobalAcc' = Grown(orchestratorGlobalAcc, share, total)
  /\ volumeEarners' = IF total > 0 THEN {} ELSE volumeEarners
  /\ orchestratorLag' = Behind(orchestratorLag)
  /\ UNCHANGED <<registration, orchestratorRewardDebt>>

SettleEra(weights, orchWeights, volume) ==
  LET emission  == EraEmission(volume)
      orchTotal == SumFunction(orchWeights)
      total     == SumFunction(weights) + orchTotal
  IN
  /\ now >= eraStartBlock + EraDuration
  /\ era > lastSettledEra
  /\ lastSettledEra' = era
  /\ eraStartBlock' = now
  /\ era' = era + 1
  /\ emissionOverrides' = Restrict(emissionOverrides, DOMAIN emissionOverrides \ {era})
  /\ agentWeightSnapshot' = [a \in Accounts |-> WeightAfter(weights, a)]
  /\ accRewardPerStake' = Grown(accRewardPerStake, emission, total)
  /\ agentLag' = Behind(agentLag)
  /\ SettleOrchestrators(IF total = 0 THEN 0
                         ELSE Capped(emission * orchTotal) \div total,
                         orchWeights, orchTotal)
  /\ lastEraEmission' = emission
  /\ unclaimed' = unclaimed + emission
  /\ UNCHANGED <<now, agents, agentRewardDebt, issuance>>

SetEraEmissionOverride(target, amount) ==
  /\ target > era /\ target <= era + MaxEmissionOverrideEras
  /\ amount <= SupplyCap
  /\ emissionOverrides' = [e \in DOMAIN emissionOverrides \cup {target} |->
                             IF e = target THEN amount ELSE emissionOverrides[e]]
  /\ UNCHANGED <<now, era, eraStartBlock, lastSettledEra, lastEraEmission,
                 agents, rewards, orchestrators, money>>

-----------------------------------------------------------------------------
(* Claiming.                                                               *)

Pending(acc, debt, weight) ==
  IF acc <= debt THEN 0 ELSE Capped((acc - debt) * weight) \div AccScale

AgentPending(a) ==
  Pending(accRewardPerStake, agentRewardDebt[a], agentWeightSnapshot[a])

OrchestratorPending(o) ==
  Pending(orchestratorGlobalAcc, orchestratorRewardDebt[o],
          orchestratorWeightSnapshot[o])

\* Mutant: the claim is held against the cap, not against what is left of it.
MintableUnderCap(pending) == Least(SupplyCap, pending)

Mintable(pending) == Least(Most(SupplyCap - issuance, 0), pending)

Mint(amount) ==
  /\ issuance' = issuance + amount
  /\ unclaimed' = unclaimed - amount

\* do_claim, from the point where it brings the debt up to date.  An agent
\* without a weight is sent away before: its debt stays where it was.
PayAgent(a) ==
  /\ a \in agentStake
  /\ accRewardPerStake > agentRewardDebt[a]
  /\ agentWeightSnapshot[a] > 0
  /\ agentRewardDebt' = [agentRewardDebt EXCEPT ![a] = accRewardPerStake]
  /\ agentLag' = [agentLag EXCEPT ![a] = 0]
  /\ Mint(Mintable(AgentPending(a)))
  /\ UNCHANGED <<accRewardPerStake, agentWeightSnapshot, agents, orchestrators,
                 schedule>>

\* claim fails, and is undone, when there is nothing to mint ...
Claim(a) == Mintable(AgentPending(a)) > 0 /\ PayAgent(a)

\* ... batch_claim is not: it moves the debt of any agent on, whoever calls it.
BatchClaim(a) == PayAgent(a)

ClaimOrchestrator(o) ==
  /\ Mintable(OrchestratorPending(o)) > 0
  /\ orchestratorRewardDebt' = [orchestratorRewardDebt EXCEPT ![o] = orchestratorGlobalAcc]
  /\ orchestratorLag' = [orchestratorLag EXCEPT ![o] = 0]
  /\ Mint(Mintable(OrchestratorPending(o)))
  /\ UNCHANGED <<registration, volumeEarners, orchestratorGlobalAcc,
                 orchestratorWeightSnapshot, agents, rewards, schedule>>

-----------------------------------------------------------------------------
(* What the other pallets tell this one.                                   *)

DebtAtRegistration(a) == [agentRewardDebt EXCEPT ![a] = accRewardPerStake]

Register(a) ==
  /\ a \notin agentStake /\ a \notin members
  /\ agentStake' = agentStake \cup {a}
  /\ members' = members \cup {a}
  /\ agentRewardDebt' = DebtAtRegistration(a)
  /\ agentLag' = [agentLag EXCEPT ![a] = 0]
  /\ UNCHANGED <<accRewardPerStake, agentWeightSnapshot, orchestrators, schedule,
                 money>>

CompleteUnstake(a) ==
  /\ a \in agentStake
  /\ agentStake' = agentStake \ {a}
  /\ members' = members \ {a}
  /\ UNCHANGED <<rewards, orchestrators, schedule, money>>

\* on_stake_changed: stake added, or a promotion to rank 2 or 3; on_slashed, of
\* a slash that leaves MinStake.
StakeChanged(a) ==
  /\ a \in agentStake
  /\ agentWeightSnapshot' = [agentWeightSnapshot EXCEPT ![a] = 0]
  /\ UNCHANGED <<accRewardPerStake, agentRewardDebt, agentLag, agents,
                 orchestrators, schedule, money>>

\* on_slashed, of a slash that leaves less; the membership stays.
Evicted(a) ==
  /\ a \in agentStake
  /\ agentStake' = agentStake \ {a}
  /\ agentWeightSnapshot' = [agentWeightSnapshot EXCEPT ![a] = 0]
  /\ UNCHANGED <<members, accRewardPerStake, agentRewardDebt, agentLag,
                 orchestrators, schedule, money>>

OrchestratorDebtAtRegistration(o) ==
  [orchestratorRewardDebt EXCEPT ![o] = orchestratorGlobalAcc]

RegisterOrchestrator(o) ==
  /\ o \in agentStake
  /\ o \notin registration
  /\ registration' = registration \cup {o}
  /\ orchestratorRewardDebt' = OrchestratorDebtAtRegistration(o)
  /\ orchestratorLag' = [orchestratorLag EXCEPT ![o] = 0]
  /\ UNCHANGED <<volumeEarners, orchestratorGlobalAcc, orchestratorWeightSnapshot,
                 agents, rewards, schedule, money>>

\* Debt, weight and volume of the era stay.
DeregisterOrchestrator(o) ==
  /\ o \in registration
  /\ registration' = registration \ {o}
  /\ UNCHANGED <<volumeEarners, orchestratorGlobalAcc, orchestratorRewardDebt,
                 orchestratorWeightSnapshot, orchestratorLag, agents, rewards,
                 schedule, money>>

AddOrchestratorVolume(o) ==
  /\ o \in registration
  /\ volumeEarners' = volumeEarners \cup {o}
  /\ UNCHANGED <<registration, orchestratorGlobalAcc, orchestratorRewardDebt,
                 orchestratorWeightSnapshot, orchestratorLag, agents, rewards,
                 schedule, money>>

Burn(amount) ==
  /\ issuance - amount >= BurnFloor
  /\ issuance' = issuance - amount
  /\ UNCHANGED <<unclaimed, agents, rewards, orchestrators, schedule>>

Tick ==
  /\ now < MaxBlock
  /\ now' = now + 1
  /\ UNCHANGED <<era, eraStartBlock, lastSettledEra, emissionOverrides,
                 lastEraEmission, agents, rewards, orchestrators, money>>

AgentStep(a) ==
  \/ Claim(a) \/ BatchClaim(a)
  \/ Register(a) \/ CompleteUnstake(a) \/ StakeChanged(a) \/ Evicted(a)

OrchestratorStep(o) ==
  \/ RegisterOrchestrator(o) \/ DeregisterOrchestrator(o)
  \/ AddOrchestratorVolume(o) \/ ClaimOrchestrator(o)

Next ==
  \/ Tick
  \/ \E weights \in [agentStake -> Weights], volume \in Volumes,
       orchWeights \in [volumeEarners -> OrchestratorWeights] :
       SettleEra(weights, orchWeights, volume)
  \/ \E target \in 0 .. MaxBlock, amount \in Overrides :
       SetEraEmissionOverride(target, amount)
  \/ \E amount \in Burns : Burn(amount)
  \/ \E a \in Accounts : AgentStep(a)
  \/ \E o \in Heads : OrchestratorStep(o)

Spec == Init /\ [][Next]_vars

-----------------------------------------------------------------------------
(* Properties.                                                             *)

\* Whoever claims what, and in whatever order, issuance never passes the cap:
\* agents and orchestrators draw on the same room.
SupplyCapHolds == issuance <= SupplyCap

\* The claimants who miss no era, agents and orchestrators together, can draw
\* no more than the last settlement emitted, however agents join, leave, are
\* slashed, fall idle or change their stake between two settlements.
PromptClaimsCovered ==
  LET agentClaims ==
        [a \in {x \in agentStake : agentLag[x] <= 1} |-> AgentPending(a)]
      orchestratorClaims ==
        [o \in {x \in Accounts : orchestratorLag[x] <= 1} |-> OrchestratorPending(o)]
  IN  SumFunction(agentClaims) + SumFunction(orchestratorClaims) <= lastEraEmission

\* The rewards paid are never more than the eras settled have emitted.
MintedWithinEmissions == unclaimed >= 0

=============================================================================
