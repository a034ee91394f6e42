-------------------------- MODULE EmissionsProofs --------------------------
(***************************************************************************)
(* That issuance stays under the cap, and that an era's emission covers    *)
(* everyone who claims era by era, for any number of agents and            *)
(* orchestrators, any weights, volumes, overrides and burns.               *)
(*                                                                         *)
(* Between two settlements the claims of those who miss no era only        *)
(* shrink: who claims or joins has a debt equal to the accumulator, whose  *)
(* stake changed has no weight.  At a settlement each of them has seen one *)
(* growth, which is the emission divided by the weights and rounded down,  *)
(* so his claim is no more than his part of the emission; the part of the  *)
(* orchestrators is taken out of the same division.                        *)
(***************************************************************************)
EXTENDS Emissions, CurrencyProofs

-----------------------------------------------------------------------------
(* Arithmetic.                                                             *)

\* A factor that is not zero cancels.
LEMMA Cancels ==
  ASSUME NEW x \in Nat, NEW y \in Nat, NEW n \in Nat, n > 0, x * n <= y * n
  PROVE  x <= y
<1> SUFFICES ASSUME x > y PROVE FALSE
  OBVIOUS
<1>1. x >= y + 1
  OBVIOUS
<1>2. x * n >= (y + 1) * n
  BY <1>1
<1>3. (y + 1) * n = y * n + n
  OBVIOUS
<1>4. x * n \in Nat /\ y * n \in Nat
  OBVIOUS
<1> QED BY <1>2, <1>3, <1>4

\* Division rounds down.
LEMMA RoundsDown ==
  ASSUME NEW n \in Nat, NEW d \in Nat, d > 0
  PROVE  n \div d \in Nat /\ (n \div d) * d <= n
BY SMT

\* A product does not shrink when a factor grows.
LEMMA Products ==
  ASSUME NEW x \in Nat, NEW y \in Nat, NEW n \in Nat, x <= y
  PROVE  x * n <= y * n /\ x * n \in Nat /\ y * n \in Nat
BY SMT

\* Claims paid at a rate, the rate the emission over the weights: what is
\* claimed on some of the weights is no more than their part of the emission.
LEMMA PartOfEmission ==
  ASSUME NEW claimed \in Nat, NEW scale \in Nat, scale > 0, NEW rate \in Nat,
         NEW part \in Nat, NEW whole \in Nat, NEW emission \in Nat,
         claimed * scale <= rate * part, rate * whole <= emission * scale
  PROVE  claimed * whole <= emission * part
<1>1. (claimed * scale) * whole <= (rate * part) * whole
  BY Products
<1>2. (rate * whole) * part <= (emission * scale) * part
  BY Products
<1>3. /\ (claimed * scale) * whole = (claimed * whole) * scale
      /\ (rate * part) * whole = (rate * whole) * part
      /\ (emission * scale) * part = (emission * part) * scale
  BY SMT
<1>4. /\ claimed * whole \in Nat /\ emission * part \in Nat
      /\ (claimed * whole) * scale \in Nat /\ (emission * part) * scale \in Nat
      /\ (rate * whole) * part \in Nat
  BY SMT
<1>5. (claimed * whole) * scale <= (emission * part) * scale
  BY <1>1, <1>2, <1>3, <1>4
<1> QED BY <1>4, <1>5, Cancels

\* Two parts of the emission are no more than the emission.
LEMMA PartsOfEmission ==
  ASSUME NEW one \in Nat, NEW other \in Nat, NEW part \in Nat, NEW rest \in Nat,
         NEW emission \in Nat, part + rest > 0,
         one * (part + rest) <= emission * part,
         other * (part + rest) <= emission * rest
  PROVE  one + other <= emission
<1> PICK whole \in Nat : whole = part + rest /\ whole > 0
  OBVIOUS
<1>1. /\ one * whole <= emission * part /\ other * whole <= emission * rest
  OBVIOUS
<1>2. /\ one * whole \in Nat /\ other * whole \in Nat
      /\ emission * part \in Nat /\ emission * rest \in Nat
      /\ (one + other) * whole = one * whole + other * whole
      /\ emission * whole = emission * part + emission * rest
  BY SMT
<1>3. (one + other) * whole <= emission * whole
  BY ONLY <1>1, <1>2
<1> QED BY <1>3, Cancels

-----------------------------------------------------------------------------
(* Claims.                                                                 *)

\* A reward is a natural number, and no more than the growth times the weight.
LEMMA PendingBound ==
  ASSUME NEW acc \in Nat, NEW debt \in Nat, NEW weight \in Nat
  PROVE  /\ Pending(acc, debt, weight) \in Nat
         /\ acc <= debt \/ weight = 0 => Pending(acc, debt, weight) = 0
         /\ \A growth \in Nat : acc <= debt + growth =>
              Pending(acc, debt, weight) * AccScale <= growth * weight
<1>0. AccScale \in Nat /\ AccScale > 0 /\ MaxU128 \in Nat
  BY RuntimeParameters
<1>1. CASE acc <= debt
  <2>1. Pending(acc, debt, weight) = 0
    BY <1>1 DEF Pending
  <2>2. \A growth \in Nat : growth * weight \in Nat
    BY SMT
  <2> QED BY <1>0, <2>1, <2>2
<1>2. CASE acc > debt
  <2> PICK grown \in Nat : grown = acc - debt
    BY <1>2
  <2> PICK due \in Nat : due = Capped(grown * weight) /\ due <= grown * weight
    <3>1. grown * weight \in Nat
      BY SMT
    <3> QED BY <1>0, <3>1 DEF Capped, Least
  <2>1. Pending(acc, debt, weight) = due \div AccScale
    BY <1>2 DEF Pending
  <2>2. due \div AccScale \in Nat /\ (due \div AccScale) * AccScale <= due
    BY <1>0, RoundsDown
  <2>3. weight = 0 => due \div AccScale = 0
    <3>1. weight = 0 => due = 0
      BY SMT
    <3> QED BY <1>0, <3>1
  <2>4. ASSUME NEW growth \in Nat, acc <= debt + growth
        PROVE  (due \div AccScale) * AccScale <= growth * weight
    <3>1. grown <= growth
      BY <2>4
    <3>2. grown * weight <= growth * weight /\ grown * weight \in Nat /\ growth * weight \in Nat
      BY <3>1, Products
    <3>3. PICK n \in Int : n = (due \div AccScale) * AccScale
      BY <1>0, <2>2
    <3> QED BY <2>2, <3>2, <3>3
  <2> QED BY <1>2, <2>1, <2>2, <2>3, <2>4
<1> QED BY <1>1, <1>2

\* The accumulator grows by the emission over the weights at most.
LEMMA GrownBound ==
  ASSUME NEW acc \in Nat, NEW emission \in Nat, NEW weight \in Nat
  PROVE  /\ Grown(acc, emission, weight) \in Nat
         /\ \E growth \in Nat : /\ Grown(acc, emission, weight) <= acc + growth
                                /\ growth * weight <= emission * AccScale
<1>0. AccScale \in Nat /\ AccScale > 0 /\ MaxU128 \in Nat
  BY RuntimeParameters
<1> PICK scaled \in Nat : scaled = emission * AccScale
  BY <1>0, SMT
<1>1. CASE weight = 0 \/ scaled > MaxU128
  <2>1. Grown(acc, emission, weight) = acc
    BY <1>1 DEF Grown
  <2>2. 0 * weight <= scaled
    BY SMT
  <2>3. 0 \in Nat /\ acc <= acc + 0
    OBVIOUS
  <2> QED BY <2>1, <2>2, <2>3
<1>2. CASE ~(weight = 0 \/ scaled > MaxU128)
  <2>1. scaled \div weight \in Nat /\ (scaled \div weight) * weight <= scaled
    BY <1>2, RoundsDown
  <2>2. Grown(acc, emission, weight) = Capped(acc + scaled \div weight)
    BY <1>2 DEF Grown
  <2>3. /\ Capped(acc + scaled \div weight) \in Nat
        /\ Capped(acc + scaled \div weight) <= acc + scaled \div weight
    BY <1>0, <2>1 DEF Capped, Least
  <2> QED BY <2>1, <2>2, <2>3
<1> QED BY <1>1, <1>2

\* What can be minted fits under the cap.
LEMMA MintableFits ==
  ASSUME issuance \in Nat, issuance <= SupplyCap, NEW pending \in Nat
  PROVE  /\ Mintable(pending) \in Nat
         /\ issuance + Mintable(pending) \in Nat
         /\ issuance + Mintable(pending) <= SupplyCap
BY RuntimeParameters DEF Mintable, Least, Most

-----------------------------------------------------------------------------
(* The inductive invariant.                                                *)

EmissionTypes ==
  /\ agentStake \subseteq Accounts
  /\ accRewardPerStake \in Nat /\ orchestratorGlobalAcc \in Nat
  /\ agentRewardDebt \in [Accounts -> Nat]
  /\ agentWeightSnapshot \in [Accounts -> Nat]
  /\ agentLag \in [Accounts -> Nat]
  /\ volumeEarners \subseteq Accounts
  /\ orchestratorRewardDebt \in [Accounts -> Nat]
  /\ orchestratorWeightSnapshot \in [Accounts -> Nat]
  /\ orchestratorLag \in [Accounts -> Nat]
  /\ emissionOverrides \in [DOMAIN emissionOverrides -> Nat]
  /\ issuance \in Nat
  /\ lastEraEmission \in Nat

\* Who claimed or joined since the last settlement has nothing left to claim.
DebtsUpToDate ==
  \A a \in Accounts :
    /\ agentLag[a] = 0 => agentRewardDebt[a] = accRewardPerStake
    /\ orchestratorLag[a] = 0 => orchestratorRewardDebt[a] = orchestratorGlobalAcc

EmissionInv == EmissionTypes /\ DebtsUpToDate /\ SupplyCapHolds

PromptAgents        == {a \in agentStake : agentLag[a] <= 1}
PromptOrchestrators == {o \in Accounts : orchestratorLag[o] <= 1}

AgentClaims        == [a \in PromptAgents |-> AgentPending(a)]
OrchestratorClaims == [o \in PromptOrchestrators |-> OrchestratorPending(o)]

\* What settling a lag leaves of it.
LEMMA BehindType ==
  ASSUME NEW lag \in [Accounts -> Nat]
  PROVE  /\ Behind(lag) \in [Accounts -> Nat]
         /\ \A a \in Accounts : Behind(lag)[a] # 0
         /\ \A a \in Accounts : Behind(lag)[a] <= 1 => lag[a] = 0
BY DEF Behind, Least

\* The emission of an era is a natural number, whatever root scheduled.
LEMMA EmissionType ==
  ASSUME EmissionTypes, IsFiniteSet(Accounts), NEW volume \in Volumes
  PROVE  EraEmission(volume) \in Nat
<1>1. Cardinality(agentStake) \in Nat
  <2>1. IsFiniteSet(agentStake)
    BY FS_Subset DEF EmissionTypes
  <2> QED BY <2>1, FS_CardinalityType
<1>2. TargetEmissionPerAgent * Cardinality(agentStake) \in Nat
  <2>1. TargetEmissionPerAgent \in Nat
    BY RuntimeParameters
  <2> QED BY <1>1, <2>1, SMT
<1>3. BaseEmission \in Nat
  BY <1>2, RuntimeParameters DEF EmissionTypes, BaseEmission, ScheduledEmission, Least, Most
<1>4. (volume * EmissionVolumeAlphaBps) \div 10000 \in Nat
  <2>1. volume \in Nat /\ EmissionVolumeAlphaBps \in Nat
    BY RuntimeParameters
  <2>2. PICK product \in Nat : product = volume * EmissionVolumeAlphaBps
    BY <2>1, SMT
  <2> QED BY <2>2, SMT
<1> QED BY <1>3, <1>4 DEF EraEmission, Least

\* A set of weights has a sum.
LEMMA WeightsSum ==
  ASSUME IsFiniteSet(Accounts), NEW S, S \subseteq Accounts, NEW W, W \subseteq Nat,
         NEW weights \in [S -> W]
  PROVE  /\ IsFiniteSet(S) /\ \A x \in S : weights[x] \in Nat
         /\ SumFunction(weights) = SumFunctionOnSet(weights, S)
         /\ SumFunction(weights) \in Nat
<1>1. IsFiniteSet(S) /\ \A x \in S : weights[x] \in Nat
  BY FS_Subset
<1>2. SumFunction(weights) = SumFunctionOnSet(weights, S)
  BY DEF SumFunction
<1>3. SumFunctionOnSet(weights, S) \in Nat
  BY ONLY <1>1, SumNat
<1> QED BY <1>1, <1>2, <1>3

\* Settling an era, by its parts: the emission, the sums of the two kinds of
\* weights, and the share of the orchestrators.
Settles(weights, orchWeights, emission, part, rest, share) ==
  /\ part = SumFunctionOnSet(weights, agentStake)
  /\ rest = SumFunctionOnSet(orchWeights, volumeEarners)
  /\ share * (part + rest) <= emission * rest
  /\ part + rest = 0 => share = 0
  /\ lastEraEmission' = emission
  /\ accRewardPerStake' = Grown(accRewardPerStake, emission, part + rest)
  /\ orchestratorGlobalAcc' = Grown(orchestratorGlobalAcc, share, rest)
  /\ agentLag' = Behind(agentLag) /\ orchestratorLag' = Behind(orchestratorLag)
  /\ agentWeightSnapshot' = [a \in Accounts |-> WeightAfter(weights, a)]
  /\ orchestratorWeightSnapshot' =
       [o \in Accounts |-> OrchestratorWeightAfter(orchWeights, o)]
  /\ volumeEarners' \subseteq volumeEarners
  /\ emissionOverrides' = Restrict(emissionOverrides, DOMAIN emissionOverrides \ {era})
  /\ UNCHANGED <<agents, agentRewardDebt, orchestratorRewardDebt, issuance>>

\* That is what settle_era does.
LEMMA Settlement ==
  ASSUME EmissionInv, IsFiniteSet(Accounts), NEW weights \in [agentStake -> Weights],
         NEW orchWeights \in [volumeEarners -> OrchestratorWeights],
         NEW volume \in Volumes, SettleEra(weights, orchWeights, volume)
  PROVE  \E emission \in Nat, part \in Nat, rest \in Nat, share \in Nat :
           Settles(weights, orchWeights, emission, part, rest, share)
<1> PICK emission \in Nat : emission = EraEmission(volume)
  BY EmissionType DEF EmissionInv
<1>0. /\ agentStake \subseteq Accounts /\ volumeEarners \subseteq Accounts
      /\ Weights \subseteq Nat /\ OrchestratorWeights \subseteq Nat
  BY RuntimeParameters DEF EmissionInv, EmissionTypes
<1>1. PICK part \in Nat : /\ part = SumFunction(weights)
                          /\ part = SumFunctionOnSet(weights, agentStake)
  BY <1>0, WeightsSum
<1>2. PICK rest \in Nat : /\ rest = SumFunction(orchWeights)
                          /\ rest = SumFunctionOnSet(orchWeights, volumeEarners)
  BY <1>0, WeightsSum
<1> PICK share : share = IF part + rest = 0 THEN 0
                         ELSE Capped(emission * rest) \div (part + rest)
  OBVIOUS
<1>3. /\ share \in Nat
      /\ part + rest = 0 => share = 0
      /\ share * (part + rest) <= emission * rest
  <2>1. emission * rest \in Nat
    BY SMT
  <2>2. CASE part + rest = 0
    <3>1. 0 * (part + rest) = 0
      BY <2>2
    <3> QED BY <2>1, <2>2, <3>1
  <2>3. CASE part + rest # 0
    <3>1. PICK scaled \in Nat : scaled = Capped(emission * rest) /\ scaled <= emission * rest
      BY <2>1, RuntimeParameters DEF Capped, Least
    <3>2. PICK whole \in Nat : whole = part + rest /\ whole > 0
      BY <2>3
    <3>3. scaled \div whole \in Nat /\ (scaled \div whole) * whole <= scaled
      BY <3>2, RoundsDown
    <3>4. PICK n \in Int : n = (scaled \div whole) * whole
      BY <3>3
    <3>5. (scaled \div whole) * whole <= emission * rest
      BY <2>1, <3>1, <3>3, <3>4
    <3> QED BY <2>3, <3>1, <3>2, <3>3, <3>5
  <2> QED BY <2>2, <2>3
<1>4. /\ lastEraEmission' = emission
      /\ accRewardPerStake' = Grown(accRewardPerStake, emission, part + rest)
      /\ agentLag' = Behind(agentLag)
      /\ agentWeightSnapshot' = [a \in Accounts |-> WeightAfter(weights, a)]
      /\ emissionOverrides' = Restrict(emissionOverrides, DOMAIN emissionOverrides \ {era})
      /\ UNCHANGED <<agents, agentRewardDebt, issuance>>
      /\ SettleOrchestrators(share, orchWeights, rest)
  BY <1>1, <1>2 DEF SettleEra
<1>5. /\ orchestratorGlobalAcc' = Grown(orchestratorGlobalAcc, share, rest)
      /\ orchestratorLag' = Behind(orchestratorLag)
      /\ orchestratorWeightSnapshot' =
           [o \in Accounts |-> OrchestratorWeightAfter(orchWeights, o)]
      /\ volumeEarners' \subseteq volumeEarners
      /\ UNCHANGED orchestratorRewardDebt
  BY <1>4 DEF SettleOrchestrators
<1>6. Settles(weights, orchWeights, emission, part, rest, share)
  BY <1>1, <1>2, <1>3, <1>4, <1>5 DEF Settles
<1> QED BY <1>3, <1>6

\* A settlement keeps the types, and leaves nobody up to date.
LEMMA InvSettle ==
  ASSUME EmissionInv, IsFiniteSet(Accounts), NEW weights \in [agentStake -> Weights],
         NEW orchWeights \in [volumeEarners -> OrchestratorWeights],
         NEW volume \in Volumes, SettleEra(weights, orchWeights, volume)
  PROVE  EmissionInv'
<1> PICK emission \in Nat, part \in Nat, rest \in Nat, share \in Nat :
        Settles(weights, orchWeights, emission, part, rest, share)
  BY Settlement
<1>1. /\ lastEraEmission' = emission
      /\ accRewardPerStake' = Grown(accRewardPerStake, emission, part + rest)
      /\ orchestratorGlobalAcc' = Grown(orchestratorGlobalAcc, share, rest)
      /\ agentLag' = Behind(agentLag) /\ orchestratorLag' = Behind(orchestratorLag)
      /\ agentWeightSnapshot' = [a \in Accounts |-> WeightAfter(weights, a)]
      /\ orchestratorWeightSnapshot' =
           [o \in Accounts |-> OrchestratorWeightAfter(orchWeights, o)]
      /\ volumeEarners' \subseteq volumeEarners
      /\ emissionOverrides' = Restrict(emissionOverrides, DOMAIN emissionOverrides \ {era})
      /\ UNCHANGED <<agents, agentRewardDebt, orchestratorRewardDebt, issuance>>
  BY DEF Settles
<1>2. accRewardPerStake' \in Nat /\ orchestratorGlobalAcc' \in Nat
  <2>1. /\ accRewardPerStake \in Nat /\ orchestratorGlobalAcc \in Nat /\ part + rest \in Nat
    BY DEF EmissionInv, EmissionTypes
  <2> QED BY <1>1, <2>1, GrownBound
<1>3. /\ agentLag' \in [Accounts -> Nat] /\ orchestratorLag' \in [Accounts -> Nat]
      /\ \A a \in Accounts : agentLag'[a] # 0 /\ orchestratorLag'[a] # 0
  BY <1>1, BehindType DEF EmissionInv, EmissionTypes
<1>4. agentWeightSnapshot' \in [Accounts -> Nat]
  <2>1. \A a \in Accounts : WeightAfter(weights, a) \in Nat
    BY RuntimeParameters DEF WeightAfter, EmissionInv, EmissionTypes
  <2> QED BY <1>1, <2>1
<1>5. orchestratorWeightSnapshot' \in [Accounts -> Nat]
  <2>1. \A o \in Accounts : OrchestratorWeightAfter(orchWeights, o) \in Nat
    BY RuntimeParameters DEF OrchestratorWeightAfter
  <2> QED BY <1>1, <2>1
<1>6. emissionOverrides' \in [DOMAIN emissionOverrides' -> Nat]
  BY <1>1 DEF Restrict, EmissionInv, EmissionTypes
<1> QED BY <1>1, <1>2, <1>3, <1>4, <1>5, <1>6
        DEF EmissionInv, EmissionTypes, DebtsUpToDate, SupplyCapHolds, agents

\* The rewards, before anybody is paid.
LEMMA PendingTypes ==
  ASSUME EmissionTypes, NEW a \in Accounts
  PROVE  AgentPending(a) \in Nat /\ OrchestratorPending(a) \in Nat
BY PendingBound DEF EmissionTypes, AgentPending, OrchestratorPending

\* Everything but a settlement keeps the invariant.
LEMMA InvAgentStep ==
  ASSUME EmissionInv, NEW a \in Accounts, AgentStep(a)
  PROVE  EmissionInv'
<1>1. CASE PayAgent(a)
  <2>1. /\ issuance + Mintable(AgentPending(a)) \in Nat
        /\ issuance + Mintable(AgentPending(a)) <= SupplyCap
    BY PendingTypes, MintableFits DEF EmissionInv, EmissionTypes, SupplyCapHolds
  <2> QED BY <1>1, <2>1 DEF PayAgent, Mint, EmissionInv, EmissionTypes, DebtsUpToDate,
             SupplyCapHolds, agents, orchestrators, schedule
<1>2. CASE Register(a)
  BY <1>2 DEF Register, DebtAtRegistration, EmissionInv, EmissionTypes, DebtsUpToDate,
     SupplyCapHolds, orchestrators, schedule, money
<1>3. CASE CompleteUnstake(a)
  BY <1>3 DEF CompleteUnstake, EmissionInv, EmissionTypes, DebtsUpToDate,
     SupplyCapHolds, rewards, orchestrators, schedule, money
<1>4. CASE StakeChanged(a) \/ Evicted(a)
  BY <1>4 DEF StakeChanged, Evicted, EmissionInv, EmissionTypes, DebtsUpToDate,
     SupplyCapHolds, agents, orchestrators, schedule, money
<1> QED BY <1>1, <1>2, <1>3, <1>4 DEF AgentStep, Claim, BatchClaim

\* So do the orchestrators' calls.
LEMMA InvOrchestratorStep ==
  ASSUME EmissionInv, NEW o \in Heads, OrchestratorStep(o)
  PROVE  EmissionInv'
<1>0. o \in Accounts
  BY RuntimeParameters
<1>1. CASE ClaimOrchestrator(o)
  <2>1. /\ issuance + Mintable(OrchestratorPending(o)) \in Nat
        /\ issuance + Mintable(OrchestratorPending(o)) <= SupplyCap
    BY <1>0, PendingTypes, MintableFits DEF EmissionInv, EmissionTypes, SupplyCapHolds
  <2> QED BY <1>0, <1>1, <2>1 DEF ClaimOrchestrator, Mint, EmissionInv, EmissionTypes,
             DebtsUpToDate, SupplyCapHolds, agents, rewards, schedule
<1>2. CASE RegisterOrchestrator(o)
  BY <1>0, <1>2 DEF RegisterOrchestrator, OrchestratorDebtAtRegistration, EmissionInv,
     EmissionTypes, DebtsUpToDate, SupplyCapHolds, agents, rewards, schedule, money
<1>3. CASE DeregisterOrchestrator(o) \/ AddOrchestratorVolume(o)
  BY <1>0, <1>3 DEF DeregisterOrchestrator, AddOrchestratorVolume, EmissionInv,
     EmissionTypes, DebtsUpToDate, SupplyCapHolds, agents, rewards, schedule, money
<1> QED BY <1>1, <1>2, <1>3 DEF OrchestratorStep

\* Every step keeps it.
LEMMA InvStep ==
  ASSUME IsFiniteSet(Accounts)
  PROVE  EmissionInv /\ [Next]_vars => EmissionInv'
<1> SUFFICES ASSUME EmissionInv, [Next]_vars PROVE EmissionInv'
  OBVIOUS
<1>1. CASE Tick \/ UNCHANGED vars
  BY <1>1 DEF Tick, vars, EmissionInv, EmissionTypes, DebtsUpToDate, SupplyCapHolds,
     agents, rewards, orchestrators, schedule, money
<1>2. CASE \E weights \in [agentStake -> Weights], volume \in Volumes,
             orchWeights \in [volumeEarners -> OrchestratorWeights] :
             SettleEra(weights, orchWeights, volume)
  BY <1>2, InvSettle
<1>3. CASE \E target \in 0 .. MaxBlock, amount \in Overrides :
             SetEraEmissionOverride(target, amount)
  BY <1>3, RuntimeParameters DEF SetEraEmissionOverride, EmissionInv, EmissionTypes,
     DebtsUpToDate, SupplyCapHolds, agents, rewards, orchestrators, money
<1>4. CASE \E amount \in Burns : Burn(amount)
  <2> PICK amount \in Burns : Burn(amount)
    BY <1>4
  <2>1. amount \in Nat /\ BurnFloor \in Nat
    BY RuntimeParameters
  <2>2. issuance' \in Nat /\ issuance' <= issuance
    BY <2>1 DEF Burn, EmissionInv, EmissionTypes
  <2>3. SupplyCapHolds'
    <3>1. issuance \in Nat /\ issuance <= SupplyCap /\ SupplyCap \in Nat
      BY RuntimeParameters DEF EmissionInv, EmissionTypes, SupplyCapHolds
    <3> QED BY ONLY <2>2, <3>1 DEF SupplyCapHolds
  <2>4. UNCHANGED <<unclaimed, agents, rewards, orchestrators, schedule>>
    BY DEF Burn
  <2>5. DebtsUpToDate'
    BY <2>4 DEF EmissionInv, DebtsUpToDate, agents, rewards, orchestrators, schedule
  <2>6. EmissionTypes'
    BY <2>2, <2>4 DEF EmissionInv, EmissionTypes, agents, rewards, orchestrators, schedule
  <2> QED BY <2>3, <2>5, <2>6 DEF EmissionInv
<1>5. CASE \E a \in Accounts : AgentStep(a)
  BY <1>5, InvAgentStep
<1>6. CASE \E o \in Heads : OrchestratorStep(o)
  BY <1>6, InvOrchestratorStep
<1> QED BY <1>1, <1>2, <1>3, <1>4, <1>5, <1>6 DEF Next

\* It holds at genesis.
LEMMA InvInit == Init => EmissionInv
BY RuntimeParameters DEF Init, EmissionInv, EmissionTypes, DebtsUpToDate, SupplyCapHolds

-----------------------------------------------------------------------------
(* The claims of those who miss no era.                                    *)

AgentDraw        == SumFunctionOnSet(AgentClaims, PromptAgents)
OrchestratorDraw == SumFunctionOnSet(OrchestratorClaims, PromptOrchestrators)

\* Claims are natural numbers, of finitely many.
LEMMA ClaimTypes ==
  (EmissionTypes /\ IsFiniteSet(Accounts)) =>
    /\ IsFiniteSet(PromptAgents) /\ IsFiniteSet(PromptOrchestrators)
    /\ \A a \in PromptAgents : AgentClaims[a] \in Nat /\ AgentClaims[a] = AgentPending(a)
    /\ \A o \in PromptOrchestrators :
         OrchestratorClaims[o] \in Nat /\ OrchestratorClaims[o] = OrchestratorPending(o)
    /\ AgentDraw \in Nat /\ OrchestratorDraw \in Nat
<1> SUFFICES ASSUME EmissionTypes, IsFiniteSet(Accounts)
             PROVE  /\ IsFiniteSet(PromptAgents) /\ IsFiniteSet(PromptOrchestrators)
                    /\ \A a \in PromptAgents :
                         AgentClaims[a] \in Nat /\ AgentClaims[a] = AgentPending(a)
                    /\ \A o \in PromptOrchestrators :
                         /\ OrchestratorClaims[o] \in Nat
                         /\ OrchestratorClaims[o] = OrchestratorPending(o)
                    /\ AgentDraw \in Nat /\ OrchestratorDraw \in Nat
  OBVIOUS
<1>1. PromptAgents \subseteq Accounts /\ PromptOrchestrators \subseteq Accounts
  BY DEF PromptAgents, PromptOrchestrators, EmissionTypes
<1>2. IsFiniteSet(PromptAgents) /\ IsFiniteSet(PromptOrchestrators)
  BY <1>1, FS_Subset
<1>3. \A a \in PromptAgents : AgentClaims[a] \in Nat /\ AgentClaims[a] = AgentPending(a)
  BY <1>1, PendingTypes DEF AgentClaims
<1>4. \A o \in PromptOrchestrators : /\ OrchestratorClaims[o] \in Nat
                                     /\ OrchestratorClaims[o] = OrchestratorPending(o)
  BY <1>1, PendingTypes DEF OrchestratorClaims
<1>5. AgentDraw \in Nat
  BY ONLY <1>2, <1>3, SumNat DEF AgentDraw
<1>6. OrchestratorDraw \in Nat
  BY ONLY <1>2, <1>4, SumNat DEF OrchestratorDraw
<1> QED BY <1>2, <1>3, <1>4, <1>5, <1>6

\* The property, by its parts.
LEMMA PromptByParts ==
  PromptClaimsCovered <=> AgentDraw + OrchestratorDraw <= lastEraEmission
<1>1. DOMAIN AgentClaims = PromptAgents /\ DOMAIN OrchestratorClaims = PromptOrchestrators
  BY DEF AgentClaims, OrchestratorClaims
<1> QED BY <1>1 DEF PromptClaimsCovered, SumFunction, AgentDraw, OrchestratorDraw, AgentClaims,
                    OrchestratorClaims, PromptAgents, PromptOrchestrators

\* A step that pays out or takes away, and gives nobody a claim.
LEMMA ClaimsShrink ==
  ASSUME EmissionTypes, EmissionTypes', IsFiniteSet(Accounts), PromptClaimsCovered,
         UNCHANGED lastEraEmission,
         \A a \in PromptAgents' :
           \/ AgentPending(a)' = 0
           \/ a \in PromptAgents /\ AgentPending(a)' = AgentPending(a),
         \A o \in PromptOrchestrators' :
           \/ OrchestratorPending(o)' = 0
           \/ o \in PromptOrchestrators /\ OrchestratorPending(o)' = OrchestratorPending(o)
  PROVE  PromptClaimsCovered'
<1> PICK S, T, f, g : S = PromptAgents' /\ T = PromptAgents
                      /\ f = AgentClaims' /\ g = AgentClaims
  OBVIOUS
<1> PICK P, Q, h, k : P = PromptOrchestrators' /\ Q = PromptOrchestrators
                      /\ h = OrchestratorClaims' /\ k = OrchestratorClaims
  OBVIOUS
<1>0. /\ IsFiniteSet(T) /\ IsFiniteSet(Q)
      /\ \A a \in T : g[a] \in Nat /\ g[a] = AgentPending(a)
      /\ \A o \in Q : k[o] \in Nat /\ k[o] = OrchestratorPending(o)
      /\ AgentDraw \in Nat /\ OrchestratorDraw \in Nat
  BY ClaimTypes
<1>1. ( /\ IsFiniteSet(PromptAgents) /\ IsFiniteSet(PromptOrchestrators)
        /\ \A a \in PromptAgents : AgentClaims[a] \in Nat /\ AgentClaims[a] = AgentPending(a)
        /\ \A o \in PromptOrchestrators :
             OrchestratorClaims[o] \in Nat /\ OrchestratorClaims[o] = OrchestratorPending(o)
        /\ AgentDraw \in Nat /\ OrchestratorDraw \in Nat )'
  BY ClaimTypes, PTL
<1>2. /\ IsFiniteSet(S) /\ IsFiniteSet(P)
      /\ \A a \in S : f[a] \in Nat /\ f[a] = AgentPending(a)'
      /\ \A o \in P : h[o] \in Nat /\ h[o] = OrchestratorPending(o)'
  BY <1>1
<1>3. \A a \in S : f[a] \in Nat /\ f[a] <= (IF a \in T THEN g[a] ELSE 0)
  BY <1>0, <1>2
<1>4. \A o \in P : h[o] \in Nat /\ h[o] <= (IF o \in Q THEN k[o] ELSE 0)
  BY <1>0, <1>2
<1>5. SumFunctionOnSet(f, S) <= SumFunctionOnSet(g, T)
  BY ONLY <1>0, <1>2, <1>3, SumWithin
<1>6. SumFunctionOnSet(h, P) <= SumFunctionOnSet(k, Q)
  BY ONLY <1>0, <1>2, <1>4, SumWithin
<1>7. /\ AgentDraw = SumFunctionOnSet(g, T) /\ OrchestratorDraw = SumFunctionOnSet(k, Q)
      /\ AgentDraw' = SumFunctionOnSet(f, S) /\ OrchestratorDraw' = SumFunctionOnSet(h, P)
  BY DEF AgentDraw, OrchestratorDraw
<1>8. AgentDraw' \in Nat /\ OrchestratorDraw' \in Nat
  BY <1>1
<1>9. AgentDraw + OrchestratorDraw <= lastEraEmission /\ lastEraEmission \in Nat
  BY PromptByParts DEF EmissionTypes
<1>10. AgentDraw' + OrchestratorDraw' <= lastEraEmission'
  BY <1>0, <1>5, <1>6, <1>7, <1>8, <1>9
<1>11. (PromptClaimsCovered <=> AgentDraw + OrchestratorDraw <= lastEraEmission)'
  BY PromptByParts, PTL
<1> QED BY <1>10, <1>11

\* The settlement divides the emission among those who were up to date.
LEMMA ClaimsSettled ==
  ASSUME EmissionInv, EmissionInv', IsFiniteSet(Accounts),
         NEW weights \in [agentStake -> Weights],
         NEW orchWeights \in [volumeEarners -> OrchestratorWeights],
         NEW volume \in Volumes, SettleEra(weights, orchWeights, volume)
  PROVE  PromptClaimsCovered'
<1> PICK emission \in Nat, part \in Nat, rest \in Nat, share \in Nat :
        Settles(weights, orchWeights, emission, part, rest, share)
  BY Settlement
<1>0. /\ AccScale \in Nat /\ AccScale > 0 /\ part + rest \in Nat
      /\ agentStake \subseteq Accounts /\ volumeEarners \subseteq Accounts
      /\ accRewardPerStake \in Nat /\ orchestratorGlobalAcc \in Nat
      /\ Weights \subseteq Nat /\ OrchestratorWeights \subseteq Nat
  BY RuntimeParameters DEF EmissionInv, EmissionTypes
<1>1. ( /\ IsFiniteSet(PromptAgents) /\ IsFiniteSet(PromptOrchestrators)
        /\ \A a \in PromptAgents : AgentClaims[a] \in Nat /\ AgentClaims[a] = AgentPending(a)
        /\ \A o \in PromptOrchestrators :
             OrchestratorClaims[o] \in Nat /\ OrchestratorClaims[o] = OrchestratorPending(o)
        /\ AgentDraw \in Nat /\ OrchestratorDraw \in Nat )'
  BY ClaimTypes, PTL DEF EmissionInv
<1> PICK S, f : S = PromptAgents' /\ f = AgentClaims'
  OBVIOUS
<1> PICK P, h : P = PromptOrchestrators' /\ h = OrchestratorClaims'
  OBVIOUS
<1>2. PICK rate \in Nat : /\ accRewardPerStake' <= accRewardPerStake + rate
                          /\ rate * (part + rest) <= emission * AccScale
  BY <1>0, GrownBound DEF Settles
<1>3. PICK orchRate \in Nat : /\ orchestratorGlobalAcc' <= orchestratorGlobalAcc + orchRate
                              /\ orchRate * rest <= share * AccScale
  BY <1>0, GrownBound DEF Settles
<1>4. /\ AgentDraw' \in Nat /\ AgentDraw' * AccScale <= rate * part
  <2>1. /\ S \subseteq agentStake /\ IsFiniteSet(agentStake) /\ IsFiniteSet(S)
        /\ \A a \in S : agentLag[a] = 0
    <3>1. S = {a \in agentStake : Behind(agentLag)[a] <= 1}
      BY DEF Settles, agents, PromptAgents
    <3>2. \A a \in Accounts : Behind(agentLag)[a] <= 1 => agentLag[a] = 0
      BY BehindType DEF EmissionInv, EmissionTypes
    <3>3. S \subseteq agentStake /\ \A a \in S : agentLag[a] = 0
      BY <1>0, <3>1, <3>2
    <3> QED BY <1>0, <3>3, FS_Subset
  <2>2. ASSUME NEW a \in S
        PROVE  f[a] \in Nat /\ weights[a] \in Nat /\ f[a] * AccScale <= rate * weights[a]
    <3>1. f[a] \in Nat /\ f[a] = AgentPending(a)'
      BY <1>1
    <3>2. a \in Accounts /\ weights[a] \in Nat /\ agentWeightSnapshot'[a] = weights[a]
      BY <1>0, <2>1 DEF Settles, WeightAfter
    <3>3. /\ agentRewardDebt'[a] = accRewardPerStake
      BY <2>1, <3>2 DEF Settles, EmissionInv, DebtsUpToDate
    <3>4. AgentPending(a)' = Pending(accRewardPerStake', accRewardPerStake, weights[a])
      BY <3>2, <3>3 DEF AgentPending
    <3>5. accRewardPerStake' \in Nat
      BY DEF EmissionInv, EmissionTypes
    <3>6. Pending(accRewardPerStake', accRewardPerStake, weights[a]) * AccScale
            <= rate * weights[a]
      BY ONLY <1>0, <1>2, <3>2, <3>5, PendingBound
    <3> QED BY <3>1, <3>2, <3>4, <3>6
  <2>3. rate \in Nat /\ AccScale \in Nat
    BY <1>0
  <2>4. SumFunctionOnSet(f, S) * AccScale <= rate * SumFunctionOnSet(weights, S)
    BY ONLY <2>1, <2>2, <2>3, SumOfParts
  <2>5. /\ \A a \in agentStake : weights[a] \in Nat
        /\ \A a \in S : /\ weights[a] \in Nat
                        /\ weights[a] <= (IF a \in agentStake THEN weights[a] ELSE 0)
    <3>1. \A a \in agentStake : weights[a] \in Nat
      BY <1>0
    <3> QED BY <2>1, <3>1
  <2>6. /\ SumFunctionOnSet(weights, S) <= SumFunctionOnSet(weights, agentStake)
    BY ONLY <2>1, <2>5, SumWithin
  <2>7. SumFunctionOnSet(weights, S) \in Nat
    BY ONLY <2>1, <2>5, SumNat
  <2>8. part = SumFunctionOnSet(weights, agentStake)
    BY DEF Settles
  <2>9. PICK some \in Nat : some = SumFunctionOnSet(weights, S) /\ some <= part
    BY <2>6, <2>7, <2>8
  <2>10. PICK drawn \in Nat : drawn = AgentDraw' /\ drawn = SumFunctionOnSet(f, S)
    BY <1>1 DEF AgentDraw
  <2>11. some * rate <= part * rate /\ some * rate \in Nat /\ part * rate \in Nat
    BY <2>9, Products
  <2>12. rate * some = some * rate /\ rate * part = part * rate
    OBVIOUS
  <2>13. drawn * AccScale \in Nat
    BY <1>0
  <2>14. drawn * AccScale <= rate * some
    BY <2>4, <2>9, <2>10
  <2>15. drawn * AccScale <= rate * part
    BY ONLY <2>11, <2>12, <2>13, <2>14
  <2> QED BY <2>10, <2>15
<1>5. OrchestratorDraw' \in Nat /\ OrchestratorDraw' * AccScale <= orchRate * rest
  <2> PICK w : w = orchestratorWeightSnapshot'
    OBVIOUS
  <2>1. P \subseteq Accounts /\ IsFiniteSet(P) /\ \A o \in P : orchestratorLag[o] = 0
    <3>1. P = {o \in Accounts : Behind(orchestratorLag)[o] <= 1}
      BY DEF Settles, PromptOrchestrators
    <3>2. \A o \in Accounts : Behind(orchestratorLag)[o] <= 1 => orchestratorLag[o] = 0
      BY BehindType DEF EmissionInv, EmissionTypes
    <3>3. P \subseteq Accounts /\ \A o \in P : orchestratorLag[o] = 0
      BY <3>1, <3>2
    <3> QED BY <3>3, FS_Subset
  <2>2. ASSUME NEW o \in P
        PROVE  h[o] \in Nat /\ w[o] \in Nat /\ h[o] * AccScale <= orchRate * w[o]
    <3>1. h[o] \in Nat /\ h[o] = OrchestratorPending(o)'
      BY <1>1
    <3>2. o \in Accounts /\ w[o] \in Nat
      BY <2>1 DEF EmissionInv, EmissionTypes
    <3>3. /\ orchestratorRewardDebt'[o] = orchestratorGlobalAcc
      BY <2>1, <3>2 DEF Settles, EmissionInv, DebtsUpToDate
    <3>4. OrchestratorPending(o)' = Pending(orchestratorGlobalAcc', orchestratorGlobalAcc, w[o])
      BY <3>2, <3>3 DEF OrchestratorPending
    <3>5. orchestratorGlobalAcc' \in Nat
      BY DEF EmissionInv, EmissionTypes
    <3>6. Pending(orchestratorGlobalAcc', orchestratorGlobalAcc, w[o]) * AccScale
            <= orchRate * w[o]
      BY ONLY <1>0, <1>3, <3>2, <3>5, PendingBound
    <3> QED BY <3>1, <3>2, <3>4, <3>6
  <2>3. orchRate \in Nat /\ AccScale \in Nat
    BY <1>0
  <2>4. SumFunctionOnSet(h, P) * AccScale <= orchRate * SumFunctionOnSet(w, P)
    BY ONLY <2>1, <2>2, <2>3, SumOfParts
  <2>5. /\ IsFiniteSet(volumeEarners)
        /\ \A o \in volumeEarners : orchWeights[o] \in Nat
        /\ \A o \in P : w[o] \in Nat
                        /\ w[o] <= (IF o \in volumeEarners THEN orchWeights[o] ELSE 0)
    <3>1. \A o \in Accounts : w[o] = IF o \in volumeEarners THEN orchWeights[o] ELSE 0
      BY DEF Settles, OrchestratorWeightAfter
    <3>2. IsFiniteSet(volumeEarners) /\ \A o \in volumeEarners : orchWeights[o] \in Nat
      BY <1>0, FS_Subset
    <3> QED BY <2>1, <3>1, <3>2
  <2>6. SumFunctionOnSet(w, P) <= SumFunctionOnSet(orchWeights, volumeEarners)
    BY ONLY <2>1, <2>5, SumWithin
  <2>7. SumFunctionOnSet(w, P) \in Nat
    BY ONLY <2>1, <2>5, SumNat
  <2>8. rest = SumFunctionOnSet(orchWeights, volumeEarners)
    BY DEF Settles
  <2>9. PICK some \in Nat : some = SumFunctionOnSet(w, P) /\ some <= rest
    BY <2>6, <2>7, <2>8
  <2>10. PICK drawn \in Nat : drawn = OrchestratorDraw' /\ drawn = SumFunctionOnSet(h, P)
    BY <1>1 DEF OrchestratorDraw
  <2>11. some * orchRate <= rest * orchRate /\ some * orchRate \in Nat /\ rest * orchRate \in Nat
    BY <2>9, Products
  <2>12. orchRate * some = some * orchRate /\ orchRate * rest = rest * orchRate
    OBVIOUS
  <2>13. drawn * AccScale \in Nat
    BY <1>0
  <2>14. drawn * AccScale <= orchRate * some
    BY <2>4, <2>9, <2>10
  <2>15. drawn * AccScale <= orchRate * rest
    BY ONLY <2>11, <2>12, <2>13, <2>14
  <2> QED BY <2>10, <2>15
<1>6. PICK one \in Nat, other \in Nat :
        /\ one = AgentDraw' /\ one * AccScale <= rate * part
        /\ other = OrchestratorDraw' /\ other * AccScale <= orchRate * rest
  BY <1>4, <1>5
<1>7. one * (part + rest) <= emission * part
  BY <1>0, <1>2, <1>6, PartOfEmission
<1>8. other <= share
  <2>1. other * AccScale <= share * AccScale
    <3>1. other * AccScale \in Nat /\ orchRate * rest \in Nat /\ share * AccScale \in Nat
      BY <1>0
    <3> QED BY ONLY <1>3, <1>6, <3>1
  <2> QED BY <1>0, <2>1, Cancels
<1>9. (PromptClaimsCovered <=> AgentDraw + OrchestratorDraw <= lastEraEmission)'
  BY PromptByParts, PTL
<1>10. CASE part + rest = 0
  <2>1. share = 0 /\ part = 0
    BY <1>10 DEF Settles
  <2>2. rate * part = 0
    <3>1. rate * 0 = 0
      OBVIOUS
    <3> QED BY <2>1, <3>1
  <2>3. 0 * AccScale = 0
    BY <1>0
  <2>4. one * AccScale <= 0 * AccScale
    BY ONLY <1>6, <2>2, <2>3
  <2>5. one <= 0
    BY <1>0, <2>4, Cancels
  <2>6. one + other <= emission
    BY <1>8, <2>1, <2>5
  <2>7. AgentDraw' + OrchestratorDraw' <= emission
    BY <1>6, <2>6
  <2> QED BY <1>9, <2>7 DEF Settles
<1>11. CASE part + rest > 0
  <2>1. other * (part + rest) <= emission * rest
    <3>1. /\ other * (part + rest) <= share * (part + rest)
          /\ other * (part + rest) \in Nat /\ share * (part + rest) \in Nat
      BY <1>0, <1>8, Products
    <3>2. share * (part + rest) <= emission * rest /\ emission * rest \in Nat
      BY DEF Settles
    <3> QED BY ONLY <3>1, <3>2
  <2>2. one + other <= emission
    BY <1>7, <1>11, <2>1, PartsOfEmission
  <2>3. AgentDraw' + OrchestratorDraw' <= emission
    BY <1>6, <2>2
  <2> QED BY <1>9, <2>3 DEF Settles
<1> QED BY <1>0, <1>10, <1>11

\* Nobody claims on a debt that is up to date, or without a weight.
NothingOwed ==
  \A a \in Accounts :
    /\ (accRewardPerStake = agentRewardDebt[a] \/ agentWeightSnapshot[a] = 0)
         => AgentPending(a) = 0
    /\ orchestratorGlobalAcc = orchestratorRewardDebt[a] => OrchestratorPending(a) = 0

\* That follows from the types.
LEMMA NothingPending == EmissionTypes => NothingOwed
BY PendingBound DEF NothingOwed, EmissionTypes, AgentPending, OrchestratorPending

\* An agent's call takes his own claim away, or leaves all of them.
LEMMA ClaimsAgentStep ==
  ASSUME EmissionInv, EmissionInv', IsFiniteSet(Accounts), PromptClaimsCovered,
         NEW a \in Accounts, AgentStep(a)
  PROVE  PromptClaimsCovered'
<1>1. NothingOwed'
  <2>1. EmissionTypes'
    BY DEF EmissionInv
  <2> QED BY <2>1, NothingPending, PTL
<1>2. /\ EmissionTypes /\ EmissionTypes' /\ PromptAgents' \subseteq Accounts
      /\ PromptOrchestrators' \subseteq Accounts
  BY DEF EmissionInv, EmissionTypes, PromptAgents, PromptOrchestrators
<1>3. UNCHANGED <<lastEraEmission, accRewardPerStake, orchestrators>>
  BY DEF AgentStep, Claim, BatchClaim, PayAgent, Register, CompleteUnstake, StakeChanged,
         Evicted, rewards, schedule
<1>4. \A x \in PromptAgents' :
        \/ accRewardPerStake' = agentRewardDebt'[x] \/ agentWeightSnapshot'[x] = 0
        \/ /\ x \in PromptAgents
           /\ agentRewardDebt'[x] = agentRewardDebt[x]
           /\ agentWeightSnapshot'[x] = agentWeightSnapshot[x]
  <2>1. CASE PayAgent(a)
    BY <1>2, <2>1 DEF PayAgent, agents, PromptAgents, EmissionTypes
  <2>2. CASE Register(a)
    BY <1>2, <2>2 DEF Register, DebtAtRegistration, PromptAgents, EmissionTypes
  <2>3. CASE CompleteUnstake(a)
    BY <1>2, <2>3 DEF CompleteUnstake, rewards, PromptAgents, EmissionTypes
  <2>4. CASE StakeChanged(a) \/ Evicted(a)
    BY <1>2, <2>4 DEF StakeChanged, Evicted, agents, PromptAgents, EmissionTypes
  <2> QED BY <2>1, <2>2, <2>3, <2>4 DEF AgentStep, Claim, BatchClaim
<1>5. \A x \in PromptAgents' :
        \/ AgentPending(x)' = 0
        \/ x \in PromptAgents /\ AgentPending(x)' = AgentPending(x)
  <2> SUFFICES ASSUME NEW x \in PromptAgents'
               PROVE  \/ AgentPending(x)' = 0
                      \/ x \in PromptAgents /\ AgentPending(x)' = AgentPending(x)
    OBVIOUS
  <2>1. CASE accRewardPerStake' = agentRewardDebt'[x] \/ agentWeightSnapshot'[x] = 0
    BY <1>1, <1>2, <2>1 DEF NothingOwed
  <2>2. CASE /\ x \in PromptAgents
             /\ agentRewardDebt'[x] = agentRewardDebt[x]
             /\ agentWeightSnapshot'[x] = agentWeightSnapshot[x]
    BY <1>3, <2>2 DEF AgentPending
  <2> QED BY <1>4, <2>1, <2>2
<1>6. \A o \in PromptOrchestrators' :
        \/ OrchestratorPending(o)' = 0
        \/ o \in PromptOrchestrators /\ OrchestratorPending(o)' = OrchestratorPending(o)
  BY <1>3 DEF orchestrators, PromptOrchestrators, OrchestratorPending
<1> QED BY <1>2, <1>3, <1>5, <1>6, ClaimsShrink

\* So does an orchestrator's.
LEMMA ClaimsOrchestratorStep ==
  ASSUME EmissionInv, EmissionInv', IsFiniteSet(Accounts), PromptClaimsCovered,
         NEW h \in Heads, OrchestratorStep(h)
  PROVE  PromptClaimsCovered'
<1>1. NothingOwed'
  <2>1. EmissionTypes'
    BY DEF EmissionInv
  <2> QED BY <2>1, NothingPending, PTL
<1>2. /\ EmissionTypes /\ EmissionTypes' /\ h \in Accounts
      /\ PromptOrchestrators' \subseteq Accounts
  BY RuntimeParameters DEF EmissionInv, PromptOrchestrators
<1>3. UNCHANGED <<lastEraEmission, agents, rewards, orchestratorGlobalAcc,
                  orchestratorWeightSnapshot>>
  BY DEF OrchestratorStep, RegisterOrchestrator, DeregisterOrchestrator,
         AddOrchestratorVolume, ClaimOrchestrator, schedule
<1>4. \A o \in PromptOrchestrators' :
        \/ orchestratorGlobalAcc' = orchestratorRewardDebt'[o]
        \/ o \in PromptOrchestrators /\ orchestratorRewardDebt'[o] = orchestratorRewardDebt[o]
  <2>1. CASE RegisterOrchestrator(h)
    BY <1>2, <2>1 DEF RegisterOrchestrator, OrchestratorDebtAtRegistration,
       PromptOrchestrators, EmissionTypes
  <2>2. CASE ClaimOrchestrator(h)
    BY <1>2, <2>2 DEF ClaimOrchestrator, PromptOrchestrators, EmissionTypes
  <2>3. CASE DeregisterOrchestrator(h) \/ AddOrchestratorVolume(h)
    BY <2>3 DEF DeregisterOrchestrator, AddOrchestratorVolume, PromptOrchestrators
  <2> QED BY <2>1, <2>2, <2>3 DEF OrchestratorStep
<1>5. \A o \in PromptOrchestrators' :
        \/ OrchestratorPending(o)' = 0
        \/ o \in PromptOrchestrators /\ OrchestratorPending(o)' = OrchestratorPending(o)
  <2> SUFFICES ASSUME NEW o \in PromptOrchestrators'
               PROVE  \/ OrchestratorPending(o)' = 0
                      \/ /\ o \in PromptOrchestrators
                         /\ OrchestratorPending(o)' = OrchestratorPending(o)
    OBVIOUS
  <2>1. CASE orchestratorGlobalAcc' = orchestratorRewardDebt'[o]
    BY <1>1, <1>2, <2>1 DEF NothingOwed
  <2>2. CASE /\ o \in PromptOrchestrators
             /\ orchestratorRewardDebt'[o] = orchestratorRewardDebt[o]
    BY <1>3, <2>2 DEF OrchestratorPending
  <2> QED BY <1>4, <2>1, <2>2
<1>6. \A a \in PromptAgents' :
        \/ AgentPending(a)' = 0
        \/ a \in PromptAgents /\ AgentPending(a)' = AgentPending(a)
  BY <1>3 DEF agents, rewards, PromptAgents, AgentPending
<1> QED BY <1>2, <1>3, <1>5, <1>6, ClaimsShrink

\* A step that touches no account leaves every claim.
LEMMA ClaimsUntouched ==
  ASSUME EmissionInv, EmissionInv', IsFiniteSet(Accounts), PromptClaimsCovered,
         UNCHANGED <<lastEraEmission, agents, rewards, orchestrators>>
  PROVE  PromptClaimsCovered'
<1>1. \A a \in PromptAgents' :
        \/ AgentPending(a)' = 0
        \/ a \in PromptAgents /\ AgentPending(a)' = AgentPending(a)
  BY DEF agents, rewards, PromptAgents, AgentPending
<1>2. \A o \in PromptOrchestrators' :
        \/ OrchestratorPending(o)' = 0
        \/ o \in PromptOrchestrators /\ OrchestratorPending(o)' = OrchestratorPending(o)
  BY DEF orchestrators, PromptOrchestrators, OrchestratorPending
<1> QED BY <1>1, <1>2, ClaimsShrink DEF EmissionInv

\* Every step keeps the claims covered.
LEMMA ClaimsStep ==
  ASSUME IsFiniteSet(Accounts)
  PROVE  EmissionInv /\ EmissionInv' /\ PromptClaimsCovered /\ [Next]_vars
           => PromptClaimsCovered'
<1> SUFFICES ASSUME EmissionInv, EmissionInv', PromptClaimsCovered, [Next]_vars
             PROVE  PromptClaimsCovered'
  OBVIOUS
<1>1. CASE \/ Tick
           \/ \E target \in 0 .. MaxBlock, amount \in Overrides :
                SetEraEmissionOverride(target, amount)
           \/ \E amount \in Burns : Burn(amount)
           \/ UNCHANGED vars
  <2>1. UNCHANGED <<lastEraEmission, agents, rewards, orchestrators>>
    BY <1>1 DEF Tick, SetEraEmissionOverride, Burn, vars, schedule
  <2> QED BY <2>1, ClaimsUntouched
<1>2. CASE \E weights \in [agentStake -> Weights], volume \in Volumes,
             orchWeights \in [volumeEarners -> OrchestratorWeights] :
             SettleEra(weights, orchWeights, volume)
  BY <1>2, ClaimsSettled
<1>3. CASE \E a \in Accounts : AgentStep(a)
  BY <1>3, ClaimsAgentStep
<1>4. CASE \E o \in Heads : OrchestratorStep(o)
  BY <1>4, ClaimsOrchestratorStep
<1> QED BY <1>1, <1>2, <1>3, <1>4 DEF Next

\* At genesis nobody has a claim.
LEMMA ClaimsInit ==
  ASSUME IsFiniteSet(Accounts), Init
  PROVE  PromptClaimsCovered
<1>1. EmissionTypes
  BY InvInit DEF EmissionInv
<1>2. /\ PromptAgents \subseteq Accounts /\ PromptOrchestrators \subseteq Accounts
      /\ \A a \in Accounts : AgentPending(a) = 0 /\ OrchestratorPending(a) = 0
  BY <1>1, NothingPending DEF NothingOwed, Init, EmissionTypes, PromptAgents, PromptOrchestrators
<1>3. /\ IsFiniteSet(PromptAgents) /\ IsFiniteSet(PromptOrchestrators)
      /\ \A a \in PromptAgents : AgentClaims[a] = 0
      /\ \A o \in PromptOrchestrators : OrchestratorClaims[o] = 0
  BY <1>2, FS_Subset DEF AgentClaims, OrchestratorClaims
<1>4. AgentDraw = 0
  BY ONLY <1>3, SumZero DEF AgentDraw
<1>5. OrchestratorDraw = 0
  BY ONLY <1>3, SumZero DEF OrchestratorDraw
<1>6. lastEraEmission = 0
  BY DEF Init
<1> QED BY <1>4, <1>5, <1>6, PromptByParts

-----------------------------------------------------------------------------
(* The theorems.                                                           *)

\* Issuance never passes the cap, whoever claims and in whatever order: every
\* claim is held against the room that is left when it is paid.
THEOREM IssuanceCapped ==
  ASSUME IsFiniteSet(Accounts)
  PROVE  Spec => []SupplyCapHolds
<1>1. EmissionInv /\ [Next]_vars => EmissionInv'
  BY InvStep
<1>2. EmissionInv => SupplyCapHolds
  BY DEF EmissionInv
<1> QED BY InvInit, <1>1, <1>2, PTL DEF Spec

\* The last emission pays everyone who claims era by era, agents and
\* orchestrators together, whatever happens to stakes, ranks and registrations
\* between two settlements.
THEOREM EmissionCoversThePrompt ==
  ASSUME IsFiniteSet(Accounts)
  PROVE  Spec => []PromptClaimsCovered
<1>1. EmissionInv /\ [Next]_vars => EmissionInv'
  BY InvStep
<1>2. Init => PromptClaimsCovered
  BY ClaimsInit
<1>3. EmissionInv /\ EmissionInv' /\ PromptClaimsCovered /\ [Next]_vars
        => PromptClaimsCovered'
  BY ClaimsStep
<1> QED BY InvInit, <1>1, <1>2, <1>3, PTL DEF Spec

=============================================================================
