----------------------------- MODULE EraClients -----------------------------
(***************************************************************************)
(* Programs that read the era clock over RPC and act on what they read:    *)
(* the settlement keepers, the operator's emission override, and the       *)
(* readers of the era (indexer and SDK).  Each read is a request of its    *)
(* own, answered at the best block of its moment; by the time a            *)
(* transaction is included, what it was decided on may be history.         *)
(***************************************************************************)
EXTENDS Integers, FiniteSets

CONSTANTS
  Keepers,             \* accounts a timer runs the keeper for
  EraDuration,
  MaxAhead,            \* MaxEmissionOverrideEras
  Schedule,            \* what an era emits without an override
  Amounts,             \* what the operator may set
  LastBlock,           \* bound: the last block
  Mixes,               \* bound: [funds, operator, reader]: the runs there may be
  None

ASSUME EraAssumption ==
  /\ EraDuration \in Nat \ {0}
  /\ MaxAhead \in Nat
  /\ LastBlock \in Nat

VARIABLES
  block, era, start, settled,  \* the chain: EraNumber, EraStartBlock, LastSettledEra
  overrides, minted,           \* EmissionOverrides; history: what each era emitted
  keeper,                      \* each keeper's run
  funds,                       \* settlements each keeper can still pay for
  operator,                    \* the override script's run
  promised,                    \* history: eras the script reported as set
  reader,                      \* a concurrent read of the era
  runsLeft

eraClock == <<block, era, start, settled, overrides, minted>>
eraVars == <<eraClock, keeper, funds, operator, promised, reader, runsLeft>>

Eras == 0..(LastBlock + MaxAhead)

KeeperRests   == [at |-> "rest", now |-> 0, start |-> 0, settled |-> None, era |-> 0]
OperatorRests == [at |-> "rest", eras |-> {}, amount |-> None, took |-> FALSE]
ReaderRests   == [toRead |-> {}, now |-> 0, start |-> 0, wasDue |-> FALSE, due |-> FALSE]

EraInit ==
  /\ block = 0 /\ era = 0 /\ start = 0 /\ settled = None
  /\ overrides = [e \in Eras |-> None] /\ minted = [e \in Eras |-> None]
  /\ keeper = [k \in Keepers |-> KeeperRests]
  /\ operator = OperatorRests /\ promised = [e \in Eras |-> None]
  /\ reader = ReaderRests
  /\ \E mix \in Mixes :
       funds = mix.funds /\ runsLeft = [operator |-> mix.operator, reader |-> mix.reader]

-----------------------------------------------------------------------------
(* The runtime's side.                                                     *)

IsDue == block >= start + EraDuration

Watched(now, began) ==
  [reader EXCEPT !.wasDue = @ \/ (reader.toRead # {} /\ now >= began + EraDuration)]

NextBlock ==
  /\ block < LastBlock
  /\ block' = block + 1
  /\ reader' = Watched(block + 1, start)
  /\ UNCHANGED <<era, start, settled, overrides, minted, keeper, funds, operator, promised, runsLeft>>

\* settle_era: the guard on time, then the era's emission and the next era.
SettleEraAccepted ==
  /\ era' = era + 1 /\ start' = block /\ settled' = era
  /\ minted' = [minted EXCEPT ![era] = IF overrides[era] = None THEN Schedule ELSE overrides[era]]
  /\ overrides' = [overrides EXCEPT ![era] = None]
  /\ UNCHANGED block

-----------------------------------------------------------------------------
(* keeper-settle-era: four reads in turn, then a transaction if both of    *)
(* the runtime's guards seem to pass.                                      *)

\* The runs of a keeper that cannot pay change nothing and are left out.
KeeperStarts(k) ==
  /\ keeper[k].at = "rest" /\ funds[k] > 0
  /\ keeper' = [keeper EXCEPT ![k] = [KeeperRests EXCEPT !.at = "start", !.now = block]]
  /\ UNCHANGED <<eraClock, funds, operator, promised, reader, runsLeft>>

KeeperReads(k) ==
  /\ \/ /\ keeper[k].at = "start"
        /\ keeper' = [keeper EXCEPT ![k].at = "settled", ![k].start = start]
     \/ /\ keeper[k].at = "settled"
        /\ keeper' = [keeper EXCEPT ![k].at = "era", ![k].settled = settled]
     \/ /\ keeper[k].at = "era"
        /\ keeper' = [keeper EXCEPT ![k].at = "decide", ![k].era = era]
  /\ UNCHANGED <<eraClock, funds, operator, promised, reader, runsLeft>>

\* A mutant: the era after the last settled one is taken to be settled too.
SeemsDueOneLate(run) ==
  /\ run.now >= run.start + EraDuration
  /\ run.settled = None \/ run.era > run.settled + 1

SeemsDue(run) ==
  /\ run.now >= run.start + EraDuration
  /\ run.settled = None \/ run.era > run.settled

KeeperDecides(k) ==
  /\ keeper[k].at = "decide"
  /\ keeper' = [keeper EXCEPT ![k] =
       IF SeemsDue(keeper[k]) /\ funds[k] > 0 THEN [KeeperRests EXCEPT !.at = "submitted"] ELSE KeeperRests]
  /\ UNCHANGED <<eraClock, funds, operator, promised, reader, runsLeft>>

\* Included, paid for, and refused by the runtime when another was first.
KeeperIncluded(k) ==
  /\ keeper[k].at = "submitted"
  /\ funds' = [funds EXCEPT ![k] = @ - 1]
  /\ keeper' = [keeper EXCEPT ![k] = KeeperRests]
  /\ IF IsDue THEN SettleEraAccepted ELSE UNCHANGED eraClock
  /\ UNCHANGED <<operator, promised, reader, runsLeft>>

-----------------------------------------------------------------------------
(* emissions-zero-override: the eras the guard lets it reach, as of the    *)
(* era it read, in one batch; judged by storage after finalization.        *)

\* --era names one era, as does --schedule-for, which sets what the formula
\* would have emitted; without either the whole reach is set.
OperatorStarts(amount) ==
  /\ operator.at = "rest" /\ runsLeft.operator > 0
  /\ runsLeft' = [runsLeft EXCEPT !.operator = @ - 1]
  /\ \E first \in {era + 1} \cup (IF amount = Schedule THEN {era + 2} ELSE {}) :
       operator' = [at |-> "submitted", amount |-> amount, took |-> FALSE,
                    eras |-> IF amount = Schedule THEN {first} ELSE first..(era + MaxAhead)]
  /\ UNCHANGED <<eraClock, keeper, funds, promised, reader>>

InReach(eras) == \A e \in eras : era < e /\ e <= era + MaxAhead

\* batchAll: one era out of reach undoes the others, and Sudid says so.
OperatorIncluded ==
  /\ operator.at = "submitted"
  /\ overrides' = IF InReach(operator.eras)
                  THEN [e \in Eras |-> IF e \in operator.eras THEN operator.amount ELSE overrides[e]]
                  ELSE overrides
  /\ promised' = IF InReach(operator.eras)
                 THEN [e \in Eras |-> IF e \in operator.eras THEN None ELSE promised[e]]
                 ELSE promised
  /\ operator' = [operator EXCEPT !.at = "verify", !.took = InReach(operator.eras)]
  /\ UNCHANGED <<block, era, start, settled, minted, keeper, funds, reader, runsLeft>>

\* A mutant: a finalized transaction is taken for a successful one.
ConfirmedByFinality(run) == TRUE

\* By the inner call's own result, and by what storage holds afterwards.
Confirmed(run) == run.took /\ \A e \in run.eras : overrides[e] = run.amount

OperatorVerifies ==
  /\ operator.at = "verify"
  /\ promised' = IF Confirmed(operator)
                 THEN [e \in Eras |-> IF e \in operator.eras THEN operator.amount ELSE promised[e]]
                 ELSE promised
  /\ operator' = OperatorRests
  /\ UNCHANGED <<eraClock, keeper, funds, reader, runsLeft>>

-----------------------------------------------------------------------------
(* The era as the indexer and the SDK show it: reads sent together and     *)
(* answered in any order, at whatever block each is answered.              *)

\* A mutant: the era's last block is taken for the one after it.
LooksDueEarly(now, began) == now + 1 - began >= EraDuration

LooksDue(now, began) == now - began >= EraDuration

ReaderStarts ==
  /\ reader.toRead = {} /\ runsLeft.reader > 0
  /\ runsLeft' = [runsLeft EXCEPT !.reader = @ - 1]
  /\ reader' = [ReaderRests EXCEPT !.toRead = {"now", "start"}, !.wasDue = IsDue]
  /\ UNCHANGED <<eraClock, keeper, funds, operator, promised>>

ReaderReads(item) ==
  /\ item \in reader.toRead
  /\ LET now   == IF item = "now" THEN block ELSE reader.now
         began == IF item = "start" THEN start ELSE reader.start
     IN  reader' = [reader EXCEPT !.toRead = @ \ {item}, !.now = now, !.start = began,
                      !.due = reader.toRead = {item} /\ LooksDue(now, began)]
  /\ UNCHANGED <<eraClock, keeper, funds, operator, promised, runsLeft>>

EraNext ==
  \/ NextBlock
  \/ \E k \in Keepers : KeeperStarts(k) \/ KeeperReads(k) \/ KeeperDecides(k) \/ KeeperIncluded(k)
  \/ \E amount \in Amounts : OperatorStarts(amount)
  \/ OperatorIncluded \/ OperatorVerifies
  \/ ReaderStarts \/ \E item \in {"now", "start"} : ReaderReads(item)

\* The timer runs the keepers, the node answers, blocks are made and include
\* what was submitted.
EraFairness ==
  /\ WF_eraVars(NextBlock)
  /\ \A k \in Keepers : WF_eraVars(KeeperStarts(k) \/ KeeperReads(k) \/ KeeperDecides(k) \/ KeeperIncluded(k))

EraSpec == EraInit /\ [][EraNext]_eraVars /\ EraFairness

-----------------------------------------------------------------------------
(* Properties.                                                             *)

\* Every era that falls due is settled in the end, by whichever keeper is
\* first, as long as one of them can pay: racing keepers, refusals and torn
\* reads cost fees but stop nobody (keeper-settle-era.mjs: a missed tick
\* corrects itself on the next).
ErasKeepSettling ==
  \A e \in 0..1 : (era = e /\ IsDue) ~> (era > e \/ \A k \in Keepers : funds[k] = 0)

\* What the override script reported as set is what those eras emit, unless a
\* later run sets them again (emissions-zero-override.mjs: the batch is judged
\* by storage, since a settlement between its reads and its inclusion moves
\* the reach of the lever).
OverrideHolds ==
  \A e \in Eras : promised[e] # None =>
    IF e >= era THEN overrides[e] = promised[e] ELSE minted[e] = promised[e]

\* "Due for settlement" is never shown of an era that was not due at any moment
\* of the read, torn as it may be (chainState.ts fetchCurrentEra, SDK eraInfo).
DueWasTrue == reader.due => reader.wasDue

=============================================================================
