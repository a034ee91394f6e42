--------------------------- MODULE ServicesProofs ---------------------------
(***************************************************************************)
(* Machine-checked facts about four of the programs that share nothing     *)
(* but the node, each for any instance of its own constants: the clients   *)
(* of an era, the root scripts, the faucet and the explorer.               *)
(*                                                                         *)
(* The clients of an era: what the override script reports comes true, and *)
(* an era is never shown as due that was not, for any keepers, any era     *)
(* length, any reach of the lever and any schedule.  A settlement needs a  *)
(* block of its own, so the eras never outrun the blocks; it clears the    *)
(* override of the era it closes, so an override still found in storage is *)
(* that of an era yet to be settled; and it makes the era that begins not  *)
(* due, so a reader that saw an earlier start or a later block read while  *)
(* the era was due.                                                        *)
(*                                                                         *)
(* The root scripts: what they report stays true, for any number of them   *)
(* run beside each other, any nodes, and forks of any depth.               *)
(*                                                                         *)
(* The faucet: its key never falls below the floor by more than the drips  *)
(* it serves at once and the transfers it gave up on.  While it serves,    *)
(* what the key holds covers every drip that passed the check and was not  *)
(* paid yet, but for those that read the balance before the others paid.   *)
(*                                                                         *)
(* The faucet's limiter: nobody is billed for more than it was given.  A   *)
(* grant that is handed back takes the newest stamp with it, which need    *)
(* not be its own, so stamps and grants cannot be matched one by one; what *)
(* is kept is that later than any time there are no more of the former.    *)
(*                                                                         *)
(* The explorer: every list figure was the indexer's answer at most one    *)
(* read's budget before the time shown beside it, stale figures included.  *)
(* The indexer holds final blocks, and a block that was final is final on  *)
(* every line to come, so an answer that was true of a height stays so.    *)
(***************************************************************************)
EXTENDS EraClients, RootScripts, Faucet, Explorer, FiniteSetTheorems, WellFoundedInduction,
        TLAPS

-----------------------------------------------------------------------------
(* The clock.                                                              *)

ClockRuns ==
  /\ block \in Nat /\ era \in Nat /\ start \in Nat
  /\ era <= start /\ start <= block /\ block <= LastBlock
  /\ DOMAIN overrides = Eras /\ DOMAIN minted = Eras

PastIsCleared == \A e \in Eras : e < era => overrides[e] = None

Clock == ClockRuns /\ PastIsCleared

LEMMA ClockInitially == EraInit => Clock
BY EraAssumption DEF EraInit, Clock, ClockRuns, PastIsCleared, Eras

\* What an accepted settlement does to the tables.
LEMMA Settled ==
  ASSUME Clock, IsDue, SettleEraAccepted
  PROVE  /\ era' = era + 1 /\ start' = block /\ block' = block /\ start < block
         /\ era \in Eras
         /\ DOMAIN overrides' = Eras /\ DOMAIN minted' = Eras
         /\ overrides'[era] = None
         /\ minted'[era] = IF overrides[era] = None THEN Schedule ELSE overrides[era]
         /\ \A e \in Eras \ {era} : overrides'[e] = overrides[e] /\ minted'[e] = minted[e]
<1>1. era' = era + 1 /\ start' = block /\ block' = block
  BY DEF SettleEraAccepted
<1>2. start < block
  BY EraAssumption DEF Clock, ClockRuns, IsDue
<1>3. era \in Eras
  BY <1>2, EraAssumption DEF Clock, ClockRuns, Eras
<1>4. /\ minted' = [minted EXCEPT ![era] = IF overrides[era] = None THEN Schedule ELSE overrides[era]]
      /\ overrides' = [overrides EXCEPT ![era] = None]
      /\ DOMAIN overrides = Eras /\ DOMAIN minted = Eras
  BY DEF SettleEraAccepted, Clock, ClockRuns
<1> QED BY <1>1, <1>2, <1>3, <1>4

LEMMA SettledKeepsClock ==
  ASSUME Clock, IsDue, SettleEraAccepted
  PROVE  Clock'
<1>1. ClockRuns'
  BY Settled DEF Clock, ClockRuns
<1>2. ASSUME NEW e \in Eras, e < era'
      PROVE  overrides'[e] = None
  <2>1. CASE e = era
    BY <2>1, Settled
  <2>2. CASE e # era
    <3>1. e < era
      BY <1>2, <2>2, Settled, EraAssumption DEF Eras, Clock, ClockRuns
    <3> QED BY <2>2, <3>1, Settled DEF Clock, PastIsCleared
  <2> QED BY <2>1, <2>2
<1> QED BY <1>1, <1>2 DEF Clock, PastIsCleared

LEMMA IncludedKeepsClock ==
  ASSUME Clock, OperatorIncluded
  PROVE  Clock'
<1>0. UNCHANGED <<block, era, start, minted>> /\ DOMAIN overrides' = Eras
  BY DEF OperatorIncluded, Clock, ClockRuns
<1>1. ASSUME NEW e \in Eras, e < era
      PROVE  overrides'[e] = None
  <2>1. overrides[e] = None
    BY <1>1 DEF Clock, PastIsCleared
  <2>2. CASE InReach(operator.eras)
    <3>1. e \notin operator.eras
      BY <1>1, <2>2, EraAssumption DEF InReach, Eras, Clock, ClockRuns
    <3>2. overrides' = [x \in Eras |-> IF x \in operator.eras THEN operator.amount ELSE overrides[x]]
      BY <2>2 DEF OperatorIncluded
    <3> QED BY <2>1, <3>1, <3>2
  <2>3. CASE ~ InReach(operator.eras)
    BY <2>1, <2>3 DEF OperatorIncluded
  <2> QED BY <2>2, <2>3
<1> QED BY <1>0, <1>1 DEF Clock, ClockRuns, PastIsCleared

\* Steps that leave the clock alone.
ClientStep ==
  \/ \E k \in Keepers : KeeperStarts(k) \/ KeeperReads(k) \/ KeeperDecides(k)
  \/ \E k \in Keepers : KeeperIncluded(k) /\ ~ IsDue
  \/ \E amount \in Amounts : OperatorStarts(amount)
  \/ OperatorVerifies \/ ReaderStarts \/ \E item \in {"now", "start"} : ReaderReads(item)
  \/ UNCHANGED eraVars

Settles == IsDue /\ \E k \in Keepers : KeeperIncluded(k)

LEMMA ClientStepIsAside == ClientStep => UNCHANGED eraClock
BY DEF ClientStep, KeeperStarts, KeeperReads, KeeperDecides, KeeperIncluded, OperatorStarts,
       OperatorVerifies, ReaderStarts, ReaderReads, eraVars

LEMMA StepKinds == [EraNext]_eraVars => NextBlock \/ Settles \/ OperatorIncluded \/ ClientStep
BY DEF EraNext, Settles, ClientStep

LEMMA ClockStep == Clock /\ [EraNext]_eraVars => Clock'
<1> SUFFICES ASSUME Clock, [EraNext]_eraVars PROVE Clock'
  OBVIOUS
<1>1. CASE NextBlock
  BY <1>1, EraAssumption DEF NextBlock, Clock, ClockRuns, PastIsCleared
<1>2. CASE Settles
  BY <1>2, SettledKeepsClock DEF Settles, KeeperIncluded
<1>3. CASE OperatorIncluded
  BY <1>3, IncludedKeepsClock
<1>4. CASE ClientStep
  BY <1>4, ClientStepIsAside DEF Clock, ClockRuns, PastIsCleared, eraClock
<1> QED BY <1>1, <1>2, <1>3, <1>4, StepKinds

LEMMA ClockAlways == EraSpec => []Clock
<1> QED BY ClockInitially, ClockStep, PTL DEF EraSpec

-----------------------------------------------------------------------------
(* The override script.                                                    *)

\* One era's promise, as OverrideHolds states it for all of them.
Kept(e) ==
  promised[e] # None =>
    IF e >= era THEN overrides[e] = promised[e] ELSE minted[e] = promised[e]

Promises == DOMAIN promised = Eras /\ \A e \in Eras : Kept(e)

LEMMA SettledKeepsPromises ==
  ASSUME Clock, Promises, Settles
  PROVE  Promises'
<1>1. SettleEraAccepted /\ IsDue /\ promised' = promised
  BY DEF Settles, KeeperIncluded
<1>2. ASSUME NEW e \in Eras
      PROVE  Kept(e)'
  <2>0. e \in Int /\ era \in Int /\ era' = era + 1
    BY <1>1, EraAssumption, Settled DEF Eras, Clock, ClockRuns
  <2>1. CASE e = era
    BY <1>1, <2>0, <2>1, Settled DEF Promises, Kept
  <2>2. CASE e # era
    <3>1. overrides'[e] = overrides[e] /\ minted'[e] = minted[e]
      BY <1>1, <2>2, Settled
    <3>2. e >= era' <=> e >= era
      BY <2>0, <2>2
    <3> QED BY <1>1, <3>1, <3>2 DEF Promises, Kept
  <2> QED BY <2>1, <2>2
<1> QED BY <1>1, <1>2 DEF Promises

LEMMA IncludedKeepsPromises ==
  ASSUME Clock, Promises, OperatorIncluded
  PROVE  Promises'
<1>1. CASE ~ InReach(operator.eras)
  BY <1>1 DEF OperatorIncluded, Promises, Kept
<1>2. CASE InReach(operator.eras)
  <2>1. /\ overrides' = [x \in Eras |-> IF x \in operator.eras THEN operator.amount ELSE overrides[x]]
        /\ promised' = [x \in Eras |-> IF x \in operator.eras THEN None ELSE promised[x]]
        /\ UNCHANGED <<era, minted>>
    BY <1>2 DEF OperatorIncluded
  <2>2. ASSUME NEW e \in Eras
        PROVE  Kept(e)'
    <3>1. CASE e \in operator.eras
      BY <2>1, <3>1 DEF Kept
    <3>2. CASE e \notin operator.eras
      BY <2>1, <3>2 DEF Kept, Promises
    <3> QED BY <3>1, <3>2
  <2> QED BY <2>1, <2>2 DEF Promises
<1> QED BY <1>1, <1>2

LEMMA VerifiesKeepsPromises ==
  ASSUME Clock, Promises, OperatorVerifies
  PROVE  Promises'
<1>0. UNCHANGED <<era, overrides, minted>>
  BY DEF OperatorVerifies, eraClock
<1>1. CASE ~ Confirmed(operator)
  BY <1>0, <1>1 DEF OperatorVerifies, Promises, Kept
<1>2. CASE Confirmed(operator)
  <2>1. promised' = [x \in Eras |-> IF x \in operator.eras THEN operator.amount ELSE promised[x]]
    BY <1>2 DEF OperatorVerifies
  <2>2. ASSUME NEW e \in Eras
        PROVE  Kept(e)'
    <3>1. CASE e \in operator.eras
      <4>1. overrides[e] = operator.amount /\ promised'[e] = operator.amount
        BY <1>2, <2>1, <3>1 DEF Confirmed
      <4>2. e < era => overrides[e] = None
        BY DEF Clock, PastIsCleared
      <4>3. e \in Int /\ era \in Int
        BY EraAssumption DEF Eras, Clock, ClockRuns
      <4> QED BY <1>0, <4>1, <4>2, <4>3 DEF Kept
    <3>2. CASE e \notin operator.eras
      BY <1>0, <2>1, <3>2 DEF Kept, Promises
    <3> QED BY <3>1, <3>2
  <2> QED BY <2>1, <2>2 DEF Promises
<1> QED BY <1>1, <1>2

LEMMA PromisesStep == Clock /\ Promises /\ [EraNext]_eraVars => Promises'
<1> SUFFICES ASSUME Clock, Promises, [EraNext]_eraVars PROVE Promises'
  OBVIOUS
<1>1. CASE NextBlock
  BY <1>1 DEF NextBlock, Promises, Kept
<1>2. CASE Settles
  BY <1>2, SettledKeepsPromises
<1>3. CASE OperatorIncluded
  BY <1>3, IncludedKeepsPromises
<1>4. CASE ClientStep
  <2>1. CASE OperatorVerifies
    BY <2>1, VerifiesKeepsPromises
  <2>2. CASE ~ OperatorVerifies
    <3>1. UNCHANGED <<eraClock, promised>>
      BY <1>4, <2>2, ClientStepIsAside
      DEF ClientStep, KeeperStarts, KeeperReads, KeeperDecides, KeeperIncluded, OperatorStarts,
          ReaderStarts, ReaderReads, eraVars
    <3> QED BY <3>1 DEF eraClock, Promises, Kept
  <2> QED BY <2>1, <2>2
<1> QED BY <1>1, <1>2, <1>3, <1>4, StepKinds

\* What the script reported is what the eras emit, for any reach of the lever
\* and however settlements fall between its reads, its inclusion and its
\* check of storage (emissions-zero-override.mjs).
THEOREM PromisedIsEmitted == EraSpec => []OverrideHolds
<1>1. EraInit => Promises
  BY DEF EraInit, Promises, Kept
<1>2. Promises => OverrideHolds
  BY DEF Promises, Kept, OverrideHolds
<1> QED BY <1>1, <1>2, PromisesStep, ClockAlways, PTL DEF EraSpec

-----------------------------------------------------------------------------
(* The readers of the era.                                                 *)

Items == {"now", "start"}

\* The read so far: it knows when the era was due, a block read is one the
\* chain has reached, and a start read earlier was overtaken only by a
\* settlement, which the era was due for.
ReadSoFar ==
  /\ reader.now \in Int /\ reader.start \in Int /\ reader.toRead \subseteq Items
  /\ reader.toRead # {} /\ IsDue => reader.wasDue
  /\ reader.toRead = {"start"} =>
       reader.now <= block /\ (reader.now >= start + EraDuration => reader.wasDue)
  /\ reader.toRead = {"now"} => reader.start = start \/ reader.wasDue
  /\ reader.due => reader.wasDue

ReaderFields ==
  reader = [toRead |-> reader.toRead, now |-> reader.now, start |-> reader.start,
            wasDue |-> reader.wasDue, due |-> reader.due]

ReadIsSound == ReaderFields /\ ReadSoFar

LEMMA ReadInitially == EraInit => ReadIsSound
BY DEF EraInit, ReadIsSound, ReaderFields, ReadSoFar, ReaderRests

LEMMA NextBlockRead ==
  ASSUME Clock, ReadIsSound, NextBlock
  PROVE  ReadIsSound'
<1>1. /\ block' = block + 1 /\ start' = start
      /\ reader' = [reader EXCEPT !.wasDue =
           reader.wasDue \/ (reader.toRead # {} /\ block + 1 >= start + EraDuration)]
  BY DEF NextBlock, Watched
<1>2. /\ reader'.toRead = reader.toRead /\ reader'.now = reader.now
      /\ reader'.start = reader.start /\ reader'.due = reader.due
      /\ reader'.wasDue = (reader.wasDue \/ (reader.toRead # {} /\ block + 1 >= start + EraDuration))
  BY <1>1 DEF ReadIsSound, ReaderFields
<1>3. ReaderFields'
  BY <1>1, <1>2 DEF ReadIsSound, ReaderFields
<1>4. /\ reader'.due <=> reader.due
      /\ reader'.wasDue <=> (reader.wasDue \/ (reader.toRead # {} /\ block + 1 >= start + EraDuration))
  BY <1>2
<1>5. ReadSoFar'
  BY <1>1, <1>2, <1>4, EraAssumption DEF ReadIsSound, ReadSoFar, IsDue, Clock, ClockRuns
<1> QED BY <1>3, <1>5 DEF ReadIsSound

LEMMA SettledRead ==
  ASSUME Clock, ReadIsSound, Settles
  PROVE  ReadIsSound'
<1>1. reader' = reader /\ block' = block /\ start' = block /\ start < block
  BY Settled DEF Settles, KeeperIncluded
<1>2. ~ IsDue'
  BY <1>1, EraAssumption DEF IsDue, Clock, ClockRuns
<1>3. IsDue
  BY DEF Settles
<1>4. ReadSoFar'
  BY <1>1, <1>2, <1>3, EraAssumption DEF ReadIsSound, ReadSoFar, Clock, ClockRuns
<1> QED BY <1>1, <1>4 DEF ReadIsSound, ReaderFields

LEMMA ReaderStartsRead ==
  ASSUME Clock, ReadIsSound, ReaderStarts
  PROVE  ReadIsSound'
<1>1. /\ reader' = [ReaderRests EXCEPT !.toRead = {"now", "start"}, !.wasDue = IsDue]
      /\ UNCHANGED <<block, start>>
  BY DEF ReaderStarts, eraClock
<1>2. /\ reader'.toRead = {"now", "start"} /\ reader'.now = 0 /\ reader'.start = 0
      /\ reader'.wasDue = IsDue /\ reader'.due = FALSE
  BY <1>1 DEF ReaderRests
<1>3. ReaderFields'
  BY <1>1 DEF ReaderFields, ReaderRests
<1>4. (reader'.wasDue <=> IsDue) /\ ~ reader'.due /\ (IsDue' <=> IsDue)
  BY <1>1, <1>2 DEF IsDue
<1>5. ReadSoFar'
  BY <1>2, <1>4 DEF ReadSoFar, Items
<1> QED BY <1>3, <1>5 DEF ReadIsSound

LEMMA ReaderReadsRead ==
  ASSUME Clock, ReadIsSound, NEW item \in Items, ReaderReads(item)
  PROVE  ReadIsSound'
<1> DEFINE now == IF item = "now" THEN block ELSE reader.now
           began == IF item = "start" THEN start ELSE reader.start
<1>1. /\ item \in reader.toRead /\ UNCHANGED <<block, start>>
      /\ reader' = [reader EXCEPT !.toRead = reader.toRead \ {item}, !.now = now, !.start = began,
                      !.due = reader.toRead = {item} /\ LooksDue(now, began)]
  BY DEF ReaderReads, eraClock
<1>2. /\ reader'.toRead = reader.toRead \ {item} /\ reader'.now = now /\ reader'.start = began
      /\ reader'.wasDue = reader.wasDue
      /\ reader'.due = (reader.toRead = {item} /\ LooksDue(now, began))
  BY <1>1 DEF ReadIsSound, ReaderFields
<1>3. ReaderFields'
  BY <1>1, <1>2 DEF ReadIsSound, ReaderFields
<1>4. now \in Int /\ began \in Int /\ block \in Int /\ start \in Int
  BY DEF ReadIsSound, ReadSoFar, Clock, ClockRuns
<1>5. reader.toRead = {item} \/ reader.toRead = {"now", "start"}
  BY <1>1 DEF ReadIsSound, ReadSoFar, Items
<1>6. CASE reader.toRead = {item}
  <2>1. reader'.toRead = {}
    BY <1>2, <1>6
  <2>2. LooksDue(now, began) => reader.wasDue
    <3>1. CASE item = "now"
      BY <1>4, <1>6, <3>1, EraAssumption DEF ReadIsSound, ReadSoFar, LooksDue, IsDue
    <3>2. CASE item = "start"
      BY <1>4, <1>6, <3>2, EraAssumption DEF ReadIsSound, ReadSoFar, LooksDue, IsDue
    <3> QED BY <3>1, <3>2 DEF Items
  <2> QED BY <1>2, <1>3, <1>4, <2>1, <2>2 DEF ReadIsSound, ReadSoFar, Items
<1>7. CASE reader.toRead = {"now", "start"}
  <2>1. reader'.due = FALSE
    BY <1>2, <1>7 DEF Items
  <2>2. CASE item = "now"
    <3>1. reader'.toRead = {"start"} /\ reader'.now = block
      BY <1>2, <1>7, <2>2
    <3> QED BY <1>1, <1>2, <1>3, <1>4, <1>7, <2>1, <3>1, EraAssumption
        DEF ReadIsSound, ReadSoFar, IsDue, Items
  <2>3. CASE item = "start"
    <3>1. reader'.toRead = {"now"} /\ reader'.start = start
      BY <1>2, <1>7, <2>3
    <3> QED BY <1>1, <1>2, <1>3, <1>4, <1>7, <2>1, <3>1 DEF ReadIsSound, ReadSoFar, IsDue, Items
  <2> QED BY <2>2, <2>3 DEF Items
<1> QED BY <1>5, <1>6, <1>7

LEMMA ReadStep == Clock /\ ReadIsSound /\ [EraNext]_eraVars => ReadIsSound'
<1> SUFFICES ASSUME Clock, ReadIsSound, [EraNext]_eraVars PROVE ReadIsSound'
  OBVIOUS
<1>1. CASE NextBlock
  BY <1>1, NextBlockRead
<1>2. CASE Settles
  BY <1>2, SettledRead
<1>3. CASE OperatorIncluded
  BY <1>3 DEF OperatorIncluded, ReadIsSound, ReaderFields, ReadSoFar, IsDue
<1>4. CASE ClientStep
  <2>1. CASE ReaderStarts
    BY <2>1, ReaderStartsRead
  <2>2. CASE \E item \in {"now", "start"} : ReaderReads(item)
    BY <2>2, ReaderReadsRead DEF Items
  <2>3. CASE ~ ReaderStarts /\ ~ \E item \in {"now", "start"} : ReaderReads(item)
    <3>1. UNCHANGED <<eraClock, reader>>
      BY <1>4, <2>3, ClientStepIsAside
      DEF ClientStep, KeeperStarts, KeeperReads, KeeperDecides, KeeperIncluded, OperatorStarts,
          OperatorVerifies, eraVars
    <3> QED BY <3>1 DEF eraClock, ReadIsSound, ReaderFields, ReadSoFar, IsDue
  <2> QED BY <2>1, <2>2, <2>3
<1> QED BY <1>1, <1>2, <1>3, <1>4, StepKinds

\* However the reads of the block and of the era's start are torn by blocks
\* and settlements, what is shown as due was due during the read
\* (fetchCurrentEra, eraInfo).
THEOREM ShownDueWasDue == EraSpec => []DueWasTrue
<1>1. ReadIsSound => DueWasTrue
  BY DEF ReadIsSound, ReadSoFar, DueWasTrue
<1> QED BY <1>1, ReadInitially, ReadStep, ClockAlways, PTL DEF EraSpec

-----------------------------------------------------------------------------
(* The root scripts.                                                       *)

ScriptStates == {"idle", "connected", "checked", "submitted", "reading back",
                 "polling", "reported", "failed", "rested"}
RootKeys == {Alice} \cup {invoked[s].target : invoked \in Plans, s \in Scripts}

RootBlock(senders) ==
  [script : senders, result : {"ok", "refused", "inner error"}, key : RootKeys, spec : Int]

RootTypes ==
  /\ plan \in Plans
  /\ final \in Seq(RootBlock(Scripts \cup {Unknown})) /\ final # <<>>
  /\ tip \in Seq(RootBlock(Scripts))
  /\ script \in [Scripts -> [at : ScriptStates, seen : [Ports -> Int \cup {Unknown}]]]

\* A runtime is only ever replaced by a newer one.
VersionsGrow ==
  /\ \A i, j \in 1..Len(final) : i <= j => final[i].spec <= final[j].spec
  /\ \A i \in 1..Len(final), j \in 1..Len(tip) : final[i].spec <= tip[j].spec
  /\ \A i, j \in 1..Len(tip) : i <= j => tip[i].spec <= tip[j].spec

\* A rotation that took has left its target as root.
Rotates(entry) ==
  entry.script \in Scripts /\ entry.result = "ok" /\ plan[entry.script].kind = "rotate"
    => entry.key = plan[entry.script].target

RotationsTake ==
  /\ \A i \in 1..Len(final) : Rotates(final[i])
  /\ \A i \in 1..Len(tip) : Rotates(tip[i])

\* The final block a verdict rests on, and what the ports may have said since.
Backed(s, i) ==
  /\ final[i].script = s /\ final[i].result = "ok"
  /\ \A p \in Ports : \/ script[s].seen[p] = Unknown
                      \/ script[s].seen[p] <= final[i - 1].spec
                      \/ script[s].seen[p] >= final[i].spec

HasBlock(s) == \E i \in 2..Len(final) : Backed(s, i)

Verdict(s) ==
  /\ script[s].at \in {"reading back", "polling", "reported"} => HasBlock(s)
  /\ script[s].at = "reading back" => plan[s].kind = "rotate"
  /\ script[s].at = "polling" => plan[s].kind = "code"
  /\ script[s].at = "reported" /\ plan[s].kind = "code" =>
       \A p \in Ports : script[s].seen[p] = plan[s].expect
  /\ script[s].at \in {"idle", "connected", "checked", "submitted"} =>
       \A p \in Ports : script[s].seen[p] = Unknown

Verdicts == \A s \in Scripts : Verdict(s)

RootInv == RootTypes /\ VersionsGrow /\ RotationsTake /\ Verdicts

\* What a block of a script's transactions is made of.
LEMMA BlockFields ==
  ASSUME RootTypes
  PROVE  /\ \A i \in 1..Len(final) : final[i].spec \in Int
         /\ \A i \in 1..Len(tip) : tip[i].spec \in Int /\ tip[i].script \in Scripts
<1>1. \A i \in 1..Len(final) : final[i] \in RootBlock(Scripts \cup {Unknown})
  BY DEF RootTypes
<1>2. \A i \in 1..Len(tip) : tip[i] \in RootBlock(Scripts)
  BY DEF RootTypes
<1>3. \A entry \in RootBlock(Scripts \cup {Unknown}) : entry.spec \in Int
  BY DEF RootBlock
<1>4. \A entry \in RootBlock(Scripts) : entry.spec \in Int /\ entry.script \in Scripts
  BY DEF RootBlock
<1> QED BY <1>1, <1>2, <1>3, <1>4

\* The blocks that are final stay, so a script that rests keeps its verdict.
LEMMA VerdictKept ==
  ASSUME NEW s \in Scripts, Verdict(s), script'[s] = script[s], plan' = plan,
         \A i \in 2..Len(final) :
           i \in 2..Len(final') /\ final'[i] = final[i] /\ final'[i - 1] = final[i - 1]
  PROVE  Verdict(s)'
<1>1. ASSUME HasBlock(s) PROVE HasBlock(s)'
  <2>1. PICK i \in 2..Len(final) : Backed(s, i)
    BY <1>1 DEF HasBlock
  <2>2. i \in 2..Len(final') /\ Backed(s, i)'
    BY <2>1 DEF Backed
  <2> QED BY <2>2 DEF HasBlock
<1> QED BY <1>1 DEF Verdict

LEMMA FailedIsNoVerdict ==
  ASSUME NEW s \in Scripts, script'[s].at \in {"failed", "rested"}
  PROVE  Verdict(s)'
BY DEF Verdict

-----------------------------------------------------------------------------
(* One script moves on, and nothing else of it changes.                      *)

LEMMA OneMoves ==
  ASSUME RootTypes, NEW s \in Scripts, NEW x \in ScriptStates, Becomes(s, x)
  PROVE  /\ script' \in [Scripts -> [at : ScriptStates, seen : [Ports -> Int \cup {Unknown}]]]
         /\ script'[s].at = x /\ script'[s].seen = script[s].seen
         /\ \A t \in Scripts \ {s} : script'[t] = script[t]
BY DEF RootTypes, Becomes

\* Before the chain is asked to take anything.
LEMMA EarlyStep ==
  ASSUME RootInv, NEW s \in Scripts, NEW x \in {"connected", "checked", "submitted", "rested", "failed"},
         Becomes(s, x), UNCHANGED <<plan, rootChain>>,
         x \in {"rested", "failed"} \/ script[s].at \in {"idle", "connected", "checked"}
  PROVE  RootInv'
<1>1. x \in ScriptStates
  BY DEF ScriptStates
<1>2. /\ script' \in [Scripts -> [at : ScriptStates, seen : [Ports -> Int \cup {Unknown}]]]
      /\ script'[s].at = x /\ script'[s].seen = script[s].seen
      /\ \A t \in Scripts \ {s} : script'[t] = script[t]
  BY <1>1, OneMoves DEF RootInv
<1>3. plan' = plan /\ final' = final /\ tip' = tip
  BY DEF rootChain
<1>4. RootTypes' /\ VersionsGrow' /\ RotationsTake'
  BY <1>2, <1>3 DEF RootInv, RootTypes, VersionsGrow, RotationsTake, Rotates, RootBlock
<1>5. ASSUME NEW t \in Scripts PROVE Verdict(t)'
  <2>1. Verdict(t)
    BY DEF RootInv, Verdicts
  <2>2. CASE t # s
    BY <1>2, <1>3, <2>1, <2>2, VerdictKept
  <2>3. CASE t = s /\ x \in {"rested", "failed"}
    BY <1>2, <2>3, FailedIsNoVerdict
  <2>4. CASE t = s /\ x \notin {"rested", "failed"}
    <3>1. x \in {"connected", "checked", "submitted"} /\ script[s].at \in {"idle", "connected", "checked"}
      BY <2>4
    <3>2. \A p \in Ports : script[s].seen[p] = Unknown
      BY <2>1, <2>4, <3>1 DEF Verdict
    <3> QED BY <1>2, <2>4, <3>1, <3>2 DEF Verdict
  <2> QED BY <2>2, <2>3, <2>4
<1> QED BY <1>4, <1>5 DEF RootInv, Verdicts

-----------------------------------------------------------------------------
(* The chain.                                                                *)

LEMMA BestIsLast ==
  ASSUME RootTypes, VersionsGrow
  PROVE  /\ BestBlock \in RootBlock(Scripts \cup {Unknown})
         /\ \A i \in 1..Len(final) : final[i].spec <= BestBlock.spec
         /\ \A i \in 1..Len(tip) : tip[i].spec <= BestBlock.spec
<1>1. CASE tip = <<>>
  <2>1. Len(final) \in 1..Len(final) /\ BestBlock = final[Len(final)]
    BY <1>1 DEF RootTypes, BestBlock, Last
  <2>2. Len(tip) = 0
    BY <1>1
  <2> QED BY <2>1, <2>2 DEF RootTypes, VersionsGrow
<1>2. CASE tip # <<>>
  <2>1. Len(tip) \in 1..Len(tip) /\ BestBlock = tip[Len(tip)]
    BY <1>2 DEF RootTypes, BestBlock, Last
  <2>2. tip[Len(tip)] \in RootBlock(Scripts)
    BY <2>1 DEF RootTypes
  <2>3. BestBlock \in RootBlock(Scripts \cup {Unknown})
    BY <2>1, <2>2 DEF RootBlock
  <2>4. \A i \in 1..Len(tip) : i <= Len(tip)
    BY <2>1
  <2> QED BY <2>1, <2>3, <2>4 DEF VersionsGrow
<1> QED BY <1>1, <1>2

LEMMA ABlock ==
  ASSUME NEW S, NEW a \in S, NEW r \in {"ok", "refused", "inner error"}, NEW k \in RootKeys, NEW v \in Int
  PROVE  [script |-> a, result |-> r, key |-> k, spec |-> v] \in RootBlock(S)
BY DEF RootBlock

LEMMA NewBlock ==
  ASSUME RootTypes, VersionsGrow, NEW s \in Scripts
  PROVE  /\ BlockWith(s) \in RootBlock(Scripts)
         /\ BlockWith(s).script = s
         /\ BlockWith(s).spec >= BestBlock.spec
         /\ Rotates(BlockWith(s))
<1>1. BestBlock \in RootBlock(Scripts \cup {Unknown})
  BY BestIsLast
<1>2. BestBlock.spec \in Int /\ BestBlock.key \in RootKeys
  BY <1>1 DEF RootBlock
<1>3. plan[s].spec \in Int /\ plan[s].target \in RootKeys
  BY RootAssumption DEF RootTypes, RootKeys
<1> DEFINE result == Dispatch(plan[s], BestBlock)
<1>4. result \in {"ok", "refused", "inner error"}
  BY DEF Dispatch
<1>5. result = "ok" /\ plan[s].kind = "code" => plan[s].spec > BestBlock.spec
  BY <1>2, <1>3 DEF Dispatch, InnerTakes
<1>6. BlockWith(s) = [script |-> s, result |-> result,
         key  |-> IF result = "ok" /\ plan[s].kind = "rotate" THEN plan[s].target ELSE BestBlock.key,
         spec |-> IF result = "ok" /\ plan[s].kind = "code" THEN plan[s].spec ELSE BestBlock.spec]
  BY DEF BlockWith
<1> HIDE DEF result
<1>7. BlockWith(s).key \in RootKeys /\ BlockWith(s).spec \in Int /\ BlockWith(s).spec >= BestBlock.spec
  BY <1>2, <1>3, <1>5, <1>6
<1>8. BlockWith(s) \in RootBlock(Scripts)
  <2> DEFINE key  == IF result = "ok" /\ plan[s].kind = "rotate" THEN plan[s].target ELSE BestBlock.key
             spec == IF result = "ok" /\ plan[s].kind = "code" THEN plan[s].spec ELSE BestBlock.spec
  <2>1. key \in RootKeys /\ spec \in Int
    BY <1>2, <1>3
  <2>2. BlockWith(s) = [script |-> s, result |-> result, key |-> key, spec |-> spec]
    BY <1>6
  <2> HIDE DEF key, spec
  <2> QED BY <1>4, <2>1, <2>2, ABlock
<1>9. Rotates(BlockWith(s))
  BY <1>6 DEF Rotates
<1> QED BY <1>6, <1>7, <1>8, <1>9

LEMMA IncludeStep ==
  ASSUME RootInv, NEW s \in Scripts, IncludeRootCall(s)
  PROVE  RootInv'
<1> DEFINE b == BlockWith(s)
<1>1. /\ b \in RootBlock(Scripts) /\ b.script = s /\ b.spec >= BestBlock.spec /\ Rotates(b)
  BY NewBlock DEF RootInv
<1>2. /\ BestBlock.spec \in Int
      /\ \A i \in 1..Len(final) : final[i].spec <= BestBlock.spec
      /\ \A i \in 1..Len(tip) : tip[i].spec <= BestBlock.spec
  BY BestIsLast DEF RootInv, RootBlock
<1>3. plan' = plan /\ final' = final /\ tip' = Append(tip, b)
  BY DEF IncludeRootCall
<1>4. script' = script \/ Becomes(s, "failed")
  BY DEF IncludeRootCall, Becomes
<1> HIDE DEF b
<1>5. /\ tip' \in Seq(RootBlock(Scripts)) /\ Len(tip') = Len(tip) + 1 /\ Len(tip) \in Nat
      /\ \A i \in 1..Len(tip) : tip'[i] = tip[i]
      /\ tip'[Len(tip) + 1] = b
  BY <1>1, <1>3 DEF RootInv, RootTypes
<1>6. b.spec \in Int
  BY <1>1 DEF RootBlock
<1>7. /\ \A i \in 1..Len(final) : final[i].spec \in Int
      /\ \A i \in 1..Len(tip) : tip[i].spec \in Int
  BY BlockFields DEF RootInv
<1>8. VersionsGrow'
  <2>1. \A i \in 1..Len(final) : final[i].spec <= b.spec
    BY <1>1, <1>2, <1>6, <1>7
  <2>2. \A i \in 1..Len(tip) : tip[i].spec <= b.spec
    BY <1>1, <1>2, <1>6, <1>7
  <2>3. \A j \in 1..Len(tip') : j \in 1..Len(tip) \/ j = Len(tip) + 1
    BY <1>5
  <2>4. \A i \in 1..Len(final), j \in 1..Len(tip') : final[i].spec <= tip'[j].spec
    BY <1>5, <2>1, <2>3 DEF RootInv, VersionsGrow
  <2>5. \A i, j \in 1..Len(tip') : i <= j => tip'[i].spec <= tip'[j].spec
    BY <1>5, <1>6, <2>2, <2>3 DEF RootInv, VersionsGrow
  <2> QED BY <1>3, <2>4, <2>5 DEF RootInv, VersionsGrow
<1>9. RotationsTake'
  BY <1>1, <1>3, <1>5 DEF RootInv, RotationsTake, Rotates
<1>10. /\ script' \in [Scripts -> [at : ScriptStates, seen : [Ports -> Int \cup {Unknown}]]]
       /\ \A t \in Scripts : script'[t] = script[t] \/ script'[t].at = "failed"
  <2>1. CASE script' = script
    BY <2>1 DEF RootInv, RootTypes
  <2>2. CASE Becomes(s, "failed")
    <3>1. "failed" \in ScriptStates
      BY DEF ScriptStates
    <3> QED BY <2>2, <3>1, OneMoves DEF RootInv
  <2> QED BY <1>4, <2>1, <2>2
<1>11. RootTypes'
  BY <1>3, <1>5, <1>10 DEF RootInv, RootTypes
<1>12. Verdicts'
  <2>1. ASSUME NEW t \in Scripts PROVE Verdict(t)'
    <3>1. CASE script'[t] = script[t]
      BY <1>3, <3>1, VerdictKept DEF RootInv, Verdicts
    <3>2. CASE script'[t].at = "failed"
      BY <3>2, FailedIsNoVerdict
    <3> QED BY <1>10, <3>1, <3>2
  <2> QED BY <2>1 DEF Verdicts
<1> QED BY <1>8, <1>9, <1>11, <1>12 DEF RootInv

LEMMA RetractStep ==
  ASSUME RootInv, RetractTip
  PROVE  RootInv'
<1>1. plan' = plan /\ final' = final /\ script' = script /\ tip' = <<>>
  BY DEF RetractTip
<1>2. Len(tip') = 0 /\ tip' \in Seq(RootBlock(Scripts))
  BY <1>1
<1>3. RootTypes' /\ VersionsGrow' /\ RotationsTake'
  BY <1>1, <1>2 DEF RootInv, RootTypes, VersionsGrow, RotationsTake, Rotates
<1>4. Verdicts'
  BY <1>1, VerdictKept DEF RootInv, Verdicts
<1> QED BY <1>3, <1>4 DEF RootInv

LEMMA FinalizeStep ==
  ASSUME RootInv, FinalizeBlock
  PROVE  RootInv'
<1>1. tip # <<>> /\ final' = Append(final, Head(tip)) /\ tip' = Tail(tip) /\ plan' = plan
  BY DEF FinalizeBlock
<1>0. PICK b \in RootBlock(Scripts) : b = tip[1]
  BY <1>1 DEF RootInv, RootTypes
<1> DEFINE s == b.script
<1>2. /\ Head(tip) = b /\ b \in RootBlock(Scripts) /\ 1 \in 1..Len(tip)
      /\ Len(tip) \in Nat /\ Len(tip') = Len(tip) - 1
      /\ tip' \in Seq(RootBlock(Scripts))
      /\ \A i \in 1..Len(tip') : i + 1 \in 1..Len(tip) /\ tip'[i] = tip[i + 1]
  BY <1>0, <1>1 DEF RootInv, RootTypes
<1>3. s \in Scripts /\ b.spec \in Int
  BY <1>2 DEF RootBlock
<1>4. b \in RootBlock(Scripts \cup {Unknown})
  BY <1>2 DEF RootBlock
<1>5. /\ Len(final) \in Nat \ {0} /\ Len(final') = Len(final) + 1
      /\ final' \in Seq(RootBlock(Scripts \cup {Unknown})) /\ final' # <<>>
      /\ \A i \in 1..Len(final) : final'[i] = final[i]
      /\ final'[Len(final) + 1] = b
  BY <1>1, <1>2, <1>4 DEF RootInv, RootTypes
<1>6. \A i \in 1..Len(final') : i \in 1..Len(final) \/ i = Len(final) + 1
  BY <1>5
<1>7. VersionsGrow'
  <2>1. \A i \in 1..Len(final) : final[i].spec <= b.spec
    BY <1>0, <1>2 DEF RootInv, VersionsGrow
  <2>2. \A i, j \in 1..Len(final') : i <= j => final'[i].spec <= final'[j].spec
    BY <1>3, <1>5, <1>6, <2>1 DEF RootInv, VersionsGrow
  <2>3. \A j \in 1..Len(tip') : b.spec <= tip'[j].spec
    <3>1. TAKE j \in 1..Len(tip')
    <3>2. j + 1 \in 1..Len(tip) /\ tip'[j] = tip[j + 1] /\ 1 <= j + 1
      BY <1>2
    <3> QED BY <1>0, <1>2, <3>2 DEF RootInv, VersionsGrow
  <2>4. \A i \in 1..Len(final'), j \in 1..Len(tip') : final'[i].spec <= tip'[j].spec
    BY <1>2, <1>5, <1>6, <2>3 DEF RootInv, VersionsGrow
  <2>5. \A i, j \in 1..Len(tip') : i <= j => tip'[i].spec <= tip'[j].spec
    <3>1. TAKE i, j \in 1..Len(tip')
    <3>2. /\ i + 1 \in 1..Len(tip) /\ tip'[i] = tip[i + 1]
          /\ j + 1 \in 1..Len(tip) /\ tip'[j] = tip[j + 1]
          /\ i <= j => i + 1 <= j + 1
      BY <1>2
    <3> QED BY <3>2 DEF RootInv, VersionsGrow
  <2> QED BY <2>2, <2>4, <2>5 DEF VersionsGrow
<1>8. RotationsTake'
  <2>1. Rotates(b)
    BY <1>0, <1>2 DEF RootInv, RotationsTake
  <2> QED BY <1>1, <1>2, <1>5, <1>6, <2>1 DEF RootInv, RotationsTake, Rotates
<1>9. script' = script \/ (script[s].at = "submitted" /\ Becomes(s, AfterFinality(b)))
  BY <1>0, <1>2 DEF FinalizeBlock
<1>10. /\ AfterFinality(b) \in {"failed", "reading back", "polling", "reported"}
       /\ AfterFinality(b) # "failed" => b.result = "ok"
       /\ AfterFinality(b) = "reading back" => plan[s].kind = "rotate"
       /\ AfterFinality(b) = "polling" => plan[s].kind = "code"
       /\ AfterFinality(b) = "reported" => plan[s].kind = "call"
  <2>1. plan[s].kind \in {"rotate", "code", "call"}
    BY <1>3, RootAssumption DEF RootInv, RootTypes
  <2> QED BY <2>1 DEF AfterFinality, Took
<1> HIDE DEF s
<1>11. \A t \in Scripts : \A i \in 2..Len(final) :
         final'[i] = final[i] /\ final'[i - 1] = final[i - 1] /\ i \in 2..Len(final')
  <2>1. \A i \in 2..Len(final) : i \in 1..Len(final) /\ i - 1 \in 1..Len(final) /\ i \in 2..Len(final')
    BY <1>5
  <2> QED BY <1>5, <2>1
<1>12. CASE script' = script
  <2>1. RootTypes'
    BY <1>1, <1>2, <1>5, <1>12 DEF RootInv, RootTypes
  <2>2. Verdicts'
    BY <1>1, <1>11, <1>12, VerdictKept DEF RootInv, Verdicts
  <2> QED BY <1>7, <1>8, <2>1, <2>2 DEF RootInv
<1>13. CASE script[s].at = "submitted" /\ Becomes(s, AfterFinality(b))
  <2>1. AfterFinality(b) \in ScriptStates
    BY <1>10 DEF ScriptStates
  <2>2. /\ script' \in [Scripts -> [at : ScriptStates, seen : [Ports -> Int \cup {Unknown}]]]
        /\ script'[s].at = AfterFinality(b) /\ script'[s].seen = script[s].seen
        /\ \A t \in Scripts \ {s} : script'[t] = script[t]
    BY <1>3, <1>13, <2>1, OneMoves DEF RootInv
  <2>3. RootTypes'
    BY <1>1, <1>2, <1>5, <2>2 DEF RootInv, RootTypes
  <2>4. \A p \in Ports : script'[s].seen[p] = Unknown
    BY <1>3, <1>13, <2>2 DEF RootInv, Verdicts, Verdict
  <2>5. ASSUME script'[s].at # "failed" PROVE HasBlock(s)'
    <3>0. PICK n \in 2..Len(final') : n = Len(final) + 1
      BY <1>5
    <3>1. final'[n] = b /\ b.script = s
      BY <1>5, <3>0 DEF s
    <3>2. b.result = "ok"
      BY <1>10, <2>2, <2>5
    <3>3. Backed(s, n)'
      BY <2>4, <3>1, <3>2 DEF Backed
    <3> QED BY <3>3 DEF HasBlock
  <2>6. Verdict(s)'
    BY <1>1, <1>10, <2>2, <2>4, <2>5 DEF Verdict
  <2>7. Verdicts'
    <3>1. ASSUME NEW t \in Scripts, t # s PROVE Verdict(t)'
      BY <1>1, <1>11, <2>2, <3>1, VerdictKept DEF RootInv, Verdicts
    <3> QED BY <2>6, <3>1 DEF Verdicts
  <2> QED BY <1>7, <1>8, <2>3, <2>7 DEF RootInv
<1> QED BY <1>9, <1>12, <1>13

-----------------------------------------------------------------------------
(* The verdicts.                                                             *)

LEMMA ReadBackStep ==
  ASSUME RootInv, NEW s \in Scripts, ReadBack(s)
  PROVE  RootInv'
<1>1. script[s].at = "reading back" /\ plan' = plan /\ final' = final /\ tip' = tip
  BY DEF ReadBack, rootChain
<1>2. PICK x \in {"reported", "failed"} : Becomes(s, x)
  BY DEF ReadBack
<1>3. x \in ScriptStates
  BY <1>2 DEF ScriptStates
<1>4. /\ script' \in [Scripts -> [at : ScriptStates, seen : [Ports -> Int \cup {Unknown}]]]
      /\ script'[s].at = x /\ script'[s].seen = script[s].seen
      /\ \A t \in Scripts \ {s} : script'[t] = script[t]
  BY <1>2, <1>3, OneMoves DEF RootInv
<1>5. RootTypes' /\ VersionsGrow' /\ RotationsTake'
  BY <1>1, <1>4 DEF RootInv, RootTypes, VersionsGrow, RotationsTake, Rotates
<1>6. plan[s].kind = "rotate" /\ HasBlock(s)
  BY <1>1 DEF RootInv, Verdicts, Verdict
<1>7. HasBlock(s)'
  BY <1>1, <1>4, <1>6 DEF HasBlock, Backed
<1>8. Verdicts'
  <2>1. Verdict(s)'
    BY <1>1, <1>2, <1>4, <1>6, <1>7 DEF Verdict
  <2>2. ASSUME NEW t \in Scripts, t # s PROVE Verdict(t)'
    BY <1>1, <1>4, <2>2, VerdictKept DEF RootInv, Verdicts
  <2> QED BY <2>1, <2>2 DEF Verdicts
<1> QED BY <1>5, <1>8 DEF RootInv

\* A port that answers is before the block of the upgrade or at or after it.
LEMMA AnswersAreApart ==
  ASSUME RootTypes, VersionsGrow, NEW i \in 2..Len(final), NEW v \in Answers
  PROVE  v \in Int \cup {Unknown} /\ (v = Unknown \/ v <= final[i - 1].spec \/ v >= final[i].spec)
<1>1. i \in 1..Len(final) /\ i - 1 \in 1..Len(final) /\ i \in Int
  BY DEF RootTypes
<1>2. final[i].spec \in Int /\ final[i - 1].spec \in Int
  BY <1>1, BlockFields
<1>3. ASSUME NEW j \in DOMAIN final, v = final[j].spec
      PROVE  v \in Int /\ (v <= final[i - 1].spec \/ v >= final[i].spec)
  <2>1. j \in 1..Len(final) /\ v \in Int /\ j \in Int
    BY <1>3, BlockFields DEF RootTypes
  <2>2. j <= i - 1 \/ i <= j
    BY <1>1, <2>1
  <2> QED BY <1>1, <1>2, <1>3, <2>1, <2>2 DEF VersionsGrow
<1>4. ASSUME NEW j \in DOMAIN tip, v = tip[j].spec
      PROVE  v \in Int /\ v >= final[i].spec
  <2>1. j \in 1..Len(tip) /\ v \in Int
    BY <1>4, BlockFields DEF RootTypes
  <2> QED BY <1>1, <1>2, <1>4, <2>1 DEF VersionsGrow
<1> QED BY <1>3, <1>4 DEF Answers

LEMMA PollStep ==
  ASSUME RootInv, NEW s \in Scripts, PollPorts(s)
  PROVE  RootInv'
<1>1. script[s].at = "polling" /\ plan' = plan /\ final' = final /\ tip' = tip
  BY DEF PollPorts, rootChain
<1>2. PICK heard \in [Ports -> Answers] :
        LET now == [p \in Ports |-> IF script[s].seen[p] = plan[s].expect \/ heard[p] = Unknown
                                    THEN script[s].seen[p] ELSE heard[p]]
        IN  script' = [script EXCEPT ![s].seen = now,
                         ![s].at = IF \A p \in Ports : now[p] = plan[s].expect THEN "reported" ELSE @]
  BY DEF PollPorts
<1> DEFINE now == [p \in Ports |-> IF script[s].seen[p] = plan[s].expect \/ heard[p] = Unknown
                                   THEN script[s].seen[p] ELSE heard[p]]
           said == IF \A p \in Ports : now[p] = plan[s].expect THEN "reported" ELSE "polling"
<1>3. PICK i \in 2..Len(final) : Backed(s, i)
  BY <1>1 DEF RootInv, Verdicts, Verdict, HasBlock
<1>4. plan[s].kind = "code"
  BY <1>1 DEF RootInv, Verdicts, Verdict
<1>5. \A p \in Ports : now[p] = script[s].seen[p] \/ now[p] \in Answers
  OBVIOUS
<1>6. /\ now \in [Ports -> Int \cup {Unknown}]
      /\ \A p \in Ports : now[p] = Unknown \/ now[p] <= final[i - 1].spec \/ now[p] >= final[i].spec
  <2>1. ASSUME NEW p \in Ports
        PROVE  /\ now[p] \in Int \cup {Unknown}
               /\ now[p] = Unknown \/ now[p] <= final[i - 1].spec \/ now[p] >= final[i].spec
    <3>1. CASE now[p] = script[s].seen[p]
      BY <1>3, <3>1 DEF Backed, RootInv, RootTypes
    <3>2. CASE now[p] \in Answers
      <4> HIDE DEF now
      <4> QED BY <3>2, AnswersAreApart DEF RootInv
    <3> QED BY <1>5, <3>1, <3>2
  <2> QED BY <2>1
<1>7. /\ script'[s].seen = now /\ script'[s].at = said
      /\ \A t \in Scripts \ {s} : script'[t] = script[t]
      /\ DOMAIN script' = Scripts
  BY <1>1, <1>2 DEF RootInv, RootTypes
<1>8. script' \in [Scripts -> [at : ScriptStates, seen : [Ports -> Int \cup {Unknown}]]]
  <2>1. said \in ScriptStates
    BY DEF ScriptStates
  <2>2. script' = [script EXCEPT ![s].seen = now, ![s].at = said]
    BY <1>1, <1>2
  <2> HIDE DEF now, said
  <2> QED BY <1>6, <2>1, <2>2 DEF RootInv, RootTypes
<1>9. said = "reported" => \A p \in Ports : now[p] = plan[s].expect
  OBVIOUS
<1>10. said \in {"reported", "polling"}
  OBVIOUS
<1> HIDE DEF now, said
<1>11. RootTypes' /\ VersionsGrow' /\ RotationsTake'
  BY <1>1, <1>8 DEF RootInv, RootTypes, VersionsGrow, RotationsTake, Rotates
<1>12. Backed(s, i)'
  BY <1>1, <1>3, <1>6, <1>7 DEF Backed
<1>13. Verdict(s)'
  <2>1. HasBlock(s)'
    BY <1>1, <1>12 DEF HasBlock
  <2> QED BY <1>1, <1>4, <1>7, <1>9, <1>10, <2>1 DEF Verdict
<1>14. Verdicts'
  <2>1. ASSUME NEW t \in Scripts, t # s PROVE Verdict(t)'
    BY <1>1, <1>7, <2>1, VerdictKept DEF RootInv, Verdicts
  <2> QED BY <1>13, <2>1 DEF Verdicts
<1> QED BY <1>11, <1>14 DEF RootInv

-----------------------------------------------------------------------------
(* Every step, and the theorem.                                              *)

\* The chain's versions, its rotations and the blocks verdicts rest on are
\* kept by every step of the scripts and of the chain.
THEOREM RootInductive == RootInv /\ [RootNext]_rootVars => RootInv'
<1> SUFFICES ASSUME RootInv, [RootNext]_rootVars PROVE RootInv'
  OBVIOUS
<1>1. ASSUME NEW s \in Scripts, Launch(s) PROVE RootInv'
  <2>1. PICK x \in {"connected", "failed"} : Becomes(s, x)
    BY <1>1 DEF Launch
  <2> QED BY <1>1, <2>1, EarlyStep DEF Launch
<1>2. ASSUME NEW s \in Scripts, RotateRootKey(s) PROVE RootInv'
  <2>1. PICK x \in {"rested", "submitted"} : Becomes(s, x)
    BY <1>2 DEF RotateRootKey
  <2> QED BY <1>2, <2>1, EarlyStep DEF RotateRootKey
<1>3. ASSUME NEW s \in Scripts, ReadRootKey(s) PROVE RootInv'
  <2>1. PICK x \in {"checked", "failed"} : Becomes(s, x)
    BY <1>3 DEF ReadRootKey
  <2> QED BY <1>3, <2>1, EarlyStep DEF ReadRootKey
<1>4. ASSUME NEW s \in Scripts, SubmitRootCall(s) PROVE RootInv'
  <2>1. PICK x \in {"rested", "submitted", "failed"} : Becomes(s, x)
    BY <1>4 DEF SubmitRootCall
  <2> QED BY <1>4, <2>1, EarlyStep DEF SubmitRootCall
<1>5. ASSUME NEW s \in Scripts, WatchGivesUp(s) PROVE RootInv'
  <2>1. Becomes(s, "failed") /\ UNCHANGED <<plan, rootChain>>
    BY <1>5 DEF WatchGivesUp
  <2> QED BY <2>1, EarlyStep
<1>6. ASSUME NEW s \in Scripts, PollEnds(s) PROVE RootInv'
  <2>1. Becomes(s, "failed") /\ UNCHANGED <<plan, rootChain>>
    BY <1>6 DEF PollEnds
  <2> QED BY <2>1, EarlyStep
<1>7. CASE UNCHANGED rootVars
  <2>1. plan' = plan /\ final' = final /\ tip' = tip /\ script' = script
    BY <1>7 DEF rootVars, rootChain
  <2>2. RootTypes' /\ VersionsGrow' /\ RotationsTake'
    BY <2>1 DEF RootInv, RootTypes, VersionsGrow, RotationsTake, Rotates
  <2>3. Verdicts'
    BY <2>1, VerdictKept DEF RootInv, Verdicts
  <2> QED BY <2>2, <2>3 DEF RootInv
<1> QED
  BY <1>1, <1>2, <1>3, <1>4, <1>5, <1>6, <1>7, IncludeStep, RetractStep, FinalizeStep,
     ReadBackStep, PollStep DEF RootNext

LEMMA RootInitially == RootInit => RootInv
<1> SUFFICES ASSUME RootInit PROVE RootInv
  OBVIOUS
<1>1. GenesisBlock \in RootBlock(Scripts \cup {Unknown})
  BY RootAssumption DEF GenesisBlock, RootBlock, RootKeys
<1>2. final = <<GenesisBlock>> /\ tip = <<>> /\ plan \in Plans /\ script = [s \in Scripts |-> ScriptRests]
  BY DEF RootInit
<1> HIDE DEF GenesisBlock
<1>3. Len(final) = 1 /\ final[1] = GenesisBlock /\ Len(tip) = 0
  BY <1>2
<1>4. ScriptRests \in [at : ScriptStates, seen : [Ports -> Int \cup {Unknown}]]
  BY DEF ScriptRests, ScriptStates
<1>5. \A s \in Scripts : script[s].at = "idle" /\ \A p \in Ports : script[s].seen[p] = Unknown
  BY <1>2 DEF ScriptRests
<1>6. RootTypes
  BY <1>1, <1>2, <1>4 DEF RootTypes
<1>7. VersionsGrow
  <2>1. final[1].spec \in Int
    BY <1>3, <1>6, BlockFields
  <2> QED BY <1>3, <2>1 DEF VersionsGrow
<1>8. RotationsTake
  BY <1>3, RootAssumption DEF RotationsTake, Rotates, GenesisBlock
<1>9. Verdicts
  BY <1>5 DEF Verdicts, Verdict
<1> QED BY <1>6, <1>7, <1>8, <1>9 DEF RootInv

LEMMA ReportsRest == RootInv => RootReportsHold
<1> SUFFICES ASSUME RootInv, NEW s \in Scripts, script[s].at = "reported"
             PROVE  \E i \in DOMAIN final :
               /\ final[i].script = s /\ final[i].result = "ok"
               /\ plan[s].kind = "rotate" => final[i].key = plan[s].target
               /\ plan[s].kind = "code" /\ plan[s].expect > final[i - 1].spec =>
                    \A p \in Ports : script[s].seen[p] >= final[i].spec
  BY DEF RootReportsHold
<1>1. PICK i \in 2..Len(final) : Backed(s, i)
  BY DEF RootInv, Verdicts, Verdict, HasBlock
<1>2. i \in 1..Len(final) /\ i - 1 \in 1..Len(final) /\ i \in DOMAIN final
  BY DEF RootInv, RootTypes
<1>3. plan[s].kind = "rotate" => final[i].key = plan[s].target
  BY <1>1, <1>2 DEF Backed, RootInv, RotationsTake, Rotates
<1>4. final[i].spec \in Int /\ final[i - 1].spec \in Int /\ plan[s].expect \in Int /\ plan[s].expect # Unknown
  <2>1. final[i].spec \in Int /\ final[i - 1].spec \in Int
    BY <1>2, BlockFields DEF RootInv
  <2>2. plan[s].expect \in Int
    BY RootAssumption DEF RootInv, RootTypes
  <2> QED BY <2>1, <2>2, RootAssumption
<1>5. ASSUME plan[s].kind = "code", plan[s].expect > final[i - 1].spec, NEW p \in Ports
      PROVE  script[s].seen[p] >= final[i].spec
  <2>1. script[s].seen[p] = plan[s].expect
    BY <1>5 DEF RootInv, Verdicts, Verdict
  <2> QED BY <1>1, <1>4, <1>5, <2>1 DEF Backed
<1> QED BY <1>1, <1>2, <1>3, <1>5 DEF Backed

\* A script that ends with OK has had its effect in a final block, and the nodes
\* it names have shown the new runtime.
THEOREM ReportsStayTrue == RootSpec => []RootReportsHold
BY RootInitially, RootInductive, ReportsRest, PTL DEF RootSpec

-----------------------------------------------------------------------------
(* The faucet: what its key is bound to pay.                               *)

Queued  == {d \in Slots : drips[d].state = "queued"}
Waiting == Queued \ {watched}

\* Transfers that may still be paid: one for each request that waits, and one
\* out of the pool, for what is there carries one nonce.
Outstanding == Cardinality(Waiting) + (IF pool = {} THEN 0 ELSE 1)

Cost == DripAmount + Fee

Floor  == Reserve + ExistentialDeposit
Beyond == Cardinality(Slots) * Cost + Fee

\* The process serves under this configuration, or never did.
Serving == ConfigIsValid(settings) /\ ServiceAccepts

AtRest ==
  /\ ~up /\ pool = {} /\ queue = <<>> /\ watched = Nothing
  /\ \A d \in Slots : drips[d].state = "idle"

FaucetTypes ==
  /\ DOMAIN drips = Slots /\ \A d \in Slots : "state" \in DOMAIN drips[d]
  /\ queue \in Seq(Slots) /\ settings \in Settings
  /\ balance \in Int /\ funding \in Int /\ nonce \in Int

\* Who is in the queue waits there once; what is watched has left it.
QueueHolds ==
  /\ \A i \in 1..Len(queue) : queue[i] \in Waiting
  /\ \A i, j \in 1..Len(queue) : queue[i] = queue[j] => i = j
  /\ watched # Nothing => watched \in Queued

OneNonce == \A tx \in pool : tx.nonce = nonce

\* What the key holds covers all of it down to the floor.
KeyCovers == balance - Outstanding * Cost >= Smaller(funding, Floor - Beyond)

FaucetInv ==
  /\ FaucetTypes /\ QueueHolds /\ OneNonce
  /\ IF Serving THEN KeyCovers ELSE AtRest

\* A transfer costs what it costs, and nothing is paid back.
LEMMA CostIsWhole ==
  ASSUME FaucetTypes, Serving
  PROVE  /\ DripAmount \in Nat /\ Reserve \in Int /\ Cost \in Nat /\ Floor \in Int
         /\ Fee \in Nat /\ ExistentialDeposit \in Nat /\ Fee + DripAmount = Cost
<1>1. DripAmount \in Int /\ Reserve \in Int /\ DripAmount > 0
  BY FaucetAmounts DEF FaucetTypes, Serving, ConfigIsValid, DripAmount, Reserve, ServiceAccepts
<1>2. Fee \in Nat /\ ExistentialDeposit \in Nat
  BY FaucetAmounts
<1> QED BY <1>1, <1>2 DEF Cost, Floor

\* Sets of slots, and products with their sizes.
LEMMA SlotsCount ==
  ASSUME IsFiniteSet(Slots), NEW S \in SUBSET Slots
  PROVE  /\ IsFiniteSet(S) /\ Cardinality(S) \in Nat /\ Cardinality(S) <= Cardinality(Slots)
         /\ \A d \in S : Cardinality(S \ {d}) = Cardinality(S) - 1
<1>1. IsFiniteSet(S) /\ Cardinality(S) <= Cardinality(Slots) /\ Cardinality(S) \in Nat
  BY FS_Subset, FS_CardinalityType
<1> QED BY <1>1, FS_RemoveElement

LEMMA CostsAdd ==
  ASSUME NEW k \in Nat, NEW l \in Nat, NEW c \in Nat
  PROVE  /\ k * c \in Nat /\ l * c \in Nat
         /\ k <= l => k * c <= l * c
         /\ k + 1 <= l => k * c + c <= l * c
<1>1. k * c \in Nat /\ l * c \in Nat
  BY SMT
<1>2. ASSUME k <= l PROVE k * c <= l * c
  BY <1>2, SMT
<1>3. ASSUME k + 1 <= l PROVE k * c + c <= l * c
  <2>1. (k + 1) * c = k * c + c
    BY SMT
  <2>2. (k + 1) * c <= l * c
    BY <1>3, SMT
  <2> QED BY <2>1, <2>2
<1> QED BY <1>1, <1>2, <1>3

LEMMA OutstandingIsNat ==
  ASSUME IsFiniteSet(Slots)
  PROVE  /\ Outstanding \in Nat /\ Outstanding <= Cardinality(Slots) + 1
         /\ Outstanding' \in Nat /\ Outstanding' <= Cardinality(Slots) + 1
         /\ Cardinality(Slots) \in Nat
<1>1. Waiting \in SUBSET Slots /\ Waiting' \in SUBSET Slots
  BY DEF Waiting, Queued
<1>2. Cardinality(Slots) \in Nat
  BY FS_CardinalityType
<1>3. /\ Cardinality(Waiting) \in Nat /\ Cardinality(Waiting) <= Cardinality(Slots)
      /\ Cardinality(Waiting') \in Nat /\ Cardinality(Waiting') <= Cardinality(Slots)
  BY <1>1, SlotsCount
<1> QED BY <1>2, <1>3 DEF Outstanding

\* What may still be paid shrinks, and the key pays at most for what it shrank.
LEMMA KeyStillCovers ==
  ASSUME IsFiniteSet(Slots), FaucetTypes, Serving, KeyCovers,
         UNCHANGED <<settings, funding>>,
         \/ balance' = balance /\ Outstanding' <= Outstanding
         \/ /\ balance' \in Int /\ balance' >= balance - Cost
            /\ Outstanding' + 1 <= Outstanding
  PROVE  KeyCovers'
<1>1. Cost' = Cost /\ Floor' = Floor /\ Beyond' = Beyond /\ Cost \in Nat
  BY CostIsWhole DEF Cost, Floor, Beyond, DripAmount, Reserve
<1>2. PICK k \in Nat, l \in Nat, c \in Nat : k = Outstanding' /\ l = Outstanding /\ c = Cost
  BY <1>1, OutstandingIsNat
<1>3. PICK kc \in Nat, lc \in Nat :
        /\ kc = k * c /\ lc = l * c
        /\ k <= l => kc <= lc
        /\ k + 1 <= l => kc + c <= lc
  BY CostsAdd
<1>4. PICK least : least = Smaller(funding, Floor - Beyond)
  OBVIOUS
<1>5. least \in Int
  <2>1. Cardinality(Slots) \in Nat /\ Floor \in Int /\ Fee \in Nat
    BY OutstandingIsNat, CostIsWhole
  <2>2. Cardinality(Slots) * Cost \in Nat
    BY <1>1, <2>1, CostsAdd
  <2>3. Floor - Beyond \in Int
    BY <2>1, <2>2 DEF Beyond
  <2> QED BY <1>4, <2>3 DEF Smaller, FaucetTypes
<1>6. balance - lc >= least
  BY <1>2, <1>3, <1>4 DEF KeyCovers
<1>7. balance \in Int /\ balance' \in Int
  BY DEF FaucetTypes
<1>8. balance' - kc >= least
  <2>1. \/ balance' = balance /\ kc <= lc
        \/ balance' >= balance - c /\ kc + c <= lc
    BY <1>2, <1>3
  <2>2. kc \in Nat /\ lc \in Nat /\ c \in Nat
    BY <1>3
  <2>3. CASE balance' = balance /\ kc <= lc
    BY ONLY <1>5, <1>6, <1>7, <2>2, <2>3
  <2>4. CASE balance' >= balance - c /\ kc + c <= lc
    <3>1. PICK after \in Int, before \in Int : after = balance' /\ before = balance
      BY <1>7
    <3>2. before - lc >= least /\ after >= before - c /\ kc + c <= lc
      BY <1>6, <2>4, <3>1
    <3>3. after - kc >= least
      BY ONLY <1>5, <2>2, <3>2, after \in Int, before \in Int
    <3> QED BY <3>1, <3>3
  <2> QED BY <2>1, <2>3, <2>4
<1> QED BY <1>1, <1>2, <1>3, <1>4, <1>8 DEF KeyCovers

\* A request is admitted to the queue against a balance that was just read.
LEMMA SolventCovers ==
  ASSUME IsFiniteSet(Slots), FaucetTypes, Serving, IsSolvent,
         UNCHANGED <<settings, funding, balance>>
  PROVE  KeyCovers'
<1>1. /\ Cost' = Cost /\ Floor' = Floor /\ Beyond' = Beyond /\ Cost \in Nat
      /\ Floor \in Int /\ Fee \in Nat /\ DripAmount \in Nat /\ Fee + DripAmount = Cost
      /\ Reserve \in Int /\ ExistentialDeposit \in Nat
  BY CostIsWhole DEF Cost, Floor, Beyond, DripAmount, Reserve
<1>2. PICK k \in Nat, n \in Nat, c \in Nat :
        k = Outstanding' /\ n = Cardinality(Slots) /\ c = Cost /\ k <= n + 1
  BY <1>1, OutstandingIsNat
<1>3. PICK kc \in Nat, nc \in Nat, mc \in Nat :
        /\ kc = k * c /\ nc = n * c /\ mc = (n + 1) * c
        /\ kc <= mc /\ mc = nc + c
  <2>1. n + 1 \in Nat /\ (n + 1) * c = n * c + c
    BY SMT
  <2>2. k * c \in Nat /\ (n + 1) * c \in Nat /\ k * c <= (n + 1) * c /\ n * c \in Nat
    BY <1>2, <2>1, CostsAdd
  <2> QED BY <2>1, <2>2
<1>4. balance \in Int /\ funding \in Int
  BY DEF FaucetTypes
<1>5. balance - DripAmount >= Floor
  BY <1>1, <1>4 DEF IsSolvent, Floor
<1>6. Beyond = nc + Fee
  BY <1>2, <1>3 DEF Beyond
<1>7. balance - kc >= Floor - Beyond
  <2>1. kc <= nc + c /\ kc \in Nat /\ nc \in Nat /\ c \in Nat /\ Fee + DripAmount = c
    BY <1>1, <1>2, <1>3
  <2> QED BY ONLY <1>1, <1>4, <1>5, <1>6, <2>1
<1>8. Smaller(funding, Floor - Beyond) <= Floor - Beyond
  <2>1. Floor - Beyond \in Int
    BY <1>1, <1>3, <1>6
  <2> QED BY <1>4, <2>1 DEF Smaller
<1>9. Floor - Beyond \in Int /\ Smaller(funding, Floor - Beyond) \in Int
  <2>1. Floor - Beyond \in Int
    BY <1>1, <1>3, <1>6
  <2> QED BY <1>4, <2>1 DEF Smaller
<1>10. balance - kc >= Smaller(funding, Floor - Beyond)
  <2>1. kc \in Nat
    BY <1>3
  <2> QED BY ONLY <1>4, <1>7, <1>8, <1>9, <2>1
<1> QED BY <1>1, <1>2, <1>3, <1>10 DEF KeyCovers

\* A process that may not serve never does.
LEMMA RestsForGood ==
  ASSUME FaucetTypes, ~Serving, AtRest, FaucetNext
  PROVE  FALSE
<1>1. ~Boot
  BY DEF Boot, Serving
<1>2. ~ShutDown /\ ~FaucetTick /\ ~Prune
  BY DEF AtRest, ShutDown, FaucetTick, Prune
<1>3. ASSUME NEW d \in Slots
      PROVE  ~ReadBalance(d) /\ ~ReadBalanceFails(d) /\ \A request : ~Receive(d, request)
  BY DEF AtRest, Receive, ReadBalance, ReadBalanceFails
<1>4. ~Submit /\ ~SubmitFails /\ ~InBlock /\ ~GivenUp /\ ~StrayLands
  BY DEF AtRest, Submit, SubmitFails, TurnComes, InBlock, GivenUp, StrayLands
<1> QED BY <1>1, <1>2, <1>3, <1>4 DEF FaucetNext

\* A step that leaves the transfers alone.
QuietStep ==
  /\ DOMAIN drips' = Slots /\ \A d \in Slots : "state" \in DOMAIN drips'[d]
  /\ Queued' = Queued
  /\ UNCHANGED <<settings, queue, watched, faucetChain>>

LEMMA QuietStepInv ==
  ASSUME IsFiniteSet(Slots), FaucetInv, Serving, QuietStep
  PROVE  FaucetInv'
<1>1. UNCHANGED <<settings, queue, watched, pool, nonce, balance, funding, Queued>>
  BY DEF QuietStep, faucetChain
<1>2. Waiting' = Waiting
  BY <1>1 DEF Waiting
<1>3. FaucetTypes' /\ Serving'
  BY <1>1 DEF FaucetInv, FaucetTypes, QuietStep, Serving, ConfigIsValid, ServiceAccepts,
              DripAmount, Reserve
<1>4. QueueHolds' /\ OneNonce'
  BY <1>1, <1>2 DEF FaucetInv, QueueHolds, OneNonce
<1>5. Outstanding' = Outstanding
  BY <1>1, <1>2 DEF Outstanding
<1>6. KeyCovers'
  BY <1>1, <1>5, KeyStillCovers, OutstandingIsNat DEF FaucetInv
<1> QED BY <1>3, <1>4, <1>6 DEF FaucetInv

\* The requests that do not reach the queue.
LEMMA QuietSteps ==
  ASSUME FaucetInv,
         \/ Boot \/ ShutDown \/ FaucetTick \/ Prune
         \/ \E d \in Slots : \/ \E request \in FaucetRequests : Receive(d, request)
                             \/ ReadBalance(d) /\ ~IsSolvent
                             \/ ReadBalanceFails(d)
  PROVE  QuietStep
<1>0. DOMAIN drips = Slots /\ \A d \in Slots : "state" \in DOMAIN drips[d]
  BY DEF FaucetInv, FaucetTypes
<1>1. ASSUME NEW d \in Slots, NEW new, drips' = [drips EXCEPT ![d] = new],
             "state" \in DOMAIN new, new.state # "queued", drips[d].state # "queued",
             UNCHANGED <<settings, queue, watched, faucetChain>>
      PROVE  QuietStep
  <2>1. DOMAIN drips' = Slots /\ drips'[d] = new /\ \A e \in Slots \ {d} : drips'[e] = drips[e]
    BY <1>0, <1>1
  <2>2. \A e \in Slots : drips'[e].state = "queued" <=> drips[e].state = "queued"
    BY <1>1, <2>1
  <2>3. Queued' = Queued
    BY <2>2 DEF Queued
  <2>4. \A e \in Slots : "state" \in DOMAIN drips'[e]
    BY <1>0, <1>1, <2>1
  <2> QED BY <1>1, <2>1, <2>3, <2>4 DEF QuietStep
<1>2. \A status : "state" \in DOMAIN Answered(status) /\ Answered(status).state = "idle"
  BY DEF Answered, EmptySlot
<1>3. CASE Boot \/ FaucetTick \/ Prune
  BY <1>0, <1>3 DEF Boot, FaucetTick, Prune, QuietStep, Queued
<1>4. CASE ShutDown
  <2>1. \A d \in Slots : drips[d].state = "idle" /\ drips'[d] = EmptySlot
    BY <1>4 DEF ShutDown
  <2>2. Queued = {} /\ Queued' = {}
    BY <2>1 DEF Queued, EmptySlot
  <2>3. DOMAIN drips' = Slots /\ \A d \in Slots : "state" \in DOMAIN drips'[d]
    BY <1>4 DEF ShutDown, EmptySlot
  <2> QED BY <1>4, <2>2, <2>3 DEF ShutDown, QuietStep
<1>5. ASSUME NEW d \in Slots, NEW request \in FaucetRequests, Receive(d, request)
      PROVE  QuietStep
  <2>0. drips[d].state # "queued" /\ UNCHANGED <<settings, queue, watched, faucetChain>>
    BY <1>5 DEF Receive
  <2>1. ASSUME NEW status, drips' = [drips EXCEPT ![d] = Answered(status)]
        PROVE  QuietStep
    BY <1>1, <1>2, <2>0, <2>1
  <2>2. ASSUME NEW grant, NEW account, NEW ip,
               drips' = [drips EXCEPT ![d] = [state |-> "reserved", grant |-> grant,
                                              account |-> account, ip |-> ip, status |-> 0]]
        PROVE  QuietStep
    <3>1. PICK new : new = [state |-> "reserved", grant |-> grant, account |-> account,
                            ip |-> ip, status |-> 0]
      OBVIOUS
    <3>2. "state" \in DOMAIN new /\ new.state # "queued"
      BY <3>1
    <3> QED BY <1>1, <2>0, <2>2, <3>1, <3>2
  <2> QED BY <1>5, <2>1, <2>2 DEF Receive
<1>6. ASSUME NEW d \in Slots, (ReadBalance(d) /\ ~IsSolvent) \/ ReadBalanceFails(d)
      PROVE  QuietStep
  <2>1. drips[d].state # "queued" /\ UNCHANGED <<settings, queue, watched, faucetChain>>
    BY <1>6 DEF ReadBalance, ReadBalanceFails
  <2>2. PICK status : GiveBack(d, status)
    BY <1>6 DEF ReadBalance, ReadBalanceFails
  <2>3. drips' = [drips EXCEPT ![d] = Answered(status)]
    BY <2>2 DEF GiveBack
  <2> QED BY <1>1, <1>2, <2>1, <2>3
<1> QED BY <1>3, <1>4, <1>5, <1>6

\* A slot leaves the queue's states, and with what is left of the pool no more is
\* to be paid than before.
LEMMA AnswerSlot ==
  ASSUME FaucetTypes, NEW d \in Slots, NEW status,
         drips' = [drips EXCEPT ![d] = Answered(status)]
  PROVE  /\ DOMAIN drips' = Slots /\ \A e \in Slots : "state" \in DOMAIN drips'[e]
         /\ Queued' = Queued \ {d}
<1>0. DOMAIN drips = Slots /\ \A e \in Slots : "state" \in DOMAIN drips[e]
  BY DEF FaucetTypes
<1>1. "state" \in DOMAIN Answered(status) /\ Answered(status).state = "idle"
  BY DEF Answered, EmptySlot
<1>2. /\ DOMAIN drips' = Slots /\ drips'[d] = Answered(status)
      /\ \A e \in Slots \ {d} : drips'[e] = drips[e]
  BY <1>0
<1> QED BY <1>0, <1>1, <1>2 DEF Queued

\* The first of the queue leaves it, and waits no longer.
LEMMA TurnTaken ==
  ASSUME IsFiniteSet(Slots), FaucetTypes, QueueHolds, TurnComes,
         queue' = Tail(queue), Waiting' = Waiting \ {Head(queue)}
  PROVE  /\ Head(queue) \in Waiting /\ Head(queue) \in Slots
         /\ queue' \in Seq(Slots)
         /\ \A i \in 1..Len(queue') : queue'[i] \in Waiting'
         /\ \A i, j \in 1..Len(queue') : queue'[i] = queue'[j] => i = j
         /\ Cardinality(Waiting') + 1 = Cardinality(Waiting)
<1>1. /\ queue \in Seq(Slots) /\ queue # <<>>
      /\ \A i \in 1..Len(queue) : queue[i] \in Waiting
      /\ \A i, j \in 1..Len(queue) : queue[i] = queue[j] => i = j
  BY DEF FaucetTypes, QueueHolds, TurnComes
<1>2. /\ queue' \in Seq(Slots) /\ Len(queue') = Len(queue) - 1 /\ Len(queue) \in Nat \ {0}
      /\ \A i \in 1..Len(queue') : queue'[i] = queue[i + 1] /\ i + 1 \in 1..Len(queue)
      /\ Head(queue) = queue[1] /\ 1 \in 1..Len(queue)
  BY <1>1
<1>3. Head(queue) \in Waiting /\ Waiting \in SUBSET Slots
  BY <1>1, <1>2 DEF Waiting, Queued
<1>4. ASSUME NEW i \in 1..Len(queue') PROVE queue'[i] \in Waiting'
  <2>1. queue'[i] = queue[i + 1] /\ i + 1 \in 1..Len(queue) /\ i + 1 # 1
    BY <1>2
  <2>2. queue[i + 1] # queue[1]
    BY <1>1, <1>2, <2>1
  <2> QED BY <1>1, <1>2, <2>1, <2>2
<1>5. ASSUME NEW i \in 1..Len(queue'), NEW j \in 1..Len(queue'), queue'[i] = queue'[j]
      PROVE  i = j
  <2>1. queue[i + 1] = queue[j + 1] /\ i + 1 \in 1..Len(queue) /\ j + 1 \in 1..Len(queue)
    BY <1>2, <1>5
  <2>2. i + 1 = j + 1
    BY <1>1, <2>1
  <2> QED BY <2>2
<1>6. Cardinality(Waiting') + 1 = Cardinality(Waiting)
  <2>1. /\ Cardinality(Waiting) \in Nat
        /\ Cardinality(Waiting \ {Head(queue)}) = Cardinality(Waiting) - 1
    BY <1>3, SlotsCount
  <2> QED BY <2>1
<1> QED BY <1>2, <1>3, <1>4, <1>5, <1>6

\* A request enters the queue.
LEMMA ReadBalanceInv ==
  ASSUME IsFiniteSet(Slots), FaucetInv, Serving, NEW d \in Slots, ReadBalance(d), IsSolvent
  PROVE  FaucetInv'
<1>1. /\ drips' = [drips EXCEPT ![d].state = "queued"] /\ queue' = Append(queue, d)
      /\ drips[d].state = "reserved"
      /\ UNCHANGED <<settings, watched, pool, nonce, balance, funding>>
  BY DEF ReadBalance, faucetChain
<1>2. FaucetTypes /\ QueueHolds /\ OneNonce
  BY DEF FaucetInv
<1>3. /\ DOMAIN drips' = Slots
      /\ \A e \in Slots : /\ "state" \in DOMAIN drips'[e]
                          /\ drips'[e].state = IF e = d THEN "queued" ELSE drips[e].state
  BY <1>1, <1>2 DEF FaucetTypes
<1>4. Queued' = Queued \cup {d} /\ d \notin Queued
  BY <1>1, <1>3 DEF Queued
<1>5. d # watched
  BY <1>2, <1>4, NothingIsNoSlot DEF QueueHolds
<1>6. Waiting' = Waiting \cup {d} /\ d \notin Waiting
  BY <1>1, <1>4, <1>5 DEF Waiting
<1>7. FaucetTypes' /\ Serving'
  <2>1. queue' \in Seq(Slots)
    BY <1>1, <1>2 DEF FaucetTypes
  <2> QED BY <1>1, <1>2, <1>3, <2>1 DEF FaucetTypes, Serving, ConfigIsValid, ServiceAccepts,
             DripAmount, Reserve
<1>8. QueueHolds'
  <2>1. /\ queue \in Seq(Slots) /\ Len(queue) \in Nat
        /\ \A i \in 1..Len(queue) : queue[i] \in Waiting
        /\ \A i, j \in 1..Len(queue) : queue[i] = queue[j] => i = j
    BY <1>2 DEF FaucetTypes, QueueHolds
  <2>2. /\ Len(queue') = Len(queue) + 1 /\ queue'[Len(queue) + 1] = d
        /\ \A i \in 1..Len(queue) : queue'[i] = queue[i]
    BY <1>1, <2>1
  <2>3. ASSUME NEW i \in 1..Len(queue') PROVE queue'[i] \in Waiting'
    BY <1>6, <2>1, <2>2
  <2>4. ASSUME NEW i \in 1..Len(queue'), NEW j \in 1..Len(queue'), queue'[i] = queue'[j]
        PROVE  i = j
    <3>1. ASSUME NEW k \in 1..Len(queue), queue'[k] = d PROVE FALSE
      BY <1>6, <2>1, <2>2, <3>1
    <3>2. CASE i \in 1..Len(queue) /\ j \in 1..Len(queue)
      BY <2>1, <2>2, <2>4, <3>2
    <3>3. CASE i = Len(queue) + 1 /\ j = Len(queue) + 1
      BY <3>3
    <3>4. CASE i \in 1..Len(queue) /\ j = Len(queue) + 1
      BY <2>2, <2>4, <3>1, <3>4
    <3>5. CASE i = Len(queue) + 1 /\ j \in 1..Len(queue)
      BY <2>2, <2>4, <3>1, <3>5
    <3>6. /\ i \in 1..Len(queue) \/ i = Len(queue) + 1
          /\ j \in 1..Len(queue) \/ j = Len(queue) + 1
      BY <2>1, <2>2
    <3> QED BY <3>2, <3>3, <3>4, <3>5, <3>6
  <2>5. watched' # Nothing => watched' \in Queued'
    BY <1>1, <1>2, <1>4 DEF QueueHolds
  <2> QED BY <2>3, <2>4, <2>5 DEF QueueHolds
<1>9. KeyCovers'
  BY <1>1, <1>2, SolventCovers
<1>10. OneNonce'
  BY <1>1, <1>2 DEF OneNonce
<1> QED BY <1>7, <1>8, <1>9, <1>10 DEF FaucetInv

\* The one transfer of a turn takes the place of the request that waited.
LEMMA SubmitInv ==
  ASSUME IsFiniteSet(Slots), FaucetInv, Serving, Submit
  PROVE  FaucetInv'
<1>1. /\ TurnComes /\ watched = Nothing /\ watched' = Head(queue) /\ queue' = Tail(queue)
      /\ UNCHANGED <<settings, drips, nonce, balance, funding>>
  BY DEF Submit, TurnComes
<1>2. FaucetTypes /\ QueueHolds /\ OneNonce
  BY DEF FaucetInv
<1>3. Queued' = Queued /\ Waiting = Queued /\ Waiting' = Waiting \ {Head(queue)}
  BY <1>1, NothingIsNoSlot DEF Waiting, Queued
<1>4. /\ Head(queue) \in Waiting /\ queue' \in Seq(Slots)
      /\ \A i \in 1..Len(queue') : queue'[i] \in Waiting'
      /\ \A i, j \in 1..Len(queue') : queue'[i] = queue'[j] => i = j
      /\ Cardinality(Waiting') + 1 = Cardinality(Waiting)
  BY <1>1, <1>2, <1>3, TurnTaken
<1>5. QueueHolds'
  BY <1>1, <1>3, <1>4 DEF QueueHolds
<1>6. FaucetTypes' /\ Serving'
  BY <1>1, <1>2, <1>4 DEF FaucetTypes, Serving, ConfigIsValid, ServiceAccepts, DripAmount, Reserve
<1>7. OneNonce'
  <2>1. pool' = pool \cup {[grant |-> drips[Head(queue)].grant, nonce |-> nonce]}
    BY DEF Submit
  <2> QED BY <1>1, <1>2, <2>1 DEF OneNonce
<1>8. Outstanding' <= Outstanding
  <2>1. Waiting \in SUBSET Slots /\ Waiting' \in SUBSET Slots
    BY DEF Waiting, Queued
  <2>2. Cardinality(Waiting) \in Nat /\ Cardinality(Waiting') \in Nat
    BY <2>1, SlotsCount
  <2> QED BY <1>4, <2>2 DEF Outstanding
<1>9. KeyCovers'
  BY <1>1, <1>2, <1>8, KeyStillCovers DEF FaucetInv
<1> QED BY <1>5, <1>6, <1>7, <1>9 DEF FaucetInv

\* A request whose transfer could not be submitted is answered.
LEMMA SubmitFailsInv ==
  ASSUME IsFiniteSet(Slots), FaucetInv, Serving, SubmitFails
  PROVE  FaucetInv'
<1>1. /\ TurnComes /\ watched = Nothing /\ queue' = Tail(queue)
      /\ UNCHANGED <<settings, watched, pool, nonce, balance, funding>>
      /\ drips' = [drips EXCEPT ![Head(queue)] = Answered(502)]
  BY DEF SubmitFails, TurnComes, GiveBack, faucetChain
<1>2. FaucetTypes /\ QueueHolds /\ OneNonce
  BY DEF FaucetInv
<1>3. Head(queue) \in Slots
  BY <1>1, <1>2 DEF TurnComes, FaucetTypes
<1>4. /\ DOMAIN drips' = Slots /\ \A e \in Slots : "state" \in DOMAIN drips'[e]
      /\ Queued' = Queued \ {Head(queue)}
  BY <1>1, <1>2, <1>3, AnswerSlot
<1>5. Waiting' = Waiting \ {Head(queue)}
  BY <1>1, <1>4 DEF Waiting
<1>6. /\ Head(queue) \in Waiting /\ queue' \in Seq(Slots)
      /\ \A i \in 1..Len(queue') : queue'[i] \in Waiting'
      /\ \A i, j \in 1..Len(queue') : queue'[i] = queue'[j] => i = j
      /\ Cardinality(Waiting') + 1 = Cardinality(Waiting)
  BY <1>1, <1>2, <1>5, TurnTaken
<1>7. QueueHolds' /\ OneNonce'
  BY <1>1, <1>2, <1>6 DEF QueueHolds, OneNonce
<1>8. FaucetTypes' /\ Serving'
  BY <1>1, <1>2, <1>4, <1>6 DEF FaucetTypes, Serving, ConfigIsValid, ServiceAccepts,
     DripAmount, Reserve
<1>9. Outstanding' <= Outstanding
  <2>1. Waiting \in SUBSET Slots /\ Waiting' \in SUBSET Slots
    BY DEF Waiting, Queued
  <2>2. Cardinality(Waiting) \in Nat /\ Cardinality(Waiting') \in Nat
    BY <2>1, SlotsCount
  <2> QED BY <1>1, <1>6, <2>2 DEF Outstanding
<1>10. KeyCovers'
  BY <1>1, <1>2, <1>9, KeyStillCovers DEF FaucetInv
<1> QED BY <1>7, <1>8, <1>10 DEF FaucetInv

\* A transfer lands: the others of its nonce never will.
LEMMA LandPays ==
  ASSUME IsFiniteSet(Slots), FaucetInv, Serving, NEW tx, Land(tx),
         Waiting' = Waiting, UNCHANGED settings
  PROVE  pool' = {} /\ balance' \in Int /\ KeyCovers'
<1>1. pool' = {} /\ pool # {} /\ UNCHANGED funding
  <2>1. \A other \in pool : other.nonce = nonce
    BY DEF FaucetInv, OneNonce
  <2>2. tx \in pool /\ tx.nonce = nonce /\ pool' = {other \in pool : other.nonce > nonce}
        /\ UNCHANGED funding
    BY DEF Land
  <2>3. nonce \in Int /\ ~(nonce > nonce)
    BY DEF FaucetInv, FaucetTypes
  <2> QED BY <2>1, <2>2, <2>3
<1>2. /\ DripAmount \in Nat /\ Cost \in Nat /\ Fee \in Nat /\ Fee + DripAmount = Cost
      /\ FaucetTypes /\ KeyCovers
  BY CostIsWhole DEF FaucetInv
<1>3. balance' \in Int /\ balance' >= balance - Cost
  <2>1. balance' = balance - Fee \/ balance' = balance - Fee - DripAmount
    BY <1>2 DEF Land, FaucetTypes
  <2>2. balance \in Int
    BY <1>2 DEF FaucetTypes
  <2> QED BY <1>2, <2>1, <2>2
<1>4. Outstanding' + 1 <= Outstanding
  <2>1. Waiting \in SUBSET Slots
    BY DEF Waiting, Queued
  <2>2. Cardinality(Waiting) \in Nat
    BY <2>1, SlotsCount
  <2> QED BY <1>1, <2>2 DEF Outstanding
<1>5. KeyCovers'
  BY <1>1, <1>2, <1>3, <1>4, KeyStillCovers
<1> QED BY <1>1, <1>3, <1>5

\* The watched request is answered, and its slot waits for nothing any more.
LEMMA WatchedAnswered ==
  ASSUME FaucetTypes, QueueHolds, watched # Nothing, watched' = Nothing,
         NEW status, drips' = [drips EXCEPT ![watched] = Answered(status)],
         UNCHANGED <<settings, queue, funding>>, balance' \in Int, nonce' \in Int
  PROVE  Waiting' = Waiting /\ FaucetTypes' /\ QueueHolds'
<1>1. watched \in Slots
  BY DEF QueueHolds, Queued
<1>2. /\ DOMAIN drips' = Slots /\ \A e \in Slots : "state" \in DOMAIN drips'[e]
      /\ Queued' = Queued \ {watched}
  BY <1>1, AnswerSlot
<1>3. Waiting' = Waiting
  BY <1>2, NothingIsNoSlot DEF Waiting, Queued
<1> QED BY <1>2, <1>3 DEF FaucetTypes, QueueHolds

\* The watched transfer lands, or is given up and may land all the same.
LEMMA WatchedStepsInv ==
  ASSUME IsFiniteSet(Slots), FaucetInv, Serving, InBlock \/ GivenUp
  PROVE  FaucetInv'
<1>0. FaucetTypes /\ QueueHolds /\ OneNonce /\ nonce \in Int /\ balance \in Int
  BY DEF FaucetInv, FaucetTypes
<1>1. /\ watched # Nothing /\ watched' = Nothing /\ UNCHANGED <<settings, queue>>
      /\ \E status : drips' = [drips EXCEPT ![watched] = Answered(status)]
  BY DEF InBlock, GivenUp, GiveBack
<1>2. Serving'
  BY <1>1 DEF Serving, ConfigIsValid, ServiceAccepts, DripAmount, Reserve
<1>3. CASE InBlock
  <2>1. PICK tx \in pool : Land(tx)
    BY <1>3 DEF InBlock
  <2>2. PICK status : drips' = [drips EXCEPT ![watched] = Answered(status)]
    BY <1>1
  <2>3. balance' \in Int /\ nonce' \in Int /\ UNCHANGED funding
    <3>1. DripAmount \in Nat /\ Fee \in Nat
      BY <1>0, CostIsWhole
    <3> QED BY <1>0, <2>1, <3>1 DEF Land
  <2>4. Waiting' = Waiting /\ FaucetTypes' /\ QueueHolds'
    BY <1>0, <1>1, <2>2, <2>3, WatchedAnswered
  <2>5. pool' = {} /\ KeyCovers'
    BY <1>1, <2>1, <2>4, LandPays
  <2> QED BY <1>2, <2>4, <2>5 DEF FaucetInv, OneNonce
<1>4. CASE GivenUp
  <2>1. PICK status : drips' = [drips EXCEPT ![watched] = Answered(status)]
    BY <1>1
  <2>2. UNCHANGED <<nonce, balance, funding>> /\ pool' \subseteq pool
    BY <1>4 DEF GivenUp
  <2>3. Waiting' = Waiting /\ FaucetTypes' /\ QueueHolds'
    BY <1>0, <1>1, <2>1, <2>2, WatchedAnswered
  <2>4. Outstanding' <= Outstanding
    <3>1. Waiting \in SUBSET Slots
      BY DEF Waiting, Queued
    <3>2. Cardinality(Waiting) \in Nat
      BY <3>1, SlotsCount
    <3> QED BY <2>2, <2>3, <3>2 DEF Outstanding
  <2>5. KeyCovers'
    BY <1>0, <1>1, <2>2, <2>4, KeyStillCovers DEF FaucetInv
  <2> QED BY <1>0, <1>2, <2>2, <2>3, <2>5 DEF FaucetInv, OneNonce
<1> QED BY <1>3, <1>4

\* A transfer that was given up lands.
LEMMA StrayLandsInv ==
  ASSUME IsFiniteSet(Slots), FaucetInv, Serving, StrayLands
  PROVE  FaucetInv'
<1>0. FaucetTypes /\ QueueHolds /\ nonce \in Int /\ balance \in Int
  BY DEF FaucetInv, FaucetTypes
<1>1. PICK tx \in pool : Land(tx)
  BY DEF StrayLands
<1>2. UNCHANGED <<settings, drips, queue, watched>>
  BY DEF StrayLands
<1>3. Queued' = Queued /\ Waiting' = Waiting
  BY <1>2 DEF Queued, Waiting
<1>4. balance' \in Int /\ nonce' \in Int /\ UNCHANGED funding
  <2>1. DripAmount \in Nat /\ Fee \in Nat
    BY <1>0, CostIsWhole
  <2> QED BY <1>0, <1>1, <2>1 DEF Land
<1>5. pool' = {} /\ KeyCovers'
  BY <1>1, <1>2, <1>3, LandPays
<1>6. FaucetTypes' /\ QueueHolds' /\ Serving'
  BY <1>0, <1>2, <1>3, <1>4 DEF FaucetTypes, QueueHolds, Serving, ConfigIsValid,
     ServiceAccepts, DripAmount, Reserve
<1> QED BY <1>5, <1>6 DEF FaucetInv, OneNonce

\* Every step of the faucet keeps the invariant.
LEMMA FaucetStep ==
  ASSUME IsFiniteSet(Slots), FaucetInv, [FaucetNext]_faucetVars
  PROVE  FaucetInv'
<1>1. CASE UNCHANGED faucetVars
  <2>1. UNCHANGED <<settings, up, drips, queue, watched, pool, nonce, balance, funding>>
    BY <1>1 DEF faucetVars, faucetChain
  <2>2. Queued' = Queued /\ Waiting' = Waiting /\ Serving' = Serving
    BY <2>1 DEF Queued, Waiting, Serving, ConfigIsValid, ServiceAccepts, DripAmount, Reserve
  <2>3. FaucetTypes' /\ QueueHolds' /\ OneNonce'
    BY <2>1, <2>2 DEF FaucetInv, FaucetTypes, QueueHolds, OneNonce
  <2>4. KeyCovers' = KeyCovers /\ AtRest' = AtRest
    BY <2>1, <2>2 DEF KeyCovers, AtRest, Outstanding, Cost, Floor, Beyond, DripAmount, Reserve
  <2> QED BY <2>2, <2>3, <2>4 DEF FaucetInv
<1>2. CASE FaucetNext
  <2>1. Serving
    BY <1>2, RestsForGood DEF FaucetInv
  <2>2. CASE QuietStep
    BY <2>1, <2>2, QuietStepInv
  <2>3. ASSUME NEW d \in Slots, ReadBalance(d), IsSolvent PROVE FaucetInv'
    BY <2>1, <2>3, ReadBalanceInv
  <2>4. CASE Submit \/ SubmitFails \/ InBlock \/ GivenUp \/ StrayLands
    BY <2>1, <2>4, SubmitInv, SubmitFailsInv, WatchedStepsInv, StrayLandsInv
  <2> QED BY <1>2, <2>2, <2>3, <2>4, QuietSteps DEF FaucetNext
<1> QED BY <1>1, <1>2

\* The key starts with what it was funded with, and owes nobody.
LEMMA FaucetStart ==
  ASSUME IsFiniteSet(Slots), FaucetInit
  PROVE  FaucetInv
<1>1. /\ \A d \in Slots : drips[d] = EmptySlot
      /\ DOMAIN drips = Slots /\ queue = <<>> /\ watched = Nothing /\ pool = {} /\ ~up
      /\ settings \in Settings /\ nonce = 0 /\ balance \in Nat /\ funding = balance
  BY FaucetAmounts DEF FaucetInit
<1>2. \A d \in Slots : "state" \in DOMAIN drips[d] /\ drips[d].state = "idle"
  BY <1>1 DEF EmptySlot
<1>3. FaucetTypes /\ OneNonce /\ AtRest
  BY <1>1, <1>2 DEF FaucetTypes, OneNonce, AtRest
<1>4. QueueHolds
  BY <1>1 DEF QueueHolds
<1>5. ASSUME Serving PROVE KeyCovers
  <2>1. Waiting = {} /\ Cardinality({}) = 0
    BY <1>2, FS_EmptySet DEF Waiting, Queued
  <2>2. Outstanding = 0
    BY <1>1, <2>1 DEF Outstanding
  <2>3. Cost \in Nat /\ Floor \in Int /\ Fee \in Nat
    BY <1>3, <1>5, CostIsWhole
  <2>4. Outstanding * Cost = 0
    BY <2>2, <2>3
  <2>5. Floor - Beyond \in Int
    <3>1. Cardinality(Slots) * Cost \in Nat
      BY <2>3, OutstandingIsNat, CostsAdd
    <3> QED BY <2>3, <3>1 DEF Beyond
  <2> QED BY <1>1, <2>4, <2>5 DEF KeyCovers, Smaller
<1> QED BY <1>3, <1>4, <1>5 DEF FaucetInv

\* The solvency check of the faucet (faucet.ts, before the queue) holds the
\* floor for any amounts, fundings and number of requests at once, but for one
\* drip and fee of each request that read the balance before the others had
\* paid, and one transfer that was given up and landed after all.
THEOREM FloorIsHeld ==
  ASSUME IsFiniteSet(Slots)
  PROVE  FaucetSpec => []ReserveBreachBounded
<1>1. FaucetInit => FaucetInv
  BY FaucetStart
<1>2. FaucetInv /\ [FaucetNext]_faucetVars => FaucetInv'
  BY FaucetStep
<1>3. FaucetInv => ReserveBreachBounded
  <2> SUFFICES ASSUME FaucetInv, up
               PROVE  balance >= Smaller(funding, Floor - Beyond)
    BY DEF ReserveBreachBounded, Floor, Beyond, Cost
  <2>1. Serving /\ FaucetTypes /\ KeyCovers
    BY DEF FaucetInv, AtRest
  <2>2. PICK owed : owed = Outstanding * Cost
    OBVIOUS
  <2>3. owed \in Nat
    <3>1. Cost \in Nat /\ Outstanding \in Nat
      BY <2>1, CostIsWhole, OutstandingIsNat
    <3> QED BY <2>2, <3>1, CostsAdd
  <2>4. Smaller(funding, Floor - Beyond) \in Int
    <3>1. Cost \in Nat /\ Floor \in Int /\ Fee \in Nat /\ Cardinality(Slots) \in Nat
      BY <2>1, CostIsWhole, OutstandingIsNat
    <3>2. Cardinality(Slots) * Cost \in Nat
      BY <3>1, CostsAdd
    <3>3. Floor - Beyond \in Int
      BY <3>1, <3>2 DEF Beyond
    <3> QED BY <2>1, <3>3 DEF Smaller, FaucetTypes
  <2>5. balance \in Int /\ balance - owed >= Smaller(funding, Floor - Beyond)
    BY <2>1, <2>2 DEF FaucetTypes, KeyCovers
  <2> QED BY ONLY <2>3, <2>4, <2>5
<1> QED BY <1>1, <1>2, <1>3, PTL DEF FaucetSpec

-----------------------------------------------------------------------------
(* The limiter: what a filter keeps of a sequence.                         *)

LessThan == {pair \in Nat \X Nat : pair[1] < pair[2]}

\* A set of natural numbers has a least one.
LEMMA LeastExists ==
  ASSUME NEW S, S \subseteq Nat, S # {}
  PROVE  \E x \in S : \A y \in S : x <= y
<1>1. IsWellFoundedOn(LessThan, Nat)
  BY NatLessThanWellFounded DEF OpToRel, LessThan
<1>2. \E x \in S : \A y \in S : ~ (<<y, x>> \in LessThan)
  BY <1>1, WFMin
<1>3. ASSUME NEW x \in S, NEW y \in S, ~ (<<y, x>> \in LessThan)
      PROVE  x <= y
  BY <1>3 DEF LessThan
<1> QED BY <1>2, <1>3

\* The entries of s at places in P, in their order, up to each place.
KeptAt(g, s, P, i) ==
  CASE i = 0 -> <<>>
    [] i > 0 /\ i \in P -> Append(g[i - 1], s[i])
    [] OTHER -> g[i - 1]

IsKept(g, s, P, n) == g = [i \in 0..n |-> KeptAt(g, s, P, i)]

LEMMA KeptExists ==
  ASSUME NEW s, NEW P, NEW n \in Nat
  PROVE  \E g : IsKept(g, s, P, n)
<1> DEFINE Bad == {k \in Nat : ~ \E g : IsKept(g, s, P, k)}
<1> SUFFICES ASSUME Bad # {} PROVE FALSE
  OBVIOUS
<1>1. PICK k \in Bad : \A m \in Bad : k <= m
  BY LeastExists
<1>2. k # 0
  <2>1. IsKept([i \in 0..0 |-> <<>>], s, P, 0)
    BY DEF IsKept, KeptAt
  <2> QED BY <2>1
<1>3. k - 1 \in Nat /\ k - 1 \notin Bad
  BY <1>1, <1>2
<1>4. PICK g : IsKept(g, s, P, k - 1)
  BY <1>3
<1> DEFINE h == [i \in 0..k |-> IF i = k THEN KeptAt(g, s, P, k) ELSE g[i]]
<1>5. ASSUME NEW i \in 0..k
      PROVE  h[i] = KeptAt(h, s, P, i)
  <2>1. CASE i = k
    <3>1. h[k - 1] = g[k - 1]
      BY <1>2
    <3> QED BY <2>1, <3>1, <1>2 DEF KeptAt
  <2>2. CASE i # k
    <3>1. i \in 0..(k - 1) /\ h[i] = g[i]
      BY <2>2
    <3>2. g[i] = KeptAt(g, s, P, i)
      BY <1>4, <3>1 DEF IsKept
    <3>3. i # 0 => i - 1 \in 0..(k - 1) /\ h[i - 1] = g[i - 1]
      BY <3>1
    <3> QED BY <3>1, <3>2, <3>3 DEF KeptAt
  <2> QED BY <2>1, <2>2
<1>6. IsKept(h, s, P, k)
  BY <1>5 DEF IsKept
<1> QED BY <1>6

\* f are entries of s at places in P, in their order, none beyond n.
Embeds(h, f, s, P, n) ==
  /\ h \in [1..Len(f) -> P \cap 1..n]
  /\ \A i \in 1..Len(f) : f[i] = s[h[i]]
  /\ \A i, j \in 1..Len(f) : i < j => h[i] < h[j]

LEMMA KeptEmbeds ==
  ASSUME NEW s \in Seq(Int), NEW P, NEW g, IsKept(g, s, P, Len(s)), NEW n \in 0..Len(s)
  PROVE  g[n] \in Seq(Int) /\ \E h : Embeds(h, g[n], s, P, n)
<1> DEFINE Good(k) == g[k] \in Seq(Int) /\ \E h : Embeds(h, g[k], s, P, k)
<1> DEFINE Bad == {k \in 0..Len(s) : ~Good(k)}
<1> SUFFICES ASSUME Bad # {} PROVE FALSE
  OBVIOUS
<1>1. PICK k \in Bad : \A m \in Bad : k <= m
  <2> HIDE DEF Good
  <2>1. Bad \subseteq Nat
    OBVIOUS
  <2> HIDE DEF Bad
  <2> QED BY <2>1, LeastExists
<1>2. g[k] = KeptAt(g, s, P, k)
  BY <1>1 DEF IsKept
<1>3. k # 0
  <2> SUFFICES ASSUME k = 0 PROVE FALSE
    OBVIOUS
  <2>1. g[k] = <<>>
    BY <1>2 DEF KeptAt
  <2>2. Embeds([i \in 1..0 |-> 0], g[k], s, P, k)
    BY <2>1 DEF Embeds
  <2>3. g[k] \in Seq(Int)
    BY <2>1
  <2> QED BY <1>1, <2>2, <2>3
<1>4. Good(k - 1)
  <2>1. k - 1 \in 0..Len(s) /\ ~ (k <= k - 1)
    BY <1>1, <1>3
  <2>2. k - 1 \notin Bad
    BY <1>1, <2>1
  <2> HIDE DEF Good
  <2> QED BY <2>1, <2>2
<1>5. PICK h : Embeds(h, g[k - 1], s, P, k - 1)
  BY <1>4
<1>6. k \in 1..Len(s) /\ k - 1 \in Nat
  BY <1>1, <1>3
<1>7. CASE k \in P
  <2>1. g[k] = Append(g[k - 1], s[k])
    BY <1>2, <1>3, <1>6, <1>7 DEF KeptAt
  <2> DEFINE l == Len(g[k - 1])
  <2>2. l \in Nat /\ s[k] \in Int
    BY <1>4, <1>6
  <2>3. g[k] \in Seq(Int) /\ Len(g[k]) = l + 1 /\ g[k][l + 1] = s[k]
        /\ \A i \in 1..l : g[k][i] = g[k - 1][i]
    BY <1>4, <2>1, <2>2
  <2> DEFINE e == [i \in 1..(l + 1) |-> IF i = l + 1 THEN k ELSE h[i]]
  <2>4. \A i \in 1..l : h[i] \in P \cap 1..(k - 1)
    BY <1>5 DEF Embeds
  <2>5. e \in [1..(l + 1) -> P \cap 1..k]
    <3> SUFFICES ASSUME NEW i \in 1..(l + 1) PROVE e[i] \in P \cap 1..k
      OBVIOUS
    <3>1. CASE i = l + 1
      BY <1>6, <1>7, <3>1
    <3>2. CASE i # l + 1
      <4>1. i \in 1..l
        BY ONLY <2>2, <3>2, i \in 1..(l + 1)
      <4>2. e[i] = h[i]
        BY <3>2
      <4>3. h[i] \in P /\ h[i] \in 1..(k - 1)
        BY <2>4, <4>1
      <4>4. h[i] \in 1..k
        BY ONLY <1>6, <4>3
      <4> HIDE DEF e
      <4> QED BY <4>2, <4>3, <4>4
    <3> QED BY <3>1, <3>2
  <2>6. \A i \in 1..(l + 1) : g[k][i] = s[e[i]]
    <3> SUFFICES ASSUME NEW i \in 1..(l + 1) PROVE g[k][i] = s[e[i]]
      OBVIOUS
    <3>1. CASE i = l + 1
      BY <2>2, <2>3, <3>1
    <3>2. CASE i # l + 1
      <4>1. i \in 1..l
        BY ONLY <2>2, <3>2, i \in 1..(l + 1)
      <4>2. e[i] = h[i]
        BY <3>2
      <4>3. g[k - 1][i] = s[h[i]]
        BY <1>5, <4>1 DEF Embeds
      <4>4. g[k][i] = g[k - 1][i]
        BY <2>3, <4>1
      <4> HIDE DEF e
      <4> QED BY <4>2, <4>3, <4>4
    <3> QED BY <3>1, <3>2
  <2>7. \A i, j \in 1..(l + 1) : i < j => e[i] < e[j]
    <3> SUFFICES ASSUME NEW i \in 1..(l + 1), NEW j \in 1..(l + 1), i < j
                 PROVE  e[i] < e[j]
      OBVIOUS
    <3>1. i \in 1..l /\ e[i] = h[i]
      BY <2>2
    <3>2. CASE j = l + 1
      BY <1>6, <2>4, <3>1, <3>2
    <3>3. CASE j # l + 1
      <4>1. j \in 1..l
        <5> HIDE DEF l
        <5>1. l \in Nat /\ j \in 1..(l + 1) /\ j # l + 1
          BY <2>2, <3>3
        <5> QED BY ONLY <5>1
      <4>2. e[j] = h[j]
        BY <3>3
      <4>3. h[i] < h[j]
        BY <1>5, <3>1, <4>1 DEF Embeds
      <4> HIDE DEF e
      <4> QED BY <3>1, <4>2, <4>3
    <3> QED BY <3>2, <3>3
  <2> HIDE DEF e
  <2>8. Embeds(e, g[k], s, P, k)
    BY <2>3, <2>5, <2>6, <2>7 DEF Embeds
  <2> QED BY <1>1, <2>3, <2>8
<1>8. CASE k \notin P
  <2>1. g[k] = g[k - 1]
    BY <1>2, <1>3, <1>6, <1>8 DEF KeptAt
  <2>2. Embeds(h, g[k], s, P, k)
    BY <1>5, <1>6, <2>1 DEF Embeds
  <2> QED BY <1>1, <1>4, <2>1, <2>2
<1> QED BY <1>7, <1>8

FreshPlaces(key) == {i \in 1..Len(log[key]) : IsFresh(key, log[key][i])}

\* FreshEntries keeps the fresh stamps of a key, in their order.
LEMMA FreshEmbeds ==
  ASSUME NEW key, log[key] \in Seq(Int)
  PROVE  /\ FreshEntries(key) \in Seq(Int)
         /\ \E h : Embeds(h, FreshEntries(key), log[key], FreshPlaces(key), Len(log[key]))
<1> DEFINE kept == CHOOSE g : IsKept(g, log[key], FreshPlaces(key), Len(log[key]))
<1>1. Len(log[key]) \in Nat
  OBVIOUS
<1>2. IsKept(kept, log[key], FreshPlaces(key), Len(log[key]))
  BY <1>1, KeptExists
<1>3. FreshEntries(key) = kept[Len(log[key])]
  <2>1. \A g : IsKept(g, log[key], FreshPlaces(key), Len(log[key])) <=>
          g = [i \in 0..Len(log[key]) |->
                 CASE i = 0 -> <<>>
                   [] i > 0 /\ IsFresh(key, log[key][i]) -> Append(g[i - 1], log[key][i])
                   [] OTHER -> g[i - 1]]
    <3> SUFFICES ASSUME NEW g, NEW i \in 0..Len(log[key])
                 PROVE  KeptAt(g, log[key], FreshPlaces(key), i) =
                          CASE i = 0 -> <<>>
                            [] i > 0 /\ IsFresh(key, log[key][i]) -> Append(g[i - 1], log[key][i])
                            [] OTHER -> g[i - 1]
      BY DEF IsKept
    <3> QED BY DEF KeptAt, FreshPlaces
  <2> QED BY <2>1, Zenon DEF FreshEntries
<1> HIDE DEF kept
<1> QED BY <1>1, <1>2, <1>3, KeptEmbeds


-----------------------------------------------------------------------------
(* Stamps and grants, counted above a time.                                *)

Above(s, t) == {i \in 1..Len(s) : s[i] > t}

\* Stamps in the order of time, none of the future.
Stamps(s) ==
  /\ s \in Seq(Int)
  /\ \A i, j \in 1..Len(s) : i < j => s[i] <= s[j]
  /\ \A i \in 1..Len(s) : s[i] <= clock

\* The grants of a key after a time that were not given back.
Given(key, t) == {g \in DOMAIN granted :
  /\ granted[g].fate # "given back"
  /\ key \in {AddressKey(granted[g].account), IpKey(granted[g].ip)}
  /\ granted[g].at > t}

LEMMA AboveCount ==
  ASSUME NEW s \in Seq(Int), NEW t
  PROVE  IsFiniteSet(Above(s, t)) /\ Cardinality(Above(s, t)) \in Nat
<1>1. IsFiniteSet(1..Len(s))
  BY FS_Interval
<1>2. Above(s, t) \in SUBSET (1..Len(s))
  BY DEF Above
<1> QED BY <1>1, <1>2, FS_Subset, FS_CardinalityType

\* What a filter keeps is ordered still, and no more of it is above a time.
LEMMA FreshCounts ==
  ASSUME NEW key, Stamps(log[key])
  PROVE  /\ Stamps(FreshEntries(key))
         /\ \A t \in Int : Cardinality(Above(FreshEntries(key), t))
                             <= Cardinality(Above(log[key], t))
         /\ Len(FreshEntries(key)) <= Cardinality(FreshPlaces(key))
<1> PICK f, s, P : f = FreshEntries(key) /\ s = log[key] /\ P = FreshPlaces(key)
  OBVIOUS
<1>1. s \in Seq(Int) /\ f \in Seq(Int) /\ Len(s) \in Nat /\ Len(f) \in Nat
  BY FreshEmbeds DEF Stamps
<1>2. PICK h : Embeds(h, f, s, P, Len(s))
  BY FreshEmbeds DEF Stamps
<1>3. h \in [1..Len(f) -> P] /\ \A i \in 1..Len(f) : h[i] \in 1..Len(s) /\ f[i] = s[h[i]]
  BY <1>2 DEF Embeds
<1>4. \A i, j \in 1..Len(f) : i # j => h[i] # h[j]
  <2> SUFFICES ASSUME NEW i \in 1..Len(f), NEW j \in 1..Len(f), i # j PROVE h[i] # h[j]
    OBVIOUS
  <2>1. i < j \/ j < i
    BY <1>1
  <2>2. h[i] \in Int /\ h[j] \in Int
    BY <1>3
  <2> QED BY <1>2, <2>1, <2>2 DEF Embeds
<1>5. Stamps(f)
  <2>1. ASSUME NEW i \in 1..Len(f), NEW j \in 1..Len(f), i < j PROVE f[i] <= f[j]
    <3>1. h[i] < h[j] /\ h[i] \in 1..Len(s) /\ h[j] \in 1..Len(s)
      BY <1>2, <1>3, <2>1 DEF Embeds
    <3>2. s[h[i]] <= s[h[j]]
      BY <3>1 DEF Stamps
    <3> QED BY <1>3, <3>2
  <2>2. ASSUME NEW i \in 1..Len(f) PROVE f[i] <= clock
    BY <1>3 DEF Stamps
  <2> QED BY <1>1, <2>1, <2>2 DEF Stamps
<1>6. ASSUME NEW t \in Int
      PROVE  Cardinality(Above(f, t)) <= Cardinality(Above(s, t))
  <2> DEFINE e == [i \in Above(f, t) |-> h[i]]
  <2>1. \A i \in Above(f, t) : i \in 1..Len(f) /\ h[i] \in Above(s, t)
    BY <1>3 DEF Above
  <2>2. e \in [Above(f, t) -> Above(s, t)]
    BY <2>1
  <2>3. \A i, j \in Above(f, t) : e[i] = e[j] => i = j
    BY <1>4, <2>1
  <2> HIDE DEF e
  <2>4. e \in Injection(Above(f, t), Above(s, t))
    BY <2>2, <2>3 DEF Injection, IsInjective
  <2>5. IsFiniteSet(Above(s, t))
    BY <1>1, AboveCount
  <2> QED BY <2>4, <2>5, FS_Injection
<1>7. Len(f) <= Cardinality(P)
  <2>1. IsFiniteSet(1..Len(s)) /\ Cardinality(1..Len(f)) = Len(f)
    <3>1. 1 \in Int /\ Len(s) \in Int /\ Len(f) \in Int
      BY <1>1
    <3>2. IsFiniteSet(1..Len(s)) /\ Cardinality(1..Len(f)) = IF 1 > Len(f) THEN 0 ELSE Len(f) - 1 + 1
      BY <3>1, FS_Interval, Zenon
    <3> QED BY <1>1, <3>2
  <2>2. P \in SUBSET (1..Len(s))
    BY DEF FreshPlaces
  <2>3. IsFiniteSet(P)
    BY <2>1, <2>2, FS_Subset
  <2>4. h \in Injection(1..Len(f), P)
    BY <1>3, <1>4 DEF Injection, IsInjective
  <2>5. Cardinality(1..Len(f)) <= Cardinality(P)
    BY <2>3, <2>4, FS_Injection
  <2> QED BY <2>1, <2>5
<1> QED BY <1>5, <1>6, <1>7

\* One stamp more.
LEMMA StampAdded ==
  ASSUME NEW s, Stamps(s), clock \in Int, NEW t \in Int
  PROVE  /\ Stamps(Append(s, clock))
         /\ Cardinality(Above(Append(s, clock), t))
              = Cardinality(Above(s, t)) + (IF clock > t THEN 1 ELSE 0)
<1> PICK a : a = Append(s, clock)
  OBVIOUS
<1>1. /\ a \in Seq(Int) /\ Len(a) = Len(s) + 1 /\ Len(s) \in Nat /\ s \in Seq(Int)
      /\ a[Len(s) + 1] = clock /\ \A i \in 1..Len(s) : a[i] = s[i]
  BY DEF Stamps
<1>2. Stamps(a)
  <2>1. ASSUME NEW i \in 1..Len(a), NEW j \in 1..Len(a), i < j PROVE a[i] <= a[j]
    <3>1. i \in 1..Len(s) /\ a[i] = s[i] /\ s[i] \in Int
      BY <1>1, <2>1
    <3>2. CASE j = Len(s) + 1
      BY <1>1, <3>1, <3>2 DEF Stamps
    <3>3. CASE j # Len(s) + 1
      <4>1. j \in 1..Len(s) /\ a[j] = s[j]
        BY <1>1, <3>3
      <4> QED BY <2>1, <3>1, <4>1 DEF Stamps
    <3> QED BY <3>2, <3>3
  <2>2. ASSUME NEW i \in 1..Len(a) PROVE a[i] <= clock
    <3>1. CASE i = Len(s) + 1
      BY <1>1, <3>1
    <3>2. CASE i # Len(s) + 1
      <4>1. i \in 1..Len(s) /\ a[i] = s[i]
        BY <1>1, <3>2
      <4> QED BY <4>1 DEF Stamps
    <3> QED BY <3>1, <3>2
  <2> QED BY <1>1, <2>1, <2>2 DEF Stamps
<1>3. Above(a, t) = Above(s, t) \cup (IF clock > t THEN {Len(s) + 1} ELSE {})
  <2>1. ASSUME NEW i \in 1..Len(a)
        PROVE  i \in Above(a, t) <=> i \in Above(s, t) \/ (i = Len(s) + 1 /\ clock > t)
    <3>1. CASE i = Len(s) + 1
      BY <1>1, <3>1 DEF Above
    <3>2. CASE i # Len(s) + 1
      <4>1. i \in 1..Len(s) /\ a[i] = s[i]
        BY <1>1, <3>2
      <4> QED BY <3>2, <4>1 DEF Above
    <3> QED BY <3>1, <3>2
  <2>2. Above(a, t) \subseteq 1..Len(a) /\ Above(s, t) \subseteq 1..Len(a) /\ Len(s) + 1 \in 1..Len(a)
    BY <1>1 DEF Above
  <2> QED BY <2>1, <2>2
<1>4. /\ IsFiniteSet(Above(s, t)) /\ Cardinality(Above(s, t)) \in Nat
      /\ Len(s) + 1 \notin Above(s, t)
  <2>1. Len(s) + 1 \notin 1..Len(s)
    BY <1>1
  <2> QED BY <1>1, <2>1, AboveCount DEF Above
<1>5. Cardinality(Above(s, t) \cup {Len(s) + 1}) = Cardinality(Above(s, t)) + 1
  BY <1>4, FS_AddElement
<1>6. CASE clock > t
  BY <1>2, <1>3, <1>5, <1>6
<1>7. CASE ~ (clock > t)
  <2>1. Above(a, t) = Above(s, t)
    BY <1>3, <1>7
  <2> QED BY <1>2, <1>4, <1>7, <2>1
<1> QED BY <1>6, <1>7

\* The newest stamp goes: one less above every time that any was above.
LEMMA StampDropped ==
  ASSUME NEW s, Stamps(s), s # <<>>, NEW t \in Int
  PROVE  /\ Stamps(Front(s))
         /\ Cardinality(Above(Front(s), t)) =
              IF Above(s, t) = {} THEN 0 ELSE Cardinality(Above(s, t)) - 1
<1> PICK f : f = Front(s)
  OBVIOUS
<1>1. /\ f \in Seq(Int) /\ Len(f) = Len(s) - 1 /\ Len(s) \in Nat \ {0} /\ s \in Seq(Int)
      /\ \A i \in 1..Len(f) : f[i] = s[i] /\ i \in 1..Len(s)
  <2>1. s \in Seq(Int) /\ Len(s) \in Nat \ {0}
    BY DEF Stamps
  <2>2. f = SubSeq(s, 1, Len(s) - 1)
    BY DEF Front
  <2>3. f = [i \in 1..(Len(s) - 1) |-> s[i]]
    BY <2>1, <2>2
  <2>4. \A i \in 1..(Len(s) - 1) : i \in 1..Len(s) /\ s[i] \in Int
    BY <2>1
  <2>5. f \in Seq(Int) /\ Len(f) = Len(s) - 1
    BY <2>1, <2>3, <2>4
  <2> QED BY <2>1, <2>3, <2>4, <2>5
<1>2. Stamps(f)
  <2>1. ASSUME NEW i \in 1..Len(f), NEW j \in 1..Len(f), i < j PROVE f[i] <= f[j]
    BY <1>1, <2>1 DEF Stamps
  <2>2. ASSUME NEW i \in 1..Len(f) PROVE f[i] <= clock
    BY <1>1, <2>2 DEF Stamps
  <2> QED BY <1>1, <2>1, <2>2 DEF Stamps
<1>3. Above(f, t) = Above(s, t) \ {Len(s)}
  <2>1. ASSUME NEW i \in 1..Len(s)
        PROVE  i \in Above(f, t) <=> i \in Above(s, t) /\ i # Len(s)
    <3>1. i # Len(s) <=> i \in 1..Len(f)
      BY <1>1
    <3> QED BY <1>1, <3>1 DEF Above
  <2>2. Above(f, t) \subseteq 1..Len(s) /\ Above(s, t) \subseteq 1..Len(s)
    BY <1>1 DEF Above
  <2> QED BY <2>1, <2>2
<1>4. IsFiniteSet(Above(s, t)) /\ Cardinality(Above(s, t)) \in Nat
  BY <1>1, AboveCount
<1>5. CASE Above(s, t) = {}
  BY <1>2, <1>3, <1>5, FS_EmptySet
<1>6. CASE Above(s, t) # {}
  <2>1. PICK i \in 1..Len(s) : s[i] > t
    BY <1>6 DEF Above
  <2>2. Len(s) \in 1..Len(s) /\ (i = Len(s) \/ i < Len(s))
    BY <1>1
  <2>3. s[i] <= s[Len(s)] /\ s[i] \in Int /\ s[Len(s)] \in Int
    BY <1>1, <2>2 DEF Stamps
  <2>4. Len(s) \in Above(s, t)
    BY <2>1, <2>2, <2>3 DEF Above
  <2> QED BY <1>2, <1>3, <1>4, <1>6, <2>4, FS_RemoveElement
<1> QED BY <1>5, <1>6


-----------------------------------------------------------------------------
(* The invariant of the limiter.                                           *)

GrantFields == {"account", "ip", "at", "fate"}
SlotFields  == {"state", "grant", "account", "ip", "status"}

LimiterTypes ==
  /\ clock \in Int /\ DOMAIN log = FaucetKeys
  /\ \E S : granted \in Seq(S)
  /\ \A g \in DOMAIN granted : DOMAIN granted[g] = GrantFields /\ granted[g].at \in Int
  /\ DOMAIN drips = Slots /\ \A d \in Slots : DOMAIN drips[d] = SlotFields

IsHeld(d) == drips[d].state \in {"reserved", "queued"}

\* A request that holds a grant holds one of its own address and IP.
HoldsGrant(d) ==
  IsHeld(d) =>
    /\ drips[d].grant \in DOMAIN granted
    /\ granted[drips[d].grant].account = drips[d].account
    /\ granted[drips[d].grant].ip = drips[d].ip

\* Later than any time there are no more stamps than grants to be billed.
NoneTooMany(key, t) == Cardinality(Above(log[key], t)) <= Cardinality(Given(key, t))

LimiterInv ==
  /\ LimiterTypes
  /\ \A d \in Slots : HoldsGrant(d)
  /\ \A key \in FaucetKeys : Stamps(log[key])
  /\ \A key \in FaucetKeys, t \in Int : NoneTooMany(key, t)

LEMMA GivenCount ==
  ASSUME LimiterTypes, NEW key, NEW t
  PROVE  IsFiniteSet(Given(key, t)) /\ Cardinality(Given(key, t)) \in Nat
<1>1. PICK n \in Nat : DOMAIN granted = 1..n
  BY DEF LimiterTypes
<1>2. IsFiniteSet(1..n)
  BY FS_Interval
<1>3. Given(key, t) \in SUBSET (1..n)
  BY <1>1 DEF Given
<1> QED BY <1>2, <1>3, FS_Subset, FS_CardinalityType

\* The grants stay what they are, but for their fates, and may get more.
KeepsGrants ==
  /\ DOMAIN granted \subseteq DOMAIN granted'
  /\ \A g \in DOMAIN granted :
       /\ granted'[g].account = granted[g].account
       /\ granted'[g].ip = granted[g].ip /\ granted'[g].at = granted[g].at

LEMMA HeldStays ==
  ASSUME LimiterInv, KeepsGrants, NEW d \in Slots,
         \/ drips'[d].state \notin {"reserved", "queued"}
         \/ /\ IsHeld(d)
            /\ drips'[d].grant = drips[d].grant
            /\ drips'[d].account = drips[d].account /\ drips'[d].ip = drips[d].ip
  PROVE  HoldsGrant(d)'
BY DEF LimiterInv, HoldsGrant, IsHeld, KeepsGrants

\* A sequence with one entry changed is one.
LEMMA EntryChanged ==
  ASSUME NEW S, NEW s \in Seq(S), NEW x, NEW r
  PROVE  [s EXCEPT ![x] = r] \in Seq(S \cup {r})
<1>1. /\ Len(s) \in Nat /\ DOMAIN s = 1..Len(s)
      /\ \A g \in 1..Len(s) : s[g] \in S
  OBVIOUS
<1>2. [s EXCEPT ![x] = r] = [g \in 1..Len(s) |-> IF g = x THEN r ELSE s[g]]
  BY <1>1
<1>3. PICK n, e : n \in Nat /\ n = Len(s) /\ e = [g \in 1..n |-> IF g = x THEN r ELSE s[g]]
  BY <1>1
<1>4. \A g \in 1..n : s[g] \in S
  BY <1>1, <1>3
<1>5. e \in [1..n -> S \cup {r}]
  BY <1>3, <1>4
<1>6. e \in Seq(S \cup {r})
  <2>1. n \in Nat
    BY <1>3
  <2> QED BY ONLY <1>5, <2>1
<1> QED BY <1>2, <1>3, <1>6

\* A grant is given back: a stamp goes from both its keys, if any is left.
LEMMA GiveBackInv ==
  ASSUME LimiterInv, NEW d \in Slots, IsHeld(d), NEW status, GiveBack(d, status),
         UNCHANGED clock
  PROVE  LimiterInv'
<1>1. PICK x \in DOMAIN granted : /\ x = drips[d].grant
                                  /\ granted[x].account = drips[d].account
                                  /\ granted[x].ip = drips[d].ip
  BY DEF LimiterInv, HoldsGrant
<1>2. PICK r : r = [granted[x] EXCEPT !.fate = "given back"]
  OBVIOUS
<1>3. granted' = [granted EXCEPT ![x] = r]
  BY <1>1, <1>2 DEF GiveBack
<1>4. /\ DOMAIN r = GrantFields /\ r.fate = "given back"
      /\ r.account = granted[x].account /\ r.ip = granted[x].ip /\ r.at = granted[x].at
  BY <1>1, <1>2 DEF LimiterInv, LimiterTypes, GrantFields
<1>5. PICK S : granted \in Seq(S)
  BY DEF LimiterInv, LimiterTypes
<1>6. DOMAIN granted' = DOMAIN granted /\ granted'[x] = r
      /\ \A g \in DOMAIN granted : g # x => granted'[g] = granted[g]
  BY <1>1, <1>3
<1>7. granted' \in Seq(S \cup {r})
  BY <1>3, <1>5, EntryChanged
<1>8. KeepsGrants
  BY <1>4, <1>6 DEF KeepsGrants
<1>9. /\ DOMAIN drips' = Slots
      /\ \A e \in Slots : e # d => drips'[e] = drips[e]
      /\ drips'[d] = Answered(status)
  BY DEF GiveBack, LimiterInv, LimiterTypes
<1>10. DOMAIN Answered(status) = SlotFields /\ Answered(status).state = "idle"
  BY DEF Answered, EmptySlot, SlotFields
<1>11. LimiterTypes'
  <2>1. clock' \in Int /\ DOMAIN log' = FaucetKeys
    BY DEF GiveBack, Release, LimiterInv, LimiterTypes
  <2>2. \E T : granted' \in Seq(T)
    BY <1>7
  <2>3. \A g \in DOMAIN granted' : DOMAIN granted'[g] = GrantFields /\ granted'[g].at \in Int
    BY <1>1, <1>4, <1>6 DEF LimiterInv, LimiterTypes
  <2>4. \A e \in Slots : DOMAIN drips'[e] = SlotFields
    BY <1>9, <1>10 DEF LimiterInv, LimiterTypes
  <2> QED BY <1>9, <2>1, <2>2, <2>3, <2>4 DEF LimiterTypes
<1>12. ASSUME NEW e \in Slots PROVE HoldsGrant(e)'
  <2>1. CASE e = d
    BY <1>8, <1>9, <1>10, <2>1, HeldStays
  <2>2. CASE e # d
    <3>1. drips'[e] = drips[e]
      BY <1>9, <2>2
    <3>2. CASE IsHeld(e)
      BY <1>8, <3>1, <3>2, HeldStays
    <3>3. CASE ~IsHeld(e)
      BY <1>8, <3>1, <3>3, HeldStays DEF IsHeld
    <3> QED BY <3>2, <3>3
  <2> QED BY <2>1, <2>2
<1>13. ASSUME NEW key \in FaucetKeys PROVE Stamps(log[key])' /\ \A t \in Int : NoneTooMany(key, t)'
  <2> DEFINE drops == key \in {AddressKey(granted[x].account), IpKey(granted[x].ip)}
  <2>1. log'[key] = IF drops /\ log[key] # <<>> THEN Front(log[key]) ELSE log[key]
    BY <1>1 DEF GiveBack, Release
  <2>2. Stamps(log[key]) /\ \A t \in Int : NoneTooMany(key, t)
    BY DEF LimiterInv
  <2>3. ASSUME NEW t \in Int
        PROVE  /\ Given(key, t)' = IF drops THEN Given(key, t) \ {x} ELSE Given(key, t)
    <3>1. ASSUME NEW g \in DOMAIN granted, g # x
          PROVE  g \in Given(key, t)' <=> g \in Given(key, t)
      BY <1>6, <3>1 DEF Given
    <3>2. x \notin Given(key, t)'
      BY <1>4, <1>6 DEF Given
    <3>3. ~drops => x \notin Given(key, t)
      BY DEF Given
    <3>4. Given(key, t)' \subseteq DOMAIN granted /\ Given(key, t) \subseteq DOMAIN granted
      BY <1>6 DEF Given
    <3> PICK before, after : before = Given(key, t) /\ after = Given(key, t)'
      OBVIOUS
    <3>5. \A g \in DOMAIN granted : g # x => (g \in after <=> g \in before)
      BY <3>1
    <3>6. after = before \ {x}
      BY <3>2, <3>4, <3>5
    <3>7. ~drops => after = before
      BY <3>3, <3>6
    <3> HIDE DEF drops
    <3> QED BY <3>6, <3>7
  <2>4. Stamps(log[key])'
    <3>1. log[key] # <<>> => Stamps(Front(log[key]))
      <4>1. 0 \in Int
        OBVIOUS
      <4> QED BY <2>2, <4>1, StampDropped
    <3>2. Stamps(log'[key])
      BY <2>1, <2>2, <3>1
    <3> QED BY <3>2 DEF Stamps
  <2>5. ASSUME NEW t \in Int PROVE NoneTooMany(key, t)'
    <3>1. PICK n \in Nat, m \in Nat : n = Cardinality(Above(log[key], t)) /\ m = Cardinality(Given(key, t))
      BY <2>2, AboveCount, GivenCount DEF Stamps, LimiterInv
    <3>2. n <= m
      BY <2>2, <3>1 DEF NoneTooMany
    <3>3. Above(log[key], t)' = Above(log'[key], t)
      BY DEF Above
    <3>4. IsFiniteSet(Given(key, t))
      BY GivenCount DEF LimiterInv
    <3>5. Cardinality(Given(key, t) \ {x}) \in {m, m - 1}
      BY <3>1, <3>4, FS_RemoveElement
    <3>6. CASE ~drops
      <4>1. log'[key] = log[key] /\ Given(key, t)' = Given(key, t)
        BY <2>1, <2>3, <3>6
      <4> QED BY <3>1, <3>2, <3>3, <4>1 DEF NoneTooMany
    <3>7. CASE drops /\ log[key] = <<>>
      <4>1. Above(log'[key], t) = {}
        <5>1. log'[key] = <<>>
          BY <2>1, <3>7
        <5>2. 1..Len(log'[key]) = {}
          BY <5>1
        <5> QED BY <5>2 DEF Above
      <4>2. Cardinality(Above(log'[key], t)) = 0
        BY <4>1, FS_EmptySet
      <4>3. Cardinality(Given(key, t)') >= 0
        <5>1. Given(key, t)' = Given(key, t) \ {x}
          BY <2>3, <3>7
        <5>2. IsFiniteSet(Given(key, t) \ {x})
          BY <3>4, FS_RemoveElement
        <5>3. Cardinality(Given(key, t) \ {x}) \in Nat
          BY <5>2, FS_CardinalityType
        <5> QED BY <5>1, <5>3
      <4> QED BY <3>3, <4>2, <4>3 DEF NoneTooMany
    <3>8. CASE drops /\ log[key] # <<>>
      <4>1. Cardinality(Above(log'[key], t)) = IF Above(log[key], t) = {} THEN 0 ELSE n - 1
        BY <2>1, <2>2, <3>1, <3>8, StampDropped
      <4>2. Given(key, t)' = Given(key, t) \ {x}
        BY <2>3, <3>8
      <4>3. Cardinality(Given(key, t)') \in Nat
        BY <3>4, <4>2, FS_RemoveElement, FS_CardinalityType
      <4>4. Cardinality(Given(key, t)') \in {m, m - 1}
        BY <3>5, <4>2
      <4>5. Cardinality(Above(log'[key], t)) <= Cardinality(Given(key, t)')
        <5> PICK c, k : c = Cardinality(Given(key, t)') /\ k = Cardinality(Above(log'[key], t))
          OBVIOUS
        <5>1. (k = 0 \/ k = n - 1) /\ c \in Nat /\ (c = m \/ c = m - 1)
          BY <4>1, <4>3, <4>4
        <5>2. n \in Nat /\ m \in Nat
          BY <3>1
        <5>3. k <= c
          BY ONLY <3>2, <5>1, <5>2
        <5> QED BY <5>3
      <4> QED BY <3>3, <4>5 DEF NoneTooMany
    <3> QED BY <3>6, <3>7, <3>8
  <2> QED BY <2>4, <2>5
<1> QED BY <1>11, <1>12, <1>13 DEF LimiterInv


LEMMA GivenCountAfter ==
  ASSUME LimiterTypes', NEW key, NEW t
  PROVE  IsFiniteSet(Given(key, t)') /\ Cardinality(Given(key, t)') \in Nat
<1>1. PICK n \in Nat : DOMAIN granted' = 1..n
  BY DEF LimiterTypes
<1>2. IsFiniteSet(1..n)
  BY FS_Interval
<1>3. Given(key, t)' \in SUBSET (1..n)
  BY <1>1 DEF Given
<1> QED BY <1>2, <1>3, FS_Subset, FS_CardinalityType

\* A request keeps what it held or holds nothing.
SlotsOnlyLose ==
  /\ DOMAIN drips' = Slots
  /\ \A d \in Slots :
       /\ DOMAIN drips'[d] = SlotFields
       /\ \/ drips'[d] = drips[d]
          \/ drips'[d].state \notin {"reserved", "queued"}
          \/ /\ IsHeld(d)
             /\ drips'[d].grant = drips[d].grant
             /\ drips'[d].account = drips[d].account /\ drips'[d].ip = drips[d].ip

\* No grant changes, and no stamp is added.
LEMMA LimiterShrinks ==
  ASSUME LimiterInv, UNCHANGED granted, SlotsOnlyLose,
         clock' \in Int, DOMAIN log' = FaucetKeys,
         \A key \in FaucetKeys :
           /\ Stamps(log[key])'
           /\ \A t \in Int : Cardinality(Above(log'[key], t)) <= Cardinality(Above(log[key], t))
  PROVE  LimiterInv'
<1>1. LimiterTypes'
  BY DEF LimiterInv, LimiterTypes, SlotsOnlyLose
<1>2. KeepsGrants
  BY DEF KeepsGrants
<1>3. ASSUME NEW d \in Slots PROVE HoldsGrant(d)'
  <2>1. CASE drips'[d] = drips[d] /\ ~IsHeld(d)
    BY <1>2, <2>1, HeldStays DEF IsHeld
  <2>2. CASE drips'[d] = drips[d] /\ IsHeld(d)
    BY <1>2, <2>2, HeldStays
  <2>3. CASE drips'[d] # drips[d]
    BY <1>2, <2>3, HeldStays DEF SlotsOnlyLose
  <2> QED BY <2>1, <2>2, <2>3
<1>4. ASSUME NEW key \in FaucetKeys, NEW t \in Int PROVE NoneTooMany(key, t)'
  <2>1. PICK a, b, c : /\ a = Cardinality(Above(log'[key], t)) /\ b = Cardinality(Above(log[key], t))
                       /\ c = Cardinality(Given(key, t))
    OBVIOUS
  <2>2. a \in Nat /\ b \in Nat /\ c \in Nat
    <3>1. log'[key] \in Seq(Int) /\ log[key] \in Seq(Int)
      BY DEF LimiterInv, Stamps
    <3> QED BY <2>1, <3>1, AboveCount, GivenCount DEF LimiterInv
  <2>3. a <= b /\ b <= c
    BY <2>1 DEF LimiterInv, NoneTooMany
  <2>4. a <= c
    BY ONLY <2>2, <2>3
  <2>5. Above(log[key], t)' = Above(log'[key], t) /\ Given(key, t)' = Given(key, t)
    BY DEF Above, Given
  <2> QED BY <2>1, <2>4, <2>5 DEF NoneTooMany
<1> QED BY <1>1, <1>3, <1>4 DEF LimiterInv

LEMMA LimiterAside ==
  ASSUME LimiterInv, UNCHANGED <<log, granted, clock>>, SlotsOnlyLose
  PROVE  LimiterInv'
<1>1. clock' \in Int /\ DOMAIN log' = FaucetKeys
  BY DEF LimiterInv, LimiterTypes
<1>2. ASSUME NEW key \in FaucetKeys
      PROVE  /\ Stamps(log[key])'
             /\ \A t \in Int : Cardinality(Above(log'[key], t)) <= Cardinality(Above(log[key], t))
  <2>1. Stamps(log[key])'
    BY DEF LimiterInv, Stamps
  <2>2. \A t \in Int : Cardinality(Above(log[key], t)) \in Nat
    BY AboveCount DEF LimiterInv, Stamps
  <2>3. log' = log
    OBVIOUS
  <2>4. \A t \in Int : Cardinality(Above(log[key], t)) <= Cardinality(Above(log[key], t))
    BY <2>2
  <2> QED BY <2>1, <2>3, <2>4
<1> QED BY <1>1, <1>2, LimiterShrinks

\* A transfer that landed: its grant is billed, if it was not.
LEMMA LandedInv ==
  ASSUME LimiterInv, NEW d \in Slots, IsHeld(d),
         UNCHANGED <<log, clock>>,
         drips' = [drips EXCEPT ![d] = Answered(200)],
         granted' = [granted EXCEPT ![drips[d].grant].fate = "landed"]
  PROVE  LimiterInv'
<1>1. PICK x \in DOMAIN granted : x = drips[d].grant
  BY DEF LimiterInv, HoldsGrant
<1>2. PICK r : r = [granted[x] EXCEPT !.fate = "landed"]
  OBVIOUS
<1>3. granted' = [granted EXCEPT ![x] = r]
  BY <1>1, <1>2
<1>4. /\ DOMAIN r = GrantFields /\ r.fate = "landed"
      /\ r.account = granted[x].account /\ r.ip = granted[x].ip /\ r.at = granted[x].at
  BY <1>1, <1>2 DEF LimiterInv, LimiterTypes, GrantFields
<1>5. PICK S : granted \in Seq(S)
  BY DEF LimiterInv, LimiterTypes
<1>6. DOMAIN granted' = DOMAIN granted /\ granted'[x] = r
      /\ \A g \in DOMAIN granted : g # x => granted'[g] = granted[g]
  BY <1>1, <1>3
<1>7. granted' \in Seq(S \cup {r})
  <2>1. [granted EXCEPT ![x] = r] \in Seq(S \cup {r})
    BY <1>5, EntryChanged
  <2> QED BY <1>3, <2>1
<1>8. KeepsGrants
  BY <1>4, <1>6 DEF KeepsGrants
<1>9. /\ DOMAIN drips' = Slots
      /\ \A e \in Slots : e # d => drips'[e] = drips[e]
      /\ DOMAIN drips'[d] = SlotFields /\ drips'[d].state = "idle"
  BY DEF Answered, EmptySlot, SlotFields, LimiterInv, LimiterTypes
<1>10. LimiterTypes'
  <2>1. \E T : granted' \in Seq(T)
    BY <1>7
  <2>2. \A g \in DOMAIN granted' : DOMAIN granted'[g] = GrantFields /\ granted'[g].at \in Int
    BY <1>1, <1>4, <1>6 DEF LimiterInv, LimiterTypes
  <2>3. \A e \in Slots : DOMAIN drips'[e] = SlotFields
    BY <1>9 DEF LimiterInv, LimiterTypes
  <2> QED BY <1>9, <2>1, <2>2, <2>3 DEF LimiterInv, LimiterTypes
<1>11. ASSUME NEW e \in Slots PROVE HoldsGrant(e)'
  <2>1. CASE e = d
    BY <1>8, <1>9, <2>1, HeldStays
  <2>2. CASE e # d /\ IsHeld(e)
    BY <1>8, <1>9, <2>2, HeldStays
  <2>3. CASE e # d /\ ~IsHeld(e)
    BY <1>8, <1>9, <2>3, HeldStays DEF IsHeld
  <2> QED BY <2>1, <2>2, <2>3
<1>12. ASSUME NEW key \in FaucetKeys, NEW t \in Int PROVE NoneTooMany(key, t)'
  <2>1. \A g \in Given(key, t) : g \in Given(key, t)'
    BY <1>4, <1>6 DEF Given
  <2>2. PICK before, after : before = Given(key, t) /\ after = Given(key, t)'
    OBVIOUS
  <2>3. IsFiniteSet(after) /\ Cardinality(after) \in Nat
    <3>1. IsFiniteSet(Given(key, t)') /\ Cardinality(Given(key, t)') \in Nat
      BY <1>10, GivenCountAfter
    <3> QED BY <2>2, <3>1
  <2>4. before \in SUBSET after
    BY <2>1, <2>2
  <2>5. Cardinality(before) <= Cardinality(after) /\ Cardinality(before) \in Nat
    BY <2>3, <2>4, FS_Subset, FS_CardinalityType
  <2>6. NoneTooMany(key, t) /\ Cardinality(Above(log[key], t)) \in Nat
    BY AboveCount DEF LimiterInv, Stamps
  <2>7. Cardinality(Above(log[key], t)) <= Cardinality(after)
    BY <2>2, <2>3, <2>5, <2>6 DEF NoneTooMany
  <2>8. Above(log[key], t)' = Above(log[key], t)
    BY DEF Above
  <2> QED BY <2>2, <2>7, <2>8 DEF NoneTooMany
<1>13. \A key \in FaucetKeys : Stamps(log[key])'
  BY DEF LimiterInv, Stamps
<1> QED BY <1>10, <1>11, <1>12, <1>13 DEF LimiterInv

\* A request is given a place in both its windows.
LEMMA AcquireInv ==
  ASSUME LimiterInv, NEW d \in Slots, NEW account, NEW ip, UNCHANGED clock,
         Acquire(account, ip),
         granted' = Append(granted, [account |-> account, ip |-> ip, at |-> clock, fate |-> "held"]),
         drips' = [drips EXCEPT ![d] = [state |-> "reserved", grant |-> Len(granted) + 1,
                                        account |-> account, ip |-> ip, status |-> 0]]
  PROVE  LimiterInv'
<1>1. PICK r : r = [account |-> account, ip |-> ip, at |-> clock, fate |-> "held"]
  OBVIOUS
<1>2. PICK S : granted \in Seq(S)
  BY DEF LimiterInv, LimiterTypes
<1>3. PICK n \in Nat : n = Len(granted) /\ DOMAIN granted = 1..n
  BY <1>2
<1>4. /\ granted' \in Seq(S \cup {r}) /\ DOMAIN granted' = 1..(n + 1)
      /\ granted'[n + 1] = r /\ \A g \in 1..n : granted'[g] = granted[g]
  <2>1. granted' = Append(granted, r) /\ granted \in Seq(S \cup {r}) /\ r \in S \cup {r}
    BY <1>1, <1>2
  <2> QED BY <1>3, <2>1
<1>5. /\ DOMAIN r = GrantFields /\ r.account = account /\ r.ip = ip /\ r.at = clock
      /\ r.fate = "held" /\ clock \in Int
  BY <1>1 DEF GrantFields, LimiterInv, LimiterTypes
<1>6. KeepsGrants
  BY <1>3, <1>4 DEF KeepsGrants
<1>7. /\ DOMAIN drips' = Slots
      /\ \A e \in Slots : e # d => drips'[e] = drips[e]
      /\ DOMAIN drips'[d] = SlotFields /\ drips'[d].grant = n + 1
      /\ drips'[d].account = account /\ drips'[d].ip = ip
  BY <1>3 DEF SlotFields, LimiterInv, LimiterTypes
<1>8. LimiterTypes'
  <2>1. \E T : granted' \in Seq(T)
    BY <1>4
  <2>2. \A g \in DOMAIN granted' : DOMAIN granted'[g] = GrantFields /\ granted'[g].at \in Int
    <3> SUFFICES ASSUME NEW g \in 1..(n + 1)
                 PROVE  DOMAIN granted'[g] = GrantFields /\ granted'[g].at \in Int
      BY <1>4
    <3>1. CASE g = n + 1
      BY <1>4, <1>5, <3>1
    <3>2. CASE g # n + 1
      <4>1. g \in 1..n
        BY <3>2
      <4> QED BY <1>3, <1>4, <4>1 DEF LimiterInv, LimiterTypes
    <3> QED BY <3>1, <3>2
  <2>3. \A e \in Slots : DOMAIN drips'[e] = SlotFields
    BY <1>7 DEF LimiterInv, LimiterTypes
  <2>4. clock' \in Int /\ DOMAIN log' = FaucetKeys
    BY DEF Acquire, LimiterInv, LimiterTypes
  <2> QED BY <1>7, <2>1, <2>2, <2>3, <2>4 DEF LimiterTypes
<1>9. ASSUME NEW e \in Slots PROVE HoldsGrant(e)'
  <2>1. CASE e = d
    BY <1>4, <1>5, <1>7, <2>1 DEF HoldsGrant
  <2>2. CASE e # d /\ IsHeld(e)
    BY <1>6, <1>7, <2>2, HeldStays
  <2>3. CASE e # d /\ ~IsHeld(e)
    BY <1>6, <1>7, <2>3, HeldStays DEF IsHeld
  <2> QED BY <2>1, <2>2, <2>3
<1>10. ASSUME NEW key \in FaucetKeys
       PROVE  Stamps(log[key])' /\ \A t \in Int : NoneTooMany(key, t)'
  <2>1. Stamps(log[key]) /\ \A t \in Int : NoneTooMany(key, t)
    BY DEF LimiterInv
  <2> DEFINE mine == key \in {AddressKey(account), IpKey(ip)}
  <2>2. PICK f : /\ f = FreshEntries(key)
                 /\ log'[key] = IF mine THEN Append(f, clock) ELSE log[key]
    BY DEF Acquire
  <2>3. /\ Stamps(f) /\ f \in Seq(Int)
        /\ \A t \in Int : Cardinality(Above(f, t)) <= Cardinality(Above(log[key], t))
    BY <2>1, <2>2, FreshCounts DEF Stamps
  <2>4. Stamps(log'[key])
    <3>1. 0 \in Int
      OBVIOUS
    <3>2. Stamps(Append(f, clock))
      BY <1>5, <2>3, <3>1, StampAdded
    <3> QED BY <2>1, <2>2, <3>2
  <2>5. ASSUME NEW t \in Int PROVE NoneTooMany(key, t)'
    <3>1. PICK a \in Nat, b \in Nat, c \in Nat :
            /\ a = Cardinality(Above(f, t)) /\ b = Cardinality(Above(log[key], t))
            /\ c = Cardinality(Given(key, t))
      BY <2>1, <2>3, AboveCount, GivenCount DEF Stamps, LimiterInv
    <3>2. a <= b /\ b <= c
      BY <2>1, <2>3, <3>1 DEF NoneTooMany
    <3>3. PICK before, after : before = Given(key, t) /\ after = Given(key, t)'
      OBVIOUS
    <3>4. after = before \cup (IF mine /\ clock > t THEN {n + 1} ELSE {}) /\ n + 1 \notin before
      <4>1. ASSUME NEW g \in 1..n PROVE g \in after <=> g \in before
        <5>1. g \in DOMAIN granted' /\ g \in DOMAIN granted /\ granted'[g] = granted[g]
          BY <1>3, <1>4, <4>1
        <5> QED BY <3>3, <5>1 DEF Given
      <4>2. n + 1 \in after <=> mine /\ clock > t
        <5>1. n + 1 \in DOMAIN granted' /\ granted'[n + 1] = r
          BY <1>4
        <5> QED BY <1>5, <3>3, <5>1 DEF Given
      <4>3. after \subseteq 1..(n + 1) /\ before \subseteq 1..n
        BY <1>3, <1>4, <3>3 DEF Given
      <4>4. n + 1 \notin 1..n /\ \A g \in 1..(n + 1) : g \in 1..n \/ g = n + 1
        OBVIOUS
      <4> HIDE DEF mine
      <4> QED BY <4>1, <4>2, <4>3, <4>4
    <3>5. IsFiniteSet(before)
      BY <3>3, GivenCount DEF LimiterInv
    <3>6. Cardinality(before \cup {n + 1}) = c + 1
      BY <3>1, <3>3, <3>4, <3>5, FS_AddElement
    <3>7. Cardinality(after) = IF mine /\ clock > t THEN c + 1 ELSE c
      <4>1. CASE mine /\ clock > t
        BY <3>4, <3>6, <4>1
      <4>2. CASE ~(mine /\ clock > t)
        <5>1. after = before
          BY <3>4, <4>2
        <5> QED BY <3>1, <3>3, <4>2, <5>1
      <4> QED BY <4>1, <4>2
    <3>8. Cardinality(Above(log'[key], t)) = IF mine THEN a + (IF clock > t THEN 1 ELSE 0) ELSE b
      BY <1>5, <2>2, <2>3, <3>1, StampAdded
    <3>9. Cardinality(Above(log'[key], t)) <= Cardinality(after)
      <4>1. a \in Nat /\ b \in Nat /\ c \in Nat
        BY <3>1
      <4> QED BY ONLY <3>2, <3>7, <3>8, <4>1
    <3>10. Above(log[key], t)' = Above(log'[key], t)
      BY DEF Above
    <3> QED BY <3>3, <3>9, <3>10 DEF NoneTooMany
  <2>6. Stamps(log[key])'
    BY <2>4 DEF Stamps
  <2> QED BY <2>5, <2>6
<1> QED BY <1>8, <1>9, <1>10 DEF LimiterInv

\* The windows are windows while the faucet serves: a fresh stamp is one above
\* a time.
LEMMA FreshIsAbove ==
  ASSUME FaucetInv, LimiterInv, up, NEW key \in FaucetKeys
  PROVE  /\ clock - RuleOf(key).window \in Int
         /\ FreshPlaces(key) = Above(log[key], clock - RuleOf(key).window)
         /\ Billed(key) = Given(key, clock - RuleOf(key).window)
<1>1. Serving
  BY DEF FaucetInv, AtRest
<1>2. PICK w \in Int : w = RuleOf(key).window
  BY <1>1 DEF Serving, ConfigIsValid, AcceptsRule, RuleOf
<1>3. clock \in Int /\ log[key] \in Seq(Int)
  BY DEF LimiterInv, LimiterTypes, Stamps
<1>4. \A stamp \in Int : IsFresh(key, stamp) <=> stamp > clock - w
  BY <1>2, <1>3 DEF IsFresh
<1>5. FreshPlaces(key) = Above(log[key], clock - w)
  BY <1>3, <1>4 DEF FreshPlaces, Above
<1>6. Billed(key) = Given(key, clock - w)
  <2>1. \A g \in DOMAIN granted : granted[g].at \in Int
    BY DEF LimiterInv, LimiterTypes
  <2>2. \A g \in DOMAIN granted : clock - granted[g].at < w <=> granted[g].at > clock - w
    BY <1>3, <2>1
  <2> QED BY <1>2, <2>2 DEF Billed, Given
<1> QED BY <1>2, <1>3, <1>5, <1>6

\* The process comes and goes, time passes, old stamps are thrown away.
LEMMA ProcessStepsInv ==
  ASSUME LimiterInv, Boot \/ ShutDown \/ FaucetTick \/ Prune
  PROVE  LimiterInv'
<1>1. /\ DOMAIN drips = Slots /\ DOMAIN log = FaucetKeys /\ clock \in Int
      /\ \A d \in Slots : DOMAIN drips[d] = SlotFields
  BY DEF LimiterInv, LimiterTypes
<1>2. \A key \in FaucetKeys : Stamps(log[key]) /\ log[key] \in Seq(Int)
  BY DEF LimiterInv, Stamps
<1>3. CASE Boot
  BY <1>1, <1>3, LimiterAside DEF Boot, SlotsOnlyLose
<1>4. CASE FaucetTick
  <2>1. UNCHANGED <<granted, log, drips>> /\ clock' = clock + 1
    BY <1>4 DEF FaucetTick
  <2>2. SlotsOnlyLose
    BY <1>1, <2>1 DEF SlotsOnlyLose
  <2>3. ASSUME NEW key \in FaucetKeys
        PROVE  /\ Stamps(log[key])'
               /\ \A t \in Int : Cardinality(Above(log'[key], t)) <= Cardinality(Above(log[key], t))
    <3>1. \A i \in 1..Len(log[key]) : log[key][i] \in Int /\ log[key][i] <= clock
      BY <1>2 DEF Stamps
    <3>2. \A i \in 1..Len(log[key]) : log[key][i] <= clock + 1
      BY <1>1, <3>1
    <3>3. Stamps(log[key])'
      BY <1>2, <2>1, <3>2 DEF Stamps
    <3>4. \A t \in Int : Cardinality(Above(log[key], t)) \in Nat
      BY <1>2, AboveCount
    <3>5. \A t \in Int : Cardinality(Above(log[key], t)) <= Cardinality(Above(log[key], t))
      BY <3>4
    <3> QED BY <2>1, <3>3, <3>5
  <2> QED BY <1>1, <2>1, <2>2, <2>3, LimiterShrinks
<1>5. CASE ShutDown
  <2>1. /\ UNCHANGED <<granted, clock>> /\ DOMAIN log' = FaucetKeys
        /\ \A key \in FaucetKeys : log'[key] = <<>>
    BY <1>5 DEF ShutDown
  <2>2. SlotsOnlyLose
    BY <1>5 DEF ShutDown, EmptySlot, SlotFields, SlotsOnlyLose
  <2>3. ASSUME NEW key \in FaucetKeys
        PROVE  /\ Stamps(log[key])'
               /\ \A t \in Int : Cardinality(Above(log'[key], t)) <= Cardinality(Above(log[key], t))
    <3>1. log'[key] = <<>> /\ 1..Len(log'[key]) = {}
      BY <2>1
    <3>2. Stamps(log[key])'
      BY <2>1, <3>1 DEF Stamps
    <3>3. \A t \in Int : Above(log'[key], t) = {}
      BY <3>1 DEF Above
    <3>4. \A t \in Int : Cardinality(Above(log'[key], t)) = 0
      BY <3>3, FS_EmptySet
    <3>5. \A t \in Int : Cardinality(Above(log[key], t)) \in Nat
      BY <1>2, AboveCount
    <3>6. \A t \in Int : Cardinality(Above(log'[key], t)) <= Cardinality(Above(log[key], t))
      BY <3>4, <3>5
    <3> QED BY <3>2, <3>6
  <2> QED BY <1>1, <2>1, <2>2, <2>3, LimiterShrinks
<1>6. CASE Prune
  <2>1. /\ UNCHANGED <<granted, clock, drips>> /\ DOMAIN log' = FaucetKeys
        /\ \A key \in FaucetKeys : log'[key] = FreshEntries(key)
    BY <1>6 DEF Prune
  <2>2. SlotsOnlyLose
    BY <1>1, <2>1 DEF SlotsOnlyLose
  <2>3. ASSUME NEW key \in FaucetKeys
        PROVE  /\ Stamps(log[key])'
               /\ \A t \in Int : Cardinality(Above(log'[key], t)) <= Cardinality(Above(log[key], t))
    <3>1. Stamps(log'[key])
      BY <1>2, <2>1, FreshCounts
    <3>2. Stamps(log[key])'
      BY <2>1, <3>1 DEF Stamps
    <3> QED BY <1>2, <2>1, <3>2, FreshCounts
  <2> QED BY <1>1, <2>1, <2>2, <2>3, LimiterShrinks
<1> QED BY <1>3, <1>4, <1>5, <1>6

\* A slot is answered or goes on with the grant it has.
LEMMA OneSlotLoses ==
  ASSUME LimiterInv, NEW d \in Slots, NEW new, drips' = [drips EXCEPT ![d] = new],
         DOMAIN new = SlotFields,
         \/ new.state \notin {"reserved", "queued"}
         \/ /\ IsHeld(d) /\ new.grant = drips[d].grant
            /\ new.account = drips[d].account /\ new.ip = drips[d].ip
  PROVE  SlotsOnlyLose
BY DEF LimiterInv, LimiterTypes, SlotsOnlyLose

LEMMA AnsweredIsIdle ==
  \A status : DOMAIN Answered(status) = SlotFields /\ Answered(status).state = "idle"
BY DEF Answered, EmptySlot, SlotFields

LEMMA ReceiveInv ==
  ASSUME LimiterInv, NEW d \in Slots, NEW request \in FaucetRequests, Receive(d, request)
  PROVE  LimiterInv'
<1> DEFINE account == NormalizeAddress(BodyAddress(request))
           ip      == ClientIp(request)
<1>1. ASSUME NEW status, drips' = [drips EXCEPT ![d] = Answered(status)],
             UNCHANGED <<log, granted, clock>>
      PROVE  LimiterInv'
  BY <1>1, AnsweredIsIdle, OneSlotLoses, LimiterAside
<1>2. ASSUME Acquire(account, ip), UNCHANGED clock,
             granted' = Append(granted, [account |-> account, ip |-> ip, at |-> clock, fate |-> "held"]),
             drips' = [drips EXCEPT ![d] = [state |-> "reserved", grant |-> Len(granted) + 1,
                                            account |-> account, ip |-> ip, status |-> 0]]
      PROVE  LimiterInv'
  <2> HIDE DEF account, ip
  <2> QED BY <1>2, AcquireInv
<1>3. \/ UNCHANGED <<log, granted, clock>> /\ \E status : drips' = [drips EXCEPT ![d] = Answered(status)]
      \/ /\ Acquire(account, ip) /\ UNCHANGED clock
         /\ granted' = Append(granted, [account |-> account, ip |-> ip, at |-> clock, fate |-> "held"])
         /\ drips' = [drips EXCEPT ![d] = [state |-> "reserved", grant |-> Len(granted) + 1,
                                           account |-> account, ip |-> ip, status |-> 0]]
  BY DEF Receive
<1> QED BY <1>1, <1>2, <1>3

\* A grant is handed back by whoever holds it, and a queued request by its turn.
LEMMA LimiterStep ==
  ASSUME FaucetInv, LimiterInv, [FaucetNext]_faucetVars
  PROVE  LimiterInv'
<1>1. CASE UNCHANGED faucetVars
  BY <1>1, LimiterAside DEF faucetVars, SlotsOnlyLose, LimiterInv, LimiterTypes
<1>2. CASE Boot \/ ShutDown \/ FaucetTick \/ Prune
  BY <1>2, ProcessStepsInv
<1>3. ASSUME NEW d \in Slots, NEW request \in FaucetRequests, Receive(d, request)
      PROVE  LimiterInv'
  BY <1>3, ReceiveInv
<1>4. ASSUME NEW d \in Slots, ReadBalance(d) \/ ReadBalanceFails(d) PROVE LimiterInv'
  <2>1. IsHeld(d) /\ clock' = clock
    BY <1>4 DEF ReadBalance, ReadBalanceFails, IsHeld
  <2>2. CASE \E status : GiveBack(d, status)
    BY <2>1, <2>2, GiveBackInv
  <2>3. CASE drips' = [drips EXCEPT ![d].state = "queued"] /\ UNCHANGED <<log, granted>>
    <3>1. PICK new : new = [drips[d] EXCEPT !.state = "queued"]
      OBVIOUS
    <3>2. DOMAIN drips[d] = SlotFields
      BY DEF LimiterInv, LimiterTypes
    <3>3. /\ DOMAIN new = SlotFields /\ new.grant = drips[d].grant
          /\ new.account = drips[d].account /\ new.ip = drips[d].ip
      BY <3>1, <3>2 DEF SlotFields
    <3>4. drips' = [drips EXCEPT ![d] = new]
      BY <2>3, <3>1
    <3>5. SlotsOnlyLose
      BY <2>1, <3>3, <3>4, OneSlotLoses
    <3> QED BY <2>1, <2>3, <3>5, LimiterAside
  <2> QED BY <1>4, <2>2, <2>3 DEF ReadBalance, ReadBalanceFails
<1>5. CASE Submit \/ StrayLands
  BY <1>5, LimiterAside DEF Submit, StrayLands, SlotsOnlyLose, LimiterInv, LimiterTypes
<1>6. CASE SubmitFails
  <2>1. PICK d \in Slots : d = Head(queue) /\ IsHeld(d)
    <3>1. 1 \in 1..Len(queue) /\ Head(queue) = queue[1]
      BY <1>6 DEF SubmitFails, TurnComes, FaucetInv, FaucetTypes
    <3>2. queue[1] \in Waiting
      BY <3>1 DEF FaucetInv, QueueHolds
    <3> QED BY <3>1, <3>2 DEF Waiting, Queued, IsHeld
  <2>2. GiveBack(d, 502) /\ clock' = clock
    BY <1>6, <2>1 DEF SubmitFails
  <2> QED BY <2>1, <2>2, GiveBackInv
<1>7. CASE InBlock \/ GivenUp
  <2>1. PICK d \in Slots : d = watched /\ IsHeld(d)
    BY <1>7 DEF InBlock, GivenUp, FaucetInv, QueueHolds, Queued, IsHeld
  <2>2. CASE \E status : GiveBack(d, status) /\ UNCHANGED clock
    BY <2>1, <2>2, GiveBackInv
  <2>3. CASE /\ drips' = [drips EXCEPT ![d] = Answered(200)] /\ UNCHANGED <<log, clock>>
             /\ granted' = [granted EXCEPT ![drips[d].grant].fate = "landed"]
    BY <2>1, <2>3, LandedInv
  <2> QED BY <1>7, <2>1, <2>2, <2>3 DEF InBlock, GivenUp
<1> QED BY <1>1, <1>2, <1>3, <1>4, <1>5, <1>6, <1>7 DEF FaucetNext

LEMMA LimiterStart == FaucetInit => LimiterInv
<1> SUFFICES ASSUME FaucetInit PROVE LimiterInv
  OBVIOUS
<1>1. /\ DOMAIN log = FaucetKeys /\ clock = 0 /\ granted = <<>>
      /\ \A key \in FaucetKeys : log[key] = <<>>
      /\ DOMAIN drips = Slots /\ \A d \in Slots : drips[d] = EmptySlot
  BY DEF FaucetInit
<1>2. granted \in Seq(Int) /\ DOMAIN granted = {}
  BY <1>1
<1>3. LimiterTypes
  <2>1. \E S : granted \in Seq(S)
    BY <1>2
  <2> QED BY <1>1, <1>2, <2>1 DEF LimiterTypes, EmptySlot, SlotFields
<1>4. \A d \in Slots : HoldsGrant(d)
  BY <1>1 DEF HoldsGrant, IsHeld, EmptySlot
<1>5. ASSUME NEW key \in FaucetKeys PROVE Stamps(log[key]) /\ \A t \in Int : NoneTooMany(key, t)
  <2>1. log[key] = <<>> /\ 1..Len(log[key]) = {}
    BY <1>1
  <2>2. Stamps(log[key])
    BY <2>1 DEF Stamps
  <2>3. ASSUME NEW t \in Int PROVE NoneTooMany(key, t)
    <3>1. Above(log[key], t) = {}
      BY <2>1 DEF Above
    <3>2. Cardinality(Above(log[key], t)) = 0 /\ Cardinality(Given(key, t)) \in Nat
      BY <1>3, <3>1, FS_EmptySet, GivenCount
    <3> QED BY <3>2 DEF NoneTooMany
  <2> QED BY <2>2, <2>3
<1> QED BY <1>3, <1>4, <1>5 DEF LimiterInv

\* No requester is billed for more than it was given: at each of the four
\* places where a drip is refused after its stamps were written, release()
\* takes back the newest stamp of both keys, and that it may be another's stamp
\* costs nobody a grant, whatever the order of answers, for any rules, callers
\* and clock.
THEOREM BillsAreFair ==
  ASSUME IsFiniteSet(Slots)
  PROVE  FaucetSpec => []NobodyIsOverbilled
<1>1. FaucetInit => FaucetInv
  BY FaucetStart
<1>2. FaucetInv /\ [FaucetNext]_faucetVars => FaucetInv'
  BY FaucetStep
<1>3. FaucetInv /\ LimiterInv /\ [FaucetNext]_faucetVars => LimiterInv'
  BY LimiterStep
<1>4. FaucetInv /\ LimiterInv => NobodyIsOverbilled
  <2> SUFFICES ASSUME FaucetInv, LimiterInv, up, NEW key \in FaucetKeys
               PROVE  Len(FreshEntries(key)) <= Cardinality(Billed(key))
    BY DEF NobodyIsOverbilled
  <2>1. PICK t \in Int : FreshPlaces(key) = Above(log[key], t) /\ Billed(key) = Given(key, t)
    BY FreshIsAbove
  <2>2. Stamps(log[key]) /\ NoneTooMany(key, t)
    BY DEF LimiterInv
  <2>3. PICK a, b, c : /\ a = Len(FreshEntries(key)) /\ b = Cardinality(Above(log[key], t))
                       /\ c = Cardinality(Given(key, t))
    OBVIOUS
  <2>4. a \in Nat /\ b \in Nat /\ c \in Nat
    <3>1. FreshEntries(key) \in Seq(Int)
      BY <2>2, FreshCounts DEF Stamps
    <3>2. Len(FreshEntries(key)) \in Nat
      BY <3>1
    <3> QED BY <2>2, <2>3, <3>2, AboveCount, GivenCount DEF Stamps, LimiterInv
  <2>5. a <= b
    BY <2>1, <2>2, <2>3, FreshCounts
  <2>6. b <= c
    BY <2>2, <2>3 DEF NoneTooMany
  <2>7. a <= c
    BY ONLY <2>4, <2>5, <2>6
  <2> QED BY <2>1, <2>3, <2>7
<1> QED BY <1>1, <1>2, <1>3, <1>4, LimiterStart, PTL DEF FaucetSpec

-----------------------------------------------------------------------------
(* The explorer.                                                           *)

\* A set with zero, and with each number's successor, has every number.
LEMMA StepByStep ==
  ASSUME NEW S, 0 \in S, \A n \in Nat : n \in S => n + 1 \in S
  PROVE  Nat \subseteq S
<1> SUFFICES ASSUME Nat \ S # {} PROVE FALSE
  OBVIOUS
<1>1. PICK k \in Nat \ S : \A m \in Nat \ S : k <= m
  BY LeastExists
<1>2. k # 0 /\ k - 1 \in Nat /\ ~ (k <= k - 1)
  BY <1>1
<1>3. k - 1 \in S
  BY <1>1, <1>2
<1>4. (k - 1) + 1 \in S /\ (k - 1) + 1 = k
  BY <1>2, <1>3
<1> QED BY <1>4

-----------------------------------------------------------------------------
(* The line below a block.                                                 *)

Below(g, head, i) == IF i = 0 THEN head ELSE Tree[g[i - 1]].parent
IsDescent(g, head, n) == g = [i \in 0..n |-> Below(g, head, i)]

LEMMA DescentExists ==
  ASSUME NEW head, NEW n \in Nat
  PROVE  \E g : IsDescent(g, head, n)
<1> DEFINE Done == {k \in Nat : \E g : IsDescent(g, head, k)}
<1>1. 0 \in Done
  <2>1. IsDescent([i \in 0..0 |-> head], head, 0)
    BY DEF IsDescent, Below
  <2> QED BY <2>1
<1>2. ASSUME NEW k \in Nat, k \in Done
      PROVE  k + 1 \in Done
  <2>1. PICK g : IsDescent(g, head, k)
    BY <1>2
  <2> DEFINE h == [i \in 0..(k + 1) |-> IF i = k + 1 THEN Below(g, head, k + 1) ELSE g[i]]
  <2>2. ASSUME NEW i \in 0..(k + 1)
        PROVE  h[i] = Below(h, head, i)
    <3>1. CASE i = k + 1
      <4>1. i # 0 /\ i - 1 = k /\ h[k] = g[k] /\ h[i] = Below(g, head, i)
        BY <3>1
      <4> HIDE DEF h
      <4> QED BY <4>1 DEF Below
    <3>2. CASE i # k + 1
      <4>1. i \in 0..k /\ h[i] = g[i] /\ (i # 0 => h[i - 1] = g[i - 1])
        BY <3>2
      <4>2. g[i] = Below(g, head, i)
        BY <2>1, <4>1 DEF IsDescent
      <4> HIDE DEF h
      <4> QED BY <4>1, <4>2 DEF Below
    <3> QED BY <3>1, <3>2
  <2>3. IsDescent(h, head, k + 1)
    BY <2>2 DEF IsDescent
  <2> HIDE DEF h
  <2> QED BY <2>3
<1> HIDE DEF Done
<1>3. Nat \subseteq Done
  BY <1>1, <1>2, StepByStep
<1> QED BY <1>3 DEF Done

LEMMA AncestorIs ==
  ASSUME NEW head, NEW n \in Nat
  PROVE  \E g : IsDescent(g, head, n) /\ Ancestor(head, n) = g[n]
<1> DEFINE down == CHOOSE g : IsDescent(g, head, n)
<1>1. IsDescent(down, head, n)
  BY DescentExists
<1>2. Ancestor(head, n) = down[n]
  <2>1. \A g : IsDescent(g, head, n) <=>
          g = [i \in 0..n |-> IF i = 0 THEN head ELSE Tree[g[i - 1]].parent]
    BY DEF IsDescent, Below
  <2> QED BY <2>1, Zenon DEF Ancestor
<1> QED BY <1>1, <1>2

\* Two descents agree as far as both go.
LEMMA DescentsAgree ==
  ASSUME NEW head, NEW m \in Nat, NEW n \in Nat, m <= n, NEW g, NEW h,
         IsDescent(g, head, m), IsDescent(h, head, n)
  PROVE  \A k \in 0..m : g[k] = h[k]
<1> DEFINE Same == {k \in Nat : k <= m => g[k] = h[k]}
<1>1. 0 \in Same
  BY DEF IsDescent, Below
<1>2. ASSUME NEW k \in Nat, k \in Same
      PROVE  k + 1 \in Same
  <2> SUFFICES ASSUME k + 1 <= m PROVE g[k + 1] = h[k + 1]
    OBVIOUS
  <2>1. g[k] = h[k]
    BY <1>2
  <2>2. k + 1 \in 0..m /\ k + 1 \in 0..n /\ (k + 1) - 1 = k /\ k + 1 # 0
    OBVIOUS
  <2>3. g[k + 1] = Below(g, head, k + 1) /\ h[k + 1] = Below(h, head, k + 1)
    BY ONLY <2>2, IsDescent(g, head, m), IsDescent(h, head, n) DEF IsDescent
  <2> QED BY ONLY <2>1, <2>2, <2>3 DEF Below
<1> HIDE DEF Same
<1>3. Nat \subseteq Same
  BY <1>1, <1>2, StepByStep
<1> QED BY <1>3 DEF Same

LEMMA AncestorSteps ==
  ASSUME NEW head
  PROVE  /\ Ancestor(head, 0) = head
         /\ \A n \in Nat : Ancestor(head, n + 1) = Tree[Ancestor(head, n)].parent
<1>1. Ancestor(head, 0) = head
  BY AncestorIs DEF IsDescent, Below
<1>2. ASSUME NEW n \in Nat
      PROVE  Ancestor(head, n + 1) = Tree[Ancestor(head, n)].parent
  <2>1. PICK g : IsDescent(g, head, n) /\ Ancestor(head, n) = g[n]
    BY AncestorIs
  <2>2. PICK h : IsDescent(h, head, n + 1) /\ Ancestor(head, n + 1) = h[n + 1]
    BY AncestorIs
  <2>3. g[n] = h[n]
    BY <2>1, <2>2, DescentsAgree
  <2>4. n + 1 \in 0..(n + 1) /\ n + 1 # 0 /\ (n + 1) - 1 = n
    OBVIOUS
  <2>5. h[n + 1] = Below(h, head, n + 1)
    BY <2>2, <2>4 DEF IsDescent
  <2> QED BY <2>1, <2>2, <2>3, <2>4, <2>5 DEF Below
<1> QED BY <1>1, <1>2

LEMMA AncestorsAdd ==
  ASSUME NEW head, NEW m \in Nat
  PROVE  \A n \in Nat : Ancestor(Ancestor(head, m), n) = Ancestor(head, m + n)
<1> DEFINE Good == {n \in Nat : Ancestor(Ancestor(head, m), n) = Ancestor(head, m + n)}
<1>1. 0 \in Good
  BY AncestorSteps
<1>2. ASSUME NEW n \in Nat, n \in Good
      PROVE  n + 1 \in Good
  <2>1. m + n \in Nat /\ m + (n + 1) = (m + n) + 1
    OBVIOUS
  <2>2. Ancestor(Ancestor(head, m), n) = Ancestor(head, m + n)
    BY <1>2
  <2>3. Ancestor(Ancestor(head, m), n + 1) = Tree[Ancestor(Ancestor(head, m), n)].parent
    BY AncestorSteps
  <2>4. Ancestor(head, (m + n) + 1) = Tree[Ancestor(head, m + n)].parent
    BY <2>1, AncestorSteps
  <2> QED BY <2>1, <2>2, <2>3, <2>4
<1> HIDE DEF Good
<1>3. Nat \subseteq Good
  BY <1>1, <1>2, StepByStep
<1> QED BY <1>3 DEF Good

\* The line goes down one number at a time, to the first block.
LEMMA AncestorNumber ==
  ASSUME NEW head \in DOMAIN Tree, NEW n \in 0..Tree[head].number
  PROVE  Ancestor(head, n) \in DOMAIN Tree /\ Tree[Ancestor(head, n)].number = Tree[head].number - n
<1> DEFINE top  == Tree[head].number
<1> DEFINE Good == {k \in Nat : k <= top =>
                      Ancestor(head, k) \in DOMAIN Tree /\ Tree[Ancestor(head, k)].number = top - k}
<1>0. top \in Nat
  BY BlocksFormATree
<1>1. 0 \in Good
  BY <1>0, AncestorSteps
<1>2. ASSUME NEW k \in Nat, k \in Good
      PROVE  k + 1 \in Good
  <2> SUFFICES ASSUME k + 1 <= top
               PROVE  Ancestor(head, k + 1) \in DOMAIN Tree /\ Tree[Ancestor(head, k + 1)].number = top - (k + 1)
    OBVIOUS
  <2> DEFINE b == Ancestor(head, k)
  <2>1. b \in DOMAIN Tree /\ Tree[b].number = top - k
    BY <1>0, <1>2
  <2>2. Tree[b].number # 0
    BY <1>0, <2>1
  <2>3. b # Genesis
    BY <2>2, BlocksFormATree
  <2>4. Tree[b].parent \in DOMAIN Tree /\ Tree[b].number = Tree[Tree[b].parent].number + 1
        /\ Tree[Tree[b].parent].number \in Nat
    BY <2>1, <2>3, BlocksFormATree
  <2>5. Ancestor(head, k + 1) = Tree[b].parent
    BY AncestorSteps
  <2> HIDE DEF b, top
  <2> QED BY <1>0, <2>1, <2>4, <2>5
<1> HIDE DEF Good
<1>3. Nat \subseteq Good
  BY <1>1, <1>2, StepByStep
<1>4. n \in Nat /\ n <= top
  BY <1>0
<1> QED BY <1>3, <1>4 DEF Good

LEMMA OnLineNumber ==
  ASSUME NEW head \in DOMAIN Tree, NEW n \in 0..Tree[head].number
  PROVE  OnLine(head, n) \in DOMAIN Tree /\ Tree[OnLine(head, n)].number = n
<1>1. Tree[head].number \in Nat
  BY BlocksFormATree
<1>2. Tree[head].number - n \in 0..Tree[head].number /\ Tree[head].number - (Tree[head].number - n) = n
  BY <1>1
<1>3. OnLine(head, n) = Ancestor(head, Tree[head].number - n)
  BY DEF OnLine
<1> QED BY <1>2, <1>3, AncestorNumber

\* A block of a line has, up to its own number, the line for its own.
LEMMA LineIsShared ==
  ASSUME NEW head \in DOMAIN Tree, NEW b \in Line(head)
  PROVE  /\ b \in DOMAIN Tree
         /\ \A n \in 0..Tree[b].number : OnLine(b, n) = OnLine(head, n)
<1>1. PICK k \in 0..Tree[head].number : b = OnLine(head, k)
  BY DEF Line
<1>2. b \in DOMAIN Tree /\ Tree[b].number = k /\ Tree[head].number \in Nat
  BY <1>1, OnLineNumber, BlocksFormATree
<1>3. ASSUME NEW n \in 0..k
      PROVE  OnLine(b, n) = OnLine(head, n)
  <2> DEFINE top == Tree[head].number
  <2>1. top \in Nat /\ k \in 0..top /\ n \in 0..top /\ top - k \in Nat /\ k - n \in Nat
        /\ (top - k) + (k - n) = top - n
    BY <1>1, <1>2
  <2>2. b = Ancestor(head, top - k) /\ OnLine(b, n) = Ancestor(b, k - n) /\ OnLine(head, n) = Ancestor(head, top - n)
    BY <1>1, <1>2, <2>1 DEF OnLine
  <2> HIDE DEF top
  <2> QED BY <2>1, <2>2, AncestorsAdd
<1> QED BY <1>2, <1>3

-----------------------------------------------------------------------------
(* What was true stays so.                                                 *)

NodeInv ==
  /\ best \in DOMAIN Tree /\ finalized \in Line(best)
  /\ indexed \in Nat /\ indexed <= Tree[finalized].number
  /\ wall \in 0..PageHorizon
  /\ DOMAIN heights = 0..PageHorizon
  /\ \A t \in 0..PageHorizon : heights[t] \in 0..indexed /\ (t >= wall => heights[t] = indexed)

\* The indexer answered a read with this value at an instant of these.
WasAnswer(read, value, from, to) ==
  \E t \in from..to : \E height \in HeldIn(t) : value = FromIndexer(read, Held(height))

LEMMA FinalizedIsBlock ==
  ASSUME NodeInv
  PROVE  finalized \in DOMAIN Tree /\ Tree[finalized].number \in Nat
BY LineIsShared, BlocksFormATree DEF NodeInv

\* What the indexer held at an instant that began, it still holds then.
MomentsStay ==
  /\ wall' \in Nat /\ wall <= wall'
  /\ \A t \in 0..wall : \A height \in HeldIn(t) : height \in HeldIn(t)' /\ Held(height)' = Held(height)

LEMMA AnswersStay ==
  ASSUME NodeInv, MomentsStay, NEW read, NEW value, NEW from \in Nat, WasAnswer(read, value, from, wall)
  PROVE  \E t \in from..wall : \E height \in HeldIn(t)' : value = FromIndexer(read, Held(height)')
<1>1. PICK t \in from..wall : \E height \in HeldIn(t) : value = FromIndexer(read, Held(height))
  BY DEF WasAnswer
<1>2. PICK height \in HeldIn(t) : value = FromIndexer(read, Held(height))
  BY <1>1
<1>3. t \in 0..wall /\ wall \in Nat
  BY ExplorerTimes DEF NodeInv
<1>4. height \in HeldIn(t)' /\ Held(height)' = Held(height)
  BY <1>2, <1>3 DEF MomentsStay
<1> QED BY <1>2, <1>4

\* The indexer is behind the node: the blocks it holds stay what they are.
LEMMA HeldBlocksStay ==
  ASSUME NodeInv, NEW height \in 0..Tree[finalized].number,
         \A n \in 0..Tree[finalized].number : OnLine(finalized', n) = OnLine(finalized, n)
  PROVE  Held(height)' = Held(height)
<1>1. Tree[finalized].number \in Nat
  BY FinalizedIsBlock
<1>2. \A i \in 1..(height + 1) : height - i + 1 \in 0..Tree[finalized].number
  BY <1>1
<1>3. \A i \in 1..(height + 1) : OnLine(finalized', height - i + 1) = OnLine(finalized, height - i + 1)
  BY <1>2
<1> QED BY <1>3 DEF Held

LEMMA HeldInBounds ==
  ASSUME NodeInv, NEW t \in 0..wall, NEW height \in HeldIn(t)
  PROVE  height \in 0..Tree[finalized].number
<1>1. t \in 0..PageHorizon /\ (t = 0 \/ t - 1 \in 0..PageHorizon)
  BY ExplorerTimes DEF NodeInv
<1>2. heights[t] \in 0..indexed /\ (t = 0 \/ heights[t - 1] \in 0..indexed)
  BY <1>1 DEF NodeInv
<1>3. indexed \in Nat /\ Tree[finalized].number \in Nat /\ indexed <= Tree[finalized].number
  BY FinalizedIsBlock DEF NodeInv
<1> QED BY <1>2, <1>3 DEF HeldIn

WorldStep == NodeImports \/ NodeFinalizes \/ IndexerFollows \/ WallTick

LEMMA FinalityGrows ==
  ASSUME NodeInv, NodeFinalizes
  PROVE  /\ finalized' \in Line(best) /\ Tree[finalized'].number = Tree[finalized].number + 1
         /\ \A n \in 0..Tree[finalized].number : OnLine(finalized', n) = OnLine(finalized, n)
<1>1. finalized' \in Line(best) /\ Tree[finalized'].number = Tree[finalized].number + 1
  BY DEF NodeFinalizes
<1>2. Tree[finalized].number \in Nat
  BY FinalizedIsBlock
<1>3. ASSUME NEW n \in 0..Tree[finalized].number
      PROVE  OnLine(finalized', n) = OnLine(finalized, n)
  <2>1. n \in 0..Tree[finalized'].number
    BY <1>1, <1>2
  <2>2. OnLine(finalized', n) = OnLine(best, n)
    BY <1>1, <2>1, LineIsShared DEF NodeInv
  <2>3. OnLine(finalized, n) = OnLine(best, n)
    BY LineIsShared DEF NodeInv
  <2> QED BY <2>2, <2>3
<1> QED BY <1>1, <1>3

LEMMA WorldInv ==
  ASSUME NodeInv, WorldStep
  PROVE  NodeInv' /\ MomentsStay
<1>0. Tree[finalized].number \in Nat /\ indexed \in Nat /\ wall \in Nat /\ PageHorizon \in Nat
  BY FinalizedIsBlock, ExplorerTimes DEF NodeInv
<1>1. CASE NodeImports
  <2>1. NodeInv'
    BY <1>1 DEF NodeImports, NodeInv
  <2>2. \A height : Held(height)' = Held(height)
    BY <1>1 DEF NodeImports, Held
  <2>3. wall' = wall /\ \A t : HeldIn(t)' = HeldIn(t)
    BY <1>1 DEF NodeImports, HeldIn
  <2> QED BY <1>0, <2>1, <2>2, <2>3 DEF MomentsStay
<1>2. CASE NodeFinalizes
  <2>1. UNCHANGED <<best, indexed, wall, heights>>
    BY <1>2 DEF NodeFinalizes
  <2>2. indexed <= Tree[finalized'].number
    BY <1>0, <1>2, FinalityGrows DEF NodeInv
  <2>3. NodeInv'
    BY <1>2, <2>1, <2>2, FinalityGrows DEF NodeInv
  <2>4. \A t \in 0..wall : \A height \in HeldIn(t) : Held(height)' = Held(height)
    BY <1>2, FinalityGrows, HeldBlocksStay, HeldInBounds
  <2>5. wall' = wall /\ \A t : HeldIn(t)' = HeldIn(t)
    BY <2>1 DEF HeldIn
  <2> QED BY <1>0, <2>3, <2>4, <2>5 DEF MomentsStay
<1>3. CASE IndexerFollows
  <2>1. UNCHANGED <<best, finalized, wall>> /\ indexed' = indexed + 1 /\ indexed < Tree[finalized].number
        /\ heights' = [t \in DOMAIN heights |-> IF t >= wall THEN indexed + 1 ELSE heights[t]]
    BY <1>3 DEF IndexerFollows, nodeVars
  <2>2. \A t \in 0..PageHorizon : heights'[t] \in 0..(indexed + 1) /\ (t >= wall => heights'[t] = indexed + 1)
                                 /\ heights[t] <= heights'[t] /\ (t < wall => heights'[t] = heights[t])
    BY <1>0, <2>1 DEF NodeInv
  <2>3. NodeInv'
    BY <1>0, <2>1, <2>2 DEF NodeInv
  <2>4. \A height : Held(height)' = Held(height)
    BY <2>1 DEF Held
  <2>5. ASSUME NEW t \in 0..wall, NEW height \in HeldIn(t)
        PROVE  height \in HeldIn(t)'
    <3>1. t \in 0..PageHorizon /\ (t # 0 => t - 1 \in 0..PageHorizon /\ t - 1 < wall)
      BY <1>0 DEF NodeInv
    <3>2. heights[t] \in Nat /\ heights'[t] \in Nat /\ heights[t] <= heights'[t]
      BY <1>0, <2>2, <3>1 DEF NodeInv
    <3>3. t # 0 => heights'[t - 1] = heights[t - 1] /\ heights[t - 1] \in Nat
      BY <1>0, <2>2, <3>1 DEF NodeInv
    <3>4. height \in Int /\ height <= heights'[t] /\ (IF t = 0 THEN 0 ELSE heights[t - 1]) <= height
      BY <3>2, <3>3 DEF HeldIn
    <3> QED BY <3>2, <3>3, <3>4 DEF HeldIn
  <2> QED BY <1>0, <2>1, <2>3, <2>4, <2>5 DEF MomentsStay
<1>4. CASE WallTick
  <2>1. UNCHANGED <<best, finalized, indexed, heights>> /\ wall' = wall + 1 /\ wall < PageHorizon
    BY <1>4 DEF WallTick, nodeVars
  <2>2. NodeInv'
    BY <1>0, <2>1 DEF NodeInv
  <2>3. \A height : Held(height)' = Held(height)
    BY <2>1 DEF Held
  <2>4. \A t : HeldIn(t)' = HeldIn(t)
    BY <2>1 DEF HeldIn
  <2> QED BY <1>0, <2>1, <2>2, <2>3, <2>4 DEF MomentsStay
<1> QED BY <1>1, <1>2, <1>3, <1>4 DEF WorldStep

-----------------------------------------------------------------------------
(* What the pages show.                                                    *)

PageFields == {"route", "step", "began", "block", "reads", "status", "view"}
ReadFields == {"state", "value", "authors", "at", "stale"}

\* The indexer gave this answer no longer than one read before this time.
GoodFor(read, value, at) ==
  /\ at \in 0..wall
  /\ \E t \in 0..wall : Within(t, at) /\ \E height \in HeldIn(t) : value = FromIndexer(read, Held(height))

ReadInv(began, read, r) ==
  /\ DOMAIN r = ReadFields
  /\ (r.at # Null /\ read.what # "heads") => GoodFor(read, r.value, r.at)
  /\ r.state # "settled" => r.at = Null
  /\ r.state = "authors" => WasAnswer(read, r.value, began, wall)

PageInv(page) ==
  /\ DOMAIN page = PageFields
  /\ page.began \in 0..wall
  /\ \A read \in DOMAIN page.reads :
       /\ ReadInv(page.began, read, page.reads[read])
       /\ page.reads[read].state # "settled" => wall <= page.began + ReadTimeout

\* What was good is kept under the very question it answered.
KeptInv == \A k \in DOMAIN lastGood : k.what # "heads" => GoodFor(k, lastGood[k].value, lastGood[k].at)

ExplorerInv ==
  /\ NodeInv /\ KeptInv
  /\ \E S : pages \in Seq(S)
  /\ \A d \in DOMAIN pages : PageInv(pages[d])

\* The world moves.
LEMMA GoodStays ==
  ASSUME NodeInv, MomentsStay, NEW read, NEW value, NEW at, GoodFor(read, value, at)
  PROVE  GoodFor(read, value, at)'
<1>1. PICK t \in 0..wall : Within(t, at) /\ \E height \in HeldIn(t) : value = FromIndexer(read, Held(height))
  BY DEF GoodFor
<1>2. PICK height \in HeldIn(t) : value = FromIndexer(read, Held(height))
  BY <1>1
<1>3. height \in HeldIn(t)' /\ Held(height)' = Held(height)
  BY <1>2 DEF MomentsStay
<1>4. wall \in Nat /\ wall' \in Nat /\ wall <= wall'
  BY ExplorerTimes DEF NodeInv, MomentsStay
<1>5. t \in 0..wall' /\ at \in 0..wall'
  BY <1>4 DEF GoodFor
<1>6. value = FromIndexer(read, Held(height))'
  BY <1>2, <1>3
<1> QED BY <1>1, <1>3, <1>5, <1>6 DEF GoodFor, Within

LEMMA AnswerStays ==
  ASSUME NodeInv, MomentsStay, NEW read, NEW value, NEW began \in Nat, WasAnswer(read, value, began, wall)
  PROVE  WasAnswer(read, value, began, wall)'
<1>1. PICK t \in began..wall : \E height \in HeldIn(t)' : value = FromIndexer(read, Held(height)')
  BY AnswersStay
<1>2. wall \in Nat /\ wall' \in Nat /\ wall <= wall'
  BY ExplorerTimes DEF NodeInv, MomentsStay
<1>3. t \in began..wall'
  BY <1>2
<1> QED BY <1>1, <1>3 DEF WasAnswer

\* A read in flight has not reached its deadline.
LEMMA DeadlinesStay ==
  ASSUME ExplorerInv, WorldStep, NEW d \in DOMAIN pages, NEW read \in DOMAIN pages[d].reads,
         pages[d].reads[read].state # "settled"
  PROVE  wall' <= pages[d].began + ReadTimeout
<1>1. /\ wall \in Nat /\ ReadTimeout \in Nat /\ pages[d].began \in Nat
      /\ wall <= pages[d].began + ReadTimeout
  BY ExplorerTimes DEF ExplorerInv, NodeInv, PageInv
<1>2. CASE WallTick
  <2>1. read \in Pending(d)
    BY DEF Pending
  <2>2. wall' = wall + 1 /\ wall < pages[d].began + ReadTimeout
    BY <1>2, <2>1 DEF WallTick
  <2> QED BY <1>1, <2>2
<1>3. CASE ~ WallTick
  <2>1. wall' = wall
    BY <1>3 DEF WorldStep, NodeImports, NodeFinalizes, IndexerFollows
  <2> QED BY <1>1, <2>1
<1> QED BY <1>2, <1>3

LEMMA WorldStepInv == ExplorerInv /\ WorldStep => ExplorerInv'
<1> SUFFICES ASSUME ExplorerInv, WorldStep PROVE ExplorerInv'
  OBVIOUS
<1>1. NodeInv /\ NodeInv' /\ MomentsStay
  BY WorldInv DEF ExplorerInv
<1>2. pages' = pages /\ lastGood' = lastGood
  BY DEF WorldStep, NodeImports, NodeFinalizes, IndexerFollows, WallTick
<1>3. KeptInv'
  <2>1. \A k \in DOMAIN lastGood : k.what # "heads" => GoodFor(k, lastGood[k].value, lastGood[k].at)'
    <3>1. SUFFICES ASSUME NEW k \in DOMAIN lastGood, k.what # "heads"
                   PROVE  GoodFor(k, lastGood[k].value, lastGood[k].at)'
      OBVIOUS
    <3>2. PICK value, at : value = lastGood[k].value /\ at = lastGood[k].at
      OBVIOUS
    <3>3. GoodFor(k, value, at)
      BY <3>1, <3>2 DEF ExplorerInv, KeptInv
    <3>4. GoodFor(k, value, at)'
      BY <1>1, <3>3, GoodStays
    <3> QED BY <1>2, <3>2, <3>4
  <2> QED BY <1>2, <2>1 DEF KeptInv
<1>4. ASSUME NEW d \in DOMAIN pages
      PROVE  PageInv(pages[d])'
  <2>1. PICK page : page = pages[d]
    OBVIOUS
  <2>2. PageInv(page) /\ pages'[d] = page
    BY <1>2, <2>1 DEF ExplorerInv
  <2>3. wall \in Nat /\ wall' \in Nat /\ wall <= wall'
    BY <1>1, ExplorerTimes DEF NodeInv, MomentsStay
  <2>4. DOMAIN page = PageFields /\ page.began \in 0..wall' /\ page.began \in Nat
    BY <2>2, <2>3 DEF PageInv
  <2>5. ASSUME NEW read \in DOMAIN page.reads
        PROVE  /\ ReadInv(page.began, read, page.reads[read])'
               /\ page.reads[read].state # "settled" => wall' <= page.began + ReadTimeout
    <3>1. PICK r, value, at, began : /\ r = page.reads[read] /\ value = r.value /\ at = r.at
                                     /\ began = page.began
      OBVIOUS
    <3>2. ReadInv(began, read, r) /\ began \in Nat
      BY <2>2, <2>4, <3>1 DEF PageInv
    <3>3. (at # Null /\ read.what # "heads") => GoodFor(read, value, at)'
      BY <1>1, <3>1, <3>2, GoodStays DEF ReadInv
    <3>4. r.state = "authors" => WasAnswer(read, value, began, wall)'
      BY <1>1, <3>1, <3>2, AnswerStays DEF ReadInv
    <3>5. ReadInv(began, read, r)'
      BY <3>1, <3>2, <3>3, <3>4 DEF ReadInv
    <3>6. r.state # "settled" => wall' <= page.began + ReadTimeout
      BY <2>1, <3>1, DeadlinesStay
    <3> QED BY <2>1, <1>2, <3>1, <3>5, <3>6
  <2>6. PageInv(page)'
    BY <2>1, <1>2, <2>4, <2>5 DEF PageInv
  <2> QED BY <1>2, <2>1, <2>6
<1>5. \E S : pages' \in Seq(S)
  BY <1>2 DEF ExplorerInv
<1> QED BY <1>1, <1>2, <1>3, <1>4, <1>5 DEF ExplorerInv

WorldRests == UNCHANGED <<nodeVars, indexed, wall, heights>>

LEMMA WorldAsIs ==
  ASSUME WorldRests
  PROVE  /\ NodeInv => NodeInv'
         /\ \A read, value, at : GoodFor(read, value, at)' <=> GoodFor(read, value, at)
         /\ \A began, read, r : ReadInv(began, read, r)' <=> ReadInv(began, read, r)
         /\ \A page : PageInv(page)' <=> PageInv(page)
<1>1. UNCHANGED <<best, finalized, indexed, wall, heights>>
  BY DEF WorldRests, nodeVars
<1>2. NodeInv => NodeInv'
  BY <1>1 DEF NodeInv
<1>3. \A height : Held(height)' = Held(height)
  BY <1>1 DEF Held
<1>4. \A t : HeldIn(t)' = HeldIn(t)
  BY <1>1 DEF HeldIn
<1>5. ASSUME NEW read, NEW value, NEW at
      PROVE  GoodFor(read, value, at)' <=> GoodFor(read, value, at)
  BY <1>1, <1>3, <1>4, Zenon DEF GoodFor
<1>6. ASSUME NEW read, NEW value, NEW began
      PROVE  WasAnswer(read, value, began, wall)' <=> WasAnswer(read, value, began, wall)
  BY <1>1, <1>3, <1>4, Zenon DEF WasAnswer
<1>7. ASSUME NEW began, NEW read, NEW r
      PROVE  ReadInv(began, read, r)' <=> ReadInv(began, read, r)
  BY <1>1, <1>5, <1>6, Zenon DEF ReadInv
<1>8. ASSUME NEW page
      PROVE  PageInv(page)' <=> PageInv(page)
  BY <1>1, <1>7, Zenon DEF PageInv
<1> QED BY <1>2, <1>5, <1>7, <1>8

\* A step of one page.
LEMMA PageReplaced ==
  ASSUME ExplorerInv, WorldRests, NEW d \in DOMAIN pages, NEW page, PageInv(page), KeptInv',
         pages' = [pages EXCEPT ![d] = page]
  PROVE  ExplorerInv'
<1>1. DOMAIN pages' = DOMAIN pages /\ pages'[d] = page /\ \A e \in DOMAIN pages : e # d => pages'[e] = pages[e]
  OBVIOUS
<1>2. PICK S : pages \in Seq(S)
  BY DEF ExplorerInv
<1>3. pages' \in Seq(S \cup {page})
  BY <1>2, EntryChanged
<1>4. ASSUME NEW e \in DOMAIN pages
      PROVE  PageInv(pages[e])'
  <2>1. PICK p : p = pages'[e]
    OBVIOUS
  <2>2. PageInv(p)
    BY <1>1, <2>1 DEF ExplorerInv
  <2>3. PageInv(p)'
    BY <2>2, WorldAsIs
  <2> QED BY <2>1, <2>3
<1>5. NodeInv'
  BY WorldAsIs DEF ExplorerInv
<1> QED BY <1>1, <1>3, <1>4, <1>5 DEF ExplorerInv

\* What is kept grows by what was good.
LEMMA KeptStays ==
  ASSUME ExplorerInv, WorldRests, lastGood' = lastGood
  PROVE  KeptInv'
<1>1. ASSUME NEW k \in DOMAIN lastGood, k.what # "heads"
      PROVE  GoodFor(k, lastGood[k].value, lastGood[k].at)'
  <2>1. PICK value, at : value = lastGood[k].value /\ at = lastGood[k].at
    OBVIOUS
  <2>2. GoodFor(k, value, at)'
    BY <1>1, <2>1, WorldAsIs DEF ExplorerInv, KeptInv
  <2>3. value = lastGood'[k].value /\ at = lastGood'[k].at
    BY <2>1
  <2> QED BY <2>1, <2>2, <2>3
<1> QED BY <1>1 DEF KeptInv

\* A page goes on with the reads it has.
LEMMA PageGoesOn ==
  ASSUME ExplorerInv, WorldRests, UNCHANGED lastGood, NEW d \in DOMAIN pages, NEW page,
         DOMAIN page = PageFields, page.began = pages[d].began, page.reads = pages[d].reads,
         pages' = [pages EXCEPT ![d] = page]
  PROVE  ExplorerInv'
<1>1. PageInv(pages[d])
  BY DEF ExplorerInv
<1>2. PageInv(page)
  BY <1>1 DEF PageInv
<1> QED BY <1>2, PageReplaced, KeptStays

LEMMA FinishedPage ==
  ASSUME NEW page, DOMAIN page = PageFields, NEW status
  PROVE  /\ DOMAIN Finished(page, status) = PageFields
         /\ Finished(page, status).began = page.began /\ Finished(page, status).reads = page.reads
BY DEF Finished, PageFields

\* One read of a page changes.
LEMMA ReadChanged ==
  ASSUME ExplorerInv, WorldRests, NEW d \in DOMAIN pages, NEW read \in DOMAIN pages[d].reads, NEW r,
         pages[d].reads[read].state # "settled", ReadInv(pages[d].began, read, r), KeptInv',
         pages' = [pages EXCEPT ![d].reads[read] = r]
  PROVE  ExplorerInv'
<1> DEFINE page == [pages[d] EXCEPT !.reads[read] = r]
<1>1. PageInv(pages[d])
  BY DEF ExplorerInv
<1>2. /\ DOMAIN page = PageFields /\ page.began = pages[d].began
      /\ page.reads = [pages[d].reads EXCEPT ![read] = r]
  BY <1>1 DEF PageInv, PageFields
<1>3. DOMAIN page.reads = DOMAIN pages[d].reads
      /\ \A q \in DOMAIN pages[d].reads : page.reads[q] = IF q = read THEN r ELSE pages[d].reads[q]
  BY <1>2
<1>4. wall <= pages[d].began + ReadTimeout
  BY <1>1 DEF PageInv
<1>5. pages' = [pages EXCEPT ![d] = page]
  OBVIOUS
<1> HIDE DEF page
<1>6. PageInv(page)
  BY <1>1, <1>2, <1>3, <1>4 DEF PageInv
<1> QED BY <1>5, <1>6, PageReplaced

LEMMA SettleInv ==
  ASSUME ExplorerInv, WorldRests, NEW d \in DOMAIN pages, NEW read \in DOMAIN pages[d].reads,
         pages[d].reads[read].state # "settled", NEW value, NEW authors,
         read.what # "heads" => GoodFor(read, value, wall),
         Settle(d, read, value, authors)
  PROVE  ExplorerInv'
<1> DEFINE r == [state |-> "settled", value |-> value, authors |-> authors, at |-> wall, stale |-> FALSE]
<1>1. ReadInv(pages[d].began, read, r)
  BY DEF ReadInv, ReadFields
<1>2. KeptInv'
  <2>1. DOMAIN lastGood' = DOMAIN lastGood \cup {read}
        /\ \A k \in DOMAIN lastGood' :
             lastGood'[k] = IF k = read THEN [value |-> value, authors |-> authors, at |-> wall] ELSE lastGood[k]
    BY DEF Settle, KeyOf
  <2>2. ASSUME NEW k \in DOMAIN lastGood', k.what # "heads", NEW v, NEW at,
               v = lastGood'[k].value, at = lastGood'[k].at
        PROVE  GoodFor(k, v, at)'
    <3>1. GoodFor(k, v, at)
      <4>1. CASE k = read
        BY <2>1, <2>2, <4>1
      <4>2. CASE k # read
        BY <2>1, <2>2, <4>2 DEF ExplorerInv, KeptInv
      <4> QED BY <4>1, <4>2
    <3> QED BY <3>1, WorldAsIs
  <2> QED BY <2>2 DEF KeptInv
<1>3. pages' = [pages EXCEPT ![d].reads[read] = r]
  BY DEF Settle
<1> HIDE DEF r
<1> QED BY <1>1, <1>2, <1>3, ReadChanged

\* The actions of a page.
LEMMA PendingRead ==
  ASSUME ExplorerInv, NEW d \in DOMAIN pages, NEW read \in DOMAIN pages[d].reads,
         pages[d].reads[read].state # "settled"
  PROVE  /\ wall \in Nat /\ pages[d].began \in 0..wall /\ wall <= pages[d].began + ReadTimeout /\ ReadTimeout \in Nat
         /\ ReadInv(pages[d].began, read, pages[d].reads[read])
BY ExplorerTimes DEF ExplorerInv, NodeInv, PageInv

\* What the indexer answers now it answered within this read.
LEMMA NowIsGood ==
  ASSUME NodeInv
  PROVE  indexed \in HeldIn(wall)
<1>1. wall \in 0..PageHorizon /\ heights[wall] = indexed /\ indexed \in Nat /\ wall \in Nat
  BY ExplorerTimes DEF NodeInv
<1>2. wall # 0 => wall - 1 \in 0..PageHorizon
  BY <1>1, ExplorerTimes
<1>3. wall # 0 => heights[wall - 1] \in 0..indexed
  BY <1>2 DEF NodeInv
<1> QED BY <1>1, <1>3 DEF HeldIn

LEMMA PageAnsweredInv ==
  ASSUME ExplorerInv, NEW d \in DOMAIN pages, NEW read \in DOMAIN pages[d].reads, PageAnswered(d, read)
  PROVE  ExplorerInv'
<1>1. WorldRests /\ pages[d].reads[read].state = "asked"
  BY DEF PageAnswered, WorldRests
<1>2. wall \in Nat /\ pages[d].began \in 0..wall /\ ReadTimeout \in Nat /\ indexed \in HeldIn(wall)
  BY <1>1, PendingRead, NowIsGood DEF ExplorerInv
<1>3. ReadInv(pages[d].began, read, pages[d].reads[read])
  BY <1>1, PendingRead
<1> DEFINE answer == FromIndexer(read, Held(indexed))
<1>4. GoodFor(read, answer, wall)
  <2>1. wall \in 0..wall /\ Within(wall, wall)
    BY <1>2 DEF Within
  <2> QED BY <1>2, <2>1 DEF GoodFor
<1>5. WasAnswer(read, answer, pages[d].began, wall)
  <2>1. wall \in pages[d].began..wall
    BY <1>2
  <2> QED BY <1>2, <2>1 DEF WasAnswer
<1>6. \/ read.what = "heads" /\ Settle(d, read, [best |-> Tree[best].number, finalized |-> Tree[finalized].number], Null)
      \/ Settle(d, read, answer, Null)
      \/ /\ pages' = [pages EXCEPT ![d].reads[read].state = "authors", ![d].reads[read].value = answer]
         /\ UNCHANGED lastGood
  BY DEF PageAnswered
<1> HIDE DEF answer
<1>7. CASE read.what = "heads" /\ Settle(d, read, [best |-> Tree[best].number, finalized |-> Tree[finalized].number], Null)
  <2>1. PICK v : v = [best |-> Tree[best].number, finalized |-> Tree[finalized].number]
    OBVIOUS
  <2> QED BY <1>1, <1>7, <2>1, SettleInv
<1>8. CASE Settle(d, read, answer, Null)
  BY <1>1, <1>4, <1>8, SettleInv
<1>9. CASE /\ pages' = [pages EXCEPT ![d].reads[read].state = "authors", ![d].reads[read].value = answer]
           /\ UNCHANGED lastGood
  <2> DEFINE r == [pages[d].reads[read] EXCEPT !.state = "authors", !.value = answer]
  <2>1. pages' = [pages EXCEPT ![d].reads[read] = r]
    <3>1. PICK p : p = pages[d]
      OBVIOUS
    <3>2. DOMAIN p = PageFields
      BY <3>1 DEF ExplorerInv, PageInv
    <3> QED BY <1>9, <3>1, <3>2 DEF PageFields
  <2>2. DOMAIN r = ReadFields /\ r.state = "authors" /\ r.value = answer /\ r.at = pages[d].reads[read].at
    BY <1>3 DEF ReadInv, ReadFields
  <2> HIDE DEF r
  <2>3. r.at = Null
    BY <1>1, <1>3, <2>2 DEF ReadInv
  <2>4. ReadInv(pages[d].began, read, r)
    BY <1>5, <2>2, <2>3 DEF ReadInv
  <2> QED BY <1>1, <1>9, <2>1, <2>4, ReadChanged, KeptStays
<1> QED BY <1>6, <1>7, <1>8, <1>9

LEMMA AuthorsAnsweredInv ==
  ASSUME ExplorerInv, NEW d \in DOMAIN pages, NEW read \in DOMAIN pages[d].reads, AuthorsAnswered(d, read)
  PROVE  ExplorerInv'
<1>1. WorldRests /\ pages[d].reads[read].state = "authors"
  BY DEF AuthorsAnswered, WorldRests
<1>2. /\ wall \in Nat /\ pages[d].began \in 0..wall /\ wall <= pages[d].began + ReadTimeout /\ ReadTimeout \in Nat
      /\ ReadInv(pages[d].began, read, pages[d].reads[read])
  BY <1>1, PendingRead
<1>3. PICK rows : rows = pages[d].reads[read].value
  OBVIOUS
<1>4. WasAnswer(read, rows, pages[d].began, wall)
  BY <1>1, <1>2, <1>3 DEF ReadInv
<1>5. GoodFor(read, rows, wall)
  <2>1. PICK t \in pages[d].began..wall : \E height \in HeldIn(t) : rows = FromIndexer(read, Held(height))
    BY <1>4 DEF WasAnswer
  <2>2. t \in 0..wall /\ Within(t, wall) /\ wall \in 0..wall
    BY <1>2 DEF Within
  <2> QED BY <2>1, <2>2 DEF GoodFor
<1>6. PICK authors : Settle(d, read, rows, authors)
  BY <1>3 DEF AuthorsAnswered
<1> QED BY <1>1, <1>5, <1>6, SettleInv

LEMMA ReadFailsInv ==
  ASSUME ExplorerInv, NEW d \in DOMAIN pages, NEW read \in DOMAIN pages[d].reads, ReadFails(d, read)
  PROVE  ExplorerInv'
<1>1. WorldRests /\ pages[d].reads[read].state # "settled" /\ lastGood' = lastGood
  BY DEF ReadFails, WorldRests, Pending, FallBack
<1>2. PICK r : /\ pages' = [pages EXCEPT ![d].reads[read] = r]
               /\ r = IF KeyOf(read) \in DOMAIN lastGood
                      THEN LET kept == lastGood[KeyOf(read)]
                           IN  [state |-> "settled", value |-> kept.value, authors |-> kept.authors,
                                at |-> kept.at, stale |-> TRUE]
                      ELSE [Asked EXCEPT !.state = "settled"]
  BY DEF ReadFails, FallBack
<1>3. ReadInv(pages[d].began, read, r)
  <2>1. CASE read \in DOMAIN lastGood
    <3>1. /\ DOMAIN r = ReadFields /\ r.state = "settled"
          /\ r.value = lastGood[read].value /\ r.at = lastGood[read].at
      BY <1>2, <2>1 DEF KeyOf, ReadFields
    <3>2. read.what # "heads" => GoodFor(read, r.value, r.at)
      BY <2>1, <3>1 DEF ExplorerInv, KeptInv
    <3> QED BY <3>1, <3>2 DEF ReadInv
  <2>2. CASE read \notin DOMAIN lastGood
    <3>1. DOMAIN r = ReadFields /\ r.state = "settled" /\ r.at = Null
      BY <1>2, <2>2 DEF KeyOf, Asked, ReadFields
    <3> QED BY <3>1 DEF ReadInv
  <2> QED BY <2>1, <2>2
<1> QED BY <1>1, <1>2, <1>3, ReadChanged, KeptStays

LEMMA PageEndsInv ==
  ASSUME ExplorerInv, NEW d \in DOMAIN pages,
         SendPage(d) \/ SendFeed(d) \/ FeedFails(d) \/ BlockResolved(d) \/ BlockDecoded(d) \/ BlockShown(d)
  PROVE  ExplorerInv'
<1>1. PICK page : page = pages[d]
  OBVIOUS
<1>2. DOMAIN page = PageFields
  BY <1>1 DEF ExplorerInv, PageInv
<1>3. WorldRests /\ UNCHANGED lastGood
  BY DEF SendPage, SendFeed, FeedFails, BlockResolved, BlockDecoded, BlockShown, WorldRests, nodeVars
<1> DEFINE Same(p) == DOMAIN p = PageFields /\ p.began = page.began /\ p.reads = page.reads
<1>4. SUFFICES \E p : Same(p) /\ pages' = [pages EXCEPT ![d] = p]
  BY <1>1, <1>3, PageGoesOn
<1>5. \A status : Same(Finished(page, status))
  BY <1>2, FinishedPage
<1>6. \A v : Same([page EXCEPT !.view = v])
  BY <1>2 DEF PageFields
<1>7. ASSUME NEW v, NEW status
      PROVE  Same(Finished([page EXCEPT !.view = v], status))
  <2>1. PICK p : p = [page EXCEPT !.view = v]
    OBVIOUS
  <2>2. Same(p)
    BY <1>6, <2>1
  <2>3. Same(Finished(p, status))
    BY <2>2, FinishedPage
  <2> QED BY <2>1, <2>3
<1>8. \A v : Same([[page EXCEPT !.view = v] EXCEPT !.step = "finality"])
  BY <1>2 DEF PageFields
<1>9. \A b : Same([page EXCEPT !.step = "decode", !.block = b])
  BY <1>2 DEF PageFields
<1> HIDE DEF Same
<1>10. CASE SendPage(d)
  BY <1>1, <1>5, <1>10 DEF SendPage
<1>11. CASE SendFeed(d)
  BY <1>1, <1>7, <1>11 DEF SendFeed
<1>12. CASE FeedFails(d)
  BY <1>1, <1>5, <1>12 DEF FeedFails
<1>13. CASE BlockResolved(d)
  BY <1>1, <1>5, <1>9, <1>13 DEF BlockResolved
<1>14. CASE BlockDecoded(d)
  <2> DEFINE decoded == DecodeBlock(page.block)
  <2> DEFINE shows == [page EXCEPT !.view = decoded.hash]
  <2>1. PICK p : /\ p \in {[shows EXCEPT !.step = "finality"], Finished(page, 404), Finished(shows, 200)}
                 /\ pages' = [pages EXCEPT ![d] = p]
    <3> HIDE DEF decoded, shows
    <3> QED BY <1>1, <1>14 DEF BlockDecoded, decoded, shows
  <2>2. Same([shows EXCEPT !.step = "finality"])
    BY <1>8
  <2>3. Same(Finished(page, 404)) /\ Same(Finished(shows, 200))
    BY <1>5, <1>7
  <2> QED BY <2>1, <2>2, <2>3
<1>15. CASE BlockShown(d)
  BY <1>1, <1>7, <1>15 DEF BlockShown
<1> QED BY <1>10, <1>11, <1>12, <1>13, <1>14, <1>15

\* A page begins with nothing read.
LEMMA BeginInv ==
  ASSUME ExplorerInv, NEW request \in PageRequests, Begin(request)
  PROVE  ExplorerInv'
<1>1. WorldRests /\ UNCHANGED lastGood
  BY DEF Begin, WorldRests, nodeVars
<1> DEFINE New(p) == /\ DOMAIN p = PageFields /\ p.began = wall
                     /\ \A read \in DOMAIN p.reads : p.reads[read] = Asked
<1>2. \A route : New(NewPage(route))
  BY DEF NewPage, PageFields
<1>3. PICK new : New(new) /\ pages' = Append(pages, new)
  <2>1. PICK route : \E new \in Opened(route) : pages' = Append(pages, new)
    BY DEF Begin
  <2>2. \A status : New(Finished(NewPage(route), status))
    BY <1>2, FinishedPage
  <2>3. \A step : New([NewPage(route) EXCEPT !.step = step])
    BY DEF NewPage, PageFields
  <2>4. \A step, read : New([NewPage(route) EXCEPT !.step = step, !.reads = [r \in {read} |-> Asked]])
    BY DEF NewPage, PageFields
  <2> HIDE DEF New
  <2>5. ASSUME NEW new \in Opened(route) PROVE New(new)
    <3> DEFINE page == NewPage(route)
    <3> DEFINE read(r) == [page EXCEPT !.step = "reads", !.reads = [q \in {r} |-> Asked]]
    <3>1. new \in CASE route.path \in {"chrome", "favicon"} -> {Finished(page, 200)}
                    [] route.path = "badRequest" -> {Finished(page, 400)}
                    [] route.path = "notFound" -> {Finished(page, 404)}
                    [] route.path = "search" ->
                         {Finished(page, IF ResolveSearch(route.query) = Null THEN 404 ELSE 302)}
                    [] route.path \in {"block", "extrinsic"} -> {[page EXCEPT !.step = "resolve"]}
                    [] route.path = "activity" -> {[page EXCEPT !.step = "feed"]}
                    [] OTHER -> {read(r) : r \in ReadsOf(route)}
      BY Zenon DEF Opened
    <3>2. \A status : New(Finished(page, status))
      BY <2>2
    <3>3. New([page EXCEPT !.step = "resolve"]) /\ New([page EXCEPT !.step = "feed"])
      BY <2>3
    <3>4. \A r : New(read(r))
      BY <2>4
    <3> HIDE DEF page, read
    <3> QED BY <3>1, <3>2, <3>3, <3>4
  <2> QED BY <2>1, <2>5
<1>4. PageInv(new)
  <2>1. wall \in 0..wall
    BY ExplorerTimes DEF ExplorerInv, NodeInv
  <2>2. \A read : ReadInv(new.began, read, Asked)
    BY DEF ReadInv, ReadFields, Asked
  <2>3. wall <= wall + ReadTimeout
    BY ExplorerTimes DEF ExplorerInv, NodeInv
  <2> QED BY <1>3, <2>1, <2>2, <2>3 DEF PageInv
<1>5. PICK S : pages \in Seq(S)
  BY DEF ExplorerInv
<1>6. /\ pages' \in Seq(S \cup {new}) /\ DOMAIN pages' = DOMAIN pages \cup {Len(pages) + 1}
      /\ pages'[Len(pages) + 1] = new /\ \A e \in DOMAIN pages : pages'[e] = pages[e]
  BY <1>3, <1>5
<1>7. ASSUME NEW e \in DOMAIN pages'
      PROVE  PageInv(pages[e])'
  <2>1. PICK p : p = pages'[e]
    OBVIOUS
  <2>2. PageInv(p)
    BY <1>4, <1>6, <2>1 DEF ExplorerInv
  <2>3. PageInv(p)'
    BY <1>1, <2>2, WorldAsIs
  <2> QED BY <2>1, <2>3
<1>8. NodeInv' /\ KeptInv'
  BY <1>1, WorldAsIs, KeptStays DEF ExplorerInv
<1> QED BY <1>6, <1>7, <1>8 DEF ExplorerInv

LEMMA ExplorerStep == ExplorerInv /\ [ExplorerNext]_explorerVars => ExplorerInv'
<1> SUFFICES ASSUME ExplorerInv, [ExplorerNext]_explorerVars PROVE ExplorerInv'
  OBVIOUS
<1>1. CASE NodeImports \/ NodeFinalizes \/ IndexerFollows \/ WallTick
  BY <1>1, WorldStepInv DEF WorldStep
<1>2. CASE \E request \in PageRequests : Begin(request)
  BY <1>2, BeginInv
<1>3. CASE \E d \in DOMAIN pages : \E read \in DOMAIN pages[d].reads :
             PageAnswered(d, read) \/ AuthorsAnswered(d, read) \/ ReadFails(d, read)
  BY <1>3, PageAnsweredInv, AuthorsAnsweredInv, ReadFailsInv
<1>4. CASE \E d \in DOMAIN pages : \/ SendPage(d) \/ SendFeed(d) \/ FeedFails(d)
                                   \/ BlockResolved(d) \/ BlockDecoded(d) \/ BlockShown(d)
  BY <1>4, PageEndsInv
<1>5. CASE UNCHANGED explorerVars
  <2>1. WorldRests /\ UNCHANGED <<lastGood, pages>>
    BY <1>5 DEF explorerVars, WorldRests, nodeVars
  <2>2. NodeInv' /\ KeptInv'
    BY <2>1, WorldAsIs, KeptStays DEF ExplorerInv
  <2>3. ASSUME NEW d \in DOMAIN pages
        PROVE  PageInv(pages[d])'
    <3>1. PICK p : p = pages[d]
      OBVIOUS
    <3>2. PageInv(p)'
      BY <2>1, <3>1, WorldAsIs DEF ExplorerInv
    <3> QED BY <2>1, <3>1, <3>2
  <2> QED BY <2>1, <2>2, <2>3 DEF ExplorerInv
<1> QED BY <1>1, <1>2, <1>3, <1>4, <1>5 DEF ExplorerNext

LEMMA ExplorerStart == ExplorerInit => ExplorerInv
<1> SUFFICES ASSUME ExplorerInit PROVE ExplorerInv
  OBVIOUS
<1>1. NodeInv
  <2>1. best = Genesis /\ finalized = Genesis /\ indexed = 0 /\ wall = 0 /\ heights = [t \in 0..PageHorizon |-> 0]
    BY DEF ExplorerInit
  <2>2. Genesis \in DOMAIN Tree /\ Tree[Genesis].number = 0
    BY BlocksFormATree
  <2>3. OnLine(Genesis, 0) = Genesis
    BY <2>2, AncestorSteps DEF OnLine
  <2>4. Genesis \in Line(Genesis)
    BY <2>2, <2>3 DEF Line
  <2> QED BY <2>1, <2>2, <2>4, ExplorerTimes DEF NodeInv
<1>2. KeptInv
  BY DEF KeptInv, ExplorerInit
<1>3. pages \in Seq({}) /\ DOMAIN pages = {}
  BY DEF ExplorerInit
<1> QED BY <1>1, <1>2, <1>3 DEF ExplorerInv

\* Every list figure the explorer shows, the stale ones included, is what the
\* indexer answered to that very question within one read of the time beside it.
THEOREM FiguresWereTrue == ExplorerInit /\ [][ExplorerNext]_explorerVars => []ShownWasTrue
<1>1. ExplorerInv => ShownWasTrue
  <2> SUFFICES ASSUME ExplorerInv, NEW d \in DOMAIN pages, NEW read \in DOMAIN pages[d].reads,
                      pages[d].reads[read].at # Null, read.what # "heads"
               PROVE  \E t \in 0..PageHorizon : Within(t, pages[d].reads[read].at) /\
                        \E height \in HeldIn(t) : pages[d].reads[read].value = FromIndexer(read, Held(height))
    BY DEF ShownWasTrue, Shown
  <2>1. GoodFor(read, pages[d].reads[read].value, pages[d].reads[read].at)
    BY DEF ExplorerInv, PageInv, ReadInv
  <2>2. 0..wall \subseteq 0..PageHorizon
    BY ExplorerTimes DEF ExplorerInv, NodeInv
  <2> QED BY <2>1, <2>2 DEF GoodFor
<1> QED BY <1>1, ExplorerStart, ExplorerStep, PTL
=============================================================================
