---------------------------- MODULE RootScripts -----------------------------
(***************************************************************************)
(* The scripts that use the chain's root key: sudo-set-key, which rotates  *)
(* it, and apply-upgrade, which makes one root call or replaces the        *)
(* runtime and polls every node for it.  Each reads the best block, then   *)
(* submits, then judges by what a finalized block holds.  Blocks that are  *)
(* not final may be retracted, and scripts run beside each other.          *)
(*                                                                         *)
(* A block is what root sees of it: [script, result, key, spec], the       *)
(* script whose transaction it includes and the state after it.            *)
(***************************************************************************)
EXTENDS Integers, Sequences, SequencesExt

CONSTANTS
  Scripts,             \* invocations
  Plans,               \* bound: what the invocations are, Scripts -> arguments
  Alice, Ports,
  SpecBefore,          \* spec_version of the chain the scripts find
  TipLength,           \* bound: blocks that are not final yet
  Retractions,         \* bound: forks abandoned
  Unknown              \* a value that is absent or does not decode

ASSUME RootAssumption ==
  /\ SpecBefore \in Int
  /\ Unknown \notin Scripts \cup Int
  /\ \A invoked \in Plans : \A s \in Scripts :
       /\ invoked[s].kind \in {"rotate", "code", "call"}
       /\ invoked[s].spec \in Int /\ invoked[s].expect \in Int

VARIABLES
  plan,                \* Scripts -> [kind, signer, target, spec, expect, inner, wasm, pays, dryRun]
  final, tip,          \* the chain: its finalized blocks and those above them
  retractions,
  txPool,              \* scripts whose transaction some node may include
  script               \* Scripts -> [at, seen]

rootChain == <<final, tip, retractions>>
rootVars == <<plan, rootChain, txPool, script>>

GenesisBlock == [script |-> Unknown, result |-> "ok", key |-> Alice, spec |-> SpecBefore]
ScriptRests  == [at |-> "idle", seen |-> [p \in Ports |-> Unknown]]

RootInit ==
  /\ plan \in Plans
  /\ final = <<GenesisBlock>> /\ tip = <<>> /\ retractions = 0
  /\ txPool = {} /\ script = [s \in Scripts |-> ScriptRests]

BestBlock == IF tip = <<>> THEN Last(final) ELSE Last(tip)

Becomes(s, state) == script' = [script EXCEPT ![s].at = state]

-----------------------------------------------------------------------------
(* The runtime: pallet-sudo, and set_code's check of the version.          *)

InnerTakes(run, before) ==
  CASE run.kind = "code" -> run.spec > before.spec
    [] run.kind = "call" -> run.inner
    [] OTHER -> TRUE

\* setKey and sudo are refused to anyone but root; a sudo whose inner call
\* fails succeeds, and says so in Sudid.
Dispatch(run, before) ==
  IF run.signer # before.key THEN "refused"
  ELSE IF InnerTakes(run, before) THEN "ok" ELSE "inner error"

BlockWith(s) ==
  LET run    == plan[s]
      result == Dispatch(run, BestBlock)
      after  == result = "ok"
  IN  [script |-> s, result |-> result,
       key  |-> IF after /\ run.kind = "rotate" THEN run.target ELSE BestBlock.key,
       spec |-> IF after /\ run.kind = "code" THEN run.spec ELSE BestBlock.spec]

-----------------------------------------------------------------------------
(* The scripts up to the submission.                                       *)

\* Root is handed to nothing that does not decode, and not to the published key.
AddressServes(run) == run.target \notin {Unknown, Alice}

\* Raw wasm or the compressed form, the two shapes set_code takes.
WasmServes(run) == run.kind = "code" => run.wasm \in {"raw", "compressed"}

KeyFileServes(run) == run.signer # Unknown

ArgumentsServe(run) ==
  IF run.kind = "rotate" THEN AddressServes(run) ELSE WasmServes(run) /\ KeyFileServes(run)

\* Arguments that do not serve are refused before anything is connected to.
Launch(s) ==
  /\ script[s].at = "idle"
  /\ Becomes(s, IF ArgumentsServe(plan[s]) THEN "connected" ELSE "failed")
  /\ UNCHANGED <<plan, rootChain, txPool>>

\* The rotation only prints what it reads; a dry run stops here.
RotateRootKey(s) ==
  /\ script[s].at = "connected" /\ plan[s].kind = "rotate"
  /\ Becomes(s, IF plan[s].dryRun THEN "rested" ELSE "submitted")
  /\ txPool' = IF plan[s].dryRun THEN txPool ELSE txPool \cup {s}
  /\ UNCHANGED <<plan, rootChain>>

\* A root call goes on only if the script's own key is root, at the best block
\* of this moment.
ReadRootKey(s) ==
  /\ script[s].at = "connected" /\ plan[s].kind # "rotate"
  /\ Becomes(s, IF plan[s].signer = BestBlock.key THEN "checked" ELSE "failed")
  /\ UNCHANGED <<plan, rootChain, txPool>>

\* sudo charges its fee before the dispatch that waives it.
CanPay(run) == run.pays

SubmitRootCall(s) ==
  /\ script[s].at = "checked"
  /\ Becomes(s, CASE ~CanPay(plan[s]) -> "failed"
                  [] CanPay(plan[s]) /\ plan[s].dryRun -> "rested"
                  [] OTHER -> "submitted")
  /\ txPool' = IF CanPay(plan[s]) /\ ~plan[s].dryRun THEN txPool \cup {s} ELSE txPool
  /\ UNCHANGED <<plan, rootChain>>

-----------------------------------------------------------------------------
(* The chain, and what the watcher of a transaction makes of it.           *)

\* A dispatch error is taken from the first block that shows it, final or not.
IncludeRootCall(s) ==
  /\ s \in txPool /\ Len(tip) < TipLength
  /\ tip' = Append(tip, BlockWith(s))
  /\ txPool' = txPool \ {s}
  /\ script' = IF script[s].at = "submitted" /\ BlockWith(s).result = "refused"
               THEN [script EXCEPT ![s].at = "failed"] ELSE script
  /\ UNCHANGED <<plan, final, retractions>>

\* Another branch wins; its author may include the transactions again.
RetractTip ==
  /\ tip # <<>> /\ retractions < Retractions
  /\ retractions' = retractions + 1
  /\ tip' = <<>>
  /\ txPool' = txPool \cup {tip[i].script : i \in DOMAIN tip}
  /\ UNCHANGED <<plan, final, script>>

\* A mutant: a finalized sudo is taken for a successful one.
TookIfDispatched(block) == block.result # "refused"

\* Sudid carries the inner call's own result.
Took(block) == block.result = "ok"

AfterFinality(block) ==
  IF ~Took(block) THEN "failed"
  ELSE CASE plan[block.script].kind = "rotate" -> "reading back"
         [] plan[block.script].kind = "code"   -> "polling"
         [] plan[block.script].kind = "call"   -> "reported"

FinalizeBlock ==
  /\ tip # <<>>
  /\ final' = Append(final, Head(tip)) /\ tip' = Tail(tip)
  /\ IF script[Head(tip).script].at = "submitted"
     THEN Becomes(Head(tip).script, AfterFinality(Head(tip)))
     ELSE UNCHANGED script
  /\ UNCHANGED <<plan, retractions, txPool>>

\* Dropped, invalid or usurped at the node that watches; another may hold it.
WatchGivesUp(s) ==
  /\ script[s].at = "submitted" /\ s \in txPool
  /\ Becomes(s, "failed")
  /\ txPool' \in {txPool, txPool \ {s}}
  /\ UNCHANGED <<plan, rootChain>>

-----------------------------------------------------------------------------
(* The verdicts.                                                           *)

BlockOf(s) == CHOOSE i \in DOMAIN final : final[i].script = s

\* The key is read at the finalized block and not taken from the event.
ReadBack(s) ==
  /\ script[s].at = "reading back"
  /\ Becomes(s, IF final[BlockOf(s)].key = plan[s].target /\ final[BlockOf(s)].key # Alice
                THEN "reported" ELSE "failed")
  /\ UNCHANGED <<plan, rootChain, txPool>>

\* A node answers by the best block it has, which may be an older one.
Answers ==
  {final[i].spec : i \in DOMAIN final} \cup {tip[i].spec : i \in DOMAIN tip} \cup {Unknown}

\* Each port is asked until it has once said what is expected.
PollPorts(s) ==
  /\ script[s].at = "polling"
  /\ \E seen \in [Ports -> Answers] :
       LET now == [p \in Ports |-> IF script[s].seen[p] = plan[s].expect \/ seen[p] = Unknown
                                   THEN script[s].seen[p] ELSE seen[p]]
       IN  script' = [script EXCEPT ![s].seen = now,
                        ![s].at = IF \A p \in Ports : now[p] = plan[s].expect THEN "reported" ELSE @]
  /\ UNCHANGED <<plan, rootChain, txPool>>

\* The budget of blocks has run out before some port.
PollEnds(s) ==
  /\ script[s].at = "polling"
  /\ Becomes(s, "failed")
  /\ UNCHANGED <<plan, rootChain, txPool>>

RootNext ==
  \/ \E s \in Scripts :
       \/ Launch(s) \/ RotateRootKey(s) \/ ReadRootKey(s) \/ SubmitRootCall(s)
       \/ IncludeRootCall(s) \/ WatchGivesUp(s)
       \/ ReadBack(s) \/ PollPorts(s) \/ PollEnds(s)
  \/ RetractTip \/ FinalizeBlock

RootSpec == RootInit /\ [][RootNext]_rootVars

-----------------------------------------------------------------------------
(* Properties.                                                             *)

\* A script that ends with OK has had its effect in a block that is final: the
\* rotation holds in it, the inner call took, and each node named has since
\* shown the new runtime, unless the version asked for is no newer than the one
\* before it.  A rotation, a second upgrade or an abandoned fork between a
\* script's check of the key and the inclusion of its call changes what it
\* reports, never whether that is true (apply-upgrade.mjs: a sudo call can be
\* finalized "successfully" while the call it wrapped failed).
RootReportsHold ==
  \A s \in Scripts : script[s].at = "reported" =>
    \E i \in DOMAIN final :
      /\ final[i].script = s /\ final[i].result = "ok"
      /\ plan[s].kind = "rotate" => final[i].key = plan[s].target
      /\ plan[s].kind = "code" /\ plan[s].expect > final[i - 1].spec =>
           \A p \in Ports : script[s].seen[p] >= final[i].spec

=============================================================================
