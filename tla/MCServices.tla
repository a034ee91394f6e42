---------------------------- MODULE MCServices -----------------------------
(* Five programs that share nothing but the node: a behaviour is one of     *)
(* them, and the state space the sum of theirs.                             *)
EXTENDS Faucet, LiveReads, EraClients, Explorer, RootScripts, TLC

CONSTANTS a1, a2, i1, p1, p2, k1, k2, g, b1, c2, v1, v2, s1, s2, s3, held

VARIABLE service

allVars == <<service, faucetVars, liveVars, eraVars, explorerVars, rootVars>>

-----------------------------------------------------------------------------
(* The faucet: two addresses behind one IP; a configuration that does not   *)
(* parse, a node without balances, and no node at all.                                *)

Plain(cmn) == [whole |-> cmn, fraction |-> <<>>]
Rule(most, span) == [max |-> most, window |-> span]
Good == [drip |-> [whole |-> 1, fraction |-> <<5>>], reserve |-> Plain(4),
         perAddress |-> Rule(1, 1), perIp |-> Rule(2, 2), trustProxy |-> TRUE, maxBody |-> 1,
         node |-> FromMetadata]
MCSettings == {Good, [Good EXCEPT !.drip = [whole |-> 1, fraction |-> <<0, 5>>]],
               [Good EXCEPT !.node = {"system.account"}], [Good EXCEPT !.node = Nothing]}

Drip(account) ==
  [path |-> "/drip", method |-> "POST", peer |-> i1, forwarded |-> <<i1>>,
   body |-> [size |-> 1, kind |-> "object", address |-> [prefix |-> 0, account |-> account]]]
MCFaucetRequests == {Drip(a1), Drip(a2), [Drip(a1) EXCEPT !.method = "GET"]}

-----------------------------------------------------------------------------
(* Live reads: four pairs of the double map, a page and a half of them.     *)

MCKeys == << <<a1, p1>>, <<a2, p1>>, <<a1, p2>>, <<a2, a1>> >>

Query(buyer, provider, party) == [buyer |-> buyer, provider |-> provider, party |-> party, limit |-> 2]
MCQueries == {Query(Anyone, Anyone, Anyone), Query(a1, Anyone, Anyone),
              Query(a1, p2, Anyone), Query(Anyone, Anyone, a1)}

-----------------------------------------------------------------------------
(* Era clients: two keepers, or one beside the operator or a reader.        *)

Mix(first, second, overriding, reading) ==
  [funds |-> [k \in Keepers |-> IF k = k1 THEN first ELSE second],
   operator |-> overriding, reader |-> reading]
MCMixes == {Mix(2, 1, 0, 0), Mix(2, 0, 1, 0), Mix(2, 0, 0, 1)}

-----------------------------------------------------------------------------
(* The explorer: a fork at height one, and every kind of page.              *)

Record(section, method, kind, agents) ==
  [extrinsic |-> 0, section |-> section, method |-> method, kind |-> kind, agents |-> agents, data |-> <<>>]
Block(number, parent, author, extrinsics, events) ==
  [number |-> number, parent |-> parent, author |-> author, extrinsics |-> extrinsics, events |-> events]
Who(account) == [kind |-> "account", account |-> account]
Sent(account) ==
  [signer |-> <<Who(account)>>,
   args |-> << [kind |-> "list", items |-> << [kind |-> "enum", payload |-> Who(a2)], [kind |-> "plain"] >>] >>]

MCTree ==
     g  :> Block(0, Null, Null, <<>>, <<>>)
  @@ b1 :> Block(1, g, v1, <<Sent(a1)>>,
             <<Record("agents", "AgentRegistered", "registration", {a1}),
               Record("system", "ExtrinsicSuccess", "other", {})>>)
  @@ c2 :> Block(1, g, v2, <<Sent(a2)>>, <<Record("system", "ExtrinsicFailed", "other", {})>>)

Page(path) ==
  [path |-> path, ref |-> Malformed, index |-> 0, page |-> Null, tab |-> "extrinsics",
   agent |-> Null, kind |-> Null, query |-> Null]
ByHash(hash) == [by |-> "hash", hash |-> hash]
MCPages ==
  {[Page("blocks") EXCEPT !.page = 1], [Page("blocks") EXCEPT !.page = 2],
   [Page("block") EXCEPT !.ref = ByHash(c2)],
   [Page("account") EXCEPT !.agent = a1, !.tab = "activity"], [Page("account") EXCEPT !.agent = a2],
   [Page("activity") EXCEPT !.agent = a1, !.kind = "registration"], [Page("activity") EXCEPT !.kind = "slash"],
   [Page("extrinsic") EXCEPT !.ref = [by |-> "number", number |-> 1]],
   [Page("search") EXCEPT !.query = ByHash(c2)]}
MCNames == a1 :> "scout"

-----------------------------------------------------------------------------
(* Root scripts: a rotation to the operator's key beside two root calls,    *)
(* two upgrades one of which asks for the wrong version, and arguments that *)
(* do not serve.                                                            *)

Invocation(kind, signer) ==
  [kind |-> kind, signer |-> signer, target |-> Unknown, spec |-> 0, expect |-> 0,
   inner |-> TRUE, wasm |-> "compressed", pays |-> TRUE, dryRun |-> FALSE]
Rotate(target)         == [Invocation("rotate", Alice) EXCEPT !.target = target]
Upgrade(signer, spec)  == [Invocation("code", signer) EXCEPT !.spec = spec, !.expect = spec]
RootCall(signer, fits) == [Invocation("call", signer) EXCEPT !.inner = fits]
Invoked(first, second, third) == s1 :> first @@ s2 :> second @@ s3 :> third

MCPlans ==
  {Invoked(Rotate(held), Upgrade(Alice, 2), RootCall(held, TRUE)),
   Invoked(Rotate(held), Upgrade(held, 2), RootCall(held, FALSE)),
   Invoked(Upgrade(Alice, 2), Upgrade(Alice, 3), Rotate(Alice)),
   Invoked([Upgrade(Alice, 2) EXCEPT !.expect = 3], Upgrade(Alice, 3), RootCall(Unknown, TRUE)),
   Invoked([Upgrade(Alice, 2) EXCEPT !.pays = FALSE], [Upgrade(Alice, 2) EXCEPT !.wasm = "text"],
           [Rotate(held) EXCEPT !.dryRun = TRUE])}

-----------------------------------------------------------------------------

\* A service that does not run starts in one state only.
ServicesInit ==
  /\ service \in {"faucet", "live", "era", "explorer", "root"}
  /\ FaucetInit /\ LiveInit /\ EraInit /\ ExplorerInit /\ RootInit
  /\ service # "faucet" => settings = Good /\ \A f \in Fundings : funding <= f
  /\ service # "live" => \A key \in LiveKeys : stored[key] = 0
  /\ service # "era" => runsLeft.operator = 0 /\ runsLeft.reader = 0
  /\ service # "root" => plan[s3] = RootCall(Unknown, TRUE)

InFaucet   == service = "faucet"   /\ UNCHANGED <<service, liveVars, eraVars, explorerVars, rootVars>>
InLive     == service = "live"     /\ UNCHANGED <<service, faucetVars, eraVars, explorerVars, rootVars>>
InEra      == service = "era"      /\ UNCHANGED <<service, faucetVars, liveVars, explorerVars, rootVars>>
InExplorer == service = "explorer" /\ UNCHANGED <<service, faucetVars, liveVars, eraVars, rootVars>>
InRoot     == service = "root"     /\ UNCHANGED <<service, faucetVars, liveVars, eraVars, explorerVars>>

ServicesNext ==
  \/ InFaucet /\ FaucetNext
  \/ InLive /\ LiveNext
  \/ InEra /\ EraNext
  \/ InExplorer /\ ExplorerNext
  \/ InRoot /\ RootNext

\* FaucetFairness and EraFairness, each of the service that runs.
KeeperWorks(k) == KeeperStarts(k) \/ KeeperReads(k) \/ KeeperDecides(k) \/ KeeperIncluded(k)

ServicesFairness ==
  /\ WF_allVars(InFaucet /\ (Submit \/ SubmitFails))
  /\ WF_allVars((InFaucet /\ (InBlock \/ GivenUp)) \/ (InEra /\ NextBlock))
  /\ \A d \in Slots : WF_allVars(InFaucet /\ (ReadBalance(d) \/ ReadBalanceFails(d)))
  /\ \A k \in Keepers : WF_allVars(InEra /\ KeeperWorks(k))

ServicesSpec == ServicesInit /\ [][ServicesNext]_allVars /\ ServicesFairness
=============================================================================
