----------------------------- MODULE MCIndexer ------------------------------
(* The indexer with a client of its API, or the /network page in a browser:  *)
(* a behaviour is one of the two.                                            *)
(*                                                                           *)
(* Four finalized blocks: two eras settled, one agreement that expires and   *)
(* one that is paid, an event of another pallet with an escrow event's name, *)
(* an event that names an account inside a tuple only, and a call that fails.*)
EXTENDS IndexerApi, NetworkPage, TLC

CONSTANTS a1, a2, ag1, ag2

Call(who) == [section |-> "balances", method |-> "transferAllowDeath", signer |-> who]
Account(who) == [type |-> <<"Vec", "AccountId32">>, value |-> {who}]
Pair(who) == [type |-> <<"Tuple", "AccountId32">>, value |-> {who}]
Event(section, method, x, args, about) ==
  [section |-> section, method |-> method, extrinsic |-> x, args |-> args, about |-> about]
Success_(x) == Event("system", "ExtrinsicSuccess", x, <<>>, 0)

MCBlocks == [n \in 0..3 |->
  CASE n = 0 -> [extrinsics |-> <<>>, events |-> <<>>]
    [] n = 1 -> [extrinsics |-> <<Call("inherent"), Call(a1)>>,
                 events |-> <<Event("escrow", "AgreementCreated", 2, <<Account(a2)>>, ag1),
                              Event("emissions", "EraSettled", 2, <<>>, 0), Success_(2)>>]
    [] n = 2 -> [extrinsics |-> <<Call(a2)>>,
                 events |-> <<Event("escrow", "AgreementCreated", 1, <<Pair(a1)>>, ag2),
                              Event("escrow", "AgreementExpired", 1, <<Account(a1)>>, ag1),
                              Event("guild", "AgreementExpired", 1, <<>>, ag2), Success_(1)>>]
    [] OTHER -> [extrinsics |-> <<Call(a1)>>,
                 events |-> <<Event("escrow", "DeliveryConfirmed", 1, <<Account(a2)>>, ag2),
                              Event("emissions", "EraSettled", 1, <<>>, 1),
                              Event("system", "ExtrinsicFailed", 1, <<>>, 0)>>]]

Route(name) ==
  [route |-> name, block |-> Absent, extrinsic |-> Absent, event |-> Absent, section |-> Absent,
   method |-> Absent, address |-> Absent, kind |-> Absent]

MCRequests ==
  {Route("eras.list"),
   [Route("extrinsics.list") EXCEPT !.address = [prefix |-> 0, account |-> a1]],
   [Route("activity.list") EXCEPT !.kind = "agreement", !.address = [prefix |-> 42, account |-> a2]]}

-----------------------------------------------------------------------------

VARIABLE program

allVars == <<program, apiVars, pageVars>>

\* The program that does not run starts in one state only.
BothInit ==
  /\ program \in {"indexer", "page"}
  /\ ApiInit /\ PageInit
  /\ program # "page" => ~visible

InIndexer == program = "indexer" /\ UNCHANGED <<program, pageVars>>
InPage    == program = "page"    /\ UNCHANGED <<program, apiVars>>

BothNext ==
  \/ InIndexer /\ ApiNext
  \/ InPage /\ PageNext

\* FollowerFairness and PageFairness, each of the program that runs.
Follower(step) == InIndexer /\ step /\ UNCHANGED <<client, missed>>

BothFairness ==
  /\ WF_allVars(Follower(\E depth \in Depths : Start(depth)) \/ Follower(Backfill) \/ Follower(Subscribe))
  /\ WF_allVars(Follower(HeadArrives) \/ (InPage /\ TimerFires))
  /\ WF_allVars(Follower(BeginCatchUp) \/ Follower(CatchUp) \/ (InPage /\ node # NoRead /\ NodeReadStep))
  /\ WF_allVars(Follower(Close) \/ (InPage /\ (ActivityStep("tick") \/ ListsDone)))
  /\ \A s \in Sockets : WF_allVars(InPage /\ rpc.state[s] = "closing" /\ SocketCloses(s))

BothSpec == BothInit /\ [][BothNext]_allVars /\ BothFairness
=============================================================================
