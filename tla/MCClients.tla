---------------------------- MODULE MCClients ------------------------------
(* Three programs built on the SDK's submission: the sender and recipient of *)
(* messages, the operator's agent and the reference daemon.  A behaviour is  *)
(* one of them, and the state space the sum of theirs.                       *)
EXTENDS Messaging, WorkerAgent, ReferenceAgent, TLC

CONSTANTS other, old, c1, p1, p2, cap

VARIABLE client

allVars == <<client, submissionVars, messagingOwn, workerOwn, daemonOwn>>

-----------------------------------------------------------------------------
(* Messages: one to the inbox, about an agreement, hash-only on the chain    *)
(* and sealed elsewhere; and one to somebody else, plain, too large for the  *)
(* chain and signed for another chain.                                       *)

MCDrafts ==
  {[to |-> Me, kind |-> "Offer", agreement |-> <<[account |-> other, seq |-> 0]>>,
    content |-> [json |-> TRUE, large |-> FALSE], sealedTo |-> <<MessagingKey(Me, 0)>>,
    hashOnly |-> TRUE, payer |-> Author, chain |-> ThisChain],
   [to |-> other, kind |-> "Ping", agreement |-> <<>>,
    content |-> [json |-> FALSE, large |-> TRUE], sealedTo |-> <<>>,
    hashOnly |-> FALSE, payer |-> Author, chain |-> old]}

-----------------------------------------------------------------------------
(* The agent: two offers to a provider that is set up, one to a provider    *)
(* that has everything before it, and a buyer with two peers.               *)

MCRegistry == <<Myself, p1, p2>>
Job(mode, setUp, earned, offers, purse) ==
  [mode |-> mode, registered |-> setUp, keyed |-> setUp, earned |-> earned,
   offers |-> offers, purse |-> purse]
MCJobs == {Job("provider", TRUE, FALSE, 2, 0), Job("provider", FALSE, TRUE, 1, 0),
           Job("buyer", TRUE, FALSE, 0, 3)}
MCWallets == {[approved |-> approved, testnet |-> TRUE, funded |-> FALSE] : approved \in BOOLEAN}

-----------------------------------------------------------------------------
(* The daemon: a start from nothing, a buyer that claims, a provider with   *)
(* time for three attempts, and a heartbeat slower than the grace period.   *)

Daemon(capabilities, buys, beatEvery, setUp, until) ==
  [capabilities |-> capabilities, uncategorised |-> setUp, confirms |-> buys, claims |-> buys,
   beatEvery |-> beatEvery, registered |-> setUp, funded |-> setUp, until |-> until]
MCSetups == {Daemon({cap}, FALSE, 2, FALSE, 3), Daemon({}, TRUE, 6, TRUE, 3),
             Daemon({}, FALSE, 6, TRUE, 6), Daemon({}, FALSE, 9, TRUE, 6)}

-----------------------------------------------------------------------------

Pick(S) == CHOOSE x \in S : TRUE

\* A program that does not run starts in one state only.
ClientsInit ==
  /\ client \in {"messaging", "worker", "daemon"}
  /\ MessagingInit /\ WorkerInit /\ DaemonInit
  /\ client # "messaging" => transport = "chain" /\ subscription = Idle
  /\ client # "worker" => job = Pick(Jobs) /\ wallet = Pick(Wallets)
  /\ client # "daemon" => setup = Pick(Setups)

InMessaging == client = "messaging" /\ UNCHANGED <<client, workerOwn, daemonOwn>>
InWorker    == client = "worker"    /\ UNCHANGED <<client, messagingOwn, daemonOwn>>
InDaemon    == client = "daemon"    /\ UNCHANGED <<client, messagingOwn, workerOwn>>

ClientsNext ==
  \/ InMessaging /\ MessagingNext
  \/ InWorker /\ WorkerNext
  \/ InDaemon /\ DaemonNext

\* MessagingFairness and WorkerFairness, each of the program that runs.
ClientsFairness ==
  /\ WF_allVars((InMessaging /\ \E head \in 1..LastHead : HeadArrives(head)) \/ (InWorker /\ Starts))
  /\ WF_allVars((InMessaging /\ ScanStarts) \/ (InWorker /\ AsksFaucet))
  /\ WF_allVars((InMessaging /\ Scans) \/ (InWorker /\ Ticks))
  /\ WF_allVars(InWorker /\ Sends)
  /\ WF_allVars(InWorker /\ NextBlock)
  /\ WF_allVars(InWorker /\ \E tx \in txPool : Lands(tx))

ClientsSpec == ClientsInit /\ [][ClientsNext]_allVars /\ ClientsFairness
=============================================================================
