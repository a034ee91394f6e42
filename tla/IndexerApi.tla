----------------------------- MODULE IndexerApi -----------------------------
(***************************************************************************)
(* The part of the indexer's /v1 API that is answered from the store, and  *)
(* a client that pages through one of its lists while the follower writes. *)
(*                                                                         *)
(* A request is [route, limit, offset, filter...]; a query parameter is    *)
(* Absent, a value, or Junk for text that does not parse.  An address is   *)
(* [prefix, account]: one account written in some chain's SS58 format.     *)
(***************************************************************************)
EXTENDS IndexFollower, Ordering, SequencesExt, Integers

CONSTANTS
  MaxLimit, DefaultLimit,     \* pagination.ts
  Requests,                   \* the lists a client may page through
  Absent, Junk

\* The lists whose order is that of the blocks: accounts.list goes by the last
\* block of an account, and a client that pages through it may miss one.
ListRoutes ==
  {"blocks.list", "blocks.extrinsics", "blocks.events", "extrinsics.list", "extrinsics.events",
   "events.list", "accounts.extrinsics", "agents.events", "eras.list", "activity.list"}

NormalizeAddress(address) ==
  IF address \in {Absent, Junk} THEN address ELSE address.account

IsList(list) == Len(list) \in Nat /\ DOMAIN list = 1..Len(list)

ASSUME ApiConstants ==
  /\ MaxLimit \in Nat \ {0} /\ DefaultLimit \in Nat \ {0}
  /\ Absent \notin Nat /\ Junk \notin Nat \cup [limit : Nat, offset : Nat]
  /\ \A n \in DOMAIN Blocks : IsList(Blocks[n].events) /\ IsList(Blocks[n].extrinsics)
  /\ \A request \in Requests :
       /\ request.route \in ListRoutes /\ request.block # Junk
       /\ NormalizeAddress(request.address) # Junk

VARIABLES
  client,                     \* [request, offset, owed, got]
  missed                      \* history: rows that finished clients were owed and not given

apiVars == <<followerVars, client, missed>>

-----------------------------------------------------------------------------
(* Paging rules.                                                           *)

IsRefused(value) == value = Junk
Clamp(limit) == Lower(limit, MaxLimit)

\* The window of a request, or Junk for one that is refused.
ParsePage(limit, offset) ==
  LET badLimit  == limit # Absent /\ (IsRefused(limit) \/ limit < 1)
      badOffset == offset # Absent /\ (IsRefused(offset) \/ offset < 0)
  IN  IF badLimit \/ badOffset THEN Junk
      ELSE [limit  |-> IF limit = Absent THEN DefaultLimit ELSE Clamp(limit),
            offset |-> IF offset = Absent THEN 0 ELSE offset]

Window(rows, page) ==
  [total |-> Len(rows),
   items |-> SubSeq(rows, page.offset + 1, Lower(Len(rows), page.offset + page.limit))]

-----------------------------------------------------------------------------
(* Queries over the store: every row matching the filters, in order.  The  *)
(* place of a row is its block and its index there.                        *)

Earlier(p, q) == p[1] < q[1] \/ (p[1] = q[1] /\ p[2] < q[2])

Listed(places, ascending) ==
  InOrder(places, {pair \in places \X places :
                     IF ascending THEN Earlier(pair[1], pair[2]) ELSE Earlier(pair[2], pair[1])})

BlockPlaces     == {<<n, 0>> : n \in indexed}
EventPlaces     == UNION {{<<n, i>> : i \in DOMAIN Blocks[n].events} : n \in indexed}
ExtrinsicPlaces == UNION {{<<n, i>> : i \in DOMAIN Blocks[n].extrinsics} : n \in indexed}

EventAt(place)     == EventRows(place[1])[place[2]]
ExtrinsicAt(place) == ExtrinsicRows(place[1])[place[2]]

Matches(filter, value) == filter = Absent \/ filter = value

MeetsExtrinsic(query, row) ==
  /\ Matches(query.block, row.block) /\ Matches(query.account, row.signer)
  /\ Matches(query.section, row.section) /\ Matches(query.method, row.method)

MeetsEvent(query, row) ==
  /\ Matches(query.block, row.block) /\ Matches(query.extrinsic, row.extrinsic)
  /\ Matches(query.section, row.section) /\ Matches(query.method, row.method)
  /\ query.account = Absent \/ query.account \in row.accounts

KeptExtrinsics(query) == {p \in ExtrinsicPlaces : MeetsExtrinsic(query, ExtrinsicAt(p))}

KeptEvents(query) == {p \in EventPlaces : MeetsEvent(query, EventAt(p))}

ListBlocks(page) ==
  LET order == Listed(BlockPlaces, FALSE)
  IN  Window([r \in DOMAIN order |-> order[r][1]], page)

ListExtrinsics(query, ascending, page) ==
  LET order == Listed(KeptExtrinsics(query), ascending)
  IN  Window([r \in DOMAIN order |-> ExtrinsicAt(order[r])], page)

ListEvents(query, ascending, page) ==
  LET order == Listed(KeptEvents(query), ascending)
  IN  Window([r \in DOMAIN order |-> EventAt(order[r])], page)

\* Accounts are ordered by their last block and then by address; any fixed
\* order of the addresses will do.
ListAccounts(page) ==
  LET known == {a \in Accounts : seen[a].seen}
      address == SetToSeq(Accounts)
      At(a) == CHOOSE i \in DOMAIN address : address[i] = a
  IN  Window(InOrder(known, {pair \in known \X known :
               LET a == pair[1] b == pair[2]
               IN  \/ seen[a].last > seen[b].last
                   \/ seen[a].last = seen[b].last /\ At(a) < At(b)}), page)

\* Counters are counted when they are read, never kept.
GetAccount(account) ==
  [range |-> seen[account],
   eventCount |-> Cardinality({p \in EventPlaces : account \in EventAt(p).accounts}),
   extrinsicCount |-> Cardinality({p \in ExtrinsicPlaces : ExtrinsicAt(p).signer = account})]

-----------------------------------------------------------------------------
(* The activity feed: an allow-list of (pallet, event) pairs.              *)

EscrowActivity ==
  {"AgreementCreated", "DeliveryRecorded", "DeliveryConfirmed", "RefundClaimed",
   "DeadlineExtended", "AgreementAccepted", "AgreementRejected",
   "PendingCancelled", "AgreementExpired"}

ActivitySources ==
  {[kind |-> "message", section |-> s, method |-> Absent] :
     s \in {"messages", "messaging", "agentMessaging"}} \cup
  {[kind |-> "registration", section |-> "agents", method |-> "AgentRegistered"],
   [kind |-> "heartbeat", section |-> "agents", method |-> "HeartbeatSent"]} \cup
  {[kind |-> "agreement", section |-> "escrow", method |-> m] : m \in EscrowActivity} \cup
  {[kind |-> "dispute", section |-> "escrow", method |-> m] :
     m \in {"DisputeOpened", "DisputeResolved"}} \cup
  {[kind |-> "oracle_vote", section |-> "oracle", method |-> m] :
     m \in {"OracleResponseSubmitted", "BatchResponseSubmitted"}} \cup
  {[kind |-> "slash", section |-> "agents", method |-> m] :
     m \in {"SlashExecuted", "SlashAppealed", "SlashAppealWithdrawn"}}

ActivityKinds == {source.kind : source \in ActivitySources}

SourcesFor(kind) ==
  IF kind = Absent THEN ActivitySources
  ELSE {source \in ActivitySources : source.kind = kind}

Takes(sources, row) ==
  \E source \in sources :
    source.section = row.section /\ Matches(source.method, row.method)

KeptActivity(kind, account) ==
  {p \in EventPlaces : /\ Takes(SourcesFor(kind), EventAt(p))
                       /\ account = Absent \/ account \in EventAt(p).accounts}

ListActivity(kind, account, page) ==
  LET order == Listed(KeptActivity(kind, account), FALSE)
  IN  Window([r \in DOMAIN order |-> EventAt(order[r])], page)

\* A row of the feed is the event's own row and the kind it goes by.
ActivityItem(row) ==
  [event |-> <<row.block, row.index>>, agents |-> row.accounts,
   kind  |-> (CHOOSE source \in ActivitySources : Takes({source}, row)).kind]

-----------------------------------------------------------------------------
(* Handlers.                                                               *)

\* The era in progress, read live: the node knows every settlement.
CurrentEra ==
  Cardinality(UNION {{<<n, i>> : i \in {j \in DOMAIN Blocks[n].events :
                                          Blocks[n].events[j].method = "EraSettled"}} :
                       n \in 0..finalized})

EraQuery == [block |-> Absent, extrinsic |-> Absent, account |-> Absent,
             section |-> "emissions", method |-> "EraSettled"]

\* The settlements the index has seen, newest first.
SettledPage(limit, offset) ==
  ListEvents(EraQuery, FALSE, [limit |-> limit, offset |-> offset])

\* Era and totals are those of the event, never computed again.
SettledEraFromEvent(row) == [era |-> row.about, settledAt |-> row.block]

\* The same keys for a settled era and for the one in progress.
EraEntry(settled, era, at) == [settled |-> settled, era |-> era, settledAt |-> at]

SettledEntries(rows) ==
  [i \in DOMAIN rows |-> LET settled == SettledEraFromEvent(rows[i])
                         IN  EraEntry(TRUE, settled.era, settled.settledAt)]

\* A mutant: the settled eras are not shifted.
ErasListUnshifted(page) ==
  LET settled == SettledPage(page.limit, page.offset)
      rows    == SettledEntries(settled.items)
  IN  [total |-> settled.total + 1,
       items |-> IF page.offset = 0 THEN <<EraEntry(FALSE, CurrentEra, Absent)>> \o rows ELSE rows]

\* The era in progress is the first row of the first page, and shifts the
\* settled ones by one on every other page.
ErasList(page) ==
  LET first   == page.offset = 0
      settled == IF first THEN SettledPage(page.limit - 1, 0)
                 ELSE SettledPage(page.limit, page.offset - 1)
      rows    == SettledEntries(settled.items)
  IN  [total |-> settled.total + 1,
       items |-> IF first THEN <<EraEntry(FALSE, CurrentEra, Absent)>> \o rows ELSE rows]

\* A block, extrinsic or event that is not held is a 404 on its own routes.
HeldBlock(request) == request.block \in indexed
HeldExtrinsic(request) ==
  HeldBlock(request) /\ request.extrinsic \in DOMAIN Blocks[request.block].extrinsics
HeldEvent(request) ==
  HeldBlock(request) /\ request.event \in DOMAIN Blocks[request.block].events

\* Whether an account is an agent is read from the node, not from the store.
IsAgent(account) ==
  \E n \in 0..finalized : \E i \in DOMAIN Blocks[n].events :
    Blocks[n].events[i].method = "AgentRegistered" /\ account \in EventRows(n)[i].accounts

\* What a route refuses with a 404 before it looks anything else up.
Missing(request, account) ==
  \/ request.route \in {"blocks.get", "blocks.extrinsics", "blocks.events"} /\ ~HeldBlock(request)
  \/ request.route \in {"extrinsics.get", "extrinsics.events"} /\ ~HeldExtrinsic(request)
  \/ request.route = "events.get" /\ ~HeldEvent(request)
  \/ request.route = "agents.events" /\ ~IsAgent(account)

\* How far back the index can answer: the oldest block held, not the start of
\* the window of this run.
EarliestBlockNumber == IF indexed = {} THEN Absent ELSE Min(indexed)

Bad(status) == [status |-> status, total |-> 0, items |-> <<>>, from |-> Absent]
Ok(result)  == [status |-> 200, total |-> result.total, items |-> result.items, from |-> Absent]
One(row)    == Ok([total |-> 1, items |-> <<row>>])

\* The two lists that are only as deep as the index say so.
OkSince(result) == [Ok(result) EXCEPT !.from = EarliestBlockNumber]

Status ==
  One([finalizedBlock |-> finalized, indexedBlocks |-> Cardinality(indexed),
       syncedHeight |-> IF indexed = {} THEN Absent ELSE LatestBlockNumber])

BlockRoutes(request, query, page) ==
  CASE request.route = "blocks.list" -> Ok(ListBlocks(page))
    [] request.route = "blocks.get" -> One(request.block)
    [] request.route = "blocks.extrinsics" -> Ok(ListExtrinsics(query, TRUE, page))
    [] request.route = "blocks.events" -> Ok(ListEvents(query, TRUE, page))

ExtrinsicRoutes(request, query, page) ==
  CASE request.route = "extrinsics.list" -> Ok(ListExtrinsics(query, FALSE, page))
    [] request.route = "extrinsics.get" -> One(ExtrinsicRows(request.block)[request.extrinsic])
    [] request.route = "extrinsics.events" -> Ok(ListEvents(query, TRUE, page))

EventRoutes(request, query, page) ==
  CASE request.route = "events.list" -> Ok(ListEvents(query, FALSE, page))
    [] request.route = "events.get" -> One(EventRows(request.block)[request.event])

AccountRoutes(request, account, query, page) ==
  CASE request.route = "accounts.list" -> Ok(ListAccounts(page))
    [] request.route = "accounts.get" -> One(GetAccount(account))
    [] request.route = "accounts.extrinsics" -> Ok(ListExtrinsics(query, FALSE, page))

\* Events that name an agent; the agent must stand at the node.
AgentRoutes(query, page) == Ok(ListEvents(query, FALSE, page))

\* No agent is required here: one that left still has a history.
ActivityRoute(request, account, page) ==
  LET feed == ListActivity(request.kind, account, page)
  IN  IF request.kind \notin ActivityKinds \cup {Absent} THEN Bad(400)
      ELSE OkSince([total |-> feed.total,
                    items |-> [i \in DOMAIN feed.items |-> ActivityItem(feed.items[i])]])

Answer(request, account, page) ==
  LET query == [block |-> request.block, extrinsic |-> request.extrinsic,
                section |-> request.section, method |-> request.method,
                account |-> account]
      in(routes) == request.route \in routes
  IN  IF Missing(request, account) THEN Bad(404)
      ELSE CASE in({"status"}) -> Status
             [] in({"blocks.list", "blocks.get", "blocks.extrinsics", "blocks.events"}) ->
                  BlockRoutes(request, query, page)
             [] in({"extrinsics.list", "extrinsics.get", "extrinsics.events"}) ->
                  ExtrinsicRoutes(request, query, page)
             [] in({"events.list", "events.get"}) -> EventRoutes(request, query, page)
             [] in({"accounts.list", "accounts.get", "accounts.extrinsics"}) ->
                  AccountRoutes(request, account, query, page)
             [] in({"agents.events"}) -> AgentRoutes(query, page)
             [] in({"eras.list"}) -> OkSince(ErasList(page))
             [] in({"activity.list"}) -> ActivityRoute(request, account, page)
             [] OTHER -> Bad(404)

\* The page and the addresses are read before anything else, and refused
\* rather than guessed at.
Handle(request, limit, offset) ==
  LET page    == ParsePage(limit, offset)
      account == NormalizeAddress(request.address)
      filter  == request.route \in {"extrinsics.list", "events.list"} /\ IsRefused(request.block)
  IN  IF Junk \in {page, account} \/ filter THEN Bad(400)
      ELSE Answer(request, account, page)

-----------------------------------------------------------------------------
(* A client pages through one list: it asks for the rows after those it    *)
(* has been given, until a page comes back empty.                          *)

\* The rows of the store that the list has now, whatever page they are on.
RowsNow(request) ==
  LET first(limit) == Answer(request, NormalizeAddress(request.address), [limit |-> limit, offset |-> 0])
  IN  {row \in ToSet(first(first(1).total).items) : request.route = "eras.list" => row.settled}

NoClient == [request |-> Absent, offset |-> 0, owed |-> {}, got |-> {}]

ApiInit == FollowerInit /\ client = NoClient /\ missed = {}

Open(request) ==
  /\ phase = "serving" /\ client = NoClient
  /\ client' = [request |-> request, offset |-> 0, owed |-> RowsNow(request), got |-> {}]
  /\ UNCHANGED <<followerVars, missed>>

NextPage ==
  /\ phase = "serving" /\ client # NoClient
  /\ \E limit \in {Absent, MaxLimit + 1} :
       LET items == Handle(client.request, limit, client.offset).items
       IN  IF items = <<>>
           THEN client' = NoClient /\ missed' = missed \cup (client.owed \ client.got)
           ELSE /\ client' = [client EXCEPT !.offset = @ + Len(items), !.got = @ \cup ToSet(items)]
                /\ UNCHANGED missed
  /\ UNCHANGED followerVars

\* The server is closed, or dies, before the client is done.
Hangup ==
  /\ phase # "serving" /\ client # NoClient
  /\ client' = NoClient
  /\ UNCHANGED <<followerVars, missed>>

ApiNext ==
  \/ FollowerNext /\ UNCHANGED <<client, missed>>
  \/ \E request \in Requests : Open(request)
  \/ NextPage \/ Hangup

ApiSpec == ApiInit /\ [][ApiNext]_apiVars /\ FollowerFairness

-----------------------------------------------------------------------------
(* Properties.                                                             *)

\* A client that pages through a list to its end has been given every row the
\* list had when it began, although blocks are indexed, eras settled and rows
\* shifted to later pages meanwhile (newest first; the era in progress takes
\* the first place of /v1/eras and is no row of the store).
PagingMissesNothing == missed = {}

=============================================================================
