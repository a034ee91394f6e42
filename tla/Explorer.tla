------------------------------ MODULE Explorer ------------------------------
(***************************************************************************)
(* The explorer: an HTTP server that reads one node and one indexer afresh *)
(* for each page.  Every figure of a list page is a bounded read of its    *)
(* own; one that fails is shown as it last was, marked stale.  A block     *)
(* page is several node reads in a row, while forks come and go.           *)
(*                                                                         *)
(* Blocks form a fixed Tree: block -> [number, parent, author,             *)
(* extrinsics, events]; a decoded value is [kind, ...] (see AccountsIn).   *)
(***************************************************************************)
EXTENDS Integers, Sequences, FiniteSets, SequencesExt

CONSTANTS
  Tree, Genesis,
  MaxBlockNumber,
  PageRows, HomeRows,  \* rows of a list page and of the home page
  AgentNames,          \* registered agents -> their names
  MaxDepth,            \* how deep a decoded value is searched
  PageRequests,        \* requests that may arrive
  ReadTimeout,
  PageHorizon,         \* bound: the last instant
  PageBudget,          \* bound: pages of a run
  Null, Malformed

ASSUME BlocksFormATree ==
  /\ Genesis \in DOMAIN Tree /\ Tree[Genesis].number = 0
  /\ \A b \in DOMAIN Tree \ {Genesis} :
       Tree[b].parent \in DOMAIN Tree /\ Tree[b].number = Tree[Tree[b].parent].number + 1
  /\ \A b \in DOMAIN Tree : Tree[b].number \in Nat
ASSUME ExplorerTimes == ReadTimeout \in Nat /\ PageHorizon \in Nat

VARIABLES
  best, finalized,     \* the node
  indexed,             \* blocks the indexer holds: the finalized ones so far
  wall,
  heights,             \* history: `indexed' at the end of each instant
  lastGood,            \* key -> [value, at] of the last read that succeeded
  pages                \* the pages of the run, in the order they were asked for

nodeVars == <<best, finalized>>
explorerVars == <<nodeVars, indexed, wall, heights, lastGood, pages>>

-----------------------------------------------------------------------------
(* What the node and the indexer answer.                                   *)

\* The block that many steps below `head'.
Ancestor(head, steps) ==
  LET down[i \in 0..steps] == IF i = 0 THEN head ELSE Tree[down[i - 1]].parent
  IN  down[steps]

\* The block of this number on the line that ends in `head', or Null.
OnLine(head, number) ==
  IF number \in 0..Tree[head].number THEN Ancestor(head, Tree[head].number - number) ELSE Null

Line(head) == {OnLine(head, number) : number \in 0..Tree[head].number}

\* What an indexer of this height holds: finalized blocks, newest first.
Held(height) == [i \in 1..(height + 1) |-> OnLine(finalized, height - i + 1)]

Newest(held, limit, offset) ==
  SubSeq(held, offset + 1, IF Len(held) < offset + limit THEN Len(held) ELSE offset + limit)

\* The events of these blocks, newest first.
Indexed(held) == FlattenSeq([i \in DOMAIN held |-> Reverse(Tree[held[i]].events)])

-----------------------------------------------------------------------------
(* Decoding.                                                               *)

\* What a decoded value carries, by its structure: lists and maps are walked,
\* an option only when it carries something, an enum by its payload.
Carried(value) ==
  CASE value.kind = "account" -> <<value>>
    [] value.kind = "list" -> value.items
    [] value.kind \in {"some", "enum"} -> <<value.payload>>
    [] OTHER -> <<>>

\* The accounts in some values, in their order, MaxDepth levels down.
AccountsIn(values) ==
  LET level[depth \in 0..MaxDepth] ==
        IF depth = 0 THEN values
        ELSE LET above == level[depth - 1]
             IN  FlattenSeq([i \in DOMAIN above |-> Carried(above[i])])
      found == SelectSeq(level[MaxDepth], LAMBDA value : value.kind = "account")
  IN  [i \in DOMAIN found |-> found[i].account]

\* First seen first, each once.
CollectAccounts(values) ==
  FoldLeft(LAMBDA found, account : IF account \in ToSet(found) THEN found ELSE Append(found, account),
           <<>>, AccountsIn(values))

\* The first of the extrinsic's events that tells its fate.
OutcomeOf(records) ==
  LET telling == SelectSeq(records, LAMBDA r : r.section = "system" /\ r.method \in {"ExtrinsicSuccess", "ExtrinsicFailed"})
  IN  CASE telling = <<>> -> "unknown"
        [] telling # <<>> /\ Head(telling).method = "ExtrinsicSuccess" -> "success"
        [] OTHER -> "failed"

\* An extrinsic with the events its phase points at, at their own positions.
DecodedExtrinsic(block, index) ==
  LET records == SelectSeq(Tree[block].events, LAMBDA r : r.extrinsic = index)
      call    == Tree[block].extrinsics[index + 1]
  IN  [outcome  |-> OutcomeOf(records),
       events   |-> SelectSeq([i \in DOMAIN Tree[block].events |-> i - 1],
                              LAMBDA i : Tree[block].events[i + 1].extrinsic = index),
       accounts |-> CollectAccounts(call.signer \o call.args \o FlattenSeq([i \in DOMAIN records |-> records[i].data]))]

DecodeBlock(block) ==
  [number |-> Tree[block].number, hash |-> block, author |-> Tree[block].author,
   extrinsics |-> [i \in DOMAIN Tree[block].extrinsics |-> DecodedExtrinsic(block, i - 1)]]

-----------------------------------------------------------------------------
(* Routes.  A request is [path, ref, index, page, tab, agent, kind, query].*)

BadRequest == [path |-> "badRequest"]

\* A number is a u32, a hash is whole: nothing is resolved to "something close".
ParseBlockRef(raw) ==
  IF raw = Malformed \/ (raw.by = "number" /\ raw.number > MaxBlockNumber) THEN Null ELSE raw

ParsePage(raw) ==
  IF raw = Null THEN 1 ELSE IF raw = Malformed \/ raw < 1 THEN Null ELSE raw

ActivityKinds == {"agreement", "dispute", "message", "registration", "slash"}

ParseActivity(request) ==
  IF \/ request.agent = Malformed
     \/ request.kind # Null /\ request.kind \notin ActivityKinds
     \/ ParsePage(request.page) = Null
  THEN BadRequest
  ELSE [path |-> "activity", agent |-> request.agent, kind |-> request.kind, page |-> ParsePage(request.page)]

ParseRoute(request) ==
  CASE request.path \in {"home", "chrome", "favicon"} -> [path |-> request.path]
    [] request.path = "search" -> [path |-> "search", query |-> request.query]
    [] request.path = "activity" -> ParseActivity(request)
    [] request.path = "blocks" ->
         IF ParsePage(request.page) = Null THEN BadRequest
         ELSE [path |-> "blocks", page |-> ParsePage(request.page)]
    [] request.path \in {"block", "extrinsic"} ->
         IF ParseBlockRef(request.ref) = Null \/ request.index = Malformed THEN BadRequest
         ELSE [path |-> request.path, ref |-> request.ref, index |-> request.index]
    [] request.path = "account" ->
         IF request.agent = Malformed \/ ParsePage(request.page) = Null THEN BadRequest
         ELSE [path |-> "account", agent |-> request.agent, tab |-> request.tab, page |-> ParsePage(request.page)]
    [] OTHER -> [path |-> "notFound"]

\* The block the node names for a reference, Null for one it does not have: by
\* number on its best line, by hash on any.
ResolveBlock(ref) ==
  IF ref.by = "number" THEN OnLine(best, ref.number)
  ELSE IF ref.hash \in DOMAIN Tree THEN ref.hash ELSE Null

\* The page a search names.  Only a hash is looked up.
ResolveSearch(query) ==
  CASE query.by = "number" /\ ParseBlockRef(query) # Null -> "block"
    [] query.by = "id" /\ query.number <= MaxBlockNumber -> "extrinsic"
    [] query.by = "hash" /\ ResolveBlock(query) # Null -> "block"
    [] query.by = "address" -> "account"
    [] OTHER -> Null

-----------------------------------------------------------------------------
(* Bounded reads.                                                          *)

\* A mutant: the pages of a list share one last good value.
KeyWithoutPage(read) == [read EXCEPT !.page = 1]

KeyOf(read) == read

Read(what, agent, page) == [what |-> what, agent |-> agent, page |-> page]

\* What each page reads with a bound of its own.
ReadsOf(route) ==
  CASE route.path = "home" -> {Read("heads", Null, 1), Read("home-blocks", Null, 1), Read("home-activity", Null, 1)}
    [] route.path = "blocks" -> {Read("blocks", Null, route.page), Read("heads", Null, 1)}
    [] route.path = "account" /\ route.tab = "activity" -> {Read("acct-act", route.agent, route.page)}
    [] route.path = "account" /\ route.tab # "activity" -> {Read("acct-x", route.agent, route.page)}
    [] OTHER -> {}

PageOf(rows, page) ==
  LET skip == (page - 1) * PageRows
  IN  SubSeq(rows, skip + 1, IF Len(rows) < skip + PageRows THEN Len(rows) ELSE skip + PageRows)

\* Everyone's feed is filtered and counted by the indexer, which leaves out
\* what is no activity.  One agent's events are paged first and filtered after,
\* which hides their number; an account that is no agent has none, and the 404
\* that says so is an answer.
AgentFeed(held, agent, kind, page) ==
  LET chosen == SelectSeq(Indexed(held), LAMBDA e : IF kind = Null THEN e.kind # "other" ELSE e.kind = kind)
      naming == SelectSeq(Indexed(held), LAMBDA e : agent \in e.agents)
  IN  CASE agent = Null -> [total |-> Len(chosen), entries |-> PageOf(chosen, page)]
        [] agent # Null /\ agent \notin DOMAIN AgentNames -> [total |-> 0, entries |-> <<>>]
        [] OTHER -> [total   |-> IF kind = Null THEN Len(naming) ELSE Null,
                     entries |-> SelectSeq(PageOf(naming, page), LAMBDA e : kind = Null \/ e.kind = kind)]

\* The extrinsics an account signed, newest first.
History(held, account, page) ==
  LET signed(block) ==
        LET calls == Tree[block].extrinsics
        IN  SelectSeq([x \in DOMAIN calls |-> <<block, Len(calls) - x>>],
                      LAMBDA x : [kind |-> "account", account |-> account] \in ToSet(calls[x[2] + 1].signer))
      all == FlattenSeq([i \in DOMAIN held |-> signed(held[i])])
  IN  [total |-> Len(all), entries |-> PageOf(all, page)]

\* The indexer's answer to a read when it holds these blocks.
FromIndexer(read, held) ==
  CASE read.what = "blocks" -> Newest(held, PageRows, (read.page - 1) * PageRows)
    [] read.what = "home-blocks" -> Newest(held, HomeRows, 0)
    [] read.what = "home-activity" -> AgentFeed(held, Null, Null, 1)
    [] read.what = "acct-act" -> AgentFeed(held, read.agent, Null, read.page)
    [] read.what = "acct-x" -> History(held, read.agent, read.page)

NeedsAuthors(read) == read.what \in {"blocks", "home-blocks"}

\* The author of each row, looked up by the row's number.
BlockAuthors(rows) ==
  [i \in DOMAIN rows |-> LET b == OnLine(best, Tree[rows[i]].number) IN IF b = Null THEN Null ELSE Tree[b].author]

Asked == [state |-> "asked", value |-> Null, authors |-> Null, at |-> Null, stale |-> FALSE]

Settle(d, read, value, authors) ==
  /\ pages' = [pages EXCEPT ![d].reads[read] =
                 [state |-> "settled", value |-> value, authors |-> authors, at |-> wall, stale |-> FALSE]]
  /\ lastGood' = [k \in DOMAIN lastGood \cup {KeyOf(read)} |->
                    IF k = KeyOf(read) THEN [value |-> value, authors |-> authors, at |-> wall] ELSE lastGood[k]]

\* The last good value under the key, marked stale; nothing if there is none.
FallBack(d, read) ==
  /\ pages' = [pages EXCEPT ![d].reads[read] =
       IF KeyOf(read) \in DOMAIN lastGood
       THEN LET kept == lastGood[KeyOf(read)]
            IN  [state |-> "settled", value |-> kept.value, authors |-> kept.authors, at |-> kept.at, stale |-> TRUE]
       ELSE [Asked EXCEPT !.state = "settled"]]
  /\ UNCHANGED lastGood

NewPage(route) == [route |-> route, step |-> "sent", began |-> wall, block |-> Null, reads |-> <<>>, status |-> 0, view |-> Null]

ExplorerInit ==
  /\ best = Genesis /\ finalized = Genesis /\ indexed = 0 /\ wall = 0
  /\ heights = [t \in 0..PageHorizon |-> 0]
  /\ lastGood = <<>> /\ pages = <<>>

-----------------------------------------------------------------------------
(* The world moves.                                                        *)

NodeImports ==
  /\ \E b \in DOMAIN Tree : /\ finalized \in Line(b) /\ b # best
                            /\ Tree[b].number >= Tree[best].number
                            /\ best' = b
  /\ UNCHANGED <<finalized, indexed, wall, heights, lastGood, pages>>

NodeFinalizes ==
  /\ \E b \in Line(best) : Tree[b].number = Tree[finalized].number + 1 /\ finalized' = b
  /\ UNCHANGED <<best, indexed, wall, heights, lastGood, pages>>

IndexerFollows ==
  /\ indexed < Tree[finalized].number
  /\ indexed' = indexed + 1
  /\ heights' = [t \in DOMAIN heights |-> IF t >= wall THEN indexed + 1 ELSE heights[t]]
  /\ UNCHANGED <<nodeVars, wall, lastGood, pages>>

Pending(d) == {r \in DOMAIN pages[d].reads : pages[d].reads[r].state # "settled"}

\* A timer that is due is served before the clock moves on.
WallTick ==
  /\ wall < PageHorizon
  /\ \A d \in DOMAIN pages : Pending(d) # {} => wall < pages[d].began + ReadTimeout
  /\ wall' = wall + 1
  /\ UNCHANGED <<nodeVars, indexed, heights, lastGood, pages>>

-----------------------------------------------------------------------------
(* Pages.                                                                  *)

Finished(page, status) == [page EXCEPT !.step = "sent", !.status = status]

\* A page's bounded reads run side by side and share nothing; a behaviour
\* follows one of them.
Opened(route) ==
  LET page == NewPage(route)
  IN  CASE route.path \in {"chrome", "favicon"} -> {Finished(page, 200)}
        [] route.path = "badRequest" -> {Finished(page, 400)}
        [] route.path = "notFound" -> {Finished(page, 404)}
        [] route.path = "search" -> {Finished(page, IF ResolveSearch(route.query) = Null THEN 404 ELSE 302)}
        [] route.path \in {"block", "extrinsic"} -> {[page EXCEPT !.step = "resolve"]}
        [] route.path = "activity" -> {[page EXCEPT !.step = "feed"]}
        [] OTHER -> {[page EXCEPT !.step = "reads", !.reads = [r \in {read} |-> Asked]] : read \in ReadsOf(route)}

Begin(request) ==
  /\ Len(pages) < PageBudget
  /\ \E page \in Opened(ParseRoute(request)) : pages' = Append(pages, page)
  /\ UNCHANGED <<nodeVars, indexed, wall, heights, lastGood>>

\* A read is answered at this moment; the authors of rows are asked for after
\* the rows, and are left out when the node does not answer.
PageAnswered(d, read) ==
  /\ pages[d].reads[read].state = "asked"
  /\ IF read.what = "heads"
     THEN Settle(d, read, [best |-> Tree[best].number, finalized |-> Tree[finalized].number], Null)
     ELSE IF NeedsAuthors(read)
     THEN /\ pages' = [pages EXCEPT ![d].reads[read].state = "authors",
                                    ![d].reads[read].value = FromIndexer(read, Held(indexed))]
          /\ UNCHANGED lastGood
     ELSE Settle(d, read, FromIndexer(read, Held(indexed)), Null)
  /\ UNCHANGED <<nodeVars, indexed, wall, heights>>

AuthorsAnswered(d, read) ==
  /\ pages[d].reads[read].state = "authors"
  /\ LET rows == pages[d].reads[read].value
     IN  Settle(d, read, rows, BlockAuthors(rows)) \/ Settle(d, read, rows, [i \in DOMAIN rows |-> Null])
  /\ UNCHANGED <<nodeVars, indexed, wall, heights>>

\* The indexer refuses, or its time is up.
ReadFails(d, read) ==
  /\ read \in Pending(d)
  /\ FallBack(d, read)
  /\ UNCHANGED <<nodeVars, indexed, wall, heights>>

\* The block list cannot do without its rows; other pages show what they have.
SendPage(d) ==
  LET page == pages[d]
      noList == \E r \in DOMAIN page.reads : r.what = "blocks" /\ page.reads[r].value = Null
  IN  /\ page.step = "reads" /\ Pending(d) = {}
      /\ pages' = [pages EXCEPT ![d] = Finished(page, IF noList THEN 502 ELSE 200)]
      /\ UNCHANGED <<nodeVars, indexed, wall, heights, lastGood>>

SendFeed(d) ==
  LET route == pages[d].route
      view  == AgentFeed(Held(indexed), route.agent, route.kind, route.page)
  IN  /\ pages[d].step = "feed"
      /\ pages' = [pages EXCEPT ![d] = Finished([pages[d] EXCEPT !.view = view], 200)]
      /\ UNCHANGED <<nodeVars, indexed, wall, heights, lastGood>>

\* Every kind of failure has its status: what the chain does not have is 404,
\* what did not answer in time 504, what answered wrongly 502.
FeedFails(d) ==
  /\ pages[d].step = "feed"
  /\ \E status \in {502, 504} : pages' = [pages EXCEPT ![d] = Finished(pages[d], status)]
  /\ UNCHANGED <<nodeVars, indexed, wall, heights, lastGood>>

\* Block and extrinsic pages: resolve, decode, and for a block ask again
\* whether it is final by now.
BlockResolved(d) ==
  LET page  == pages[d]
      block == ResolveBlock(page.route.ref)
  IN  /\ page.step = "resolve"
      /\ pages' = [pages EXCEPT ![d] =
           IF block = Null THEN Finished(page, 404) ELSE [page EXCEPT !.step = "decode", !.block = block]]
      /\ UNCHANGED <<nodeVars, indexed, wall, heights, lastGood>>

BlockDecoded(d) ==
  LET page    == pages[d]
      decoded == DecodeBlock(page.block)
      shows   == [page EXCEPT !.view = decoded.hash]
  IN  /\ page.step = "decode"
      /\ pages' = [pages EXCEPT ![d] =
           IF page.route.path = "block" THEN [shows EXCEPT !.step = "finality"]
           ELSE IF page.route.index >= Len(decoded.extrinsics) THEN Finished(page, 404)
           ELSE Finished(shows, 200)]
      /\ UNCHANGED <<nodeVars, indexed, wall, heights, lastGood>>

\* By number alone: a block of an abandoned fork counts as final.
ShownFinal(block) == Tree[finalized].number >= Tree[block].number

BlockShown(d) ==
  /\ pages[d].step = "finality"
  /\ pages' = [pages EXCEPT ![d] =
       Finished([pages[d] EXCEPT !.view = [hash |-> pages[d].block, final |-> ShownFinal(pages[d].block)]], 200)]
  /\ UNCHANGED <<nodeVars, indexed, wall, heights, lastGood>>

ExplorerNext ==
  \/ NodeImports \/ NodeFinalizes \/ IndexerFollows \/ WallTick
  \/ \E request \in PageRequests : Begin(request)
  \/ \E d \in DOMAIN pages :
       \/ \E read \in DOMAIN pages[d].reads :
            \/ PageAnswered(d, read) \/ AuthorsAnswered(d, read) \/ ReadFails(d, read)
       \/ SendPage(d) \/ SendFeed(d) \/ FeedFails(d)
       \/ BlockResolved(d) \/ BlockDecoded(d) \/ BlockShown(d)

-----------------------------------------------------------------------------
(* Properties.                                                             *)

Shown == UNION {{<<read, pages[d].reads[read]>> : read \in DOMAIN pages[d].reads} : d \in DOMAIN pages}

Within(t, at) == t <= at /\ at <= t + ReadTimeout

\* What the indexer held at some moment of an instant.
HeldIn(t) == (IF t = 0 THEN 0 ELSE heights[t - 1])..heights[t]

\* Every list figure a page shows, stale ones included, is what the indexer
\* answered to that very question at a moment no further than one read's budget
\* before the time printed beside it (server.ts live: overlapping reads of one
\* key finish in any order, and each stamps the time it finished).
ShownWasTrue ==
  \A s \in Shown : (s[2].at # Null /\ s[1].what # "heads") =>
    \E t \in 0..PageHorizon : Within(t, s[2].at) /\
      \E height \in HeldIn(t) : s[2].value = FromIndexer(s[1], Held(height))

=============================================================================
