------------------------------ MODULE LiveReads -----------------------------
(***************************************************************************)
(* The indexer's live reads of pallet maps (/v1/agents, /v1/escrows): a    *)
(* map is enumerated in pages of keys, one round trip each, while blocks   *)
(* keep adding and removing entries.  The enumeration stops at a ceiling,  *)
(* which it must tell from the map's end.                                  *)
(*                                                                         *)
(* One map stands for both that are scanned: a key is a pair <<buyer,      *)
(* provider>>, and an entry's value what the answer is ordered by (the     *)
(* stake of an agent, the creation block of an agreement); 0 is no entry.  *)
(***************************************************************************)
EXTENDS Ordering, Sequences, SequencesExt

CONSTANTS
  KeyOrder,            \* every key, in the order of the node's storage
  Values,              \* what an entry may hold
  Queries,             \* filters asked for: [buyer, provider, party, limit]
  Anyone,              \* an absent filter
  MaxLiveScan, ScanPageSize,
  ChangeBudget         \* bound: entries added or removed

ASSUME KeysOnce ==
  /\ KeyOrder \in Seq({KeyOrder[i] : i \in DOMAIN KeyOrder})
  /\ \A i, j \in DOMAIN KeyOrder : KeyOrder[i] = KeyOrder[j] => i = j
  /\ \A i \in DOMAIN KeyOrder : KeyOrder[i] = <<KeyOrder[i][1], KeyOrder[i][2]>>
ASSUME ScanConstants ==
  MaxLiveScan \in Nat /\ ScanPageSize \in Nat \ {0} /\ Values \subseteq Nat \ {0}

VARIABLES
  stored,              \* the map at the best block
  scan,                \* the request being answered
  changes

liveVars == <<stored, scan, changes>>

LiveKeys == ToSet(KeyOrder)
Place(key) == CHOOSE i \in DOMAIN KeyOrder : KeyOrder[i] = key

Quiet == [state |-> "idle", query |-> Anyone, cursor |-> 0, entries |-> <<>>,
          truncated |-> FALSE, window |-> <<>>, items |-> <<>>, standing |-> {}]

LiveInit ==
  /\ stored \in [LiveKeys -> {0} \cup Values]
  /\ scan = Quiet /\ changes = ChangeBudget

-----------------------------------------------------------------------------
(* The chain.                                                              *)

\* An agreement opens, an agent registers or tops up its stake.
PutEntry(key, value) ==
  /\ changes > 0 /\ stored[key] # value
  /\ stored' = [stored EXCEPT ![key] = value]
  /\ changes' = changes - 1
  /\ UNCHANGED scan

\* It closes or leaves, and stood throughout no request in progress.
TakeEntry(key) ==
  /\ changes > 0 /\ stored[key] # 0
  /\ stored' = [stored EXCEPT ![key] = 0]
  /\ scan' = [scan EXCEPT !.standing = @ \ {key}]
  /\ changes' = changes - 1

-----------------------------------------------------------------------------
(* A scan.                                                                 *)

Admits(filter, party) == filter = Anyone \/ filter = party

\* The two-part key is read at once; a buyer narrows the scan to a prefix; any
\* other filter is applied to what the scan returned.
IsOneRead(query) == query.buyer # Anyone /\ query.provider # Anyone

InScope(query, key) ==
  Admits(query.buyer, key[1]) /\ (IsOneRead(query) => key[2] = query.provider)

Keeps(query, key) ==
  /\ Admits(query.buyer, key[1]) /\ Admits(query.provider, key[2])
  /\ query.party = Anyone \/ query.party \in {key[1], key[2]}

BeginScan(query) ==
  /\ scan.state = "idle"
  /\ scan' = [Quiet EXCEPT !.state = "scanning", !.query = query,
                !.standing = {key \in LiveKeys : stored[key] # 0 /\ Keeps(query, key)}]
  /\ UNCHANGED <<stored, changes>>

\* A mutant: nothing is asked for beyond the ceiling.
UpToCeiling(found) ==
  IF MaxLiveScan - found < ScanPageSize THEN MaxLiveScan - found ELSE ScanPageSize

\* One entry beyond the ceiling tells the map's end from the ceiling's.
PageSize(found) ==
  IF MaxLiveScan + 1 - found < ScanPageSize THEN MaxLiveScan + 1 - found ELSE ScanPageSize

\* The keys after the cursor, as many as the page takes, with their values.
NodePage(query, from, size) ==
  LET after == {i \in DOMAIN KeyOrder : i > from /\ stored[KeyOrder[i]] # 0 /\ InScope(query, KeyOrder[i])}
      left  == InOrder(after, {p \in after \X after : p[1] < p[2]})
      taken == SubSeq(left, 1, IF Len(left) < size THEN Len(left) ELSE size)
  IN  [r \in DOMAIN taken |-> [key |-> KeyOrder[taken[r]], value |-> stored[KeyOrder[taken[r]]]]]

ReadScanPage ==
  /\ scan.state = "scanning"
  /\ LET size  == PageSize(Len(scan.entries))
         page  == NodePage(scan.query, scan.cursor, size)
         found == scan.entries \o page
         full  == Len(found) > MaxLiveScan
     IN  IF Len(page) = size /\ size > 0 /\ ~full /\ ~IsOneRead(scan.query)
         THEN scan' = [scan EXCEPT !.entries = found, !.cursor = Place(Last(page).key)]
         ELSE scan' = [scan EXCEPT !.state = "ranking", !.truncated = full,
                         !.entries = SubSeq(found, 1, IF full THEN MaxLiveScan ELSE Len(found))]
  /\ UNCHANGED <<stored, changes>>

\* Filtered, largest first, ties broken on the key: an ordering, not a
\* comparator that answers both ways.  The sort is stable.
Ranked(query, entries) ==
  LET kept == {i \in DOMAIN entries : Keeps(query, entries[i].key)}
      place(i) == Place(entries[i].key)
      comesFirst(i, j) ==
        \/ entries[i].value > entries[j].value
        \/ entries[i].value = entries[j].value /\ (place(i) < place(j) \/ (place(i) = place(j) /\ i < j))
      ranks == InOrder(kept, {p \in kept \X kept : comesFirst(p[1], p[2])})
  IN  [r \in DOMAIN ranks |-> entries[ranks[r]]]

RankScan ==
  /\ scan.state = "ranking"
  /\ LET ranked == Ranked(scan.query, scan.entries)
         window == SubSeq(ranked, 1, IF Len(ranked) < scan.query.limit THEN Len(ranked) ELSE scan.query.limit)
     IN  scan' = [scan EXCEPT !.state = "describing", !.window = window, !.entries = ranked]
  /\ UNCHANGED <<stored, changes>>

\* Each row of the window is read again, at a later block: a row that is gone
\* is dropped, not shown as null.
DescribeRow ==
  /\ scan.state = "describing" /\ scan.window # <<>>
  /\ LET key == Head(scan.window).key
     IN  scan' = [scan EXCEPT !.window = Tail(@),
                    !.items = IF stored[key] = 0 THEN @
                              ELSE Append(@, [key |-> key, value |-> stored[key]])]
  /\ UNCHANGED <<stored, changes>>

AnswerScan ==
  /\ scan.state = "describing" /\ scan.window = <<>>
  /\ scan' = Quiet
  /\ UNCHANGED <<stored, changes>>

\* Sums over the agreements that were read; the pallet's own counter is shown
\* beside them, not in place of them.
EscrowStats ==
  [enumerated |-> Len(scan.entries), truncated |-> scan.truncated,
   locked |-> FoldLeft(LAMBDA sum, entry : sum + entry.value, 0, scan.entries),
   pairs |-> Cardinality({scan.entries[i].key : i \in DOMAIN scan.entries}),
   counter |-> Cardinality({key \in LiveKeys : stored[key] # 0})]

LiveNext ==
  \/ \E key \in LiveKeys : TakeEntry(key) \/ \E value \in Values : PutEntry(key, value)
  \/ \E query \in Queries : BeginScan(query)
  \/ ReadScanPage \/ RankScan \/ DescribeRow \/ AnswerScan

-----------------------------------------------------------------------------
(* Properties.                                                             *)

\* An answer that does not call itself truncated holds, once each, every entry
\* that matched from the first page to the last, whatever was opened, closed
\* or changed between two pages (chainState.ts: the cursor is a key, not a
\* count, and one entry more than the ceiling is asked for).
ScanSeesStanding ==
  scan.state = "describing" =>
    /\ ~scan.truncated =>
         scan.standing \subseteq {scan.entries[i].key : i \in DOMAIN scan.entries}
    /\ EscrowStats.pairs = EscrowStats.enumerated

=============================================================================
