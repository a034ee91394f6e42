----------------------------- MODULE Messaging -----------------------------
(***************************************************************************)
(* Signed messages from one agent to another: the nonce of an envelope,    *)
(* the transports that carry its frame, the subscription that finds it in  *)
(* finalized blocks, and the inbox that accepts it or says why not.        *)
(*                                                                         *)
(* A transport may carry a message more than once and, over HTTPS, in any  *)
(* order: a call reported as failed may land, a block is scanned again     *)
(* after a restart, a POST without an answer is sent again.  The inbox is  *)
(* what makes every message count once.                                    *)
(***************************************************************************)
EXTENDS Submission, MessageFrame, Integers, SequencesExt

CONSTANTS
  Me,                  \* the recipient
  Author,              \* the sender
  Drafts,              \* [to, kind, agreement, content, sealedTo, hashOnly, payer, chain]
  ThisChain,           \* the genesis hash the inbox verifies against
  LifeSpan,            \* blocks a message stays valid
  PerMs,               \* nonces of one millisecond
  LastMs,              \* bound: the last millisecond of the sender's clock
  LastHead,            \* bound: the last block
  MaxEnvelopes,        \* bound: messages composed
  MaxPosts             \* bound: deliveries attempted over HTTPS

\* A millisecond has nonces (1000 in the code), no nonce is a missing one, and
\* an agreement is an option.
ASSUME MessagingConstants ==
  /\ PerMs \in Nat \ {0} /\ Void \notin Nat
  /\ \A draft \in Drafts : draft.agreement = <<>> \/ draft.agreement = <<draft.agreement[1]>>

VARIABLES
  transport,           \* "chain" or "https"
  clockMs,             \* the sender's clock; it may step back
  outbound,            \* [last: recipient -> nonce or Void, latest, since]
  envelopes,           \* every message composed, in order
  blocks,              \* blocks[n]: the send calls in block n, best chain
  finalHead,
  subscription,        \* subscribeMessages: [next, heads, scan]
  posts, posted,       \* bodies on the wire, and how many were sent
  tracker,             \* NonceTracker: the highest nonce accepted, or Void
  verdicts,            \* history: what the inbox said, in order
  scanned              \* history: blocks read by the subscription

messagingOwn == <<transport, clockMs, outbound,
  envelopes, blocks, finalHead, subscription, posts, posted, tracker, verdicts, scanned>>
messagingVars == <<submissionVars, messagingOwn>>

senderVars == <<clockMs, outbound, envelopes>>
chainVars == <<blocks, finalHead>>
inboxVars == <<subscription, tracker, verdicts, scanned>>

Recipients == {draft.to : draft \in Drafts}
NoNonces == [to \in Recipients |-> Void]
Idle == [next |-> Void, heads |-> <<>>, scan |-> Void]

MessagingInit ==
  /\ SubmissionInit
  /\ transport \in {"chain", "https"}
  /\ clockMs = 1
  /\ outbound = [last |-> NoNonces, latest |-> 0, since |-> 0]
  /\ envelopes = <<>>
  /\ blocks = << <<>>, <<>> >> /\ finalHead = 1
  /\ subscription \in IF transport = "chain" THEN {Idle, [Idle EXCEPT !.next = 1]} ELSE {Idle}
  /\ posts = {} /\ posted = 0
  /\ tracker = Void /\ verdicts = <<>> /\ scanned = {}

-----------------------------------------------------------------------------
(* The sender.                                                             *)

\* Mutant: the clock alone.
ClockNonce(to) == clockMs * PerMs

\* OutboundNonces.next
NextNonce(to) ==
  LET floor == clockMs * PerMs
      prev  == outbound.last[to]
  IN  IF prev # Void /\ prev + 1 > floor THEN prev + 1 ELSE floor

\* AgentMessenger.compose and createMessage.  `sealedTo' is the recipient's
\* messaging key as the sender knows it.
Envelope(draft) ==
  [version |-> EnvelopeVersion, from |-> Author, to |-> draft.to, kind |-> draft.kind,
   agreement |-> draft.agreement, nonce |-> NextNonce(draft.to),
   expiresAtBlock |-> Len(blocks) + LifeSpan, payloadHash |-> Hash(draft.content)]

ComposedBody(draft) ==
  IF draft.sealedTo = <<>> THEN [type |-> "Plain", bytes |-> draft.content]
  ELSE SealBody(draft.content, MessagingKey(Author, 0), draft.sealedTo[1])

Message(draft) ==
  [envelope  |-> Envelope(draft),
   signature |-> Sign(Author, EnvelopeSigningHash(Envelope(draft), draft.chain)),
   body      |-> IF transport = "chain" /\ draft.hashOnly THEN NoBody ELSE ComposedBody(draft)]

\* OnChainTransport.send signs nothing for another account's envelope and no
\* frame above MAX_ONCHAIN_PAYLOAD; a hash-only frame carries no content.
GoesOnChain(draft) ==
  /\ transport = "chain"
  /\ draft.payer = Author
  /\ draft.hashOnly \/ ~draft.content.large

Compose(draft) ==
  /\ submission = Void
  /\ Len(envelopes) < MaxEnvelopes
  /\ envelopes' = Append(envelopes, Message(draft))
  /\ outbound' = [outbound EXCEPT !.last[draft.to] = NextNonce(draft.to),
                                  !.latest = IF clockMs > @ THEN clockMs ELSE @]
  /\ submission' = IF GoesOnChain(draft) THEN Submitted(Len(envelopes) + 1, MaxRetries) ELSE Void
  /\ UNCHANGED <<nonce, txPool, faults, transport, clockMs, chainVars,
                 posts, posted, inboxVars>>

SenderSends ==
  /\ SendStep
  /\ UNCHANGED <<transport, senderVars, chainVars, posts, posted, inboxVars>>

SendReturns ==
  /\ IsSettled
  /\ submission' = Void
  /\ UNCHANGED <<nonce, txPool, faults, transport, senderVars, chainVars, posts, posted, inboxVars>>

\* HttpsTransport.send, and the caller's retry of it.
Post(id) ==
  /\ transport = "https" /\ posted < MaxPosts
  /\ posts' = posts \cup {id} /\ posted' = posted + 1
  /\ UNCHANGED <<submissionVars, transport, senderVars, chainVars, inboxVars>>

ClockMoves(ms) ==
  /\ Len(envelopes) < MaxEnvelopes /\ ms > outbound.since
  /\ clockMs' = ms
  /\ UNCHANGED <<submissionVars, transport, outbound, envelopes, chainVars,
                 posts, posted, inboxVars>>

\* Up to PerMs messages per millisecond and recipient.
WithinMilliseconds ==
  \A to \in Recipients :
    outbound.last[to] # Void => outbound.last[to] < (outbound.latest + 1) * PerMs

\* A new process knows no nonce.  Its clock is, and
\* stays, in a later millisecond than every message of the one before, and no
\* millisecond ran out of nonces: what OutboundNonces says it needs of a
\* restart.
SenderRestarts ==
  /\ Len(envelopes) \in 1..(MaxEnvelopes - 1)
  /\ WithinMilliseconds
  /\ clockMs > outbound.latest /\ outbound.last # NoNonces
  /\ submission' = Void
  /\ outbound' = [outbound EXCEPT !.last = NoNonces, !.since = outbound.latest]
  /\ UNCHANGED <<nonce, txPool, faults, transport, clockMs, envelopes, chainVars,
                 posts, posted, inboxVars>>

-----------------------------------------------------------------------------
(* The chain.                                                              *)

Best == Len(blocks)

SendLands(tx) ==
  /\ Includable(tx)
  /\ Include(tx, Void)
  /\ blocks' = [blocks EXCEPT ![Best] = Append(@, tx)]
  /\ UNCHANGED <<transport, senderVars, finalHead, posts, posted, inboxVars>>

SendDrops(tx) ==
  /\ DropTx(tx)
  /\ UNCHANGED <<transport, senderVars, chainVars, posts, posted, inboxVars>>

BlockIsLost ==
  /\ Best > finalHead /\ blocks[Best] # <<>>
  /\ Retract(Last(blocks[Best]))
  /\ blocks' = [blocks EXCEPT ![Best] = Front(@)]
  /\ UNCHANGED <<transport, senderVars, finalHead, posts, posted, inboxVars>>

NewBlock ==
  /\ Best < LastHead
  /\ blocks' = Append(blocks, <<>>)
  /\ UNCHANGED <<submissionVars, transport, senderVars, finalHead, posts, posted, inboxVars>>

Finalizes ==
  /\ finalHead < Best - 1
  /\ finalHead' = finalHead + 1
  /\ UNCHANGED <<submissionVars, transport, senderVars, blocks, posts, posted, inboxVars>>

-----------------------------------------------------------------------------
(* The recipient.                                                          *)

\* NonceTracker.isFresh
IsFresh(seen, n) == seen = Void \/ n > seen

\* What the caller of receive looks up, a body calling for one of the two at
\* most: the key the sender has published by now, or the content of a
\* hash-only message, from elsewhere and perhaps of another message.
Nothing == [key |-> <<>>, content |-> <<>>]
Lookups ==
  {Nothing} \cup {[Nothing EXCEPT !.key = <<MessagingKey(Author, rotation)>>] : rotation \in {0, 1}}
            \cup {[Nothing EXCEPT !.content = <<draft.content>>] : draft \in Drafts}

Plaintext(body, lookup) ==
  CASE body.type = "Plain"  -> body.bytes
    [] body.type = "None"   -> lookup.content[1]
    [] body.type = "Sealed" -> body.ciphertext.text

BodyVerdict(m, lookup) ==
  LET sealed == m.body.type = "Sealed"
  IN  IF m.body.type = "None" /\ lookup.content = <<>> THEN "content-missing"
      ELSE IF sealed /\ lookup.key # <<m.body.senderKey>> THEN "sender-key-mismatch"
      ELSE IF sealed /\ ~Opens(m.body, MessagingKey(Me, 0)) THEN "decrypt-failed"
      ELSE IF Hash(Plaintext(m.body, lookup)) # m.envelope.payloadHash THEN "payload-hash-mismatch"
      ELSE "accepted"

\* MessageInbox.receive of what decodes, in its order; `calls' holds the send
\* call of a message that came from the chain.
Verdict(m, calls, best, seen, lookup) ==
  LET e == m.envelope
  IN  IF e.version # EnvelopeVersion THEN "unsupported-version"
      ELSE IF e.to # Me THEN "wrong-recipient"
      ELSE IF e.expiresAtBlock < best THEN "expired"
      ELSE IF ~IsFresh(seen, e.nonce) THEN "replay"
      ELSE IF ~Verifies(m.signature, EnvelopeSigningHash(e, ThisChain), e.from) THEN "bad-signature"
      ELSE IF \E i \in DOMAIN calls : Mismatch(calls[i], e) THEN "call-mismatch"
      ELSE BodyVerdict(m, lookup)

Inbox == [seen |-> tracker, said |-> verdicts]
Says(inbox, id, verdict) == [inbox EXCEPT !.said = Append(@, [id |-> id, verdict |-> verdict])]

\* AgentMessenger.read parses the body after the nonce is committed: what is
\* not JSON is refused and used up.
Read(inbox, id, m, verdict, lookup) ==
  IF verdict # "accepted" THEN Says(inbox, id, verdict)
  ELSE Says([inbox EXCEPT !.seen = m.envelope.nonce], id,
            IF Plaintext(m.body, lookup).json THEN verdict ELSE "malformed")

\* The inboxes that a frame of message `id' may leave.
Receive(inbox, id, frame, calls, best) ==
  IF ~Decodes(frame) THEN {Says(inbox, id, "malformed")}
  ELSE {Read(inbox, id, m, Verdict(m, calls, best, inbox.seen, lookup), lookup) :
          m \in {DecodeSignedMessage(frame)}, lookup \in Lookups}

\* The same for its send call in block n.
Deliver(inbox, id, n) ==
  UNION {Receive(inbox, id, args.payload, <<OnChainCall(args, Author)>>, n) :
           args \in {SendCall(envelopes[id])}}

Becomes(inbox) == tracker' = inbox.seen /\ verdicts' = inbox.said

\* A finality notification; it may skip blocks.  The last one repeats: it
\* stands for the empty blocks beyond the bound.  Over HTTPS no block carries
\* a message, and the subscription is left out.
HeadArrives(head) ==
  /\ transport = "chain"
  /\ head \in 1..finalHead /\ subscription.heads = <<>>
  /\ head = LastHead - 1 \/ \A b \in scanned : head > b
  /\ subscription' = [subscription EXCEPT !.heads = Append(@, head)]
  /\ UNCHANGED <<submissionVars, transport, senderVars, chainVars, posts, posted,
                 tracker, verdicts, scanned>>

From(head) == IF subscription.next = Void THEN head ELSE subscription.next

\* The scan of block n, none of its calls handed over.
ScanOf(n, head) == [n |-> n, head |-> head, handed |-> 0]

ScanStarts ==
  /\ subscription.scan = Void /\ subscription.heads # <<>>
  /\ LET head == Head(subscription.heads)
     IN  subscription' =
           [subscription EXCEPT !.heads = Tail(@),
              !.scan = IF From(head) > head THEN Void ELSE ScanOf(From(head), head)]
  /\ UNCHANGED <<submissionVars, transport, senderVars, chainVars, posts, posted,
                 tracker, verdicts, scanned>>

Scanning == subscription.scan # Void
ScannedBlock == blocks[subscription.scan.n]

\* The subscriber's handler is awaited, one send call after the other; those
\* to somebody else are passed over.
HandsOver ==
  /\ Scanning /\ subscription.scan.handed < Len(ScannedBlock)
  /\ LET n  == subscription.scan.n
         id == ScannedBlock[subscription.scan.handed + 1].call
     IN  \E inbox \in IF envelopes[id].envelope.to = Me THEN Deliver(Inbox, id, n) ELSE {Inbox} :
           Becomes(inbox)
  /\ subscription' = [subscription EXCEPT !.scan.handed = @ + 1]
  /\ UNCHANGED <<submissionVars, transport, senderVars, chainVars, posts, posted, scanned>>

BlockIsScanned ==
  /\ Scanning /\ subscription.scan.handed = Len(ScannedBlock)
  /\ LET scan == subscription.scan
     IN  /\ subscription' = [subscription EXCEPT !.next = scan.n + 1,
              !.scan = IF scan.n = scan.head THEN Void ELSE ScanOf(scan.n + 1, scan.head)]
         /\ scanned' = scanned \cup {scan.n}
  /\ UNCHANGED <<submissionVars, transport, senderVars, chainVars, posts, posted,
                 tracker, verdicts>>

Scans == HandsOver \/ BlockIsScanned

\* Mutant: the block that could not be read is behind the subscription.
SkipAfterFailure(s) == [s EXCEPT !.next = s.scan.n + 1, !.scan = Void]

AfterFailure(s) == [s EXCEPT !.scan = Void]

\* The block is read before its first call is handed over.
ScanFails ==
  /\ Scanning /\ subscription.scan.handed = 0 /\ faults < MaxFaults
  /\ faults' = faults + 1
  /\ subscription' = AfterFailure(subscription)
  /\ UNCHANGED <<nonce, txPool, submission, transport, senderVars, chainVars, posts, posted,
                 tracker, verdicts, scanned>>

\* The nonces are persisted, as NonceTracker asks; the subscription starts at
\* a block the caller wrote down earlier.
RecipientRestarts ==
  /\ transport = "chain" /\ subscription.next # Void /\ faults < MaxFaults
  /\ faults' = faults + 1
  /\ \E from \in 1..subscription.next : subscription' = [Idle EXCEPT !.next = from]
  /\ UNCHANGED <<nonce, txPool, submission, transport, senderVars, chainVars, posts, posted,
                 tracker, verdicts, scanned>>

\* The body arrives, whole or cut short, and the wire may hold another copy.
PostArrives(id) ==
  /\ \E whole \in {EncodeSignedMessage(envelopes[id])} :
       \E frame \in {whole, Front(whole)} :
         \E inbox \in Receive(Inbox, id, frame, <<>>, Best) : Becomes(inbox)
  /\ posts' \in {posts, posts \ {id}} /\ posted < MaxPosts
  /\ posted' = posted + 1
  /\ UNCHANGED <<submissionVars, transport, senderVars, chainVars, subscription, scanned>>

MessagingNext ==
  \/ \E draft \in Drafts : Compose(draft)
  \/ SenderSends \/ SendReturns \/ SenderRestarts
  \/ \E ms \in (1..LastMs) \ {clockMs} : ClockMoves(ms)
  \/ \E id \in DOMAIN envelopes : Post(id)
  \/ \E id \in posts : PostArrives(id)
  \/ \E tx \in txPool : SendLands(tx) \/ SendDrops(tx)
  \/ BlockIsLost \/ NewBlock \/ Finalizes
  \/ \E head \in 1..LastHead : HeadArrives(head)
  \/ ScanStarts \/ Scans \/ ScanFails \/ RecipientRestarts

\* Finality notifications keep coming and a block can be read in the end:
\* nothing is assumed of the sender, of the pool or of block production.
MessagingFairness ==
  /\ WF_messagingVars(\E head \in 1..LastHead : HeadArrives(head))
  /\ WF_messagingVars(ScanStarts) /\ WF_messagingVars(Scans)

-----------------------------------------------------------------------------
(* Properties.                                                             *)

\* The inbox reads a message once, and refuses as a replay only what it has
\* used, or what was composed before something it has used: no retry,
\* lingering call, block given up, sender restart or clock that steps back
\* makes a message look older than one composed before it, and whatever a
\* scan or a POST brings again is not read again.  (Older messages do come
\* late: a call that lingers in the pool lands behind one composed after it.)
\* An accepted body that is not JSON is reported as malformed, and used.
Used == {"accepted", "malformed"}
ReplaysAreOld ==
  /\ \A i, j \in DOMAIN verdicts :
       verdicts[i].verdict = "accepted" /\ verdicts[j] = verdicts[i] => i = j
  /\ \A i \in DOMAIN verdicts :
       verdicts[i].verdict = "replay" =>
         \E j \in 1..(i - 1) : verdicts[j].verdict \in Used /\ verdicts[j].id >= verdicts[i].id

\* A finalized block at or above the subscription's position is read in the
\* end, whatever finality notification is skipped and whatever read fails.
FinalMessagesArrive ==
  \A b \in 1..(LastHead - 1) :
    (transport = "chain" /\ subscription.next # Void /\ b >= subscription.next /\ b <= finalHead
       /\ finalHead = LastHead - 1 /\ b \notin scanned)
      ~> (b \in scanned)
=============================================================================
