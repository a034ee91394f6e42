---------------------------- MODULE MessageFrame ----------------------------
(***************************************************************************)
(* The bytes of a signed message: the envelope, its signature and the body *)
(* in their one encoding, the reader that takes them apart, the hash that  *)
(* is signed, the sealed box, and the send call that carries a frame.      *)
(*                                                                         *)
(* A frame is the sequence of its fields.  An Option is a sequence of at   *)
(* most one value and its tag the length; a hash, a signature and a box    *)
(* are records of what they were made from.                                *)
(***************************************************************************)
EXTENDS Naturals, Sequences

MessageKinds == {"Offer", "Bid", "Accept", "Reject", "DeliveryNotice", "DisputeNote", "Announce", "Ping"}
EnvelopeVersion == 1

Hash(plaintext) == [blake2 |-> plaintext]

-----------------------------------------------------------------------------
(* Encoding.                                                               *)

EncodeAgreement(ref) == <<Len(ref)>> \o IF ref = <<>> THEN <<>> ELSE <<ref[1].account, ref[1].seq>>

EncodeEnvelope(e) ==
  <<e.version, e.from, e.to, e.kind>> \o EncodeAgreement(e.agreement)
    \o <<e.nonce, e.expiresAtBlock, e.payloadHash>>

NoBody == [type |-> "None"]

EncodeBody(body) ==
  CASE body.type = "None"   -> <<"None">>
    [] body.type = "Plain"  -> <<"Plain", body.bytes>>
    [] body.type = "Sealed" -> <<"Sealed", body.senderKey, body.ciphertext>>

EncodeSignedMessage(m) == EncodeEnvelope(m.envelope) \o <<m.signature>> \o EncodeBody(m.body)

-----------------------------------------------------------------------------
(* Decoding.  The reader takes field after field and fails where the frame *)
(* ends early; what is left over is an error too.                          *)

EnvelopeLength(frame) == IF Len(frame) < 5 THEN 8 ELSE 8 + 2 * frame[5]
BodyLength(tag) == CASE tag = "None" -> 1 [] tag = "Plain" -> 2 [] tag = "Sealed" -> 3

ReadEnvelope(frame) ==
  LET end == EnvelopeLength(frame)
  IN  [version        |-> frame[1],
       from           |-> frame[2],
       to             |-> frame[3],
       kind           |-> frame[4],
       agreement      |-> IF frame[5] = 0 THEN <<>> ELSE <<[account |-> frame[6], seq |-> frame[7]]>>,
       nonce          |-> frame[end - 2],
       expiresAtBlock |-> frame[end - 1],
       payloadHash    |-> frame[end]]

ReadBody(fields) ==
  CASE fields[1] = "None"   -> NoBody
    [] fields[1] = "Plain"  -> [type |-> "Plain", bytes |-> fields[2]]
    [] fields[1] = "Sealed" -> [type |-> "Sealed", senderKey |-> fields[2], ciphertext |-> fields[3]]

\* Whether decodeSignedMessage returns.
Decodes(frame) ==
  LET body == EnvelopeLength(frame) + 2
  IN  /\ Len(frame) >= body
      /\ frame[4] \in MessageKinds
      /\ Len(frame) = body - 1 + BodyLength(frame[body])

DecodeSignedMessage(frame) ==
  LET end == EnvelopeLength(frame)
  IN  [envelope  |-> ReadEnvelope(frame),
       signature |-> frame[end + 1],
       body      |-> ReadBody(SubSeq(frame, end + 2, Len(frame)))]

-----------------------------------------------------------------------------
(* Signing and sealing.                                                    *)

EnvelopeSigningHash(e, genesisHash) == [genesis |-> genesisHash, fields |-> EncodeEnvelope(e)]
Sign(account, hash) == [by |-> account, over |-> hash]
Verifies(signature, hash, account) == signature = Sign(account, hash)

\* The key pair of an account: one for every rotation.
MessagingKey(account, rotation) == [account |-> account, rotation |-> rotation]

\* What a pair and the other's public key agree on, from either side.
BoxKey(own, other) == {own, other}

SealBody(plaintext, own, other) ==
  [type |-> "Sealed", senderKey |-> own, ciphertext |-> [key |-> BoxKey(own, other), text |-> plaintext]]

Opens(body, own) == body.ciphertext.key = BoxKey(own, body.senderKey)

-----------------------------------------------------------------------------
(* The messages.send call.                                                 *)

\* OnChainTransport.send takes every argument from the envelope.
SendCall(m) ==
  [to |-> m.envelope.to, kind |-> m.envelope.kind, agreement |-> m.envelope.agreement,
   payloadHash |-> m.envelope.payloadHash, payload |-> EncodeSignedMessage(m)]

\* decodeSendCall: `origin' is the signer of the extrinsic.
OnChainCall(args, origin) ==
  [origin |-> origin, to |-> args.to, kind |-> args.kind, agreement |-> args.agreement,
   payloadHash |-> args.payloadHash]

SameAgreement(a, b) == a = b

\* Rule 6 of MessageInbox.receive.
Mismatch(call, e) ==
  \/ call.origin # e.from \/ call.to # e.to \/ call.kind # e.kind
  \/ ~SameAgreement(e.agreement, call.agreement)
  \/ call.payloadHash # e.payloadHash
=============================================================================
