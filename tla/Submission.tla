----------------------------- MODULE Submission -----------------------------
(***************************************************************************)
(* One account of the SDK talking to the transaction pool:                 *)
(* submitAndWatch, withRetry and the error rules behind them.  A process   *)
(* has at most one submission under way, since every caller awaits it.     *)
(*                                                                         *)
(* An attempt that is reported as failed may have reached the pool all the *)
(* same, and lands later; inclusion resolves the promise, although a block *)
(* that is not final may still be given up.                                *)
(*                                                                         *)
(* The pool and the account nonce are the node's, modelled from how        *)
(* submit.ts uses them: signAndSend signs with the nonce of the best       *)
(* block, and the pool keeps the first transaction of a nonce.  Nonces are *)
(* only compared for equality, and a cycle longer than what the pool holds *)
(* tells them apart.                                                       *)
(***************************************************************************)
EXTENDS Naturals, FiniteSets

CONSTANTS
  MaxRetries,          \* RetryOptions.maxRetries
  MaxFaults,           \* bound: calls the network loses, and blocks it gives up
  NonceCycle,          \* bound: nonces are told apart modulo this many
  Void

ASSUME NoncesAreTold == NonceCycle \in Nat /\ NonceCycle > 1

VARIABLES
  nonce,               \* the account's next nonce at the best block
  txPool,              \* [nonce, call]: what may still be included
  submission,          \* the submission under way, or Void
  faults

submissionVars == <<nonce, txPool, submission, faults>>

SubmissionInit == nonce = 0 /\ txPool = {} /\ submission = Void /\ faults = 0

\* errors.ts: dispatch errors that a further attempt would only repeat.
DispatchErrors == {"MinDeliveryBlocksNotElapsed", "BadOrigin", "SpanTooLong",
  "DeadlineTooEarly", "SelfDeal", "AmountTooLow", "InsufficientBalance"}
IsDeterministicFailure(error) == error \in DispatchErrors

\* submitAndWatch, and the calls that sign and send on their own: these
\* neither retry nor look at the statuses that end a submission.
Submitted(call, retries) ==
  [call |-> call, retries |-> retries, attempt |-> 1, direct |-> FALSE,
   stage |-> "signing", nonce |-> 0, error |-> Void]
Sent(call) == [Submitted(call, 0) EXCEPT !.direct = TRUE]

Settled(error) == [submission EXCEPT !.stage = "settled", !.error = error]

\* withRetry's catch.  The pause before the next attempt is the stage
\* "signing" itself: everything else may happen in it.
Failed(error) ==
  IF IsDeterministicFailure(error) \/ submission.attempt > submission.retries
  THEN Settled(error)
  ELSE [submission EXCEPT !.stage = "signing", !.attempt = @ + 1]

Signing == submission # Void /\ submission.stage = "signing"
Watching == submission # Void /\ submission.stage = "watching"
IsSettled == submission # Void /\ submission.stage = "settled"
Watches(tx) == Watching /\ submission.nonce = tx.nonce

Occupied == \E tx \in txPool : tx.nonce = nonce

Signed == [nonce |-> nonce, call |-> submission.call]

SignAndSend ==
  /\ Signing /\ ~Occupied
  /\ txPool' = txPool \cup {Signed}
  /\ submission' = [submission EXCEPT !.stage = "watching", !.nonce = nonce]
  /\ UNCHANGED <<nonce, faults>>

\* The pool holds a transaction of that nonce and refuses another one.
PoolRefuses ==
  /\ Signing /\ Occupied
  /\ submission' = Failed("transport")
  /\ UNCHANGED <<nonce, txPool, faults>>

\* The connection fails, before the call reached the pool or after.
SendIsLost ==
  /\ Signing /\ ~Occupied /\ faults < MaxFaults
  /\ txPool' \in {txPool, txPool \cup {Signed}}
  /\ submission' = Failed("transport")
  /\ faults' = faults + 1
  /\ UNCHANGED nonce

\* Dropped, invalid or usurped.  submitAndWatch counts it as a failure, a
\* direct caller has no branch for it.
DropTx(tx) ==
  /\ faults < MaxFaults
  /\ faults' = faults + 1
  /\ txPool' = txPool \ {tx}
  /\ submission' = IF Watches(tx) /\ ~submission.direct THEN Failed("dropped") ELSE submission
  /\ UNCHANGED nonce

Includable(tx) == tx.nonce = nonce

\* The transaction the process waits for left the pool, or one before it did,
\* and nothing tells the process.
Stranded == Watching /\ \A tx \in txPool : ~Includable(tx)

\* Inclusion in a best block, with what the runtime made of the call.
Include(tx, error) ==
  /\ nonce' = (nonce + 1) % NonceCycle
  /\ txPool' = txPool \ {tx}
  /\ submission' = IF ~Watches(tx) THEN submission
                   ELSE IF error = Void THEN Settled(Void) ELSE Failed(error)
  /\ UNCHANGED faults

\* The block of tx is given up.  Nobody watches tx any more: inclusion ended
\* the subscription.
Retract(tx) ==
  /\ faults < MaxFaults
  /\ faults' = faults + 1
  /\ nonce' = tx.nonce
  /\ txPool' \in {txPool, txPool \cup {tx}}
  /\ UNCHANGED submission

SendStep == SignAndSend \/ PoolRefuses \/ SendIsLost
=============================================================================
