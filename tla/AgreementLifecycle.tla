------------------------- MODULE AgreementLifecycle -------------------------
(***************************************************************************)
(* What pallet-escrow promises the two parties of an agreement, whatever   *)
(* windows, oracle, slots and balances it takes to keep it:                *)
(*                                                                         *)
(*   an agreement is offered once, and binds nobody until it is accepted;  *)
(*   only accepted work is delivered, and only delivered work is disputed; *)
(*   it is closed once, by releasing its money once, and the provider is   *)
(*   paid only for work it delivered.                                      *)
(***************************************************************************)
EXTENDS Sequences

CONSTANT Ids

VARIABLES stage, payouts

Active == {"pending", "accepted", "Delivered", "Disputed"}

Init ==
  /\ stage = [id \in Ids |-> "none"]
  /\ payouts = [id \in Ids |-> <<>>]

Moves(id, from, to) ==
  /\ stage[id] = from
  /\ stage' = [stage EXCEPT ![id] = to]
  /\ UNCHANGED payouts

Offer(id)   == Moves(id, "none", "pending")
Accept(id)  == Moves(id, "pending", "accepted")
Deliver(id) == Moves(id, "accepted", "Delivered")
Dispute(id) == Moves(id, "Delivered", "Disputed")

Close(id, how) ==
  /\ stage' = [stage EXCEPT ![id] = "closed"]
  /\ payouts' = [payouts EXCEPT ![id] = Append(@, how)]

Refund(id) == stage[id] \in Active /\ Close(id, "refunded")

Pay(id) == stage[id] \in {"Delivered", "Disputed"} /\ Close(id, "paid")

Next ==
  \E id \in Ids : \/ Offer(id) \/ Accept(id) \/ Deliver(id) \/ Dispute(id)
                  \/ Refund(id) \/ Pay(id)

Spec == Init /\ [][Next]_<<stage, payouts>>

=============================================================================
