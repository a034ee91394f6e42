------------------------------ MODULE Currency ------------------------------
(***************************************************************************)
(* The part of pallet_balances the pallets use through the                 *)
(* ReservableCurrency trait.  pallet_balances is a dependency, not code of *)
(* this repository: every operator below is read off the way the pallets   *)
(* call it.                                                                *)
(*                                                                         *)
(* A ledger is a record of two functions on accounts:                      *)
(*   free[a]      what a can still reserve or spend, i.e. the free balance *)
(*                above the existential deposit and the agent stake lock;  *)
(*   reserved[a]  one undivided pot.  Nothing in it says which agreement   *)
(*                or oracle request an amount was reserved for.            *)
(***************************************************************************)
EXTENDS Integers

Ledger(Accounts) == [free : [Accounts -> Nat], reserved : [Accounts -> Nat]]

\* What a best-effort operation on the reserve really reaches: unreserve,
\* slash_reserved and repatriate_reserved move what is there and report the
\* rest, and no caller in the pallets looks at the rest.
Reachable(ledger, who, amount) ==
  IF amount <= ledger.reserved[who] THEN amount ELSE ledger.reserved[who]

\* Mutant: a reserve that succeeds whatever the free balance is.
CanReserveUnchecked(ledger, who, amount) == TRUE

\* reserve() is the one operation that fails when the amount is not there.
CanReserve(ledger, who, amount) == amount <= ledger.free[who]

Reserve(ledger, who, amount) ==
  [free     |-> [ledger.free EXCEPT ![who] = @ - amount],
   reserved |-> [ledger.reserved EXCEPT ![who] = @ + amount]]

\* repatriate_reserved(from, to, amount, BalanceStatus::Free)
Repatriate(ledger, from, to, amount) ==
  LET moved == Reachable(ledger, from, amount)
  IN  [free     |-> [ledger.free EXCEPT ![to] = @ + moved],
       reserved |-> [ledger.reserved EXCEPT ![from] = @ - moved]]

Unreserve(ledger, who, amount) == Repatriate(ledger, who, who, amount)

=============================================================================
