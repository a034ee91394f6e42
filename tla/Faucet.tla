------------------------------- MODULE Faucet -------------------------------
(***************************************************************************)
(* The faucet: an HTTP server before one funded key.  A request is checked *)
(* (address, two sliding windows, solvency) and then queued: one transfer  *)
(* of the key is submitted and watched at a time.  The limiter's log and   *)
(* the queue are the process's memory; balance, nonce and pool are the     *)
(* chain's.                                                                *)
(*                                                                         *)
(* An address is [prefix, account]; amounts of the configuration are       *)
(* [whole, fraction], a fraction being a sequence of digits.               *)
(***************************************************************************)
EXTENDS Integers, Sequences, FiniteSets, SequencesExt

CONSTANTS
  Accounts, Ips,
  Slots,               \* requests served at the same time
  Settings,            \* configurations the operator may have written
  FaucetRequests,      \* requests that may arrive
  Decimals,            \* places of the native token
  ExistentialDeposit, Fee,
  Fundings,            \* what the key may hold at the start
  Horizon,             \* bound: the last instant
  RequestBudget,       \* bound: grants of a run
  Nothing, Garbled     \* an absent value, one that does not parse

VARIABLES
  settings,            \* the configuration read at startup
  up,                  \* the server listens
  clock,
  log,                 \* grant stamps of each key of the limiter, newest last
  drips,               \* slot -> the request in it
  queue,               \* slots whose transfer is not submitted yet
  watched,             \* the slot whose transfer is watched, or Nothing
  pool,                \* transfers some node may still include: [grant, nonce]
  nonce, balance,      \* the key's account
  funding,             \* what the key held at the start
  granted              \* history: every grant and its fate

faucetChain == <<pool, nonce, balance, funding>>
faucetVars == <<settings, up, clock, log, drips, queue, watched, faucetChain, granted>>

-----------------------------------------------------------------------------
(* Amounts and the configuration.                                          *)

\* Refuses more digits than a planck has, never rounds.
ParseCmnToPlancks(amount) ==
  IF amount = Garbled \/ Len(amount.fraction) > Decimals THEN Garbled
  ELSE LET padded == amount.fraction \o [i \in 1..(Decimals - Len(amount.fraction)) |-> 0]
       IN  FoldLeft(LAMBDA value, digit : value * 10 + digit, amount.whole, padded)

\* A malformed variable refuses to boot.
AcceptsRule(rule) ==
  /\ rule # Garbled
  /\ rule.max \in Nat /\ rule.max >= 1
  /\ rule.window \in Nat /\ rule.window > 0

ConfigIsValid(config) ==
  /\ ParseCmnToPlancks(config.drip) # Garbled /\ ParseCmnToPlancks(config.drip) > 0
  /\ ParseCmnToPlancks(config.reserve) # Garbled
  /\ AcceptsRule(config.perAddress) /\ AcceptsRule(config.perIp)

DripAmount == ParseCmnToPlancks(settings.drip)
Reserve    == ParseCmnToPlancks(settings.reserve)

\* A drip must be able to create an account.
ServiceAccepts == DripAmount > 0 /\ DripAmount >= ExistentialDeposit /\ Reserve >= 0

\* The key holds whole plancks and so does the configuration, and the absence
\* of a slot is none.
ASSUME FaucetAmounts ==
  /\ {Fee, ExistentialDeposit} \subseteq Nat /\ Fundings \subseteq Nat
  /\ \A config \in Settings :
       {ParseCmnToPlancks(config.drip), ParseCmnToPlancks(config.reserve)} \subseteq Int \cup {Garbled}
ASSUME NothingIsNoSlot == Nothing \notin Slots

-----------------------------------------------------------------------------
(* The limiter.                                                            *)

AddressKey(account) == <<"address", account>>
IpKey(ip)           == <<"ip", ip>>
FaucetKeys == {AddressKey(a) : a \in Accounts} \cup {IpKey(i) : i \in Ips}

RuleOf(key) == IF key[1] = "address" THEN settings.perAddress ELSE settings.perIp

IsFresh(key, stamp) == clock - stamp < RuleOf(key).window

\* The stamps of a key that are still in its window, in their order.
FreshEntries(key) ==
  LET kept[i \in 0..Len(log[key])] ==
        CASE i = 0 -> <<>>
          [] i > 0 /\ IsFresh(key, log[key][i]) -> Append(kept[i - 1], log[key][i])
          [] OTHER -> kept[i - 1]
  IN  kept[Len(log[key])]

HasRoom(key) == Len(FreshEntries(key)) < RuleOf(key).max

\* Both budgets are checked before either is recorded.
MayAcquire(account, ip) == HasRoom(AddressKey(account)) /\ HasRoom(IpKey(ip))

Acquire(account, ip) ==
  log' = [key \in FaucetKeys |->
            IF key \in {AddressKey(account), IpKey(ip)}
            THEN Append(FreshEntries(key), clock) ELSE log[key]]

\* A mutant: a drip that is handed back keeps its place in the IP's window.
ReleaseAddressOnly(account, ip) ==
  log' = [log EXCEPT ![AddressKey(account)] = IF @ = <<>> THEN @ ELSE Front(@)]

\* Hands back the newest stamp of both keys, whichever grant it belongs to.
Release(account, ip) ==
  log' = [key \in FaucetKeys |->
            IF key \in {AddressKey(account), IpKey(ip)} /\ log[key] # <<>>
            THEN Front(log[key]) ELSE log[key]]

Prune ==
  /\ up
  /\ log' = [key \in FaucetKeys |-> FreshEntries(key)]
  /\ log' # log
  /\ UNCHANGED <<settings, up, clock, drips, queue, watched, faucetChain, granted>>

-----------------------------------------------------------------------------
(* Requests.                                                               *)

RouteOf(request) ==
  CASE request.path = "/" /\ request.method = "GET" -> "index"
    [] request.path = "/drip" -> IF request.method = "POST" THEN "drip" ELSE "405"
    [] request.path = "/health" /\ request.method = "GET" -> "health"
    [] request.path = "/balance" /\ request.method = "GET" -> "balance"
    [] OTHER -> "404"

\* The proxy appends the peer it saw; what comes before it is the caller's.
ClientIp(request) ==
  IF settings.trustProxy /\ request.forwarded # <<>> THEN Last(request.forwarded) ELSE request.peer

\* Nothing when the body cannot be used; an empty body has no address.
BodyAddress(request) ==
  IF request.body.size > settings.maxBody \/ request.body.kind \notin {"object", "empty"}
  THEN Nothing
  ELSE IF request.body.kind = "empty" THEN Garbled ELSE request.body.address

NormalizeAddress(address) == IF address = Garbled THEN Garbled ELSE address.account

EmptySlot == [state |-> "idle", grant |-> 0, account |-> Nothing, ip |-> Nothing, status |-> 0]
Answered(status) == [EmptySlot EXCEPT !.status = status]

FaucetInit ==
  /\ settings \in Settings /\ up = FALSE /\ clock = 0
  /\ log = [key \in FaucetKeys |-> <<>>]
  /\ drips = [d \in Slots |-> EmptySlot]
  /\ queue = <<>> /\ watched = Nothing
  /\ pool = {} /\ nonce = 0 /\ granted = <<>>
  /\ balance \in Fundings /\ funding = balance

\* What the faucet takes from the runtime's metadata.
FromMetadata == {"balances.transferKeepAlive", "system.account", "balances.existentialDeposit"}

\* A node that cannot be reached, or whose runtime lacks one of these, is no
\* node to start on.
ConnectChain == settings.node # Nothing /\ FromMetadata \subseteq settings.node

\* The process starts only with a configuration and a node it accepts; the
\* balance of the key is read and only logged.
Boot ==
  /\ ~up /\ ConfigIsValid(settings) /\ ConnectChain /\ ServiceAccepts
  /\ up' = TRUE
  /\ UNCHANGED <<settings, clock, log, drips, queue, watched, faucetChain, granted>>

\* A signal: the server lets the requests it has finish, then the process and
\* with it the limiter's memory is gone.
ShutDown ==
  /\ up /\ \A d \in Slots : drips[d].state = "idle"
  /\ up' = FALSE
  /\ log' = [key \in FaucetKeys |-> <<>>]
  /\ drips' = [d \in Slots |-> EmptySlot]
  /\ UNCHANGED <<settings, clock, queue, watched, faucetChain, granted>>

FaucetTick ==
  /\ up /\ clock < Horizon
  /\ clock' = clock + 1
  /\ UNCHANGED <<settings, up, log, drips, queue, watched, faucetChain, granted>>

\* What a request is answered without touching the limiter, or Nothing for a
\* drip with a well-formed address.
Turned(request) ==
  LET route == RouteOf(request)
  IN  CASE route \in {"index", "health"} -> 200
        [] route = "balance" -> IF NormalizeAddress(request.body.address) = Garbled THEN 400 ELSE 200
        [] route = "405" -> 405
        [] route = "404" -> 404
        [] BodyAddress(request) = Nothing -> 400
        [] NormalizeAddress(BodyAddress(request)) = Garbled -> 400
        [] OTHER -> Nothing

\* The rate-limit reservation is in the same step as the check.
Receive(d, request) ==
  LET account == NormalizeAddress(BodyAddress(request))
      ip      == ClientIp(request)
  IN  /\ up /\ drips[d].state = "idle" /\ Len(granted) < RequestBudget
      /\ CASE Turned(request) # Nothing ->
                drips' = [drips EXCEPT ![d] = Answered(Turned(request))] /\ UNCHANGED <<log, granted>>
           [] Turned(request) = Nothing /\ ~MayAcquire(account, ip) ->
                drips' = [drips EXCEPT ![d] = Answered(429)] /\ UNCHANGED <<log, granted>>
           [] OTHER ->
                /\ Acquire(account, ip)
                /\ granted' = Append(granted, [account |-> account, ip |-> ip, at |-> clock, fate |-> "held"])
                /\ drips' = [drips EXCEPT ![d] =
                     [state |-> "reserved", grant |-> Len(granted) + 1, account |-> account, ip |-> ip, status |-> 0]]
      /\ UNCHANGED <<settings, up, clock, queue, watched, faucetChain>>

\* The slot is handed back and the requester told why.
GiveBack(d, status) ==
  /\ Release(drips[d].account, drips[d].ip)
  /\ drips' = [drips EXCEPT ![d] = Answered(status)]
  /\ granted' = [granted EXCEPT ![drips[d].grant].fate = "given back"]

\* A mutant: the payment may leave nothing but itself.
CoversDrip == balance >= DripAmount

IsSolvent ==
  balance >= DripAmount /\ balance - DripAmount >= Reserve + ExistentialDeposit

\* The balance arrives, and the transfer is chained onto the queue at once.
ReadBalance(d) ==
  /\ drips[d].state = "reserved"
  /\ IF IsSolvent
     THEN /\ queue' = Append(queue, d)
          /\ drips' = [drips EXCEPT ![d].state = "queued"]
          /\ UNCHANGED <<log, granted>>
     ELSE GiveBack(d, 503) /\ UNCHANGED queue
  /\ UNCHANGED <<settings, up, clock, watched, faucetChain>>

ReadBalanceFails(d) ==
  /\ drips[d].state = "reserved"
  /\ GiveBack(d, 502)
  /\ UNCHANGED <<settings, up, clock, queue, watched, faucetChain>>

-----------------------------------------------------------------------------
(* One transfer at a time.                                                 *)

\* A mutant: a failed submission is not caught, and what is chained on it
\* fails to start.
TurnComesUnlessFailed ==
  watched = Nothing /\ queue # <<>> /\ \A g \in DOMAIN granted : granted[g].fate # "given back"

TurnComes == watched = Nothing /\ queue # <<>>

Submit ==
  /\ TurnComes
  /\ watched' = Head(queue) /\ queue' = Tail(queue)
  /\ pool' = pool \cup {[grant |-> drips[Head(queue)].grant, nonce |-> nonce]}
  /\ UNCHANGED <<settings, up, clock, log, drips, nonce, balance, funding, granted>>

\* The nonce is not answered, or the node refuses the extrinsic.
SubmitFails ==
  /\ TurnComes
  /\ queue' = Tail(queue)
  /\ GiveBack(Head(queue), 502)
  /\ UNCHANGED <<settings, up, clock, watched, faucetChain>>

\* transferKeepAlive: the key's account may not fall under its minimum, and the
\* fee is paid either way.
Spends == balance - Fee - DripAmount >= ExistentialDeposit

Land(tx) ==
  /\ tx \in pool /\ tx.nonce = nonce /\ balance >= Fee
  /\ nonce' = nonce + 1
  /\ balance' = balance - Fee - (IF Spends THEN DripAmount ELSE 0)
  /\ pool' = {other \in pool : other.nonce > nonce}
  /\ UNCHANGED funding

InBlock ==
  /\ watched # Nothing
  /\ \E tx \in pool : tx.grant = drips[watched].grant /\ Land(tx)
  /\ watched' = Nothing
  /\ IF Spends
     THEN /\ drips' = [drips EXCEPT ![watched] = Answered(200)]
          /\ granted' = [granted EXCEPT ![drips[watched].grant].fate = "landed"]
          /\ UNCHANGED log
     ELSE GiveBack(watched, 502)
  /\ UNCHANGED <<settings, up, clock, queue>>

\* Invalid, dropped or usurped: the faucet stops watching; another node may
\* still hold the transfer.
GivenUp ==
  /\ watched # Nothing
  /\ GiveBack(watched, 502)
  /\ watched' = Nothing
  /\ \/ pool' = {tx \in pool : tx.grant # drips[watched].grant}
     \/ UNCHANGED pool
  /\ UNCHANGED <<settings, up, clock, queue, nonce, balance, funding>>

WatchedGrant == IF watched = Nothing THEN 0 ELSE drips[watched].grant

StrayLands ==
  /\ \E tx \in pool : tx.grant # WatchedGrant /\ Land(tx)
  /\ UNCHANGED <<settings, up, clock, log, drips, queue, watched, granted>>

FaucetNext ==
  \/ Boot \/ ShutDown \/ FaucetTick \/ Prune
  \/ \E d \in Slots : \/ \E request \in FaucetRequests : Receive(d, request)
                      \/ ReadBalance(d) \/ ReadBalanceFails(d)
  \/ Submit \/ SubmitFails \/ InBlock \/ GivenUp \/ StrayLands

\* The node answers a read, and reports in the end on what it accepted.
FaucetFairness ==
  /\ WF_faucetVars(Submit \/ SubmitFails)
  /\ WF_faucetVars(InBlock \/ GivenUp)
  /\ \A d \in Slots : WF_faucetVars(ReadBalance(d) \/ ReadBalanceFails(d))

FaucetSpec == FaucetInit /\ [][FaucetNext]_faucetVars /\ FaucetFairness

-----------------------------------------------------------------------------
(* Properties.                                                             *)

Smaller(a, b) == IF a < b THEN a ELSE b

\* However many requests read the balance before any of them has paid, the key
\* falls below its floor by no more than the others' drips and one transfer
\* that was given up and landed after all; and by nothing if it never paid
\* (faucet.ts: the solvency check before the queue).
ReserveBreachBounded ==
  up => LET floor  == Reserve + ExistentialDeposit
            beyond == Cardinality(Slots) * (DripAmount + Fee) + Fee
        IN  balance >= Smaller(funding, floor - beyond)

\* A key's window holds no more stamps than grants it was really given or
\* waits for: no refusal, at any of its four places, is billed to a requester
\* (faucet.ts: every exit path completes the drip or hands the slot back).
Billed(key) == {g \in DOMAIN granted :
  /\ granted[g].fate # "given back"
  /\ key \in {AddressKey(granted[g].account), IpKey(granted[g].ip)}
  /\ clock - granted[g].at < RuleOf(key).window}

NobodyIsOverbilled ==
  up => \A key \in FaucetKeys : Len(FreshEntries(key)) <= Cardinality(Billed(key))

\* A drip that holds its grant is answered, whatever became of the transfers
\* queued before it (chain.ts: one failure does not wedge the faucet).
DripsEnd ==
  \A d \in Slots : drips[d].state = "reserved" ~> drips[d].state \notin {"reserved", "queued"}

=============================================================================
