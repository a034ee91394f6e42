--------------------------- MODULE ClientsProofs ----------------------------
(***************************************************************************)
(* Machine-checked facts about the programs built on the SDK's submission, *)
(* each for any instance of its own constants.                             *)
(*                                                                         *)
(* The reference daemon: how often a delivery is tried, for any set of     *)
(* hirers, any limits, and any number of refusals, lost calls, blocks      *)
(* given up and deaths of the process.                                     *)
(*                                                                         *)
(* The operator's agent: how many orders it has open, for any cap, peers   *)
(* and registry, and any number of faults.  The invariant counts what is   *)
(* open together with what may still be opened without a decision, in the  *)
(* pool or on a retry: no step adds to that without a decision or a fault, *)
(* and a decision sees all of it in its snapshot but for earlier faults.   *)
(*                                                                         *)
(* Messages: what the recipient reads twice or refuses as a replay, for    *)
(* any messages, any clock of the sender, and any number of lost calls,    *)
(* blocks given up, failed reads, copies and restarts.  Nonces to one      *)
(* recipient rise in the order of composing; the inbox keeps the highest   *)
(* nonce it used, so what it refuses is a copy of that message or older.   *)
(***************************************************************************)
EXTENDS ReferenceAgent, WorkerAgent, Messaging, FiniteSetTheorems, SequenceTheorems, TLAPS

-----------------------------------------------------------------------------
(* The submission under way.                                               *)

SubmissionFields ==
  {"call", "retries", "attempt", "direct", "stage", "nonce", "error"}

\* Void is the absence of a submission: it has not the fields of one.
VoidIsNoSubmission == DOMAIN Void # SubmissionFields

SubmissionIsOne ==
  /\ submission # Void => DOMAIN submission = SubmissionFields
  /\ faults \in Nat

\* Whatever the network and the chain do to a submission, it stays under way
\* until its caller takes the answer.
LEMMA SubmissionStays ==
  ASSUME VoidIsNoSubmission, SubmissionIsOne, NEW tx, NEW error,
         SendStep \/ DropTx(tx) \/ Include(tx, error) \/ Retract(tx)
  PROVE  /\ SubmissionIsOne' /\ faults' >= faults
         /\ submission' = Void <=> submission = Void
<1>1. submission' = submission
      \/ /\ submission # Void
         /\ \/ \E e : submission' = Failed(e) \/ submission' = Settled(e)
            \/ submission' = [submission EXCEPT !.stage = "watching", !.nonce = nonce]
  BY DEF SendStep, SignAndSend, PoolRefuses, SendIsLost, DropTx, Include, Retract, Signing,
         Watches, Watching
<1>2. submission # Void => submission' # Void /\ DOMAIN submission' = SubmissionFields
  <2> SUFFICES ASSUME submission # Void
               PROVE  DOMAIN submission' = SubmissionFields
    BY DEF VoidIsNoSubmission
  <2>1. DOMAIN submission = SubmissionFields
    BY DEF SubmissionIsOne
  <2>2. \A e : DOMAIN Settled(e) = SubmissionFields /\ DOMAIN Failed(e) = SubmissionFields
    BY <2>1 DEF Settled, Failed
  <2> QED BY <1>1, <2>1, <2>2
<1>3. faults' \in Nat /\ faults' >= faults
  BY DEF SubmissionIsOne, SendStep, SignAndSend, PoolRefuses, SendIsLost, DropTx, Include,
         Retract
<1> QED BY <1>1, <1>2, <1>3 DEF SubmissionIsOne

-----------------------------------------------------------------------------
(* The reference daemon.                                                   *)

DaemonFields == {"at", "now", "lastBeat", "seenEra", "toPublish", "work", "toConfirm"}

\* Before the first tick of a process.
StartPhases == {"down", "register", "beatNow", "missing", "name", "publish", "era"}

DaemonTypes ==
  /\ SubmissionIsOne
  /\ DOMAIN daemon = DaemonFields /\ daemon.now \in Int
  /\ "height" \in DOMAIN site /\ site.height \in Int
  /\ siteUndo # Void =>
       "height" \in DOMAIN siteUndo.site /\ siteUndo.site.height \in Int
  /\ attempts \in [Hireable -> Seq(Int)]
  /\ failed \in [Hireable -> [count : Nat, retryAt : Int]]
  /\ signed \in [Hireable -> Nat]

\* A delivery is under way.
InFlight(id) ==
  daemon.at = "deliver" /\ submission # Void /\ id = Head(daemon.work)

\* What the process remembers of an agreement it is not done with is how often
\* it tried and how long it has to wait.
Tried(id) ==
  LET tries == Len(attempts[id])
  IN  /\ signed[id] <= MaxAttempts * faults + tries
      /\ tries <= MaxAttempts
      /\ \A i \in 2..tries : attempts[id][i] - attempts[id][i - 1] >= RetryAfterBlocks
      /\ InFlight(id) =>
           /\ id \notin handled
           /\ tries = failed[id].count + 1 /\ attempts[id][tries] = daemon.now
      /\ id \notin handled /\ ~InFlight(id) =>
           /\ tries = failed[id].count
           /\ tries > 0 => attempts[id][tries] + RetryAfterBlocks <= failed[id].retryAt

Phases ==
  /\ daemon.at \in StartPhases => attempts = Untried
  /\ daemon.at = "scan" => submission = Void

DaemonInv == DaemonTypes /\ Phases /\ \A id \in Hireable : Tried(id)

\* What the limit allows, of so many deaths.
LEMMA Allowance ==
  ASSUME NEW f \in Nat, NEW g \in Nat, f <= g
  PROVE  /\ MaxAttempts * f \in Nat /\ MaxAttempts * g \in Nat
         /\ MaxAttempts * f <= MaxAttempts * g
         /\ MaxAttempts * (1 + f) = MaxAttempts * f + MaxAttempts
BY RetryLimits, SMT

\* The invariant says what the property does.
LEMMA DaemonInvBounds == DaemonInv => AttemptsAreBounded
<1> SUFFICES ASSUME DaemonInv, NEW id \in Hireable
             PROVE  /\ Len(attempts[id]) <= MaxAttempts
                    /\ \A i \in 2..Len(attempts[id]) :
                         attempts[id][i] - attempts[id][i - 1] >= RetryAfterBlocks
                    /\ signed[id] <= MaxAttempts * (1 + faults)
  BY DEF AttemptsAreBounded
<1>1. Tried(id) /\ faults \in Nat /\ signed[id] \in Nat /\ Len(attempts[id]) \in Nat
  BY DEF DaemonInv, DaemonTypes, SubmissionIsOne
<1>2. /\ MaxAttempts * faults \in Nat /\ MaxAttempts \in Nat
      /\ MaxAttempts * (1 + faults) = MaxAttempts * faults + MaxAttempts
  BY <1>1, Allowance, RetryLimits
<1>3. PICK n \in Nat, m \in Nat :
        /\ n = MaxAttempts * faults /\ m = MaxAttempts * (1 + faults)
        /\ m = n + MaxAttempts
  BY <1>2
<1>4. signed[id] <= m
  <2>1. signed[id] <= n + Len(attempts[id]) /\ Len(attempts[id]) <= MaxAttempts
    BY <1>1, <1>3 DEF Tried
  <2>2. /\ n \in Nat /\ m = n + MaxAttempts /\ MaxAttempts \in Nat
        /\ signed[id] \in Nat /\ Len(attempts[id]) \in Nat
    BY <1>1, <1>2, <1>3
  <2> QED BY ONLY <2>1, <2>2
<1>5. Len(attempts[id]) <= MaxAttempts
  BY <1>1 DEF Tried
<1> QED BY <1>1, <1>3, <1>4, <1>5 DEF Tried

\* A step that neither tries nor judges a delivery.
LEMMA TriedAside ==
  ASSUME DaemonTypes, NEW id \in Hireable, Tried(id),
         faults' \in Nat, faults' >= faults,
         UNCHANGED <<failed, attempts, signed>>,
         handled \subseteq handled',
         InFlight(id)' <=> InFlight(id),
         InFlight(id) => daemon'.now = daemon.now /\ handled' = handled
  PROVE  Tried(id)'
<1>1. faults \in Nat /\ signed[id] \in Nat /\ Len(attempts[id]) \in Nat
  BY DEF DaemonTypes, SubmissionIsOne
<1>2. /\ MaxAttempts * faults \in Nat /\ MaxAttempts * faults' \in Nat
      /\ MaxAttempts * faults <= MaxAttempts * faults'
  BY <1>1, Allowance
<1>3. signed[id] <= MaxAttempts * faults + Len(attempts[id])
  BY DEF Tried
<1>4. signed[id] <= MaxAttempts * faults' + Len(attempts[id])
  BY ONLY <1>1, <1>2, <1>3
<1> QED BY <1>4 DEF Tried

\* The chain's side of a call keeps the head where it is.
LEMMA SiteKept ==
  ASSUME "height" \in DOMAIN site, site.height \in Int, NEW call
  PROVE  "height" \in DOMAIN RuntimeEffect(call) /\ RuntimeEffect(call).height = site.height
BY DEF RuntimeEffect, With

\* What other accounts and the passing of blocks do.
OthersAct ==
  \/ SiteBlock
  \/ \E id \in Hireable : Hire(id) \/ OwnDealDelivered(id)
  \/ \E deal \in site.deals : HirerConfirms(deal) \/ HandAccepts(deal)

\* They change the chain alone.
LEMMA OthersChange ==
  ASSUME "height" \in DOMAIN site, site.height \in Int, OthersAct
  PROVE  \E new : SiteChanges(new) /\ "height" \in DOMAIN new /\ new.height \in Int
<1>1. ASSUME SiteBlock
      PROVE  \E new : SiteChanges(new) /\ "height" \in DOMAIN new /\ new.height \in Int
  <2>1. CASE SiteChanges([site EXCEPT !.height = @ + 1])
    BY <2>1
  <2>2. CASE SiteChanges([site EXCEPT !.funded = TRUE])
    BY <2>2
  <2>3. ASSUME NEW earned, SiteChanges([site EXCEPT !.era = @ + 1, !.earned = earned])
        PROVE  \E new : SiteChanges(new) /\ "height" \in DOMAIN new /\ new.height \in Int
    <3> PICK new : new = [site EXCEPT !.era = @ + 1, !.earned = earned]
      OBVIOUS
    <3>1. "height" \in DOMAIN new /\ new.height = site.height
      OBVIOUS
    <3>2. SiteChanges(new)
      BY <2>3
    <3> QED BY <3>1, <3>2
  <2> QED BY <1>1, <2>1, <2>2, <2>3 DEF SiteBlock
<1>2. ASSUME NEW id, Hire(id)
      PROVE  \E new : SiteChanges(new) /\ "height" \in DOMAIN new /\ new.height \in Int
  <2>1. PICK deals : SiteChanges([site EXCEPT !.deals = deals])
    BY <1>2 DEF Hire
  <2> QED BY <2>1
<1>3. ASSUME NEW id, OwnDealDelivered(id)
      PROVE  \E new : SiteChanges(new) /\ "height" \in DOMAIN new /\ new.height \in Int
  <2>1. PICK deals : SiteChanges([site EXCEPT !.deals = deals])
    BY <1>3 DEF OwnDealDelivered
  <2> QED BY <2>1
<1>4. ASSUME NEW deal, HirerConfirms(deal) \/ HandAccepts(deal)
      PROVE  \E new : SiteChanges(new) /\ "height" \in DOMAIN new /\ new.height \in Int
  <2>1. PICK deals : SiteChanges([site EXCEPT !.deals = deals])
    BY <1>4 DEF HirerConfirms, HandAccepts, With
  <2> QED BY <2>1
<1> QED BY <1>1, <1>2, <1>3, <1>4 DEF OthersAct

\* What is not the process, and what becomes of its submission.
WorldStep ==
  \/ \E tx \in txPool : DaemonTxLands(tx) \/ DaemonTxDrops(tx)
  \/ SiteReorg \/ OthersAct \/ DaemonSends

\* None of it touches what the process remembers.
LEMMA WorldStepInv ==
  ASSUME VoidIsNoSubmission, DaemonInv, WorldStep
  PROVE  DaemonInv'
<1>1. /\ SubmissionIsOne' /\ faults' >= faults
      /\ submission' = Void <=> submission = Void
      /\ UNCHANGED <<daemon, recall>>
  <2>0. SubmissionIsOne /\ "height" \in DOMAIN site /\ site.height \in Int
    BY DEF DaemonInv, DaemonTypes
  <2>1. CASE \E tx \in txPool : DaemonTxLands(tx)
    BY <2>0, <2>1, SubmissionStays DEF DaemonTxLands
  <2>2. CASE \E tx \in txPool : DaemonTxDrops(tx)
    BY <2>0, <2>2, SubmissionStays DEF DaemonTxDrops, daemonOwn, recall
  <2>3. CASE SiteReorg
    BY <2>0, <2>3, SubmissionStays DEF SiteReorg
  <2>4. CASE DaemonSends
    BY <2>0, <2>4, SubmissionStays DEF DaemonSends, daemonOwn, recall
  <2>5. CASE OthersAct
    BY <2>0, <2>5, OthersChange DEF SiteChanges, submissionVars, SubmissionIsOne
  <2> QED BY <2>1, <2>2, <2>3, <2>4, <2>5 DEF WorldStep
<1>2. /\ "height" \in DOMAIN site' /\ site'.height \in Int
      /\ siteUndo' # Void =>
           "height" \in DOMAIN siteUndo'.site /\ siteUndo'.site.height \in Int
  <2>0. /\ "height" \in DOMAIN site /\ site.height \in Int
        /\ siteUndo # Void =>
             "height" \in DOMAIN siteUndo.site /\ siteUndo.site.height \in Int
    BY DEF DaemonInv, DaemonTypes
  <2>1. CASE \E tx \in txPool : DaemonTxLands(tx)
    BY <2>0, <2>1, SiteKept DEF DaemonTxLands
  <2>2. CASE (\E tx \in txPool : DaemonTxDrops(tx)) \/ DaemonSends
    BY <2>0, <2>2 DEF DaemonTxDrops, DaemonSends, daemonOwn
  <2>3. CASE SiteReorg
    BY <2>0, <2>3 DEF SiteReorg
  <2>4. CASE OthersAct
    BY <2>0, <2>4, OthersChange DEF SiteChanges
  <2> QED BY <2>1, <2>2, <2>3, <2>4 DEF WorldStep
<1>3. DaemonTypes' /\ Phases'
  BY <1>1, <1>2 DEF DaemonInv, DaemonTypes, Phases, recall
<1>4. ASSUME NEW id \in Hireable PROVE Tried(id)'
  <2>1. InFlight(id)' <=> InFlight(id)
    BY <1>1 DEF InFlight
  <2>2. DaemonTypes /\ Tried(id) /\ faults' \in Nat
    BY <1>1 DEF DaemonInv, SubmissionIsOne
  <2> QED BY <1>1, <2>1, <2>2, TriedAside DEF recall
<1> QED BY <1>3, <1>4 DEF DaemonInv

\* A step of the process that leaves the deliveries alone: it moves on, asks for
\* another transaction, or takes the answer to one.
AsideStep ==
  /\ UNCHANGED <<worldOf, failed, attempts, signed>>
  /\ handled \subseteq handled'
  /\ DOMAIN daemon' = DaemonFields /\ daemon'.now \in Int
  /\ \/ UNCHANGED <<submission, faults>>
     \/ DOMAIN submission' = SubmissionFields /\ UNCHANGED faults
     \/ submission' = Void /\ faults' \in {faults, faults + 1}
  /\ daemon.at = "deliver" => submission = Void /\ submission' = Void
  /\ daemon'.at = "deliver" => submission' = Void
  /\ daemon'.at \in StartPhases => daemon.at \in StartPhases
  /\ daemon'.at = "scan" => submission' = Void

\* Such a step keeps the invariant.
LEMMA AsideStepInv ==
  ASSUME VoidIsNoSubmission, DaemonInv, AsideStep
  PROVE  DaemonInv'
<1>0. DaemonTypes /\ faults \in Nat
  BY DEF DaemonInv, DaemonTypes, SubmissionIsOne
<1>1. SubmissionIsOne' /\ faults' \in Nat /\ faults' >= faults
  BY <1>0 DEF DaemonTypes, AsideStep, SubmissionIsOne
<1>2. DaemonTypes'
  BY <1>0, <1>1 DEF DaemonTypes, AsideStep, worldOf
<1>3. Phases'
  BY DEF DaemonInv, Phases, AsideStep
<1>4. ASSUME NEW id \in Hireable PROVE Tried(id)'
  <2>1. ~InFlight(id) /\ ~InFlight(id)'
    BY DEF InFlight, AsideStep
  <2>2. Tried(id) /\ UNCHANGED <<failed, attempts, signed>> /\ handled \subseteq handled'
    BY DEF DaemonInv, AsideStep
  <2> QED BY <1>0, <1>1, <2>1, <2>2, TriedAside
<1> QED BY <1>2, <1>3, <1>4 DEF DaemonInv

\* A new process remembers nothing.  Its predecessor had tried nothing either,
\* or died of a fault.
ForgetStep ==
  /\ daemon' = Down /\ submission' = Void /\ UNCHANGED <<worldOf, signed>>
  /\ handled' = {} /\ failed' = Clean /\ attempts' = Untried
  /\ \/ faults' = faults + 1
     \/ faults' = faults /\ attempts = Untried

\* Such a step keeps the invariant: a fault pays for what was tried.
LEMMA ForgetStepInv ==
  ASSUME DaemonInv, ForgetStep
  PROVE  DaemonInv'
<1>0. DaemonTypes /\ faults \in Nat /\ MaxAttempts \in Nat
  BY RetryLimits DEF DaemonInv, DaemonTypes, SubmissionIsOne
<1>1. SubmissionIsOne' /\ faults' \in Nat
  BY <1>0 DEF ForgetStep, SubmissionIsOne
<1>2. /\ attempts' \in [Hireable -> Seq(Int)]
      /\ failed' \in [Hireable -> [count : Nat, retryAt : Int]]
      /\ \A id \in Hireable : /\ attempts'[id] = <<>> /\ Len(attempts'[id]) = 0
                              /\ failed'[id].count = 0
  BY DEF ForgetStep, Untried, Clean, NeverFailed
<1>3. DaemonTypes'
  BY <1>0, <1>1, <1>2 DEF DaemonTypes, ForgetStep, worldOf, Down, DaemonFields
<1>4. Phases' /\ daemon'.at = "down"
  BY DEF ForgetStep, Phases, Down
<1>5. ASSUME NEW id \in Hireable PROVE Tried(id)'
  <2>0. /\ MaxAttempts * faults \in Nat /\ MaxAttempts * faults' \in Nat
        /\ Len(attempts[id]) \in Nat
    <3>1. attempts[id] \in Seq(Int)
      BY <1>0 DEF DaemonTypes
    <3>2. Len(attempts[id]) \in Nat
      BY <3>1
    <3>3. PICK f \in Nat, g \in Nat : f = faults /\ g = faults'
      BY <1>0, <1>1
    <3>4. MaxAttempts * f \in Nat /\ MaxAttempts * g \in Nat
      <4>1. f <= f /\ g <= g
        OBVIOUS
      <4> QED BY <4>1, Allowance
    <3> QED BY <3>2, <3>3, <3>4
  <2>1. PICK n \in Nat, m \in Nat, tries \in Nat :
          /\ n = MaxAttempts * faults /\ m = MaxAttempts * faults'
          /\ tries = Len(attempts[id])
    BY <2>0
  <2>2. signed[id] \in Nat /\ signed[id] <= n + tries /\ tries <= MaxAttempts
    BY <1>0, <2>1 DEF DaemonInv, DaemonTypes, Tried
  <2>3. signed[id] <= m
    <3>1. CASE faults' = faults + 1
      <4>1. m = n + MaxAttempts
        <5>1. MaxAttempts * (1 + faults) = MaxAttempts * faults + MaxAttempts
          BY <1>0, Allowance
        <5>2. faults' = 1 + faults
          BY <1>0, <3>1
        <5> QED BY <2>1, <5>1, <5>2
      <4>2. n \in Nat /\ m \in Nat /\ tries \in Nat
        OBVIOUS
      <4> QED BY ONLY <1>0, <2>2, <4>1, <4>2
    <3>2. CASE faults' = faults /\ attempts = Untried
      <4>1. m = n /\ tries = 0
        BY <2>1, <3>2 DEF Untried
      <4> QED BY <2>2, <4>1
    <3> QED BY <3>1, <3>2 DEF ForgetStep
  <2>4. signed'[id] = signed[id] /\ Len(attempts'[id]) = 0
    BY <1>2 DEF ForgetStep
  <2>5. signed'[id] <= MaxAttempts * faults' + Len(attempts'[id])
    BY <2>1, <2>2, <2>3, <2>4
  <2> QED BY <1>0, <1>2, <1>4, <2>4, <2>5 DEF Tried, InFlight
<1> QED BY <1>3, <1>4, <1>5 DEF DaemonInv

\* A delivery is tried.
TryStep(id) ==
  /\ daemon.at = "deliver" /\ submission = Void /\ id = Head(daemon.work)
  /\ id \notin handled /\ ~GivenUp(id)
  /\ DOMAIN submission' = SubmissionFields /\ UNCHANGED <<faults, worldOf, daemon, failed, handled>>
  /\ attempts' = [attempts EXCEPT ![id] = Append(@, daemon.now)]
  /\ signed' = [signed EXCEPT ![id] = @ + 1]

\* The limits say when.
LEMMA TryStepInv ==
  ASSUME VoidIsNoSubmission, DaemonInv, NEW id, TryStep(id)
  PROVE  DaemonInv'
<1>0. DaemonTypes /\ faults \in Nat /\ MaxAttempts \in Nat /\ RetryAfterBlocks \in Nat
  BY RetryLimits DEF DaemonInv, DaemonTypes, SubmissionIsOne
<1>1. SubmissionIsOne' /\ submission' # Void
  BY <1>0 DEF TryStep, SubmissionIsOne, VoidIsNoSubmission
<1>2. /\ attempts' \in [Hireable -> Seq(Int)] /\ signed' \in [Hireable -> Nat]
      /\ \A x \in Hireable \ {id} : attempts'[x] = attempts[x] /\ signed'[x] = signed[x]
      /\ id \in Hireable => /\ attempts'[id] = Append(attempts[id], daemon.now)
                            /\ signed'[id] = signed[id] + 1
  <2>1. /\ attempts \in [Hireable -> Seq(Int)] /\ signed \in [Hireable -> Nat]
        /\ daemon.now \in Int
    BY <1>0 DEF DaemonTypes
  <2>2. id \in Hireable => Append(attempts[id], daemon.now) \in Seq(Int)
    BY <2>1
  <2>3. attempts' = [attempts EXCEPT ![id] = Append(@, daemon.now)]
    BY DEF TryStep
  <2>4. signed' = [signed EXCEPT ![id] = @ + 1]
    BY DEF TryStep
  <2>5. /\ attempts' \in [Hireable -> Seq(Int)]
        /\ \A x \in Hireable \ {id} : attempts'[x] = attempts[x]
        /\ id \in Hireable => attempts'[id] = Append(attempts[id], daemon.now)
    BY <2>1, <2>2, <2>3
  <2>6. /\ signed' \in [Hireable -> Nat]
        /\ \A x \in Hireable \ {id} : signed'[x] = signed[x]
        /\ id \in Hireable => signed'[id] = signed[id] + 1
    <3>1. id \in Hireable => signed[id] + 1 \in Nat
      BY <2>1
    <3> QED BY ONLY <2>1, <2>4, <3>1
  <2> QED BY <2>5, <2>6
<1>3. DaemonTypes' /\ Phases'
  BY <1>0, <1>1, <1>2 DEF DaemonTypes, Phases, TryStep, worldOf, StartPhases
<1>4. ASSUME NEW x \in Hireable, x # id PROVE Tried(x)'
  <2>1. ~InFlight(x) /\ ~InFlight(x)'
    BY <1>4 DEF InFlight, TryStep
  <2>2. Tried(x) /\ attempts'[x] = attempts[x] /\ signed'[x] = signed[x]
        /\ UNCHANGED <<failed, handled, faults>>
    BY <1>2, <1>4 DEF DaemonInv, TryStep
  <2> QED BY <2>1, <2>2 DEF Tried
<1>5. ASSUME id \in Hireable PROVE Tried(id)'
  <2>0. /\ MaxAttempts * faults \in Nat /\ attempts[id] \in Seq(Int)
        /\ Len(attempts[id]) \in Nat /\ daemon.now \in Int
    <3>1. attempts[id] \in Seq(Int) /\ daemon.now \in Int
      BY <1>0, <1>5 DEF DaemonTypes
    <3> QED BY <1>0, <3>1, Allowance
  <2>1. PICK n \in Nat, tries \in Nat :
          n = MaxAttempts * faults /\ tries = Len(attempts[id])
    BY <2>0
  <2>2. /\ ~InFlight(id) /\ InFlight(id)' /\ Tried(id) /\ id \notin handled
        /\ failed[id].count < MaxAttempts /\ daemon.now >= failed[id].retryAt
        /\ failed[id].count \in Nat /\ failed[id].retryAt \in Int /\ daemon.now \in Int
    <3>1. failed[id] \in [count : Nat, retryAt : Int] /\ daemon.now \in Int
      BY <1>0, <1>5 DEF DaemonTypes
    <3>2. InFlight(id)' /\ ~InFlight(id)
      BY <1>1 DEF InFlight, TryStep
    <3> QED BY <1>0, <1>5, <3>1, <3>2 DEF TryStep, GivenUp, DaemonInv
  <2>3. /\ tries = failed[id].count
        /\ tries > 0 => attempts[id][tries] + RetryAfterBlocks <= failed[id].retryAt
        /\ signed[id] <= n + tries
        /\ \A i \in 2..tries : attempts[id][i] - attempts[id][i - 1] >= RetryAfterBlocks
    BY <2>1, <2>2 DEF Tried
  <2>4. /\ Len(attempts'[id]) = tries + 1
        /\ attempts'[id][tries + 1] = daemon.now
        /\ \A i \in 1..tries : attempts'[id][i] = attempts[id][i] /\ attempts[id][i] \in Int
    <3>1. attempts'[id] = Append(attempts[id], daemon.now) /\ tries = Len(attempts[id])
      BY <1>2, <1>5, <2>1
    <3> QED BY <2>0, <3>1
  <2>5. \A i \in 2..(tries + 1) : attempts'[id][i] - attempts'[id][i - 1] >= RetryAfterBlocks
    <3> SUFFICES ASSUME NEW i \in 2..(tries + 1)
                 PROVE  attempts'[id][i] - attempts'[id][i - 1] >= RetryAfterBlocks
      OBVIOUS
    <3>1. CASE i = tries + 1
      <4>1. i - 1 = tries /\ tries > 0 /\ attempts[id][tries] \in Int
            /\ attempts'[id][tries] = attempts[id][tries]
        BY <2>1, <2>4, <3>1
      <4>2. daemon.now - attempts[id][tries] >= RetryAfterBlocks
        BY <1>0, <2>2, <2>3, <4>1
      <4> QED BY <2>4, <3>1, <4>1, <4>2
    <3>2. CASE i # tries + 1
      <4>1. i \in 2..tries /\ i \in 1..tries /\ i - 1 \in 1..tries
        BY <2>1, <3>2
      <4> QED BY <2>3, <2>4, <4>1
    <3> QED BY <3>1, <3>2
  <2>6. tries + 1 <= MaxAttempts /\ tries + 1 = failed[id].count + 1
    BY <1>0, <2>1, <2>2, <2>3
  <2>7. signed'[id] <= MaxAttempts * faults + (tries + 1)
    <3>1. signed[id] \in Nat /\ signed'[id] = signed[id] + 1
      BY <1>0, <1>2, <1>5 DEF DaemonTypes
    <3> QED BY <2>1, <2>3, <3>1
  <2> QED BY <2>2, <2>4, <2>5, <2>6, <2>7 DEF Tried, TryStep
<1> QED BY <1>3, <1>4, <1>5 DEF DaemonInv

\* The answer to a delivery: done, or one failure more to remember.
JudgeStep(id) ==
  /\ daemon.at = "deliver" /\ submission # Void /\ id = Head(daemon.work)
  /\ submission' = Void /\ faults' \in {faults, faults + 1}
  /\ UNCHANGED <<worldOf, attempts, signed>>
  /\ DOMAIN daemon' = DaemonFields /\ daemon'.now = daemon.now /\ daemon'.at = daemon.at
  /\ \/ handled' = handled \cup {id} /\ failed' = [failed EXCEPT ![id] = NeverFailed]
     \/ handled' = handled /\ failed' = [failed EXCEPT ![id] = OneMore(id)]

\* What is remembered is again how often it was tried.
LEMMA JudgeStepInv ==
  ASSUME DaemonInv, NEW id, JudgeStep(id)
  PROVE  DaemonInv'
<1>0. DaemonTypes /\ faults \in Nat /\ MaxAttempts \in Nat /\ RetryAfterBlocks \in Nat
  BY RetryLimits DEF DaemonInv, DaemonTypes, SubmissionIsOne
<1>1. SubmissionIsOne' /\ faults' \in Nat /\ faults' >= faults
  BY <1>0 DEF JudgeStep, SubmissionIsOne
<1>2. /\ failed' \in [Hireable -> [count : Nat, retryAt : Int]]
      /\ \A x \in Hireable \ {id} : failed'[x] = failed[x]
  <2>1. failed \in [Hireable -> [count : Nat, retryAt : Int]] /\ daemon.now \in Int
    BY <1>0 DEF DaemonTypes
  <2>2. NeverFailed \in [count : Nat, retryAt : Int]
    BY DEF NeverFailed
  <2>3. id \in Hireable => OneMore(id) \in [count : Nat, retryAt : Int]
    BY <1>0, <2>1 DEF OneMore
  <2>4. \/ failed' = [failed EXCEPT ![id] = NeverFailed]
        \/ failed' = [failed EXCEPT ![id] = OneMore(id)]
    BY DEF JudgeStep
  <2> QED BY <2>1, <2>2, <2>3, <2>4
<1>3. DaemonTypes' /\ Phases'
  BY <1>0, <1>1, <1>2 DEF DaemonTypes, Phases, JudgeStep, worldOf, StartPhases
<1>4. \A x : ~InFlight(x)'
  BY DEF InFlight, JudgeStep
<1>5. ASSUME NEW x \in Hireable PROVE Tried(x)'
  <2>0. /\ MaxAttempts * faults \in Nat /\ MaxAttempts * faults' \in Nat
        /\ MaxAttempts * faults <= MaxAttempts * faults' /\ Len(attempts[x]) \in Nat
    <3>1. attempts[x] \in Seq(Int)
      BY <1>0 DEF DaemonTypes
    <3>2. Len(attempts[x]) \in Nat
      BY <3>1
    <3>3. /\ MaxAttempts * faults \in Nat /\ MaxAttempts * faults' \in Nat
          /\ MaxAttempts * faults <= MaxAttempts * faults'
      BY <1>0, <1>1, Allowance
    <3> QED BY <3>2, <3>3
  <2>1. PICK n \in Nat, m \in Nat, tries \in Nat :
          /\ n = MaxAttempts * faults /\ m = MaxAttempts * faults' /\ n <= m
          /\ tries = Len(attempts[x])
    BY ONLY <2>0
  <2>2. Tried(x) /\ signed[x] \in Nat
    BY <1>0 DEF DaemonInv, DaemonTypes
  <2>3. signed[x] <= m + tries
    BY <2>1, <2>2 DEF Tried
  <2>4. signed'[x] <= MaxAttempts * faults' + Len(attempts'[x])
    BY <2>1, <2>3 DEF JudgeStep
  <2>5. CASE x # id
    <3>1. ~InFlight(x) /\ failed'[x] = failed[x] /\ (x \in handled' <=> x \in handled)
      BY <1>2, <2>5 DEF InFlight, JudgeStep
    <3> QED BY <1>4, <2>2, <2>4, <3>1 DEF Tried, JudgeStep
  <2>6. CASE x = id
    <3>1. InFlight(x)
      BY <2>6 DEF InFlight, JudgeStep
    <3>2. /\ tries = failed[x].count + 1 /\ attempts[x][tries] = daemon.now
          /\ daemon.now \in Int /\ failed[x].count \in Nat
      <4>1. failed[x] \in [count : Nat, retryAt : Int] /\ daemon.now \in Int
        BY <1>0 DEF DaemonTypes
      <4> QED BY <2>1, <2>2, <3>1, <4>1 DEF Tried
    <3>3. x \notin handled' =>
            /\ tries = failed'[x].count
            /\ tries > 0 => attempts[x][tries] + RetryAfterBlocks <= failed'[x].retryAt
      <4>1. CASE x \in handled'
        BY <4>1
      <4>2. CASE x \notin handled'
        <5>1. failed'[x] = OneMore(x)
          BY <1>0, <2>6, <4>2 DEF JudgeStep, DaemonTypes
        <5> QED BY <1>0, <3>2, <5>1 DEF OneMore
      <4> QED BY <4>1, <4>2
    <3> QED BY <1>4, <2>1, <2>2, <2>4, <3>3 DEF Tried, JudgeStep
  <2> QED BY <2>5, <2>6
<1> QED BY <1>3, <1>5 DEF DaemonInv

\* What a process at a given point may become without touching a delivery.
Onward(new) ==
  /\ DOMAIN new = DaemonFields /\ new.now \in Int
  /\ new.at \in StartPhases => daemon.at \in StartPhases
  /\ new.at # "deliver"

\* It moves on.
LEMMA MovesAside ==
  ASSUME DaemonInv, submission = Void, NEW new, Moves(new),
         DOMAIN new = DaemonFields, new.now \in Int,
         new.at \in StartPhases => daemon.at \in StartPhases
  PROVE  AsideStep
BY DEF Moves, AsideStep, submissionVars, recall

\* It asks for a transaction.
LEMMA AsksAside ==
  ASSUME DaemonInv, NEW call, Asks(call, UNCHANGED <<attempts, signed>> /\ handled \subseteq handled'),
         daemon.at \notin {"deliver", "scan"}
  PROVE  AsideStep
<1>1. DOMAIN submission' = SubmissionFields
  BY DEF Asks, Submitted, SubmissionFields
<1>2. DOMAIN daemon = DaemonFields /\ daemon.now \in Int
  BY DEF DaemonInv, DaemonTypes
<1> QED BY <1>1, <1>2 DEF Asks, AsideStep

\* It takes an answer.
LEMMA TakesAside ==
  ASSUME DaemonInv, NEW answer, Takes(answer), UNCHANGED recall,
         Onward(daemon'), daemon.at # "deliver"
  PROVE  AsideStep
<1>1. submission' = Void /\ faults' \in {faults, faults + 1}
  BY DEF Takes
<1> QED BY <1>1 DEF Takes, AsideStep, Onward, recall

\* Where the process stands, and the field a step of it changes.
LEMMA DaemonAtFields ==
  ASSUME DaemonInv, NEW at
  PROVE  /\ DOMAIN DaemonAt(at) = DaemonFields
         /\ DaemonAt(at).now = daemon.now /\ DaemonAt(at).now \in Int
         /\ DaemonAt(at).at = at
BY DEF DaemonInv, DaemonTypes, DaemonAt, DaemonFields

StepInv == \/ AsideStep \/ ForgetStep \/ UNCHANGED daemonVars
           \/ \E id : TryStep(id) \/ JudgeStep(id)

\* Between two ticks and in them, the deliveries aside.
LEMMA TickSteps ==
  ASSUME DaemonInv, Tick
  PROVE  StepInv
<1>0. /\ DOMAIN daemon = DaemonFields /\ daemon.now \in Int
      /\ site.height \in Int /\ SubmissionIsOne
  BY DEF DaemonInv, DaemonTypes
<1>1. CASE TickBegins
  <2>1. PICK head \in (daemon.now + 1)..site.height :
          Moves([daemon EXCEPT !.at = "beat", !.now = head])
    BY <1>1 DEF TickBegins
  <2>2. PICK new : new = [daemon EXCEPT !.at = "beat", !.now = head]
    OBVIOUS
  <2>3. head \in Int
    BY <1>0
  <2>4. DOMAIN new = DaemonFields /\ new.now = head /\ new.at = "beat"
    BY <1>0, <2>2 DEF DaemonFields
  <2>5. /\ UNCHANGED <<worldOf, recall, submission, faults>> /\ daemon' = new
    BY <2>1, <2>2 DEF Moves, submissionVars
  <2> QED BY <1>1, <2>3, <2>4, <2>5 DEF AsideStep, recall, StepInv, TickBegins, StartPhases
<1>2. CASE BeatOrNot
  <2>1. CASE AsksPlain("heartbeat", Void)
    BY <1>2, <2>1, AsksAside DEF BeatOrNot, AsksPlain, Asks, StepInv
  <2>2. CASE Moves(DaemonAt("scan"))
    BY <1>2, <2>2, MovesAside, DaemonAtFields DEF BeatOrNot, Awaits, StepInv, StartPhases
  <2> QED BY <1>2, <2>1, <2>2 DEF BeatOrNot
<1>3. CASE BeatAnswered
  <2>1. PICK answer \in Answers :
          /\ Takes(answer) /\ UNCHANGED recall
          /\ daemon' = IF answer # Void THEN DaemonAt("watching")
                       ELSE [daemon EXCEPT !.at = "scan", !.lastBeat = daemon.now]
    BY <1>3 DEF BeatAnswered
  <2>2. PICK new : new = [daemon EXCEPT !.at = "scan", !.lastBeat = daemon.now]
    OBVIOUS
  <2>3. DOMAIN new = DaemonFields /\ new.now = daemon.now /\ new.at = "scan"
    BY <1>0, <2>2 DEF DaemonFields
  <2>4. Onward(daemon')
    BY <1>0, <2>1, <2>2, <2>3, DaemonAtFields DEF Onward, StartPhases
  <2> QED BY <1>3, <2>1, <2>4, TakesAside DEF BeatAnswered, StepInv
<1>4. CASE ScansDeals
  <2>1. PICK work, toConfirm :
          Moves([daemon EXCEPT !.at = "deliver", !.work = work, !.toConfirm = toConfirm])
    BY <1>4 DEF ScansDeals
  <2>2. PICK new :
          new = [daemon EXCEPT !.at = "deliver", !.work = work, !.toConfirm = toConfirm]
    OBVIOUS
  <2>3. DOMAIN new = DaemonFields /\ new.now = daemon.now /\ new.at = "deliver"
    BY <1>0, <2>2 DEF DaemonFields
  <2>4. submission = Void
    BY <1>4 DEF DaemonInv, Phases, ScansDeals
  <2> QED BY <1>0, <2>1, <2>2, <2>3, <2>4, MovesAside DEF StepInv, StartPhases
<1>5. CASE NextDelivery
  <2>1. CASE Moves(DaemonAt("confirm"))
    BY <1>5, <2>1, MovesAside, DaemonAtFields DEF NextDelivery, Awaits, StepInv, StartPhases
  <2>2. CASE Moves([daemon EXCEPT !.work = Tail(@)])
    <3>1. PICK new : new = [daemon EXCEPT !.work = Tail(@)]
      OBVIOUS
    <3>2. DOMAIN new = DaemonFields /\ new.now = daemon.now /\ new.at = daemon.at
      BY <1>0, <3>1 DEF DaemonFields
    <3> QED BY <1>0, <1>5, <2>2, <3>1, <3>2, MovesAside DEF NextDelivery, Awaits, StepInv
  <2>3. CASE TryStep(Head(daemon.work))
    BY <2>3 DEF StepInv
  <2>4. ASSUME ~Moves(DaemonAt("confirm")), ~Moves([daemon EXCEPT !.work = Tail(@)])
        PROVE  TryStep(Head(daemon.work))
    <3>1. PICK id : id = Head(daemon.work)
      OBVIOUS
    <3>2. /\ id \notin handled /\ ~GivenUp(id) /\ daemon.at = "deliver" /\ submission = Void
          /\ Asks(Call("deliver", id),
                  /\ attempts' = [attempts EXCEPT ![id] = Append(@, daemon.now)]
                  /\ signed' = [signed EXCEPT ![id] = @ + 1]
                  /\ UNCHANGED handled)
      BY <1>5, <2>4, <3>1 DEF NextDelivery, Awaits
    <3>3. DOMAIN submission' = SubmissionFields
      BY <3>2 DEF Asks, Submitted, SubmissionFields
    <3> QED BY <3>1, <3>2, <3>3 DEF Asks, TryStep
  <2> QED BY <2>1, <2>2, <2>3, <2>4
<1>6. CASE DeliveryAnswered
  <2>0. PICK id : id = Head(daemon.work)
    OBVIOUS
  <2>1. PICK answer \in Answers :
          /\ Takes(answer)
          /\ daemon' = [daemon EXCEPT !.work = Tail(@)]
          /\ handled' = IF answer = Void THEN handled \cup {id} ELSE handled
          /\ failed' = [failed EXCEPT ![id] = IF answer = Void THEN NeverFailed ELSE OneMore(id)]
          /\ UNCHANGED <<attempts, signed>>
    BY <1>6, <2>0 DEF DeliveryAnswered
  <2>2. /\ submission # Void /\ submission' = Void /\ faults' \in {faults, faults + 1}
        /\ UNCHANGED worldOf
    BY <2>1 DEF Takes, Answers, IsSettled
  <2>3. DOMAIN daemon' = DaemonFields /\ daemon'.now = daemon.now /\ daemon'.at = daemon.at
    <3>1. daemon' = [daemon EXCEPT !.work = Tail(@)]
      BY <2>1
    <3> QED BY <1>0, <3>1 DEF DaemonFields
  <2>4. \/ handled' = handled \cup {id} /\ failed' = [failed EXCEPT ![id] = NeverFailed]
        \/ handled' = handled /\ failed' = [failed EXCEPT ![id] = OneMore(id)]
    BY <2>1
  <2>5. JudgeStep(id)
    BY <1>6, <2>0, <2>1, <2>2, <2>3, <2>4 DEF JudgeStep, DeliveryAnswered
  <2> QED BY <2>5 DEF StepInv
<1>7. CASE NextConfirmation
  <2>0. daemon.at = "confirm" /\ submission = Void
    BY <1>7 DEF NextConfirmation, Awaits
  <2>1. CASE \E at \in {"claim", "watching"} : Moves(DaemonAt(at))
    BY <2>0, <2>1, MovesAside, DaemonAtFields DEF StepInv, StartPhases
  <2>2. CASE Moves([daemon EXCEPT !.toConfirm = Tail(@)])
    <3>1. PICK new : new = [daemon EXCEPT !.toConfirm = Tail(@)]
      OBVIOUS
    <3>2. DOMAIN new = DaemonFields /\ new.now = daemon.now /\ new.at = daemon.at
      BY <1>0, <3>1 DEF DaemonFields
    <3> QED BY <1>0, <2>0, <2>2, <3>1, <3>2, MovesAside DEF StepInv
  <2>3. ASSUME NEW id, Asks(Call("confirm", id),
                            handled' = handled \cup {id} /\ UNCHANGED <<attempts, signed>>)
        PROVE  AsideStep
    BY <2>0, <2>3, AsksAside DEF Asks
  <2> QED BY <1>7, <2>1, <2>2, <2>3 DEF NextConfirmation, StepInv
<1>8. CASE ConfirmationAnswered
  <2>1. PICK answer \in Answers :
          /\ Takes(answer) /\ UNCHANGED recall
          /\ daemon' = IF answer # Void THEN DaemonAt("watching")
                       ELSE [daemon EXCEPT !.toConfirm = Tail(@)]
    BY <1>8 DEF ConfirmationAnswered
  <2>2. PICK new : new = [daemon EXCEPT !.toConfirm = Tail(@)]
    OBVIOUS
  <2>3. DOMAIN new = DaemonFields /\ new.now = daemon.now /\ new.at = daemon.at
    BY <1>0, <2>2 DEF DaemonFields
  <2>4. Onward(daemon')
    BY <1>0, <1>8, <2>1, <2>2, <2>3, DaemonAtFields DEF Onward, StartPhases, ConfirmationAnswered
  <2> QED BY <1>8, <2>1, <2>4, TakesAside DEF ConfirmationAnswered, StepInv
<1>9. CASE ClaimOrNot
  <2>1. CASE Moves(DaemonAt("watching"))
    BY <1>9, <2>1, MovesAside, DaemonAtFields DEF ClaimOrNot, Awaits, StepInv, StartPhases
  <2>2. CASE Moves([daemon EXCEPT !.seenEra = site.era, !.at = "pending"])
    <3>1. PICK new : new = [daemon EXCEPT !.seenEra = site.era, !.at = "pending"]
      OBVIOUS
    <3>2. DOMAIN new = DaemonFields /\ new.now = daemon.now /\ new.at = "pending"
      BY <1>0, <3>1 DEF DaemonFields
    <3> QED BY <1>0, <1>9, <2>2, <3>1, <3>2, MovesAside DEF ClaimOrNot, Awaits, StepInv, StartPhases
  <2> QED BY <1>9, <2>1, <2>2 DEF ClaimOrNot
<1>10. CASE Claims
  <2>1. CASE AsksPlain("claim", Void)
    BY <1>10, <2>1, AsksAside DEF Claims, AsksPlain, Asks, StepInv
  <2>2. CASE Moves(DaemonAt("watching"))
    BY <1>10, <2>2, MovesAside, DaemonAtFields DEF Claims, Awaits, StepInv, StartPhases
  <2> QED BY <1>10, <2>1, <2>2 DEF Claims
<1>11. CASE ClaimAnswered
  <2>1. Onward(daemon')
    BY <1>11, DaemonAtFields DEF ClaimAnswered, Onward, StartPhases
  <2> QED BY <1>11, <2>1, TakesAside DEF ClaimAnswered, StepInv
<1> QED BY <1>1, <1>2, <1>3, <1>4, <1>5, <1>6, <1>7, <1>8, <1>9, <1>10, <1>11 DEF Tick

\* The start of a process, and its end.
LEMMA LifeSteps ==
  ASSUME DaemonInv, Boots \/ StartGoesOn \/ StartAnswered \/ DaemonReadFails \/ DaemonDies
  PROVE  StepInv
<1>0. /\ DOMAIN daemon = DaemonFields /\ daemon.now \in Int
      /\ site.height \in Int /\ SubmissionIsOne
      /\ daemon.at \in StartPhases => attempts = Untried
  BY DEF DaemonInv, DaemonTypes, Phases
<1>1. CASE Boots
  <2>1. Moves(DaemonAt("register")) /\ daemon.at = "down"
    BY <1>1 DEF Boots
  <2>2. PICK new : new = DaemonAt("register")
    OBVIOUS
  <2>3. DOMAIN new = DaemonFields /\ new.now \in Int /\ new.at = "register"
    BY <2>2, DaemonAtFields
  <2>4. /\ UNCHANGED <<worldOf, recall, submission, faults>> /\ daemon' = new
    BY <2>1, <2>2 DEF Moves, submissionVars
  <2> QED BY <2>1, <2>3, <2>4 DEF AsideStep, recall, StepInv, StartPhases
<1>2. CASE StartGoesOn
  <2>0. submission = Void
    BY <1>2 DEF StartGoesOn, Awaits
  <2>1. ASSUME NEW at \in {"beatNow", "era"}, Moves(DaemonAt(at)), daemon.at \in StartPhases
        PROVE  AsideStep
    BY <2>0, <2>1, MovesAside, DaemonAtFields
  <2>2. ASSUME NEW kind, NEW id, AsksPlain(kind, id), daemon.at \in StartPhases
        PROVE  AsideStep
    BY <2>2, AsksAside DEF AsksPlain, Asks, StartPhases
  <2>3. CASE daemon.at = "register"
    <3>1. CASE Forgets /\ UNCHANGED faults
      BY <1>0, <2>3, <3>1 DEF Forgets, ForgetStep, StepInv, StartPhases
    <3> QED BY <1>2, <2>1, <2>2, <2>3, <3>1 DEF StartGoesOn, StartPhases, StepInv
  <2>4. CASE daemon.at = "missing"
    <3>1. PICK missing : \E at \in {"name", "publish"} :
            Moves([daemon EXCEPT !.toPublish = missing, !.lastBeat = site.height, !.at = at])
      BY <1>2, <2>4 DEF StartGoesOn
    <3> PICK at \in {"name", "publish"} :
          Moves([daemon EXCEPT !.toPublish = missing, !.lastBeat = site.height, !.at = at])
      BY <3>1
    <3>2. PICK new :
            new = [daemon EXCEPT !.toPublish = missing, !.lastBeat = site.height, !.at = at]
      OBVIOUS
    <3>3. DOMAIN new = DaemonFields /\ new.now = daemon.now /\ new.at = at
      BY <1>0, <3>2 DEF DaemonFields
    <3> QED BY <1>0, <2>0, <2>4, <3>1, <3>2, <3>3, MovesAside DEF StepInv, StartPhases
  <2>5. CASE daemon.at = "era"
    <3>1. Moves([daemon EXCEPT !.at = "watching", !.seenEra = site.era, !.now = site.height])
      BY <1>2, <2>5 DEF StartGoesOn
    <3>2. PICK new :
            new = [daemon EXCEPT !.at = "watching", !.seenEra = site.era, !.now = site.height]
      OBVIOUS
    <3>3. DOMAIN new = DaemonFields /\ new.now = site.height /\ new.at = "watching"
      BY <1>0, <3>2 DEF DaemonFields
    <3> QED BY <1>0, <2>0, <2>5, <3>1, <3>2, <3>3, MovesAside DEF StepInv, StartPhases
  <2> QED BY <1>2, <2>1, <2>2, <2>3, <2>4, <2>5 DEF StartGoesOn, StartPhases, StepInv
<1>3. CASE StartAnswered
  <2>0. daemon.at \in {"register", "beatNow", "missing", "name", "publish", "era"}
    BY <1>3 DEF StartAnswered, StartOrder, ToSet
  <2>1. PICK answer \in Answers :
          /\ Takes(answer)
          /\ \/ /\ daemon' = Down /\ handled' = {} /\ failed' = Clean
                /\ attempts' = Untried /\ UNCHANGED signed
             \/ /\ UNCHANGED recall
                /\ \/ \E at \in {"beatNow", "missing", "publish"} : daemon' = DaemonAt(at)
                   \/ \E toPublish : daemon' = [daemon EXCEPT !.toPublish = toPublish]
    <3>1. PICK answer \in Answers :
            /\ Takes(answer)
            /\ IF answer # Void
               THEN /\ daemon' = Down /\ handled' = {} /\ failed' = Clean
                    /\ attempts' = Untried /\ UNCHANGED signed
               ELSE /\ UNCHANGED recall
                    /\ daemon' = CASE daemon.at = "register" -> DaemonAt("beatNow")
                                   [] daemon.at = "beatNow"  -> DaemonAt("missing")
                                   [] daemon.at = "name"     -> DaemonAt("publish")
                                   [] OTHER -> [daemon EXCEPT !.toPublish = @ \ {submission.call.id}]
      BY <1>3 DEF StartAnswered
    <3> QED BY <3>1
  <2>2. faults' = faults \/ faults' = faults + 1
    BY <2>1 DEF Takes
  <2>3. CASE daemon' = Down /\ handled' = {} /\ failed' = Clean
             /\ attempts' = Untried /\ UNCHANGED signed
    BY <1>0, <2>0, <2>1, <2>2, <2>3 DEF Takes, ForgetStep, StepInv, StartPhases
  <2>4. ASSUME NEW at \in {"beatNow", "missing", "publish"}, daemon' = DaemonAt(at),
               UNCHANGED recall
        PROVE  AsideStep
    <3>1. Onward(daemon')
      BY <2>0, <2>4, DaemonAtFields DEF Onward, StartPhases
    <3> QED BY <2>0, <2>1, <2>4, <3>1, TakesAside
  <2>5. ASSUME NEW toPublish, daemon' = [daemon EXCEPT !.toPublish = toPublish],
               UNCHANGED recall
        PROVE  AsideStep
    <3>1. PICK new : new = [daemon EXCEPT !.toPublish = toPublish]
      OBVIOUS
    <3>2. DOMAIN new = DaemonFields /\ new.now = daemon.now /\ new.at = daemon.at
      BY <1>0, <3>1 DEF DaemonFields
    <3>3. Onward(daemon')
      BY <1>0, <2>0, <2>5, <3>1, <3>2 DEF Onward, StartPhases
    <3> QED BY <2>0, <2>1, <2>5, <3>3, TakesAside
  <2> QED BY <2>1, <2>3, <2>4, <2>5 DEF StepInv
<1>4. CASE DaemonReadFails
  <2>1. faults' = faults + 1 /\ submission = Void
    BY <1>4 DEF DaemonReadFails, Awaits
  <2>2. CASE Forgets
    BY <2>1, <2>2 DEF Forgets, ForgetStep, StepInv
  <2>3. CASE /\ daemon.at \in {"scan", "claim", "pending"} /\ daemon' = DaemonAt("watching")
             /\ UNCHANGED <<nonce, txPool, submission, worldOf, recall>>
    <3>1. /\ DOMAIN daemon' = DaemonFields /\ daemon'.now \in Int /\ daemon'.at = "watching"
      BY <2>3, DaemonAtFields
    <3> QED BY <2>1, <2>3, <3>1 DEF AsideStep, StepInv, recall, StartPhases
  <2> QED BY <1>4, <2>2, <2>3 DEF DaemonReadFails
<1>5. CASE DaemonDies
  BY <1>5 DEF DaemonDies, Forgets, ForgetStep, StepInv
<1> QED BY <1>1, <1>2, <1>3, <1>4, <1>5

\* Every step of the daemon's world keeps the invariant.
LEMMA DaemonStep ==
  ASSUME VoidIsNoSubmission, DaemonInv, [DaemonNext]_daemonVars
  PROVE  DaemonInv'
<1>1. WorldStep \/ StepInv
  <2>1. CASE Tick
    BY <2>1, TickSteps
  <2>2. CASE Boots \/ StartGoesOn \/ StartAnswered \/ DaemonReadFails \/ DaemonDies
    BY <2>2, LifeSteps
  <2>3. CASE \/ \E tx \in txPool : DaemonTxLands(tx) \/ DaemonTxDrops(tx)
             \/ SiteReorg \/ OthersAct \/ DaemonSends
    BY <2>3 DEF WorldStep
  <2>4. CASE UNCHANGED daemonVars
    BY <2>4 DEF StepInv
  <2> QED BY <2>1, <2>2, <2>3, <2>4 DEF DaemonNext, OthersAct
<1>2. CASE WorldStep
  BY <1>2, WorldStepInv
<1>3. CASE AsideStep
  BY <1>3, AsideStepInv
<1>4. CASE ForgetStep
  BY <1>4, ForgetStepInv
<1>5. ASSUME NEW id, TryStep(id) PROVE DaemonInv'
  BY <1>5, TryStepInv
<1>6. ASSUME NEW id, JudgeStep(id) PROVE DaemonInv'
  BY <1>6, JudgeStepInv
<1>7. CASE UNCHANGED daemonVars
  <2>1. DaemonTypes' /\ Phases'
    BY <1>7 DEF DaemonInv, DaemonTypes, SubmissionIsOne, Phases, daemonVars, daemonOwn,
                submissionVars
  <2>2. ASSUME NEW id \in Hireable PROVE Tried(id)'
    BY <1>7 DEF DaemonInv, Tried, InFlight, daemonVars, daemonOwn, submissionVars
  <2> QED BY <2>1, <2>2 DEF DaemonInv
<1> QED BY <1>1, <1>2, <1>3, <1>4, <1>5, <1>6, <1>7 DEF StepInv

\* The first process has tried nothing.
LEMMA DaemonStart ==
  ASSUME DaemonInit
  PROVE  DaemonInv
<1>1. /\ submission = Void /\ faults = 0 /\ siteUndo = Void /\ daemon = Down
      /\ attempts = Untried /\ failed = Clean /\ signed = [id \in Hireable |-> 0]
      /\ "height" \in DOMAIN site /\ site.height = 1 /\ MaxAttempts \in Nat
  BY RetryLimits DEF DaemonInit, SubmissionInit
<1>2. DaemonTypes
  BY <1>1 DEF DaemonTypes, SubmissionIsOne, Down, DaemonFields, Untried, Clean, NeverFailed
<1>3. Phases
  BY <1>1 DEF Phases
<1>4. ASSUME NEW id \in Hireable PROVE Tried(id)
  <2>1. /\ Len(attempts[id]) = 0 /\ failed[id].count = 0 /\ signed[id] = 0
        /\ MaxAttempts * faults = 0 /\ ~InFlight(id)
    BY <1>1 DEF Untried, Clean, NeverFailed, InFlight
  <2> QED BY <1>1, <2>1 DEF Tried
<1> QED BY <1>2, <1>3, <1>4 DEF DaemonInv

\* The reference daemon (agent.ts, MAX_ATTEMPTS) tries a delivery MAX_ATTEMPTS
\* times at most and RETRY_AFTER_BLOCKS apart, for any agreements, limits and
\* start: a lost answer, a refusal, a block given up or a failed read never
\* resets the count, and a death of the process, which does, is paid for by
\* the fault that killed it.
THEOREM AttemptsStayBounded ==
  ASSUME VoidIsNoSubmission
  PROVE  DaemonSpec => []AttemptsAreBounded
<1>1. DaemonInit => DaemonInv
  BY DaemonStart
<1>2. DaemonInv /\ [DaemonNext]_daemonVars => DaemonInv'
  BY DaemonStep
<1> QED BY <1>1, <1>2, DaemonInvBounds, PTL DEF DaemonSpec

-----------------------------------------------------------------------------
(* The operator's agent: the agreements it opens.                          *)

Kinds == {"register", "heartbeat", "metadata", "key", "accept", "deliver", "confirm", "create", "claim"}

One(condition) == IF condition THEN 1 ELSE 0

\* What a set of transactions would open.
Creates(S) == {tx \in S : tx.call.kind = "create"}

\* The submission under way opens an agreement: it is about to be sent, or its
\* transaction is in the pool.
Opening == submission # Void /\ submission.call.kind = "create"
ToSend  == Opening /\ submission.stage = "signing"
OnItsWay == Opening /\ submission.stage = "watching"

OwnTx == [nonce |-> submission.nonce, call |-> submission.call]

Nonces == 0..(NonceCycle - 1)

PoolInv ==
  /\ SubmissionIsOne
  /\ nonce \in Nonces /\ IsFiniteSet(txPool)
  /\ \A tx \in txPool : tx.nonce \in Nonces /\ tx.call.kind \in Kinds
  /\ \A tx, other \in txPool : tx.nonce = other.nonce => tx = other
  /\ submission # Void => submission.call.kind \in Kinds
  /\ Opening => ~submission.direct
  /\ OnItsWay => OwnTx \in txPool

\* What may still be opened without another decision.
StillToOpen == Cardinality(Creates(txPool)) + One(ToSend)

\* The next nonce is another one.
LEMMA NonceSteps ==
  ASSUME NEW n \in Nonces
  PROVE  (n + 1) % NonceCycle \in Nonces /\ (n + 1) % NonceCycle # n
<1>1. CASE n + 1 < NonceCycle
  BY <1>1, NoncesAreTold DEF Nonces
<1>2. CASE n + 1 = NonceCycle
  BY <1>2, NoncesAreTold DEF Nonces
<1> QED BY <1>1, <1>2, NoncesAreTold DEF Nonces

\* Adding and taking one.
LEMMA OpensCount ==
  ASSUME NEW S, IsFiniteSet(S), NEW tx
  PROVE  /\ IsFiniteSet(S \cup {tx}) /\ IsFiniteSet(S \ {tx})
         /\ Cardinality(Creates(S)) \in Nat
         /\ Cardinality(Creates(S \cup {tx})) \in Nat
         /\ Cardinality(Creates(S \ {tx})) \in Nat
         /\ Cardinality(Creates(S \cup {tx})) <= Cardinality(Creates(S)) + One(tx.call.kind = "create")
         /\ tx \in S => Cardinality(Creates(S \ {tx})) + One(tx.call.kind = "create") = Cardinality(Creates(S))
         /\ Cardinality(Creates(S \ {tx})) <= Cardinality(Creates(S))
<1>1. IsFiniteSet(S \cup {tx}) /\ IsFiniteSet(S \ {tx})
  BY FS_AddElement, FS_RemoveElement
<1>2. IsFiniteSet(Creates(S)) /\ Cardinality(Creates(S)) \in Nat
  <2>1. Creates(S) \in SUBSET S
    BY DEF Creates
  <2> QED BY <2>1, FS_Subset, FS_CardinalityType
<1>3. CASE tx.call.kind = "create"
  <2>1. /\ Creates(S \cup {tx}) = Creates(S) \cup {tx} /\ Creates(S \ {tx}) = Creates(S) \ {tx}
        /\ tx \in S => tx \in Creates(S)
    BY <1>3 DEF Creates
  <2>2. /\ Cardinality(Creates(S) \cup {tx}) =
             IF tx \in Creates(S) THEN Cardinality(Creates(S)) ELSE Cardinality(Creates(S)) + 1
        /\ Cardinality(Creates(S) \ {tx}) =
             IF tx \in Creates(S) THEN Cardinality(Creates(S)) - 1 ELSE Cardinality(Creates(S))
        /\ IsFiniteSet(Creates(S) \ {tx})
    BY <1>2, FS_AddElement, FS_RemoveElement
  <2>3. Cardinality(Creates(S) \ {tx}) \in Nat
    BY <2>2, FS_CardinalityType
  <2>4. One(tx.call.kind = "create") = 1
    BY <1>3 DEF One
  <2>5. PICK n \in Nat : n = Cardinality(Creates(S))
    BY <1>2
  <2>6. /\ Cardinality(Creates(S \cup {tx})) = IF tx \in Creates(S) THEN n ELSE n + 1
        /\ Cardinality(Creates(S \ {tx})) = IF tx \in Creates(S) THEN n - 1 ELSE n
    BY <2>1, <2>2, <2>5
  <2>7. tx \in Creates(S) => n - 1 \in Nat
    BY <2>1, <2>3, <2>6
  <2> QED BY <1>1, <2>1, <2>4, <2>5, <2>6, <2>7
<1>4. CASE tx.call.kind # "create"
  <2>1. Creates(S \cup {tx}) = Creates(S) /\ Creates(S \ {tx}) = Creates(S)
    BY <1>4 DEF Creates
  <2> QED BY <1>1, <1>2, <1>4, <2>1 DEF One
<1> QED BY <1>3, <1>4

\* A submission that fails goes on with the same call, to be sent again, or is
\* settled.
LEMMA FailedFields ==
  ASSUME VoidIsNoSubmission, PoolInv, submission # Void, NEW new,
         \E error : new = Failed(error) \/ new = Settled(error)
  PROVE  /\ DOMAIN new = SubmissionFields /\ new # Void
         /\ new.call = submission.call /\ new.direct = submission.direct
         /\ new.stage \in {"signing", "settled"}
<1>1. DOMAIN submission = SubmissionFields
  BY DEF PoolInv, SubmissionIsOne
<1>2. PICK error : new = Failed(error) \/ new = Settled(error)
  OBVIOUS
<1>3. CASE new = Settled(error)
  BY <1>1, <1>3 DEF Settled, SubmissionFields, VoidIsNoSubmission
<1>4. CASE new = [submission EXCEPT !.stage = "signing", !.attempt = @ + 1]
  BY <1>1, <1>4 DEF SubmissionFields, VoidIsNoSubmission
<1> QED BY <1>2, <1>3, <1>4 DEF Failed

\* A step opens what it opens, and whatever else may still be opened after it
\* and could not before is the mark of a fault; so is a transaction that is
\* left in the pool without a submission.
Accounts(opened) ==
  /\ StillToOpen' + opened + faults <= StillToOpen + faults'
  /\ Cardinality(Creates(txPool')) + One(OnItsWay) + faults
       <= Cardinality(Creates(txPool)) + One(OnItsWay') + faults'

\* A submission is sent, or fails to be.
LEMMA SendAccounts ==
  ASSUME VoidIsNoSubmission, PoolInv, SendStep
  PROVE  /\ PoolInv' /\ Accounts(0) /\ nonce' = nonce /\ (Opening' <=> Opening)
         /\ \A tx \in txPool' : tx \in txPool \/ tx.nonce = nonce
<1>0. /\ submission # Void /\ submission.stage = "signing" /\ nonce' = nonce
      /\ DOMAIN submission = SubmissionFields /\ faults \in Nat /\ IsFiniteSet(txPool)
      /\ faults' \in Nat /\ nonce \in Nonces
  BY DEF SendStep, SignAndSend, PoolRefuses, SendIsLost, Signing, PoolInv, SubmissionIsOne
<1>1. /\ Signed.nonce = nonce /\ Signed.call = submission.call
      /\ Signed.call.kind \in Kinds
  BY <1>0 DEF Signed, PoolInv
<1>2. CASE SignAndSend
  <2>1. PICK new : new = [submission EXCEPT !.stage = "watching", !.nonce = nonce]
    OBVIOUS
  <2>2. /\ DOMAIN new = SubmissionFields /\ new.call = submission.call
        /\ new.direct = submission.direct /\ new.stage = "watching" /\ new.nonce = nonce
    BY <1>0, <2>1 DEF SubmissionFields
  <2>3. /\ submission' = new /\ new # Void /\ txPool' = txPool \cup {Signed} /\ faults' = faults
        /\ \A tx \in txPool : tx.nonce # nonce
    BY <1>2, <2>1, <2>2 DEF SignAndSend, Occupied, VoidIsNoSubmission
  <2>4. IsFiniteSet(txPool') /\ Signed \notin txPool
    BY <1>0, <1>1, <2>3, OpensCount
  <2>5. (Opening' <=> Opening) /\ (OnItsWay' <=> Opening) /\ ~ToSend' /\ (ToSend <=> Opening) /\ ~OnItsWay
    BY <1>0, <2>2, <2>3 DEF Opening, OnItsWay, ToSend
  <2>6. PoolInv'
    <3>1. OnItsWay' => OwnTx' \in txPool'
      BY <1>0, <2>2, <2>3 DEF OwnTx, Signed
    <3> QED BY <1>0, <1>1, <2>2, <2>3, <2>4, <2>5, <3>1 DEF PoolInv, SubmissionIsOne, Opening
  <2>7. Accounts(0)
    <3>1. /\ Cardinality(Creates(txPool)) \in Nat /\ Cardinality(Creates(txPool')) \in Nat
          /\ Cardinality(Creates(txPool')) <= Cardinality(Creates(txPool)) + One(Signed.call.kind = "create")
      BY <1>0, <2>3, OpensCount
    <3>2. (Signed.call.kind = "create") <=> Opening
      BY <1>0, <1>1 DEF Opening
    <3> QED BY <1>0, <2>3, <2>5, <3>1, <3>2 DEF Accounts, StillToOpen, One
  <2> QED BY <1>0, <1>1, <2>3, <2>5, <2>6, <2>7
<1>3. CASE PoolRefuses \/ SendIsLost
  <2>1. /\ submission' = Failed("transport")
        /\ \/ txPool' = txPool /\ faults' = faults
           \/ /\ txPool' \in {txPool, txPool \cup {Signed}} /\ faults' = faults + 1
              /\ \A tx \in txPool : tx.nonce # nonce
    BY <1>3 DEF PoolRefuses, SendIsLost, Occupied
  <2>2. PICK new : new = submission'
    OBVIOUS
  <2>3. /\ DOMAIN new = SubmissionFields /\ new # Void /\ new.call = submission.call
        /\ new.direct = submission.direct /\ new.stage \in {"signing", "settled"}
    BY <1>0, <2>1, <2>2, FailedFields
  <2>4. (Opening' <=> Opening) /\ ~OnItsWay' /\ (ToSend <=> Opening) /\ ~OnItsWay
    BY <1>0, <2>2, <2>3 DEF Opening, OnItsWay, ToSend
  <2>5. PICK n \in Nat, m \in Nat :
          /\ n = Cardinality(Creates(txPool)) /\ m = Cardinality(Creates(txPool \cup {Signed}))
          /\ m <= n + One(Signed.call.kind = "create")
    BY <1>0, OpensCount
  <2>6. IsFiniteSet(txPool')
    BY <1>0, <2>1, OpensCount
  <2>7. PoolInv'
    <3>1. /\ submission'.call.kind \in Kinds /\ (Opening' => ~submission'.direct)
          /\ SubmissionIsOne'
      BY <1>0, <2>2, <2>3, <2>4 DEF PoolInv, SubmissionIsOne, Opening
    <3>2. /\ \A tx \in txPool' : tx.nonce \in Nonces /\ tx.call.kind \in Kinds
          /\ \A tx, other \in txPool' : tx.nonce = other.nonce => tx = other
      BY <1>0, <1>1, <2>1 DEF PoolInv
    <3> QED BY <1>0, <2>4, <2>6, <3>1, <3>2 DEF PoolInv
  <2>8. Accounts(0)
    <3>1. /\ One(ToSend') \in {0, 1} /\ One(ToSend') <= One(ToSend) /\ One(ToSend) \in {0, 1}
          /\ One(OnItsWay) = 0 /\ One(OnItsWay') = 0
          /\ One(Signed.call.kind = "create") \in {0, 1}
      BY <2>4 DEF One, ToSend
    <3>2. \/ Cardinality(Creates(txPool')) = n /\ faults' = faults
          \/ /\ faults' = faults + 1
             /\ Cardinality(Creates(txPool')) = n \/ Cardinality(Creates(txPool')) = m
      BY <2>1, <2>5
    <3> QED BY <1>0, <2>5, <3>1, <3>2 DEF Accounts, StillToOpen
  <2> QED BY <1>0, <1>1, <2>1, <2>4, <2>7, <2>8
<1> QED BY <1>2, <1>3 DEF SendStep

\* A transaction leaves the pool, included or not, and the submission that
\* watched it hears of it.
LEMMA LeavesAccounts ==
  ASSUME VoidIsNoSubmission, PoolInv, NEW tx \in txPool, NEW opened \in {0, 1},
         txPool' = txPool \ {tx}, nonce' \in Nonces, faults' \in Nat, faults' >= faults,
         opened = 1 => tx.call.kind = "create",
         \/ /\ submission' = submission
            /\ OnItsWay => ~Watches(tx)
         \/ /\ Watches(tx)
            /\ \E error : submission' = Settled(error) \/ submission' = Failed(error)
            /\ opened = 1 => submission' = Settled(Void)
  PROVE  PoolInv' /\ Accounts(opened) /\ (Opening' <=> Opening)
<1>0. /\ faults \in Nat /\ IsFiniteSet(txPool)
  BY DEF PoolInv, SubmissionIsOne
<1>1. PICK n \in Nat, m \in Nat :
        /\ n = Cardinality(Creates(txPool)) /\ m = Cardinality(Creates(txPool'))
        /\ m + One(tx.call.kind = "create") = n
  BY <1>0, OpensCount
<1>2. IsFiniteSet(txPool')
  BY <1>0, OpensCount
<1>3. CASE submission' = submission /\ (OnItsWay => ~Watches(tx))
  <2>1. /\ Opening' <=> Opening
        /\ OnItsWay' <=> OnItsWay
        /\ ToSend' <=> ToSend
        /\ OwnTx' = OwnTx
    BY <1>3 DEF Opening, OnItsWay, ToSend, OwnTx
  <2>2. OnItsWay => tx # OwnTx
    BY <1>3 DEF OnItsWay, Opening, Watches, Watching, OwnTx
  <2>3. PoolInv'
    BY <1>0, <1>2, <1>3, <2>1, <2>2 DEF PoolInv, SubmissionIsOne
  <2>4. m + opened <= n
    BY <1>1 DEF One
  <2>5. Accounts(opened)
    <3>1. One(ToSend') = One(ToSend) /\ One(OnItsWay') = One(OnItsWay)
          /\ One(ToSend) \in {0, 1} /\ One(OnItsWay) \in {0, 1}
      BY <2>1 DEF One
    <3>2. opened \in Nat
      OBVIOUS
    <3> QED BY <1>0, <1>1, <2>4, <3>1, <3>2 DEF Accounts, StillToOpen
  <2> QED BY <2>1, <2>3, <2>5
<1>4. CASE /\ Watches(tx)
           /\ \E error : submission' = Settled(error) \/ submission' = Failed(error)
           /\ opened = 1 => submission' = Settled(Void)
  <2>1. submission # Void /\ submission.stage = "watching" /\ submission.nonce = tx.nonce
    BY <1>4 DEF Watches, Watching
  <2>2. PICK new : new = submission'
    OBVIOUS
  <2>3. /\ DOMAIN new = SubmissionFields /\ new # Void /\ new.call = submission.call
        /\ new.direct = submission.direct /\ new.stage \in {"signing", "settled"}
    BY <1>4, <2>1, <2>2, FailedFields
  <2>4. /\ Opening' <=> Opening
        /\ ~OnItsWay' /\ ~ToSend /\ (OnItsWay <=> Opening)
    BY <2>1, <2>2, <2>3 DEF Opening, OnItsWay, ToSend
  <2>5. Opening => tx.call.kind = "create"
    <3>1. Opening => tx = OwnTx
      BY <2>1, <2>4 DEF PoolInv, OwnTx
    <3> QED BY <3>1 DEF OwnTx, Opening
  <2>6. opened = 1 => ~ToSend'
    <3>1. DOMAIN submission = SubmissionFields
      BY <2>1 DEF PoolInv, SubmissionIsOne
    <3>2. Settled(Void).stage = "settled"
      BY <3>1 DEF Settled, SubmissionFields
    <3> QED BY <1>4, <3>2 DEF ToSend
  <2>7. PoolInv'
    <3>1. /\ submission' # Void => submission'.call.kind \in Kinds
          /\ (Opening' => ~submission'.direct) /\ SubmissionIsOne'
      BY <2>1, <2>2, <2>3, <2>4 DEF PoolInv, SubmissionIsOne, Opening
    <3> QED BY <1>0, <1>2, <2>4, <3>1 DEF PoolInv
  <2>8. Accounts(opened)
    <3>1. ToSend' => Opening
      BY <2>4 DEF ToSend
    <3>2. m + One(Opening) <= n
      BY <1>1, <2>5 DEF One
    <3>3. m + opened <= n
      BY <1>1 DEF One
    <3>4. One(ToSend) = 0 /\ One(OnItsWay') = 0 /\ One(OnItsWay) = One(Opening)
      BY <2>4 DEF One
    <3>5. m + One(ToSend') + opened <= n
      BY <1>1, <2>6, <3>1, <3>2, <3>3 DEF One
    <3>6. One(ToSend') \in {0, 1} /\ One(Opening) \in {0, 1} /\ opened \in Nat
      BY DEF One
    <3> QED BY <1>0, <1>1, <3>2, <3>4, <3>5, <3>6 DEF Accounts, StillToOpen
  <2> QED BY <2>4, <2>7, <2>8
<1> QED BY <1>3, <1>4

\* A block is given up: its transaction may be back in the pool.
LEMMA RetractAccounts ==
  ASSUME VoidIsNoSubmission, PoolInv, NEW tx, Retract(tx), tx.nonce \in Nonces,
         tx.call.kind \in Kinds, \A other \in txPool : other.nonce # tx.nonce
  PROVE  /\ PoolInv' /\ (Opening' <=> Opening) /\ (OnItsWay' <=> OnItsWay)
         /\ StillToOpen' <= StillToOpen + One(tx.call.kind = "create")
         /\ faults' = faults + 1 /\ StillToOpen \in Nat /\ StillToOpen' \in Nat
         /\ Accounts(0)
<1>0. /\ faults \in Nat /\ IsFiniteSet(txPool) /\ faults' = faults + 1
      /\ submission' = submission /\ nonce' = tx.nonce
      /\ txPool' \in {txPool, txPool \cup {tx}}
  BY DEF PoolInv, SubmissionIsOne, Retract
<1>1. /\ (Opening' <=> Opening) /\ (OnItsWay' <=> OnItsWay) /\ (ToSend' <=> ToSend) /\ OwnTx' = OwnTx
  BY <1>0 DEF Opening, OnItsWay, ToSend, OwnTx
<1>2. /\ IsFiniteSet(txPool')
      /\ Cardinality(Creates(txPool)) \in Nat /\ Cardinality(Creates(txPool')) \in Nat
      /\ Cardinality(Creates(txPool')) <= Cardinality(Creates(txPool)) + One(tx.call.kind = "create")
  <2>1. PICK n \in Nat, m \in Nat :
          /\ n = Cardinality(Creates(txPool)) /\ m = Cardinality(Creates(txPool \cup {tx}))
          /\ m <= n + One(tx.call.kind = "create") /\ IsFiniteSet(txPool \cup {tx})
    BY <1>0, OpensCount
  <2>2. n <= n + One(tx.call.kind = "create")
    BY DEF One
  <2>3. CASE txPool' = txPool
    BY <1>0, <2>1, <2>2, <2>3
  <2>4. CASE txPool' = txPool \cup {tx}
    BY <2>1, <2>4
  <2> QED BY <1>0, <2>3, <2>4
<1>3. PoolInv'
  BY <1>0, <1>1, <1>2 DEF PoolInv, SubmissionIsOne
<1>4. /\ One(ToSend') = One(ToSend) /\ One(OnItsWay') = One(OnItsWay)
      /\ One(ToSend) \in {0, 1} /\ One(OnItsWay) \in {0, 1} /\ One(tx.call.kind = "create") \in {0, 1}
  BY <1>1 DEF One
<1> QED BY <1>0, <1>1, <1>2, <1>3, <1>4 DEF Accounts, StillToOpen

-----------------------------------------------------------------------------
(* The orders of this agent in a market.                                   *)

MineOf(market) == {a \in market : a.id[1] = Myself}

\* Of a finite market a finite number is this agent's.
LEMMA MineIsFinite ==
  ASSUME NEW market, IsFiniteSet(market)
  PROVE  IsFiniteSet(MineOf(market)) /\ Cardinality(MineOf(market)) \in Nat
<1>1. MineOf(market) \in SUBSET market
  BY DEF MineOf
<1> QED BY <1>1, FS_Subset, FS_CardinalityType

\* One agreement more, one less, or one in the place of another of its name.
LEMMA MineCount ==
  ASSUME NEW market, IsFiniteSet(market), NEW a, NEW b
  PROVE  /\ IsFiniteSet(market \cup {b}) /\ IsFiniteSet(market \ {a})
         /\ IsFiniteSet((market \ {a}) \cup {b})
         /\ Cardinality(MineOf(market \cup {b})) <= Cardinality(MineOf(market)) + 1
         /\ Cardinality(MineOf(market \cup {b})) >= Cardinality(MineOf(market))
         /\ Cardinality(MineOf(market \ {a})) <= Cardinality(MineOf(market))
         /\ Cardinality(MineOf(market \ {a})) + 1 >= Cardinality(MineOf(market))
         /\ a \in market /\ a.id = b.id =>
              /\ Cardinality(MineOf((market \ {a}) \cup {b})) <= Cardinality(MineOf(market))
              /\ Cardinality(MineOf((market \ {a}) \cup {b})) + 1 >= Cardinality(MineOf(market))
<1>1. /\ IsFiniteSet(market \cup {b}) /\ IsFiniteSet(market \ {a})
      /\ IsFiniteSet((market \ {a}) \cup {b})
  BY FS_AddElement, FS_RemoveElement
<1>2. PICK n \in Nat : n = Cardinality(MineOf(market)) /\ IsFiniteSet(MineOf(market))
  BY MineIsFinite
<1>3. PICK m \in Nat : m = Cardinality(MineOf(market \ {a})) /\ IsFiniteSet(MineOf(market \ {a}))
  BY <1>1, MineIsFinite
<1>4. \A S, x : IsFiniteSet(S) =>
        /\ Cardinality(S \cup {x}) \in {Cardinality(S), Cardinality(S) + 1}
        /\ Cardinality(S \ {x}) \in {Cardinality(S), Cardinality(S) - 1}
  BY FS_AddElement, FS_RemoveElement
<1>5. \A S : IF b.id[1] = Myself THEN MineOf(S \cup {b}) = MineOf(S) \cup {b}
                                 ELSE MineOf(S \cup {b}) = MineOf(S)
  <2>1. CASE b.id[1] = Myself
    BY <2>1 DEF MineOf
  <2>2. CASE b.id[1] # Myself
    BY <2>2 DEF MineOf
  <2> QED BY <2>1, <2>2
<1>6. \/ MineOf(market \ {a}) = MineOf(market)
      \/ MineOf(market \ {a}) = MineOf(market) \ {a}
  BY DEF MineOf
<1>7. Cardinality(MineOf(market \cup {b})) \in {n, n + 1}
  BY <1>2, <1>4, <1>5
<1>8. m = n \/ m = n - 1
  BY <1>2, <1>3, <1>4, <1>6
<1>9. a \in market /\ a.id = b.id => Cardinality(MineOf((market \ {a}) \cup {b})) \in {m, n}
  <2> SUFFICES ASSUME a \in market, a.id = b.id
               PROVE  Cardinality(MineOf((market \ {a}) \cup {b})) \in {m, n}
    OBVIOUS
  <2>1. CASE MineOf((market \ {a}) \cup {b}) = MineOf(market \ {a})
    BY <1>3, <2>1
  <2>2. CASE MineOf((market \ {a}) \cup {b}) = MineOf(market \ {a}) \cup {b} /\ b.id[1] = Myself
    <3>1. a \in MineOf(market) /\ MineOf(market \ {a}) = MineOf(market) \ {a}
      BY <2>2 DEF MineOf
    <3>2. m = n - 1
      BY <1>2, <1>3, <3>1, FS_RemoveElement
    <3>3. Cardinality(MineOf(market \ {a}) \cup {b}) \in {m, m + 1}
      BY <1>3, <1>4
    <3>4. m + 1 = n
      BY ONLY <1>2, <1>3, <3>2
    <3> QED BY ONLY <2>2, <3>3, <3>4
  <2> QED BY <1>5, <2>1, <2>2
<1> QED BY ONLY <1>1, <1>2, <1>3, <1>7, <1>8, <1>9

\* A list of a finite set has one entry for each of its elements.
LEMMA ListedLength ==
  ASSUME NEW S, IsFiniteSet(S)
  PROVE  DOMAIN Listed(S) = 1..Cardinality(S) /\ Len(Listed(S)) = Cardinality(S)
<1>1. Cardinality(S) \in Nat /\ ExistsBijection(1..Cardinality(S), S)
  BY FS_CardinalityType
<1>2. \E f \in [1..Cardinality(S) -> S] : IsInjective(f)
  BY <1>1 DEF ExistsBijection, Bijection, Injection
<1>3. Listed(S) \in [1..Cardinality(S) -> S]
  BY <1>2, Zenon DEF Listed, SetToSeq
<1> QED BY <1>1, <1>3

\* What a call does to the orders of this agent.
OpensOrder(call) == call.kind = "create" /\ Dispatch(call).error = Void

MovesMarket(call) ==
  LET chain == Dispatch(call).chain
  IN  /\ "market" \in DOMAIN chain /\ IsFiniteSet(chain.market)
      /\ Cardinality(MineOf(chain.market)) <= Cardinality(MyOrders) + One(OpensOrder(call))
      /\ Cardinality(MyOrders) + One(call.kind = "create") <= Cardinality(MineOf(chain.market)) + 1

\* A call opens at most one order of this agent, when it succeeds and creates;
\* and it closes at most one, when it does not create.
LEMMA DispatchMoves ==
  ASSUME "market" \in DOMAIN net, IsFiniteSet(net.market), NEW call, call.kind \in Kinds
  PROVE  MovesMarket(call)
<1>0. MyOrders = MineOf(net.market)
  BY DEF MyOrders, MineOf
<1>1. PICK n \in Nat : n = Cardinality(MyOrders)
  BY <1>0, MineIsFinite
<1>2. ASSUME NEW m \in Nat, NEW chain, chain = Dispatch(call).chain,
             "market" \in DOMAIN chain, IsFiniteSet(chain.market),
             m = Cardinality(MineOf(chain.market)),
             m <= n + 1, OpensOrder(call) \/ m <= n, m + 1 >= n, call.kind = "create" => m >= n
      PROVE  MovesMarket(call)
  <2>1. One(OpensOrder(call)) \in {0, 1} /\ (OpensOrder(call) => One(OpensOrder(call)) = 1)
    BY DEF One
  <2>2. One(call.kind = "create") \in {0, 1} /\ (call.kind # "create" => One(call.kind = "create") = 0)
    BY DEF One
  <2>3. m <= n + One(OpensOrder(call))
    BY <1>1, <1>2, <2>1
  <2>4. n + One(call.kind = "create") <= m + 1
    BY <1>1, <1>2, <2>2
  <2> QED BY <1>1, <1>2, <2>3, <2>4 DEF MovesMarket
<1>3. ASSUME NEW chain, "market" \in DOMAIN chain, chain.market = net.market,
             NEW error, Dispatch(call) = [error |-> error, chain |-> chain]
      PROVE  MovesMarket(call)
  <2>1. Cardinality(MineOf(chain.market)) = n
    BY <1>0, <1>1, <1>3
  <2>2. Dispatch(call).chain = chain
    BY <1>3
  <2> QED BY <1>1, <1>2, <1>3, <2>1, <2>2
<1>4. CASE call.kind = "create" /\ Dispatch(call) = Kept(Opened(call))
  <2>1. PICK b : Opened(call).market = net.market \cup {b} /\ "market" \in DOMAIN Opened(call)
    BY DEF Opened
  <2>2. Dispatch(call).chain = Opened(call) /\ Dispatch(call).error = Void
    BY <1>4 DEF Kept
  <2>3. PICK m \in Nat : /\ m = Cardinality(MineOf(Opened(call).market)) /\ m <= n + 1 /\ m >= n
                         /\ IsFiniteSet(Opened(call).market)
    BY <1>0, <1>1, <2>1, MineCount, MineIsFinite
  <2>4. OpensOrder(call)
    BY <1>4, <2>2 DEF OpensOrder
  <2>5. PICK chain : chain = Opened(call)
    OBVIOUS
  <2>6. m + 1 >= n
    BY <1>1, <2>3
  <2> QED BY <1>2, <2>1, <2>2, <2>3, <2>4, <2>5, <2>6
<1>5. ASSUME NEW a \in net.market, NEW b, b.id = a.id, call.kind # "create",
             Dispatch(call) = Kept(Changed(a, b))
      PROVE  MovesMarket(call)
  <2>1. Changed(a, b).market = (net.market \ {a}) \cup {b} /\ "market" \in DOMAIN Changed(a, b)
    BY DEF Changed
  <2>2. Dispatch(call).chain = Changed(a, b)
    BY <1>5 DEF Kept
  <2>3. PICK m \in Nat : /\ m = Cardinality(MineOf(Changed(a, b).market)) /\ m <= n /\ m + 1 >= n
                         /\ IsFiniteSet(Changed(a, b).market)
    <3>1. /\ IsFiniteSet((net.market \ {a}) \cup {b})
          /\ Cardinality(MineOf((net.market \ {a}) \cup {b})) <= n
          /\ Cardinality(MineOf((net.market \ {a}) \cup {b})) + 1 >= n
      BY <1>0, <1>1, <1>5, MineCount
    <3> QED BY <2>1, <3>1, MineIsFinite
  <2>4. m <= n + 1
    BY <1>1, <2>3
  <2>5. PICK chain : chain = Changed(a, b)
    OBVIOUS
  <2> QED BY <1>2, <1>5, <2>1, <2>2, <2>3, <2>4, <2>5
<1>6. ASSUME NEW a, call.kind # "create", Dispatch(call) = Kept([net EXCEPT !.market = @ \ {a}])
      PROVE  MovesMarket(call)
  <2>1. PICK chain : chain = [net EXCEPT !.market = @ \ {a}]
    OBVIOUS
  <2>2. chain.market = net.market \ {a} /\ "market" \in DOMAIN chain
    BY <2>1
  <2>3. Dispatch(call).chain = chain
    BY <1>6, <2>1 DEF Kept
  <2>4. PICK m \in Nat : /\ m = Cardinality(MineOf(chain.market)) /\ m <= n /\ m + 1 >= n
                         /\ IsFiniteSet(chain.market)
    <3>1. /\ IsFiniteSet(net.market \ {a}) /\ Cardinality(MineOf(net.market \ {a})) <= n
          /\ Cardinality(MineOf(net.market \ {a})) + 1 >= n
      BY <1>0, <1>1, MineCount
    <3> QED BY <2>2, <3>1, MineIsFinite
  <2>5. OpensOrder(call) \/ m <= n
    BY <2>4
  <2>6. m <= n + 1
    BY <1>1, <2>4
  <2>7. call.kind # "create"
    BY <1>6
  <2> QED BY <1>2, <2>2, <2>3, <2>4, <2>5, <2>6, <2>7
<1>7. CASE call.kind = "accept"
  <2>1. CASE Agreed(call) = {}
    <3>1. Dispatch(call) = Rejected("AgreementNotFound")
      BY <1>7, <2>1 DEF Dispatch, OnAgreement
    <3> QED BY <1>3, <3>1 DEF Rejected
  <2>2. CASE Agreed(call) # {}
    <3>1. PICK a \in net.market : a = CHOOSE x \in Agreed(call) : TRUE
      BY <2>2 DEF Agreed
    <3>2. \/ Dispatch(call) = Kept(Changed(a, [a EXCEPT !.accepted = TRUE]))
          \/ Dispatch(call) = Rejected(AcceptGuard(a))
      BY <1>7, <2>2, <3>1 DEF Dispatch, OnAgreement
    <3>3. [a EXCEPT !.accepted = TRUE].id = a.id
      OBVIOUS
    <3> QED BY <1>3, <1>5, <1>7, <3>2, <3>3 DEF Rejected
  <2> QED BY <2>1, <2>2
<1>8. CASE call.kind = "deliver"
  <2>1. CASE Agreed(call) = {}
    <3>1. Dispatch(call) = Rejected("AgreementNotFound")
      BY <1>8, <2>1 DEF Dispatch, OnAgreement
    <3> QED BY <1>3, <3>1 DEF Rejected
  <2>2. CASE Agreed(call) # {}
    <3>1. PICK a \in net.market : a = CHOOSE x \in Agreed(call) : TRUE
      BY <2>2 DEF Agreed
    <3>2. \/ Dispatch(call) = Kept(Changed(a, [a EXCEPT !.status = "Delivered"]))
          \/ Dispatch(call) = Rejected(DeliverGuard(a))
      BY <1>8, <2>2, <3>1 DEF Dispatch, OnAgreement
    <3>3. [a EXCEPT !.status = "Delivered"].id = a.id
      OBVIOUS
    <3> QED BY <1>3, <1>5, <1>8, <3>2, <3>3 DEF Rejected
  <2> QED BY <2>1, <2>2
<1>9. CASE call.kind = "confirm"
  <2>1. CASE Agreed(call) = {}
    <3>1. Dispatch(call) = Rejected("AgreementNotFound")
      BY <1>9, <2>1 DEF Dispatch, OnAgreement
    <3> QED BY <1>3, <3>1 DEF Rejected
  <2>2. CASE Agreed(call) # {}
    <3>1. PICK a : a = CHOOSE x \in Agreed(call) : TRUE
      OBVIOUS
    <3>2. \/ Dispatch(call) = Kept([net EXCEPT !.market = @ \ {a}])
          \/ Dispatch(call) = Rejected(ConfirmGuard(a))
      BY <1>9, <2>2, <3>1 DEF Dispatch, OnAgreement
    <3> QED BY <1>3, <1>6, <1>9, <3>2 DEF Rejected
  <2> QED BY <2>1, <2>2
<1>10. CASE call.kind = "create"
  <2>1. \/ \E error : Dispatch(call) = Rejected(error)
        \/ Dispatch(call) = Kept(Opened(call))
    BY <1>10 DEF Dispatch
  <2> QED BY <1>3, <1>4, <1>10, <2>1 DEF Rejected
<1>11. CASE call.kind = "register"
  <2>1. PICK chain : chain = [net EXCEPT !.registered = TRUE]
    OBVIOUS
  <2>2. "market" \in DOMAIN chain /\ chain.market = net.market
    BY <2>1
  <2>3. \/ Dispatch(call) = [error |-> Void, chain |-> chain]
        \/ Dispatch(call) = [error |-> "AlreadyRegistered", chain |-> net]
    BY <1>11, <2>1 DEF Dispatch, Kept, Rejected
  <2> QED BY <1>3, <2>2, <2>3
<1>12. CASE call.kind = "heartbeat"
  <2>1. PICK chain : chain = [net EXCEPT !.lastBeat = net.height]
    OBVIOUS
  <2>2. "market" \in DOMAIN chain /\ chain.market = net.market
    BY <2>1
  <2>3. Dispatch(call) = [error |-> Void, chain |-> chain]
    BY <1>12, <2>1 DEF Dispatch, Kept
  <2> QED BY <1>3, <2>2, <2>3
<1>13. CASE call.kind = "metadata"
  <2>1. PICK chain : chain = [net EXCEPT !.named = TRUE]
    OBVIOUS
  <2>2. "market" \in DOMAIN chain /\ chain.market = net.market
    BY <2>1
  <2>3. Dispatch(call) = [error |-> Void, chain |-> chain]
    BY <1>13, <2>1 DEF Dispatch, Kept
  <2> QED BY <1>3, <2>2, <2>3
<1>14. CASE call.kind = "key"
  <2>1. PICK chain : chain = [net EXCEPT !.keyed = TRUE]
    OBVIOUS
  <2>2. "market" \in DOMAIN chain /\ chain.market = net.market
    BY <2>1
  <2>3. Dispatch(call) = [error |-> Void, chain |-> chain]
    BY <1>14, <2>1 DEF Dispatch, Kept
  <2> QED BY <1>3, <2>2, <2>3
<1>15. CASE call.kind = "claim"
  <2>1. PICK chain : chain = [net EXCEPT !.earned = FALSE]
    OBVIOUS
  <2>2. "market" \in DOMAIN chain /\ chain.market = net.market
    BY <2>1
  <2>3. \/ Dispatch(call) = [error |-> Void, chain |-> chain]
        \/ Dispatch(call) = [error |-> "NothingToClaim", chain |-> net]
    BY <1>15, <2>1 DEF Dispatch, Kept, Rejected
  <2> QED BY <1>3, <2>2, <2>3
<1> QED BY <1>7, <1>8, <1>9, <1>10, <1>11, <1>12, <1>13, <1>14, <1>15 DEF Kinds

-----------------------------------------------------------------------------
(* The steps of a tick.                                                    *)

\* What comes after a step is the next one that the mode runs.
LEMMA NextStep ==
  ASSUME NEW k \in DOMAIN Order, NEW m \in DOMAIN Order, k < m, Runs(Order[m]),
         \A j \in DOMAIN Order : k < j /\ j < m => ~Runs(Order[j])
  PROVE  After(Order[k]) = Order[m]
<1>1. DOMAIN Order = 1..10 /\ \A i, j \in DOMAIN Order : Order[i] = Order[j] => i = j
  BY DEF Order
<1>2. PICK rest : rest = {i \in DOMAIN Order : i > CHOOSE j \in DOMAIN Order : Order[j] = Order[k]}
  OBVIOUS
<1>3. PICK mine : mine = {i \in rest : Runs(Order[i])}
  OBVIOUS
<1>4. rest = {i \in DOMAIN Order : i > k}
  <2>1. (CHOOSE j \in DOMAIN Order : Order[j] = Order[k]) = k
    BY <1>1
  <2> QED BY <1>2, <2>1
<1>5. m \in mine /\ \A j \in mine : m <= j
  BY <1>1, <1>3, <1>4
<1>6. (CHOOSE i \in mine : \A j \in mine : i <= j) = m
  <2>1. mine \subseteq 1..10
    BY <1>1, <1>3, <1>4
  <2> QED BY <1>5, <2>1
<1> QED BY <1>2, <1>3, <1>6 DEF After

\* Only the confirmations lead to a new order.
LEMMA CreateFollowsConfirm ==
  ASSUME NEW step \in ToSet(Order) \ {"save", "confirm"}
  PROVE  After(step) # "create"
<1>1. /\ DOMAIN Order = 1..10
      /\ Order[1] = "register" /\ Order[2] = "name" /\ Order[3] = "heartbeat"
      /\ Order[4] = "metadata" /\ Order[5] = "key" /\ Order[6] = "provide"
      /\ Order[7] = "confirm" /\ Order[8] = "create" /\ Order[9] = "claim" /\ Order[10] = "save"
  BY DEF Order
<1>2. /\ Runs("name") /\ Runs("heartbeat") /\ Runs("metadata") /\ Runs("key")
      /\ Runs("claim") /\ Runs("save")
  BY DEF Runs
<1>3. PICK k \in 1..10 : step = Order[k]
  BY <1>1 DEF ToSet
<1>4. CASE k = 1
  BY <1>1, <1>2, <1>3, <1>4, NextStep
<1>5. CASE k = 2
  BY <1>1, <1>2, <1>3, <1>5, NextStep
<1>6. CASE k = 3
  BY <1>1, <1>2, <1>3, <1>6, NextStep
<1>7. CASE k = 4
  BY <1>1, <1>2, <1>3, <1>7, NextStep
<1>8. CASE k \in {5, 6}
  <2>1. CASE k = 5 /\ Runs("provide")
    BY <1>1, <1>3, <2>1, NextStep
  <2>2. CASE (k = 6 \/ ~Runs("provide")) /\ Runs("confirm")
    <3>1. \A j \in DOMAIN Order : k < j /\ j < 7 => ~Runs(Order[j])
      BY <1>1, <1>8, <2>2
    <3>2. After(Order[k]) = Order[7]
      BY <1>1, <1>8, <2>2, <3>1, NextStep
    <3> QED BY <1>1, <1>3, <3>2
  <2>3. CASE (k = 6 \/ ~Runs("provide")) /\ ~Runs("confirm")
    <3>1. ~Runs("create")
      BY <2>3 DEF Runs
    <3>2. \A j \in DOMAIN Order : k < j /\ j < 9 => ~Runs(Order[j])
      BY <1>1, <1>8, <2>3, <3>1
    <3>3. After(Order[k]) = Order[9]
      BY <1>1, <1>2, <1>8, <3>2, NextStep
    <3> QED BY <1>1, <1>3, <3>3
  <2> QED BY <1>8, <2>1, <2>2, <2>3
<1>9. CASE k = 8
  BY <1>1, <1>2, <1>3, <1>9, NextStep
<1>10. CASE k = 9
  BY <1>1, <1>2, <1>3, <1>10, NextStep
<1>11. k # 7 /\ k # 10
  BY <1>1, <1>3
<1> QED BY <1>3, <1>4, <1>5, <1>6, <1>7, <1>8, <1>9, <1>10, <1>11

-----------------------------------------------------------------------------
(* The invariant: what is open and what may still be opened stay within    *)
(* the cap and the faults, and from the read of the agreements until the   *)
(* decision within the snapshot and the faults.                            *)

ChainInv ==
  /\ "market" \in DOMAIN net /\ IsFiniteSet(net.market)
  /\ undo # Void =>
       /\ "market" \in DOMAIN undo.chain /\ IsFiniteSet(undo.chain.market)
       /\ undo.tx.nonce \in Nonces /\ undo.tx.call.kind \in Kinds
       /\ nonce = (undo.tx.nonce + 1) % NonceCycle
       /\ \A tx \in txPool : tx.nonce # undo.tx.nonce
       /\ Cardinality(MineOf(undo.chain.market)) + One(undo.tx.call.kind = "create")
            <= Cardinality(MyOrders) + 1

\* The agent has the agreements it read before it, and may open another.
OnSnapshot ==
  \/ agent = "confirm" /\ readAt # 0
  \/ agent = "create" /\ ~Opening

IsList == DOMAIN left = 1..Len(left) /\ Len(left) \in Nat

\* The orders of this agent, with those that may still come.
Exposure == Cardinality(MyOrders) + StillToOpen

BuyerInv ==
  /\ PoolInv /\ ChainInv
  /\ Opening => agent = "create"
  /\ Cardinality(Creates(txPool)) <= faults + One(OnItsWay)
  /\ Exposure <= BuyerMaxOpen + faults
  /\ OnSnapshot => IsList /\ Exposure <= Len(left) + faults

\* The counts are natural numbers, before a step and after it.
LEMMA BuyerCounts ==
  ASSUME PoolInv, ChainInv
  PROVE  /\ MyOrders = MineOf(net.market) /\ Cardinality(MyOrders) \in Nat
         /\ Cardinality(Creates(txPool)) \in Nat /\ One(OnItsWay) \in {0, 1} /\ One(ToSend) \in {0, 1}
         /\ StillToOpen \in Nat /\ Exposure \in Nat /\ faults \in Nat
<1>1. MyOrders = MineOf(net.market)
  BY DEF MyOrders, MineOf
<1>2. Cardinality(MyOrders) \in Nat
  BY <1>1, MineIsFinite DEF ChainInv
<1>3. Cardinality(Creates(txPool)) \in Nat
  BY OpensCount DEF PoolInv
<1>4. One(OnItsWay) \in {0, 1} /\ One(ToSend) \in {0, 1}
  BY DEF One
<1>5. faults \in Nat
  BY DEF PoolInv, SubmissionIsOne
<1>6. StillToOpen \in Nat
  BY <1>3, <1>4 DEF StillToOpen
<1> QED BY <1>1, <1>2, <1>3, <1>4, <1>5, <1>6 DEF Exposure

LEMMA BuyerCountsNext ==
  ASSUME PoolInv', ChainInv'
  PROVE  /\ MyOrders' = MineOf(net'.market) /\ Cardinality(MyOrders') \in Nat
         /\ Cardinality(Creates(txPool')) \in Nat /\ One(OnItsWay') \in {0, 1} /\ One(ToSend') \in {0, 1}
         /\ StillToOpen' \in Nat /\ Exposure' \in Nat /\ faults' \in Nat
<1>1. MyOrders' = MineOf(net'.market)
  BY DEF MyOrders, MineOf
<1>2. Cardinality(MyOrders') \in Nat
  BY <1>1, MineIsFinite DEF ChainInv
<1>3. Cardinality(Creates(txPool')) \in Nat
  BY OpensCount DEF PoolInv
<1>4. One(OnItsWay') \in {0, 1} /\ One(ToSend') \in {0, 1}
  BY DEF One
<1>5. faults' \in Nat
  BY DEF PoolInv, SubmissionIsOne
<1>6. StillToOpen' \in Nat
  BY <1>3, <1>4 DEF StillToOpen
<1> QED BY <1>1, <1>2, <1>3, <1>4, <1>5, <1>6 DEF Exposure

\* What a step adds without a decision is the mark of a fault.
BooksKept ==
  /\ Exposure' + faults <= Exposure + faults'
  /\ Cardinality(Creates(txPool')) + One(OnItsWay) + faults
       <= Cardinality(Creates(txPool)) + One(OnItsWay') + faults'

\* A step that keeps the books and the snapshot keeps the invariant.
LEMMA BooksBalance ==
  ASSUME BuyerInv, PoolInv', ChainInv', BooksKept,
         Opening' => agent' = "create",
         OnSnapshot' => OnSnapshot /\ IsList' /\ Len(left') = Len(left)
  PROVE  BuyerInv'
<1>1. PICK p \in Nat, w \in Nat, e \in Nat, f \in Nat :
        p = Cardinality(Creates(txPool)) /\ w = One(OnItsWay) /\ e = Exposure /\ f = faults
  BY BuyerCounts DEF BuyerInv
<1>2. PICK q \in Nat, v \in Nat, d \in Nat, g \in Nat :
        q = Cardinality(Creates(txPool')) /\ v = One(OnItsWay') /\ d = Exposure' /\ g = faults'
  BY BuyerCountsNext
<1>3. /\ p <= f + w /\ e <= BuyerMaxOpen + f
      /\ d + f <= e + g /\ q + w + f <= p + v + g
  BY <1>1, <1>2 DEF BuyerInv, BooksKept
<1>4. q <= g + v /\ d <= BuyerMaxOpen + g
  BY ONLY <1>3, BuyerCap, p \in Nat, w \in Nat, e \in Nat, f \in Nat,
          q \in Nat, v \in Nat, d \in Nat, g \in Nat
<1>5. OnSnapshot' => IsList' /\ d <= Len(left') + g
  <2> SUFFICES ASSUME OnSnapshot' PROVE IsList' /\ d <= Len(left') + g
    OBVIOUS
  <2>1. PICK n \in Nat : n = Len(left) /\ n = Len(left') /\ e <= n + f /\ IsList'
    BY <1>1 DEF BuyerInv, IsList
  <2> QED BY <1>3, <2>1
<1> QED BY <1>2, <1>4, <1>5 DEF BuyerInv

\* A step outside the agent's loop.
LEMMA BooksBalanceOutside ==
  ASSUME BuyerInv, PoolInv', ChainInv', BooksKept, Opening' <=> Opening, UNCHANGED loopVars
  PROVE  BuyerInv'
<1>1. agent' = agent /\ left' = left /\ readAt' = readAt
  BY DEF loopVars
<1>2. OnSnapshot' => OnSnapshot
  BY <1>1 DEF OnSnapshot
<1>3. OnSnapshot => IsList
  BY DEF BuyerInv
<1>4. IsList' <=> IsList
  BY <1>1 DEF IsList
<1>5. Opening' => agent' = "create"
  BY <1>1 DEF BuyerInv
<1> QED BY <1>1, <1>2, <1>3, <1>4, <1>5, BooksBalance

\* A step of the market alone: nothing can be given up after it, and this agent
\* has no more orders than before.
LEMMA MarketStep ==
  ASSUME BuyerInv, UNCHANGED <<submissionVars, loopVars>>, undo' = Void,
         "market" \in DOMAIN net', IsFiniteSet(net'.market),
         Cardinality(MineOf(net'.market)) <= Cardinality(MyOrders)
  PROVE  BuyerInv'
<1>1. /\ submission' = submission /\ txPool' = txPool /\ nonce' = nonce /\ faults' = faults
  BY DEF submissionVars
<1>2. /\ (Opening' <=> Opening) /\ (OnItsWay' <=> OnItsWay) /\ OwnTx' = OwnTx
      /\ StillToOpen' = StillToOpen
  BY <1>1 DEF Opening, OnItsWay, ToSend, OwnTx, StillToOpen
<1>3. PoolInv'
  BY <1>1, <1>2 DEF BuyerInv, PoolInv, SubmissionIsOne
<1>4. ChainInv'
  BY DEF ChainInv
<1>5. BooksKept
  <2>1. PICK n \in Nat, m \in Nat, o \in Nat, f \in Nat :
          /\ n = Cardinality(MyOrders) /\ m = Cardinality(MyOrders') /\ o = StillToOpen /\ f = faults
          /\ m <= n
    BY <1>3, <1>4, BuyerCounts, BuyerCountsNext DEF BuyerInv
  <2>2. PICK p \in Nat, w \in Nat : p = Cardinality(Creates(txPool)) /\ w = One(OnItsWay)
    BY BuyerCounts DEF BuyerInv
  <2>3. Cardinality(Creates(txPool')) = p /\ One(OnItsWay') = w
    BY <1>1, <1>2, <2>2 DEF One
  <2>4. m + o + f <= n + o + f /\ p + w + f <= p + w + f
    BY <2>1, <2>2
  <2> QED BY <1>1, <1>2, <2>1, <2>2, <2>3, <2>4 DEF BooksKept, Exposure
<1> QED BY <1>2, <1>3, <1>4, <1>5, BooksBalanceOutside

\* Time, clients and peers.
LEMMA MarketStepsKeep ==
  ASSUME BuyerInv,
         \/ NextBlock
         \/ \E client \in Clients : Offer(client)
         \/ \E a \in net.market : PeerDelivers(a) \/ Closes(a)
  PROVE  BuyerInv'
<1>0. /\ "market" \in DOMAIN net /\ IsFiniteSet(net.market)
      /\ MyOrders = MineOf(net.market) /\ Cardinality(MyOrders) \in Nat
  BY BuyerCounts DEF BuyerInv, ChainInv
<1>1. UNCHANGED <<submissionVars, loopVars>> /\ undo' = Void
  BY DEF NextBlock, Offer, PeerDelivers, Closes
<1>2. CASE NextBlock
  <2>1. "market" \in DOMAIN net' /\ net'.market = net.market
    BY <1>0, <1>2 DEF NextBlock
  <2> QED BY <1>0, <1>1, <2>1, MarketStep
<1>3. ASSUME NEW client \in Clients, Offer(client)
      PROVE  BuyerInv'
  <2>1. PICK b : "market" \in DOMAIN net' /\ net'.market = net.market \cup {b} /\ b.id[1] = client
    <3>1. PICK deliverBy : net' = [net EXCEPT !.opened[client] = @ + 1,
                 !.market = @ \cup {Agreement(client, Myself, net.opened[client], deliverBy)}]
      BY <1>3 DEF Offer
    <3>2. PICK b : b = Agreement(client, Myself, net.opened[client], deliverBy)
      OBVIOUS
    <3>3. b.id[1] = client
      BY <3>2 DEF Agreement
    <3>4. "market" \in DOMAIN net' /\ net'.market = net.market \cup {b}
      BY <1>0, <3>1, <3>2
    <3> QED BY <3>3, <3>4
  <2>2. MineOf(net'.market) = MineOf(net.market)
    BY <1>3, <2>1, NobodyHiresThemselves DEF MineOf
  <2>3. IsFiniteSet(net'.market)
    BY <1>0, <2>1, FS_AddElement
  <2> QED BY <1>0, <1>1, <2>1, <2>2, <2>3, MarketStep
<1>4. ASSUME NEW a \in net.market, PeerDelivers(a)
      PROVE  BuyerInv'
  <2>1. PICK b : b = [a EXCEPT !.status = "Delivered", !.accepted = TRUE]
    OBVIOUS
  <2>2. b.id = a.id
    BY <2>1
  <2>3. "market" \in DOMAIN net' /\ net'.market = (net.market \ {a}) \cup {b}
    BY <1>0, <1>4, <2>1 DEF PeerDelivers, Changed
  <2>4. IsFiniteSet((net.market \ {a}) \cup {b}) /\
        Cardinality(MineOf((net.market \ {a}) \cup {b})) <= Cardinality(MineOf(net.market))
    BY <1>0, <2>2, MineCount
  <2> QED BY <1>0, <1>1, <2>3, <2>4, MarketStep
<1>5. ASSUME NEW a \in net.market, Closes(a)
      PROVE  BuyerInv'
  <2>1. "market" \in DOMAIN net' /\ net'.market = net.market \ {a}
    BY <1>0, <1>5 DEF Closes
  <2>2. /\ IsFiniteSet(net.market \ {a})
        /\ Cardinality(MineOf(net.market \ {a})) <= Cardinality(MineOf(net.market))
    BY <1>0, MineCount
  <2> QED BY <1>0, <1>1, <2>1, <2>2, MarketStep
<1> QED BY <1>2, <1>3, <1>4, <1>5

\* The books of the pool and of the market together.
LEMMA BooksTogether ==
  ASSUME BuyerInv, PoolInv', ChainInv', NEW opened \in {0, 1}, Accounts(opened),
         Cardinality(MyOrders') <= Cardinality(MyOrders) + opened
  PROVE  BooksKept
<1>1. PICK n \in Nat, o \in Nat, f \in Nat :
        n = Cardinality(MyOrders) /\ o = StillToOpen /\ f = faults /\ Exposure = n + o
  BY BuyerCounts DEF BuyerInv, Exposure
<1>2. PICK m \in Nat, q \in Nat, g \in Nat :
        m = Cardinality(MyOrders') /\ q = StillToOpen' /\ g = faults' /\ Exposure' = m + q
  BY BuyerCountsNext DEF Exposure
<1>3. m <= n + opened /\ q + opened + f <= o + g
  BY <1>1, <1>2 DEF Accounts
<1>4. m + q + f <= n + o + g
  BY <1>3
<1> QED BY <1>1, <1>2, <1>4 DEF BooksKept, Accounts

\* An inclusion turns what may be opened into what is open, or into nothing.
LEMMA LandsKeeps ==
  ASSUME VoidIsNoSubmission, BuyerInv, NEW tx \in txPool, Lands(tx)
  PROVE  BuyerInv'
<1>0. /\ "market" \in DOMAIN net /\ IsFiniteSet(net.market) /\ tx.call.kind \in Kinds
      /\ tx.nonce = nonce /\ nonce \in Nonces /\ MyOrders = MineOf(net.market)
      /\ MyOrders' = MineOf(net'.market) /\ faults \in Nat
  BY DEF BuyerInv, ChainInv, PoolInv, SubmissionIsOne, Lands, Includable, MyOrders, MineOf
<1>1. MovesMarket(tx.call)
  BY <1>0, DispatchMoves
<1>2. /\ nonce' = (nonce + 1) % NonceCycle /\ txPool' = txPool \ {tx} /\ faults' = faults
      /\ net' = Dispatch(tx.call).chain /\ undo' = [chain |-> net, tx |-> tx]
      /\ UNCHANGED loopVars
  BY DEF Lands, Include
<1>3. \/ submission' = submission /\ ~Watches(tx)
      \/ /\ Watches(tx)
         /\ \E error : submission' = Settled(error) \/ submission' = Failed(error)
         /\ OpensOrder(tx.call) => submission' = Settled(Void)
  BY DEF Lands, Include, OpensOrder
<1>4. PICK opened \in {0, 1} : opened = One(OpensOrder(tx.call))
  BY DEF One
<1>5. opened = 1 <=> OpensOrder(tx.call)
  BY <1>4 DEF One
<1>6. opened = 1 => tx.call.kind = "create"
  BY <1>5 DEF OpensOrder
<1>7. nonce' \in Nonces
  BY <1>0, <1>2, NonceSteps
<1>8. PoolInv' /\ Accounts(opened) /\ (Opening' <=> Opening)
  <2>1. PoolInv /\ faults' \in Nat /\ faults' >= faults
    BY <1>0, <1>2 DEF BuyerInv
  <2> QED BY <1>2, <1>3, <1>5, <1>6, <1>7, <2>1, LeavesAccounts
<1>9. ChainInv'
  <2>1. "market" \in DOMAIN net' /\ IsFiniteSet(net'.market)
    BY <1>1, <1>2 DEF MovesMarket
  <2>2. undo'.chain = net /\ undo'.tx = tx
    BY <1>2
  <2>3. \A other \in txPool' : other.nonce # tx.nonce
    BY <1>2 DEF BuyerInv, PoolInv
  <2>4. Cardinality(MineOf(net.market)) + One(tx.call.kind = "create") <= Cardinality(MyOrders') + 1
    BY <1>0, <1>1, <1>2 DEF MovesMarket
  <2> QED BY <1>0, <1>2, <2>1, <2>2, <2>3, <2>4 DEF ChainInv
<1>10. Cardinality(MyOrders') <= Cardinality(MyOrders) + opened
  BY <1>0, <1>1, <1>2, <1>4 DEF MovesMarket
<1>11. BooksKept
  BY <1>8, <1>9, <1>10, BooksTogether
<1> QED BY <1>2, <1>8, <1>9, <1>11, BooksBalanceOutside

\* A dropped transaction opens nothing; its submission may try again.
LEMMA DropsKeeps ==
  ASSUME VoidIsNoSubmission, BuyerInv, NEW tx \in txPool, Drops(tx)
  PROVE  BuyerInv'
<1>1. /\ nonce' = nonce /\ txPool' = txPool \ {tx} /\ faults' = faults + 1
      /\ net' = net /\ undo' = undo /\ UNCHANGED loopVars /\ faults \in Nat /\ nonce \in Nonces
  BY DEF Drops, DropTx, BuyerInv, PoolInv, SubmissionIsOne
<1>2. \/ submission' = submission /\ (OnItsWay => ~Watches(tx))
      \/ /\ Watches(tx)
         /\ \E error : submission' = Settled(error) \/ submission' = Failed(error)
  BY DEF Drops, DropTx, BuyerInv, PoolInv, OnItsWay
<1>3. PoolInv' /\ Accounts(0) /\ (Opening' <=> Opening)
  <2>1. PoolInv /\ faults' \in Nat /\ faults' >= faults
    BY <1>1 DEF BuyerInv
  <2> QED BY <1>1, <1>2, <2>1, LeavesAccounts
<1>4. MyOrders' = MyOrders
  BY <1>1 DEF MyOrders
<1>5. ChainInv'
  BY <1>1, <1>4 DEF BuyerInv, ChainInv
<1>6. BooksKept
  <2>1. Cardinality(MyOrders') <= Cardinality(MyOrders) + 0
    BY <1>4, BuyerCounts DEF BuyerInv
  <2> QED BY <1>3, <1>5, <2>1, BooksTogether
<1> QED BY <1>1, <1>3, <1>5, <1>6, BooksBalanceOutside

\* A send moves what may be opened into the pool, or fails and may do both.
LEMMA SendsKeep ==
  ASSUME VoidIsNoSubmission, BuyerInv, Sends
  PROVE  BuyerInv'
<1>1. net' = net /\ undo' = undo /\ UNCHANGED loopVars /\ SendStep /\ PoolInv
  BY DEF Sends, BuyerInv
<1>2. /\ PoolInv' /\ Accounts(0) /\ nonce' = nonce /\ (Opening' <=> Opening)
      /\ \A tx \in txPool' : tx \in txPool \/ tx.nonce = nonce
  BY <1>1, SendAccounts
<1>3. MyOrders' = MyOrders
  BY <1>1 DEF MyOrders
<1>4. ChainInv'
  <2>1. undo # Void => \A tx \in txPool' : tx.nonce # undo.tx.nonce
    BY <1>2, NonceSteps DEF BuyerInv, ChainInv
  <2> QED BY <1>1, <1>2, <1>3, <2>1 DEF BuyerInv, ChainInv
<1>5. BooksKept
  <2>1. Cardinality(MyOrders') <= Cardinality(MyOrders) + 0
    BY <1>3, BuyerCounts DEF BuyerInv
  <2> QED BY <1>2, <1>4, <2>1, BooksTogether
<1> QED BY <1>1, <1>2, <1>4, <1>5, BooksBalanceOutside

\* A block given up takes its order back, or brings one back it had closed.
LEMMA GivesUpKeeps ==
  ASSUME VoidIsNoSubmission, BuyerInv, GivesUpLast
  PROVE  BuyerInv'
<1>1. /\ Retract(undo.tx) /\ net' = undo.chain /\ undo' = Void /\ UNCHANGED loopVars /\ PoolInv
      /\ "market" \in DOMAIN undo.chain /\ IsFiniteSet(undo.chain.market)
      /\ undo.tx.nonce \in Nonces /\ undo.tx.call.kind \in Kinds
      /\ \A tx \in txPool : tx.nonce # undo.tx.nonce
      /\ Cardinality(MineOf(undo.chain.market)) + One(undo.tx.call.kind = "create")
            <= Cardinality(MyOrders) + 1
  BY DEF GivesUpLast, BuyerInv, ChainInv
<1>2. /\ PoolInv' /\ (Opening' <=> Opening)
      /\ StillToOpen' <= StillToOpen + One(undo.tx.call.kind = "create")
      /\ faults' = faults + 1 /\ Accounts(0)
  BY <1>1, RetractAccounts
<1>3. ChainInv'
  BY <1>1 DEF ChainInv
<1>4. BooksKept
  <2>1. PICK n \in Nat, o \in Nat, f \in Nat :
          n = Cardinality(MyOrders) /\ o = StillToOpen /\ f = faults /\ Exposure = n + o
    BY BuyerCounts DEF BuyerInv, Exposure
  <2>2. PICK m \in Nat, q \in Nat, g \in Nat :
          /\ m = Cardinality(MyOrders') /\ q = StillToOpen' /\ g = faults' /\ Exposure' = m + q
          /\ m = Cardinality(MineOf(undo.chain.market))
    BY <1>1, <1>2, <1>3, BuyerCountsNext DEF Exposure
  <2>3. PICK c \in {0, 1} : c = One(undo.tx.call.kind = "create")
    BY DEF One
  <2>4. m + c <= n + 1 /\ q <= o + c /\ g = f + 1
    BY <1>1, <1>2, <2>1, <2>2, <2>3
  <2>5. m + q + f <= n + o + g
    BY <2>4
  <2> QED BY <1>2, <2>1, <2>2, <2>5 DEF BooksKept, Accounts
<1> QED BY <1>1, <1>2, <1>3, <1>4, BooksBalanceOutside

\* A step of the agent that decides nothing about orders: the submission stays,
\* is taken back, or is another one.
Other(new) ==
  /\ DOMAIN new = SubmissionFields
  /\ new.call.kind \in Kinds \ {"create"} /\ new.stage = "signing"

Aside ==
  /\ UNCHANGED <<nonce, txPool, net, undo>>
  /\ faults' \in {faults, faults + 1}
  /\ \/ submission' = submission
     \/ submission' = Void /\ (OnItsWay => faults' = faults + 1)
     \/ ~OnItsWay /\ Other(submission')

\* Such a step keeps the invariant.
LEMMA AsideKeeps ==
  ASSUME VoidIsNoSubmission, BuyerInv, Aside, Opening' => agent' = "create",
         OnSnapshot' => OnSnapshot /\ IsList' /\ Len(left') = Len(left)
  PROVE  BuyerInv'
<1>1. /\ nonce' = nonce /\ txPool' = txPool /\ net' = net /\ undo' = undo
      /\ MyOrders' = MyOrders /\ PoolInv /\ faults \in Nat /\ faults' \in Nat
      /\ faults' \in {faults, faults + 1}
  BY DEF Aside, MyOrders, BuyerInv, PoolInv, SubmissionIsOne
<1>2. /\ PoolInv' /\ (ToSend' => ToSend) /\ (OnItsWay => OnItsWay' \/ faults' = faults + 1)
  <2>1. CASE submission' = submission
    <3>1. (Opening' <=> Opening) /\ (OnItsWay' <=> OnItsWay) /\ (ToSend' <=> ToSend) /\ OwnTx' = OwnTx
      BY <2>1 DEF Opening, OnItsWay, ToSend, OwnTx
    <3> QED BY <1>1, <2>1, <3>1 DEF PoolInv, SubmissionIsOne
  <2>2. CASE submission' = Void /\ (OnItsWay => faults' = faults + 1)
    <3>1. ~Opening' /\ ~OnItsWay' /\ ~ToSend'
      BY <2>2 DEF Opening, OnItsWay, ToSend
    <3> QED BY <1>1, <2>2, <3>1 DEF PoolInv, SubmissionIsOne
  <2>3. CASE ~OnItsWay /\ Other(submission')
    <3>1. ~Opening' /\ ~OnItsWay' /\ ~ToSend' /\ submission'.call.kind \in Kinds
      BY <2>3 DEF Opening, OnItsWay, ToSend, Other
    <3> QED BY <1>1, <2>3, <3>1 DEF PoolInv, SubmissionIsOne, Other
  <2> QED BY <2>1, <2>2, <2>3 DEF Aside
<1>3. ChainInv'
  BY <1>1 DEF BuyerInv, ChainInv
<1>4. BooksKept
  <2>1. PICK p \in Nat, n \in Nat, f \in Nat, g \in Nat :
          /\ p = Cardinality(Creates(txPool)) /\ n = Cardinality(MyOrders) /\ f = faults /\ g = faults'
          /\ g = f \/ g = f + 1
    BY <1>1, BuyerCounts DEF BuyerInv
  <2>2. PICK t \in {0, 1}, w \in {0, 1} : t = One(ToSend) /\ w = One(OnItsWay)
    BY DEF One
  <2>3. PICK u \in {0, 1}, v \in {0, 1} : u = One(ToSend') /\ v = One(OnItsWay')
    BY DEF One
  <2>4. u <= t /\ (w <= v \/ g = f + 1)
    BY <1>2, <2>1, <2>2, <2>3 DEF One
  <2>5. Exposure = n + (p + t) /\ Exposure' = n + (p + u)
    <3>1. Creates(txPool') = Creates(txPool) /\ Cardinality(MyOrders') = n
      BY <1>1, <2>1
    <3> QED BY <2>1, <2>2, <2>3, <3>1 DEF Exposure, StillToOpen
  <2>6. n + (p + u) + f <= n + (p + t) + g /\ p + w + f <= p + v + g
    BY ONLY <2>1, <2>2, <2>3, <2>4
  <2> QED BY <1>1, <2>1, <2>2, <2>3, <2>5, <2>6 DEF BooksKept
<1> QED BY <1>2, <1>3, <1>4, BooksBalance

\* A step that ends without a snapshot.
LEMMA AsideOffSnapshot ==
  ASSUME VoidIsNoSubmission, BuyerInv, Aside, ~Opening' \/ UNCHANGED <<submission, agent>>,
         agent' # "create", agent' = "confirm" => readAt' = 0
  PROVE  BuyerInv'
<1>1. Opening' => agent' = "create"
  BY DEF BuyerInv, Opening
<1>2. ~OnSnapshot'
  BY DEF OnSnapshot
<1> QED BY <1>1, <1>2, AsideKeeps

\* The steps about what is not an order.
LEMMA PlainKinds ==
  ASSUME VoidIsNoSubmission, NEW call, call.kind \in Kinds \ {"create"}, NEW retries
  PROVE  Other(Submitted(call, retries)) /\ Other(Sent(call))
<1>1. /\ DOMAIN Submitted(call, retries) = SubmissionFields
      /\ Submitted(call, retries).call = call /\ Submitted(call, retries).stage = "signing"
  BY DEF Submitted, SubmissionFields
<1>2. DOMAIN Sent(call) = SubmissionFields /\ Sent(call).call = call /\ Sent(call).stage = "signing"
  BY DEF Sent, Submitted, SubmissionFields
<1> QED BY <1>1, <1>2 DEF Other

\* A new submission of that kind opens nothing.
LEMMA OtherIsNoOrder ==
  ASSUME VoidIsNoSubmission, Other(submission')
  PROVE  ~Opening'
BY DEF Other, Opening

\* Whoever goes on does not go on to open.
LEMMA GoingOn ==
  ASSUME NEW step \in ToSet(Order) \ {"save", "confirm"}, GoesOn(step)
  PROVE  agent' # "create" /\ readAt' = 0
BY CreateFollowsConfirm DEF GoesOn

\* The steps by name.
LEMMA OrderNames ==
  /\ ToSet(Order) = {"register", "name", "heartbeat", "metadata", "key", "provide", "confirm",
                     "create", "claim", "save"}
  /\ Simple \subseteq ToSet(Order) \ {"save", "confirm", "provide", "create"}
<1>1. ToSet(Order) = {Order[i] : i \in 1..10}
  BY DEF ToSet, Order
<1>2. \A i \in 1..10 : i \in {1, 2, 3, 4, 5, 6, 7, 8, 9, 10}
  OBVIOUS
<1>3. ToSet(Order) = {Order[1], Order[2], Order[3], Order[4], Order[5], Order[6], Order[7],
                      Order[8], Order[9], Order[10]}
  BY <1>1, <1>2
<1> QED BY <1>3 DEF Order, Simple

\* A read that decides, and the answer to what it sent.
LEMMA DecidesKeeps ==
  ASSUME VoidIsNoSubmission, BuyerInv, NEW step, Decides(step)
  PROVE  BuyerInv'
<1>1. /\ step \in Simple /\ agent = step /\ submission = Void /\ faults \in Nat
      /\ step \in ToSet(Order) \ {"save", "confirm", "provide", "create"}
  BY OrderNames DEF Decides, Waits, BuyerInv, PoolInv, SubmissionIsOne
<1>2. ~OnItsWay /\ ~Opening
  BY <1>1 DEF OnItsWay, Opening
<1>3. CASE Skips(step)
  <2>1. Aside /\ ~Opening' /\ GoesOn(step)
    BY <1>1, <1>2, <1>3 DEF Skips, Aside, submissionVars, Opening
  <2>2. agent' # "create" /\ readAt' = 0
    BY <1>1, <2>1, GoingOn
  <2> QED BY <2>1, <2>2, AsideOffSnapshot
<1>4. ASSUME NEW call, NEW retries, call.kind \in Kinds \ {"create"},
             Submits(call, retries) \/ Signs(call)
      PROVE  BuyerInv'
  <2>0. Other(submission')
    BY <1>4, PlainKinds DEF Submits, Signs
  <2>1. Other(submission') /\ agent' = agent /\ faults' = faults
        /\ UNCHANGED <<nonce, txPool, net, undo>>
    BY <1>4, <2>0 DEF Submits, Signs, loopVars
  <2>2. Aside /\ ~Opening'
    BY <1>1, <1>2, <2>1, OtherIsNoOrder DEF Aside
  <2> QED BY <1>1, <2>1, <2>2, AsideOffSnapshot
<1>5. Skips(step) \/ Signs(Plain("metadata")) \/ (step \notin {"name", "metadata"} /\ Submits(Plain(step), MaxRetries))
  BY DEF Decides
<1>6. Plain("metadata").kind = "metadata" /\ Plain(step).kind = step
  BY DEF Plain
<1>7. step \in {"name"} \cup (Kinds \ {"create"}) /\ "metadata" \in Kinds \ {"create"}
  BY <1>1 DEF Simple, Kinds
<1> QED BY <1>3, <1>4, <1>5, <1>6, <1>7

LEMMA ConcludesKeeps ==
  ASSUME VoidIsNoSubmission, BuyerInv, NEW step, Concludes(step)
  PROVE  BuyerInv'
<1>1. /\ step \in ToSet(Order) \ {"save", "confirm", "provide", "create"}
      /\ ~OnItsWay /\ submission' = Void /\ faults' = faults
      /\ UNCHANGED <<nonce, txPool, net, undo>>
  BY OrderNames DEF Concludes, IsSettled, OnItsWay
<1>2. Aside /\ ~Opening'
  BY <1>1 DEF Aside, Opening
<1>3. agent' # "create" /\ readAt' = 0
  <2>1. (agent' = "save" /\ readAt' = 0) \/ GoesOn(step)
    BY DEF Concludes
  <2> QED BY <1>1, <2>1, GoingOn
<1> QED BY <1>2, <1>3, AsideOffSnapshot

\* The work of a provider.
LEMMA ProvideKeeps ==
  ASSUME VoidIsNoSubmission, BuyerInv,
         ReadsWork \/ ProvideStarts \/ AcceptConcludes \/ DeliverConcludes
  PROVE  BuyerInv'
<1>1. /\ agent = "provide" /\ ~OnItsWay /\ ~Opening
      /\ UNCHANGED <<nonce, txPool, net, undo, faults>>
  BY DEF BuyerInv, Opening, OnItsWay, ReadsWork, ProvideStarts, AcceptConcludes, DeliverConcludes,
         Skips, Accepts, Delivers, Submits, Signs, submissionVars, Waits, IsSettled
<1>2. \A a : About("accept", a).kind = "accept" /\ About("deliver", a).kind = "deliver"
  BY DEF About
<1>3. \A a, retries : /\ Other(Submitted(About("deliver", a), retries))
                     /\ Other(Sent(About("accept", a)))
  BY <1>2, PlainKinds DEF Kinds
<1>4. submission' = submission \/ submission' = Void \/ Other(submission')
  BY <1>3 DEF ReadsWork, ProvideStarts, AcceptConcludes, DeliverConcludes, Skips, Accepts, Delivers,
         Submits, Signs, submissionVars
<1>5. Aside /\ ~Opening'
  <2>1. Aside
    BY <1>1, <1>4 DEF Aside
  <2>2. ~Opening'
    BY <1>1, <1>4, OtherIsNoOrder DEF Opening
  <2> QED BY <2>1, <2>2
<1>6. agent' = agent \/ (agent' = After("provide") /\ readAt' = 0)
  BY DEF ReadsWork, ProvideStarts, AcceptConcludes, DeliverConcludes, Skips, GoesOn, Accepts, Delivers,
         Submits, Signs, NextWork, loopVars
<1>7. After("provide") # "create"
  BY CreateFollowsConfirm, OrderNames
<1> QED BY <1>1, <1>5, <1>6, <1>7, AsideOffSnapshot

\* The read of the agreements: with no submission under way, what may still
\* come of the pool is the mark of a fault.
LEMMA ReadsOrdersKeeps ==
  ASSUME VoidIsNoSubmission, BuyerInv, ReadsOrders
  PROVE  BuyerInv'
<1>1. /\ submission = Void /\ submission' = submission /\ txPool' = txPool /\ nonce' = nonce
      /\ faults' = faults /\ net' = net /\ undo' = undo /\ agent = "confirm" /\ agent' = "confirm"
      /\ left' = Listed(MyOrders)
  BY DEF ReadsOrders, Waits, submissionVars
<1>2. /\ ~Opening /\ ~ToSend /\ ~OnItsWay /\ ~Opening' /\ ~ToSend' /\ ~OnItsWay'
      /\ MyOrders' = MyOrders
  BY <1>1 DEF Opening, ToSend, OnItsWay, MyOrders
<1>3. PoolInv' /\ ChainInv'
  BY <1>1, <1>2 DEF BuyerInv, PoolInv, SubmissionIsOne, ChainInv
<1>4. PICK p \in Nat, n \in Nat, f \in Nat :
        /\ p = Cardinality(Creates(txPool)) /\ n = Cardinality(MyOrders) /\ f = faults
        /\ p <= f
  <2>1. One(OnItsWay) = 0
    BY <1>2 DEF One
  <2> QED BY <2>1, BuyerCounts DEF BuyerInv
<1>5. Exposure = n + p /\ Exposure' = n + p
  <2>1. One(ToSend) = 0 /\ One(ToSend') = 0
    BY <1>2 DEF One
  <2>2. StillToOpen = p /\ StillToOpen' = p
    BY <1>1, <1>4, <2>1 DEF StillToOpen
  <2> QED BY <1>2, <1>4, <2>2 DEF Exposure
<1>6. IsList' /\ Len(left') = n
  <2>1. IsFiniteSet(MyOrders)
    BY BuyerCounts, MineIsFinite DEF BuyerInv, ChainInv
  <2> QED BY <1>1, <1>4, <2>1, ListedLength DEF IsList
<1>7. Cardinality(Creates(txPool')) <= faults' + One(OnItsWay')
  BY <1>1, <1>2, <1>4 DEF One
<1>8. Exposure' <= BuyerMaxOpen + faults'
  BY <1>1, <1>5 DEF BuyerInv
<1>9. Exposure' <= Len(left') + faults'
  BY <1>1, <1>4, <1>5, <1>6
<1> QED BY <1>2, <1>3, <1>6, <1>7, <1>8, <1>9 DEF BuyerInv

\* The confirmations work on the snapshot and leave it as long as it is.
LEMMA ConfirmKeeps ==
  ASSUME VoidIsNoSubmission, BuyerInv, ConfirmStarts \/ ConfirmConcludes
  PROVE  BuyerInv'
<1>1. /\ agent = "confirm" /\ ~OnItsWay /\ ~Opening /\ readAt' = readAt
      /\ UNCHANGED <<nonce, txPool, net, undo, faults>>
  BY DEF BuyerInv, Opening, OnItsWay, ConfirmStarts, ConfirmConcludes, Submits, submissionVars,
         Waits, IsSettled, loopVars
<1>2. \A a, retries : Other(Submitted(About("confirm", a), retries))
  BY PlainKinds DEF Kinds, About
<1>3. submission' = submission \/ submission' = Void \/ Other(submission')
  BY <1>2 DEF ConfirmStarts, ConfirmConcludes, Submits, submissionVars
<1>4. Aside
  BY <1>1, <1>3 DEF Aside
<1>5. ~Opening'
  BY <1>1, <1>3, OtherIsNoOrder DEF Opening
<1>6. CASE ConfirmStarts
  <2>1. left' = left /\ readAt # 0
    BY <1>6 DEF ConfirmStarts, Submits, loopVars
  <2>2. OnSnapshot /\ IsList
    BY <1>1, <2>1 DEF OnSnapshot, BuyerInv
  <2>3. IsList' /\ Len(left') = Len(left)
    BY <2>1, <2>2 DEF IsList
  <2> QED BY <1>4, <1>5, <2>2, <2>3, AsideKeeps
<1>7. CASE ConfirmConcludes
  <2>1. agent' = agent
    BY <1>7 DEF ConfirmConcludes
  <2>2. OnSnapshot' => OnSnapshot
    BY <1>1, <2>1 DEF OnSnapshot
  <2>3. ASSUME OnSnapshot PROVE IsList' /\ Len(left') = Len(left)
    <3>1. PICK n \in Nat : n = Len(left) /\ DOMAIN left = 1..n
      BY <2>3 DEF BuyerInv, IsList
    <3>2. DOMAIN left' = 1..n
      BY <1>7, <3>1 DEF ConfirmConcludes
    <3>3. \E f : left' = [i \in 1..n |-> f[i]]
      <4>1. PICK f : f = left'
        OBVIOUS
      <4>2. left' = [i \in 1..n |-> f[i]]
        BY <1>7, <3>1, <4>1 DEF ConfirmConcludes
      <4> QED BY <4>2
    <3>4. Len(left') = n
      BY <3>1, <3>3
    <3> QED BY <3>1, <3>2, <3>4 DEF IsList
  <2> QED BY <1>4, <1>5, <2>2, <2>3, AsideKeeps
<1> QED BY <1>6, <1>7

\* The decision: there is room in the snapshot, and so among what there is and
\* what may still come, but for the faults.
LEMMA CreateStartsKeeps ==
  ASSUME VoidIsNoSubmission, BuyerInv, CreateStarts
  PROVE  BuyerInv'
<1>1. /\ agent = "create" /\ submission = Void /\ ~OnItsWay /\ ~Opening /\ ~ToSend /\ OnSnapshot
  BY DEF CreateStarts, Waits, OnItsWay, Opening, ToSend, OnSnapshot
<1>2. CASE Skips("create")
  <2>1. Aside /\ ~Opening' /\ GoesOn("create")
    BY <1>1, <1>2 DEF Skips, Aside, submissionVars, Opening, BuyerInv, PoolInv, SubmissionIsOne
  <2>2. agent' # "create" /\ readAt' = 0
    BY <2>1, GoingOn, OrderNames
  <2> QED BY <2>1, <2>2, AsideOffSnapshot
<1>3. ASSUME NEW call, call.kind = "create", Submits(call, MaxRetries), RoomFor(left)
      PROVE  BuyerInv'
  <2>1. /\ DOMAIN Submitted(call, MaxRetries) = SubmissionFields
        /\ Submitted(call, MaxRetries).call = call /\ ~Submitted(call, MaxRetries).direct
        /\ Submitted(call, MaxRetries).stage = "signing"
    BY DEF Submitted, SubmissionFields
  <2>2. /\ nonce' = nonce /\ txPool' = txPool /\ faults' = faults /\ net' = net /\ undo' = undo
        /\ agent' = agent /\ submission' = Submitted(call, MaxRetries) /\ MyOrders' = MyOrders
    BY <1>3 DEF Submits, loopVars, MyOrders
  <2>3. DOMAIN submission' = SubmissionFields /\ submission' # Void /\ submission'.call = call
        /\ ~submission'.direct /\ submission'.stage = "signing"
    BY <2>1, <2>2 DEF VoidIsNoSubmission
  <2>4. Opening' /\ ToSend' /\ ~OnItsWay'
    BY <1>3, <2>3 DEF Opening, ToSend, OnItsWay
  <2>5. PoolInv' /\ ChainInv'
    <3>1. SubmissionIsOne'
      BY <2>2, <2>3 DEF BuyerInv, PoolInv, SubmissionIsOne
    <3>2. submission'.call.kind \in Kinds
      BY <1>3, <2>3 DEF Kinds
    <3>3. PoolInv'
      BY <2>2, <2>3, <2>4, <3>1, <3>2 DEF BuyerInv, PoolInv
    <3>4. ChainInv'
      BY <2>2 DEF BuyerInv, ChainInv
    <3> QED BY <3>3, <3>4
  <2>6. PICK p \in Nat, n \in Nat, f \in Nat, l \in Nat :
          /\ p = Cardinality(Creates(txPool)) /\ n = Cardinality(MyOrders) /\ f = faults
          /\ l = Len(left) /\ Exposure <= l + f
    BY <1>1, BuyerCounts DEF BuyerInv, IsList
  <2>7. Exposure = n + p /\ Exposure' = n + (p + 1)
    <3>1. One(ToSend) = 0 /\ One(ToSend') = 1
      BY <1>1, <2>4 DEF One
    <3>2. StillToOpen = p /\ StillToOpen' = p + 1
      BY <2>2, <2>6, <3>1 DEF StillToOpen
    <3> QED BY <2>2, <2>6, <3>2 DEF Exposure
  <2>8. l < BuyerMaxOpen
    BY <1>3, <2>6 DEF RoomFor
  <2>9. Exposure' <= BuyerMaxOpen + faults'
    BY <2>2, <2>6, <2>7, <2>8, BuyerCap
  <2>10. Cardinality(Creates(txPool')) <= faults' + One(OnItsWay')
    <3>1. One(OnItsWay) = 0 /\ One(OnItsWay') = 0
      BY <1>1, <2>4 DEF One
    <3> QED BY <2>2, <2>6, <3>1 DEF BuyerInv
  <2>11. ~OnSnapshot'
    BY <1>1, <2>2, <2>4 DEF OnSnapshot
  <2> QED BY <1>1, <2>2, <2>5, <2>9, <2>10, <2>11 DEF BuyerInv
<1>4. ASSUME NEW peer, NEW deliverBy
      PROVE  [kind |-> "create", peer |-> peer, deliverBy |-> deliverBy].kind = "create"
  OBVIOUS
<1> QED BY <1>2, <1>3, <1>4 DEF CreateStarts

\* The answer to a create, whatever it was, ends the step.
LEMMA CreateConcludesKeeps ==
  ASSUME VoidIsNoSubmission, BuyerInv, CreateConcludes
  PROVE  BuyerInv'
<1>1. Aside /\ ~Opening' /\ GoesOn("create")
  BY DEF CreateConcludes, Aside, IsSettled, OnItsWay, Opening
<1>2. agent' # "create" /\ readAt' = 0
  BY <1>1, GoingOn, OrderNames
<1> QED BY <1>1, <1>2, AsideOffSnapshot

\* The rest of the process: its start, the end of a tick, a failed read, a crash.
LEMMA ProcessKeeps ==
  ASSUME VoidIsNoSubmission, BuyerInv, Starts \/ AsksFaucet \/ Saves \/ ReadFails \/ Crashes
  PROVE  BuyerInv'
<1>0. faults \in Nat
  BY DEF BuyerInv, PoolInv, SubmissionIsOne
<1>1. CASE Starts
  <2>1. Aside /\ ~Opening' /\ agent' = "register"
    BY <1>1 DEF Starts, Aside, submissionVars, TickStarts, BuyerInv, Opening
  <2> QED BY <2>1, AsideOffSnapshot
<1>2. CASE AsksFaucet
  <2>1. Aside /\ agent' = agent /\ agent = "down" /\ ~Opening'
    BY <1>2 DEF AsksFaucet, Aside, submissionVars, loopVars, BuyerInv, Opening
  <2> QED BY <2>1, AsideOffSnapshot
<1>3. CASE Saves
  <2>1. Aside /\ ~Opening' /\ agent' = "register"
    BY <1>3 DEF Saves, Aside, TickStarts, BuyerInv, Opening
  <2> QED BY <2>1, AsideOffSnapshot
<1>4. CASE ReadFails
  <2>1. Aside /\ ~Opening' /\ agent \in ToSet(Order) \ {"save"}
    BY <1>4 DEF ReadFails, Aside, Waits, Opening
  <2>2. WholeStep(agent) \in ToSet(Order) \ {"save", "confirm"}
    BY <2>1, OrderNames DEF WholeStep
  <2>3. (agent' = "save" /\ readAt' = 0) \/ GoesOn(WholeStep(agent))
    BY <1>4 DEF ReadFails
  <2>4. agent' # "create" /\ readAt' = 0
    BY <2>2, <2>3, GoingOn
  <2> QED BY <2>1, <2>4, AsideOffSnapshot
<1>5. CASE Crashes
  <2>1. Aside /\ ~Opening' /\ agent' = "down"
    BY <1>5 DEF Crashes, Aside, Opening
  <2> QED BY <2>1, AsideOffSnapshot
<1> QED BY <1>1, <1>2, <1>3, <1>4, <1>5

\* The invariant holds at the start, through stutters, and through every step.
LEMMA BuyerStart ==
  ASSUME WorkerInit
  PROVE  BuyerInv
<1>1. /\ nonce = 0 /\ txPool = {} /\ submission = Void /\ faults = 0 /\ undo = Void
      /\ agent = "down" /\ "market" \in DOMAIN net /\ net.market = {}
  BY DEF WorkerInit, SubmissionInit
<1>2. ~Opening /\ ~ToSend /\ ~OnItsWay /\ ~OnSnapshot
  BY <1>1 DEF Opening, ToSend, OnItsWay, OnSnapshot
<1>3. Cardinality({}) = 0 /\ IsFiniteSet({})
  BY FS_EmptySet
<1>4. MyOrders = {} /\ Creates(txPool) = {}
  BY <1>1 DEF MyOrders, Creates
<1>5. PoolInv /\ ChainInv
  BY <1>1, <1>2, <1>3, NoncesAreTold DEF PoolInv, ChainInv, SubmissionIsOne, Nonces
<1>6. One(OnItsWay) = 0 /\ StillToOpen = 0 /\ Exposure = 0
  BY <1>2, <1>3, <1>4 DEF One, StillToOpen, Exposure
<1>7. Cardinality(Creates(txPool)) <= faults + One(OnItsWay)
  <2>1. Cardinality(Creates(txPool)) = 0
    BY <1>3, <1>4
  <2> QED BY <1>1, <1>6, <2>1
<1>8. Exposure <= BuyerMaxOpen + faults
  BY <1>1, <1>6, BuyerCap
<1> QED BY <1>2, <1>5, <1>7, <1>8 DEF BuyerInv

LEMMA BuyerStutter ==
  ASSUME BuyerInv, UNCHANGED workerVars
  PROVE  BuyerInv'
<1>1. /\ nonce' = nonce /\ txPool' = txPool /\ submission' = submission /\ faults' = faults
      /\ net' = net /\ undo' = undo /\ agent' = agent /\ left' = left /\ readAt' = readAt
  BY DEF workerVars, workerOwn, loopVars, submissionVars
<1>2. (Opening' <=> Opening) /\ Aside /\ MyOrders' = MyOrders
  BY <1>1 DEF Opening, MyOrders, Aside, BuyerInv, PoolInv, SubmissionIsOne
<1> QED BY <1>1, <1>2 DEF BuyerInv, PoolInv, ChainInv, SubmissionIsOne, OnSnapshot, IsList, Exposure,
     StillToOpen, OnItsWay, ToSend, Opening, OwnTx, MyOrders

LEMMA BuyerStep ==
  ASSUME VoidIsNoSubmission, BuyerInv, [WorkerNext]_workerVars
  PROVE  BuyerInv'
<1>1. CASE UNCHANGED workerVars
  BY <1>1, BuyerStutter
<1>2. ASSUME NEW tx \in txPool, Lands(tx) \/ Drops(tx)
      PROVE  BuyerInv'
  BY <1>2, LandsKeeps, DropsKeeps
<1>3. CASE GivesUpLast
  BY <1>3, GivesUpKeeps
<1>4. CASE \/ NextBlock
           \/ \E client \in Clients : Offer(client)
           \/ \E a \in net.market : PeerDelivers(a) \/ Closes(a)
  BY <1>4, MarketStepsKeep
<1>5. CASE Starts \/ AsksFaucet \/ Saves \/ ReadFails \/ Crashes
  BY <1>5, ProcessKeeps
<1>6. ASSUME NEW step \in ToSet(Order), Decides(step) \/ Concludes(step)
      PROVE  BuyerInv'
  BY <1>6, DecidesKeeps, ConcludesKeeps
<1>7. CASE ReadsWork \/ ProvideStarts \/ AcceptConcludes \/ DeliverConcludes
  BY <1>7, ProvideKeeps
<1>8. CASE ReadsOrders \/ ConfirmStarts \/ ConfirmConcludes \/ CreateStarts \/ CreateConcludes
  BY <1>8, ReadsOrdersKeeps, ConfirmKeeps, CreateStartsKeeps, CreateConcludesKeeps
<1>9. CASE Sends
  BY <1>9, SendsKeep
<1>10. Ticks => \/ \E step \in ToSet(Order) : Decides(step) \/ Concludes(step)
                \/ ReadsWork \/ ProvideStarts \/ AcceptConcludes \/ DeliverConcludes
                \/ ReadsOrders \/ ConfirmStarts \/ ConfirmConcludes \/ CreateStarts \/ CreateConcludes
                \/ Saves
  BY DEF Ticks
<1> QED BY <1>1, <1>2, <1>3, <1>4, <1>5, <1>6, <1>7, <1>8, <1>9, <1>10 DEF WorkerNext

\* What the operator's agent has open as a buyer exceeds its configured cap by
\* no more than the faults it met: buy() opens on a snapshot that confirmations
\* of the same tick make stale, its create is retried by submitAndWatch, and an
\* attempt reported as failed may land later; each such agreement is paid
\* for by a fault (a lost call, a dropped transaction, a block given up, a
\* crash).  It holds for any cap, registry, peers and any number of faults.
THEOREM OpenStaysBounded ==
  ASSUME VoidIsNoSubmission
  PROVE  WorkerSpec => []OpenIsBounded
<1>1. WorkerInit => BuyerInv
  BY BuyerStart
<1>2. BuyerInv /\ [WorkerNext]_workerVars => BuyerInv'
  BY BuyerStep
<1>3. BuyerInv => OpenIsBounded
  <2> SUFFICES ASSUME BuyerInv PROVE OpenIsBounded
    OBVIOUS
  <2>1. PICK n \in Nat, o \in Nat, f \in Nat :
          n = Cardinality(MyOrders) /\ o = StillToOpen /\ f = faults /\ n + o <= BuyerMaxOpen + f
    BY BuyerCounts DEF BuyerInv, Exposure
  <2>2. n <= BuyerMaxOpen + f
    BY <2>1, BuyerCap
  <2> QED BY <2>1, <2>2 DEF OpenIsBounded
<1> QED BY <1>1, <1>2, <1>3, PTL DEF WorkerSpec


-----------------------------------------------------------------------------
(* Messages: sequences.                                                    *)

\* A sequence, of whatever.
IsSequence(s) == \E S : s \in Seq(S)

LEMMA SequenceHas ==
  ASSUME NEW s, IsSequence(s)
  PROVE  Len(s) \in Nat /\ DOMAIN s = 1..Len(s)
BY DEF IsSequence

\* Two sequences are sequences over what either has.
LEMMA Concatenates ==
  ASSUME NEW s, NEW t, IsSequence(s), IsSequence(t)
  PROVE  /\ IsSequence(s \o t) /\ Len(s \o t) = Len(s) + Len(t)
         /\ \A i \in 1..Len(s) : (s \o t)[i] = s[i]
         /\ \A i \in 1..Len(t) : (s \o t)[Len(s) + i] = t[i]
<1>1. PICK S : s \in Seq(S)
  BY DEF IsSequence
<1>2. PICK T : t \in Seq(T)
  BY DEF IsSequence
<1>3. s \in Seq(S \cup T) /\ t \in Seq(S \cup T)
  BY <1>1, <1>2, SeqMonotonic
<1> QED BY <1>3, ConcatProperties DEF IsSequence

Joins(both, s, m, t, n) ==
  /\ IsSequence(both) /\ Len(both) = m + n
  /\ \A i \in 1..m : both[i] = s[i]
  /\ \A i \in 1..n : both[m + i] = t[i]

LEMMA Joined ==
  ASSUME NEW s, NEW t, IsSequence(s), IsSequence(t)
  PROVE  Joins(s \o t, s, Len(s), t, Len(t))
BY Concatenates DEF Joins

LEMMA Appends ==
  ASSUME NEW s, IsSequence(s), NEW x
  PROVE  /\ IsSequence(Append(s, x)) /\ Len(Append(s, x)) = Len(s) + 1
         /\ \A i \in 1..Len(s) : Append(s, x)[i] = s[i]
         /\ Append(s, x)[Len(s) + 1] = x
<1>1. PICK S : s \in Seq(S)
  BY DEF IsSequence
<1>2. s \in Seq(S \cup {x})
  BY <1>1, SeqMonotonic
<1>3. Append(s, x) \in Seq(S \cup {x})
  BY <1>2
<1>4. /\ Len(Append(s, x)) = Len(s) + 1
      /\ \A i \in 1..Len(s) : Append(s, x)[i] = s[i]
      /\ Append(s, x)[Len(s) + 1] = x
  BY <1>2
<1> QED BY <1>3, <1>4 DEF IsSequence

LEMMA FrontOf ==
  ASSUME NEW s, IsSequence(s), Len(s) > 0
  PROVE  /\ IsSequence(Front(s)) /\ Len(Front(s)) = Len(s) - 1
         /\ \A i \in 1..(Len(s) - 1) : Front(s)[i] = s[i]
<1>1. PICK S : s \in Seq(S)
  BY DEF IsSequence
<1>2. PICK n \in Nat : n = Len(s) - 1
  BY <1>1
<1>3. \A i \in 1..n : s[i] \in S
  BY <1>1, <1>2
<1>4. /\ SubSeq(s, 1, n) \in Seq(S) /\ Len(SubSeq(s, 1, n)) = n
      /\ \A i \in 1..n : SubSeq(s, 1, n)[i] = s[i]
  BY <1>2, <1>3, SubSeqProperties
<1> QED BY <1>2, <1>4 DEF Front, IsSequence

-----------------------------------------------------------------------------
(* Frames: what a whole or a shortened one says of its envelope.           *)

IsMessage(m) ==
  /\ m.envelope.to \in Recipients /\ m.envelope.nonce \in Nat
  /\ m.envelope.agreement = <<>> \/ m.envelope.agreement = <<m.envelope.agreement[1]>>
  /\ m.body.type \in {"None", "Plain", "Sealed"}

\* Eight fields, or ten with an agreement, of which three stand before it and
\* three behind.
LEMMA EnvelopeFields ==
  ASSUME NEW e, e.agreement = <<>> \/ e.agreement = <<e.agreement[1]>>,
         NEW fields, fields = EncodeEnvelope(e)
  PROVE  /\ IsSequence(fields) /\ fields[3] = e.to
         /\ \/ fields[5] = 0 /\ Len(fields) = 8 /\ fields[6] = e.nonce
            \/ fields[5] = 1 /\ Len(fields) = 10 /\ fields[8] = e.nonce
<1>a. PICK a : a = Len(e.agreement)
  OBVIOUS
<1>b. PICK first : first = <<e.version, e.from, e.to, e.kind>>
  OBVIOUS
<1>c. PICK ref : ref = IF e.agreement = <<>> THEN <<>> ELSE <<e.agreement[1].account, e.agreement[1].seq>>
  OBVIOUS
<1>d. PICK tag : tag = <<a>>
  OBVIOUS
<1>e. PICK rest : rest = <<e.nonce, e.expiresAtBlock, e.payloadHash>>
  OBVIOUS
<1>1. IsSequence(first) /\ Len(first) = 4 /\ first[3] = e.to
  <2>1. first \in Seq({e.version, e.from, e.to, e.kind})
    BY <1>b
  <2> QED BY <1>b, <2>1 DEF IsSequence
<1>2. IsSequence(rest) /\ Len(rest) = 3 /\ rest[1] = e.nonce
  <2>1. rest \in Seq({e.nonce, e.expiresAtBlock, e.payloadHash})
    BY <1>e
  <2> QED BY <1>e, <2>1 DEF IsSequence
<1>3. IsSequence(tag) /\ Len(tag) = 1 /\ tag[1] = a
  <2>1. tag \in Seq({a})
    BY <1>d
  <2> QED BY <1>d, <2>1 DEF IsSequence
<1>4. \/ a = 0 /\ IsSequence(ref) /\ Len(ref) = 0
      \/ a = 1 /\ IsSequence(ref) /\ Len(ref) = 2
  <2>1. CASE e.agreement = <<>>
    <3>1. ref \in Seq({}) /\ Len(ref) = 0
      BY <1>c, <2>1
    <3>2. a = 0
      BY <1>a, <2>1
    <3> QED BY <3>1, <3>2 DEF IsSequence
  <2>2. CASE e.agreement # <<>>
    <3>1. PICK x : x = e.agreement[1]
      OBVIOUS
    <3>2. e.agreement = <<x>>
      BY <2>2, <3>1
    <3>3. a = 1
      BY <1>a, <3>2
    <3>4. ref = <<x.account, x.seq>>
      BY <1>c, <2>2, <3>1
    <3>5. ref \in Seq({x.account, x.seq}) /\ Len(ref) = 2
      BY <3>4
    <3> QED BY <3>3, <3>5 DEF IsSequence
  <2> QED BY <2>1, <2>2
<1>5. PICK agreement, head : /\ agreement = tag \o ref /\ head = first \o agreement
                             /\ fields = head \o rest
  BY <1>a, <1>b, <1>c, <1>d, <1>e DEF EncodeEnvelope, EncodeAgreement
<1>6. /\ IsSequence(agreement) /\ agreement[1] = a
      /\ Len(agreement) = IF a = 0 THEN 1 ELSE 3
  <2>1. PICK n : n = IF a = 0 THEN 0 ELSE 2
    OBVIOUS
  <2>2. n = Len(ref) /\ 1 + n = IF a = 0 THEN 1 ELSE 3
    BY <1>4, <2>1
  <2>3. Joins(tag \o ref, tag, Len(tag), ref, Len(ref))
    BY <1>3, <1>4, Joined
  <2>4. Joins(agreement, tag, 1, ref, n)
    BY <1>3, <1>5, <2>2, <2>3
  <2> QED BY <1>3, <2>2, <2>4 DEF Joins
<1>7. /\ IsSequence(head) /\ Len(head) = IF a = 0 THEN 5 ELSE 7
      /\ head[3] = e.to /\ head[5] = a
  <2>1. PICK n : n = Len(agreement)
    OBVIOUS
  <2>2. n \in Nat /\ n >= 1
    BY <1>4, <1>6, <2>1
  <2>3. Joins(first \o agreement, first, Len(first), agreement, Len(agreement))
    BY <1>1, <1>6, Joined
  <2>4. Joins(head, first, 4, agreement, n)
    BY <1>1, <1>5, <2>1, <2>3
  <2>5. head[3] = first[3] /\ head[4 + 1] = agreement[1] /\ IsSequence(head) /\ Len(head) = 4 + n
    BY <2>2, <2>4 DEF Joins
  <2>6. 4 + n = IF a = 0 THEN 5 ELSE 7
    BY <1>4, <1>6, <2>1
  <2> QED BY <1>1, <1>6, <2>5, <2>6
<1>8. /\ IsSequence(fields) /\ Len(fields) = IF a = 0 THEN 8 ELSE 10
      /\ fields[3] = e.to /\ fields[5] = a
      /\ fields[IF a = 0 THEN 6 ELSE 8] = e.nonce
  <2>1. PICK m : m = Len(head)
    OBVIOUS
  <2>a. Joins(head \o rest, head, Len(head), rest, Len(rest))
    BY <1>2, <1>7, Joined
  <2>b. Joins(fields, head, m, rest, 3)
    BY <1>2, <1>5, <2>1, <2>a
  <2>2. /\ IsSequence(fields) /\ Len(fields) = m + 3
        /\ \A i \in 1..m : fields[i] = head[i]
        /\ \A i \in 1..3 : fields[m + i] = rest[i]
    BY <2>b DEF Joins
  <2>3. m = IF a = 0 THEN 5 ELSE 7
    BY <1>7, <2>1
  <2>4. fields[3] = head[3] /\ fields[5] = head[5] /\ fields[m + 1] = rest[1]
    BY <2>2, <2>3
  <2>5. fields[IF a = 0 THEN 6 ELSE 8] = rest[1]
    BY <1>4, <2>3, <2>4
  <2> QED BY <1>2, <1>4, <1>7, <2>2, <2>3, <2>4, <2>5
<1> QED BY <1>a, <1>4, <1>8

\* A frame that lost its last field still has its envelope.
LEMMA FrameTells ==
  ASSUME NEW m, IsMessage(m), NEW whole, whole = EncodeSignedMessage(m),
         NEW frame \in {whole, Front(whole)}
  PROVE  /\ DecodeSignedMessage(frame).envelope.to = m.envelope.to
         /\ DecodeSignedMessage(frame).envelope.nonce = m.envelope.nonce
<1>1. PICK fields : fields = EncodeEnvelope(m.envelope)
  OBVIOUS
<1>2. /\ IsSequence(fields) /\ fields[3] = m.envelope.to
      /\ \/ fields[5] = 0 /\ Len(fields) = 8 /\ fields[6] = m.envelope.nonce
         \/ fields[5] = 1 /\ Len(fields) = 10 /\ fields[8] = m.envelope.nonce
  <2>1. PICK e : e = m.envelope
    OBVIOUS
  <2> QED BY <1>1, <2>1, EnvelopeFields DEF IsMessage
<1>3. PICK l \in {8, 10} : l = Len(fields)
  BY <1>2
<1>a. \/ l = 8 /\ fields[5] = 0 /\ fields[6] = m.envelope.nonce
      \/ l = 10 /\ fields[5] = 1 /\ fields[8] = m.envelope.nonce
  BY <1>2, <1>3
<1>4. PICK signature : signature = <<m.signature>>
  OBVIOUS
<1>5. IsSequence(signature) /\ Len(signature) = 1
  <2>1. signature \in Seq({m.signature})
    BY <1>4
  <2> QED BY <1>4, <2>1 DEF IsSequence
<1>6. PICK body : body = EncodeBody(m.body)
  OBVIOUS
<1>7. IsSequence(body) /\ Len(body) >= 1
  <2>1. CASE m.body.type = "None"
    <3>1. body = <<"None">>
      BY <1>6, <2>1 DEF EncodeBody
    <3>2. body \in Seq({"None"})
      BY <3>1
    <3>3. IsSequence(body)
      BY <3>2 DEF IsSequence
    <3>4. Len(body) = 1
      BY <3>1
    <3> QED BY <3>3, <3>4
  <2>2. CASE m.body.type = "Plain"
    <3>1. body = <<"Plain", m.body.bytes>>
      BY <1>6, <2>2 DEF EncodeBody
    <3>2. body \in Seq({"Plain", m.body.bytes})
      BY <3>1
    <3>3. IsSequence(body)
      BY <3>2 DEF IsSequence
    <3>4. Len(body) = 2
      BY <3>1
    <3> QED BY <3>3, <3>4
  <2>3. CASE m.body.type = "Sealed"
    <3>1. body = <<"Sealed", m.body.senderKey, m.body.ciphertext>>
      BY <1>6, <2>3 DEF EncodeBody
    <3>2. body \in Seq({"Sealed", m.body.senderKey, m.body.ciphertext})
      BY <3>1
    <3>3. IsSequence(body)
      BY <3>2 DEF IsSequence
    <3>4. Len(body) = 3
      BY <3>1
    <3> QED BY <3>3, <3>4
  <2> QED BY <2>1, <2>2, <2>3 DEF IsMessage
<1>8. PICK start : start = fields \o signature
  OBVIOUS
<1>9. Joins(start, fields, l, signature, 1)
  BY <1>2, <1>3, <1>5, <1>8, Joined
<1>10. PICK b : b = Len(body)
  OBVIOUS
<1>11. b \in Nat /\ b >= 1
  BY <1>7, <1>10, SequenceHas
<1>12. Joins(whole, start, l + 1, body, b)
  <2>1. IsSequence(start) /\ Len(start) = l + 1
    BY <1>9 DEF Joins
  <2>2. whole = start \o body
    BY <1>1, <1>4, <1>6, <1>8 DEF EncodeSignedMessage
  <2> QED BY <1>7, <1>10, <2>1, <2>2, Joined
<1>13. IsSequence(whole) /\ Len(whole) = l + 1 + b /\ \A i \in 1..l : whole[i] = fields[i]
  <2>1. \A i \in 1..l : i \in 1..(l + 1)
    BY <1>3
  <2> QED BY <1>9, <1>12, <2>1 DEF Joins
<1>14. Len(frame) \in Nat /\ Len(frame) >= 9 /\ \A i \in 1..l : frame[i] = fields[i]
  <2>1. CASE frame = whole
    BY <1>3, <1>11, <1>13, <2>1
  <2>2. CASE frame = Front(whole)
    <3>1. Len(whole) \in Nat /\ Len(whole) > 0 /\ Len(whole) - 1 >= 9 /\ Len(whole) - 1 > l
      BY <1>3, <1>11, <1>13
    <3>2. Len(frame) = Len(whole) - 1 /\ \A i \in 1..(Len(whole) - 1) : frame[i] = whole[i]
      BY <1>13, <2>2, <3>1, FrontOf
    <3>3. \A i \in 1..l : i \in 1..(Len(whole) - 1)
      BY <1>3, <3>1
    <3> QED BY <1>13, <3>1, <3>2, <3>3
  <2> QED BY <2>1, <2>2
<1>15. frame[3] = m.envelope.to /\ EnvelopeLength(frame) = l
  <2>1. 3 \in 1..l /\ 5 \in 1..l
    BY <1>3
  <2>2. frame[3] = fields[3] /\ frame[5] = fields[5]
    BY <1>14, <2>1
  <2>3. 8 + 2 * fields[5] = l
    BY <1>a
  <2> QED BY <1>2, <1>14, <2>2, <2>3 DEF EnvelopeLength
<1>16. frame[l - 2] = m.envelope.nonce
  <2>1. l - 2 \in 1..l /\ fields[l - 2] = m.envelope.nonce
    <3>1. CASE l = 8
      BY <1>a, <3>1
    <3>2. CASE l = 10
      BY <1>a, <3>2
    <3> QED BY <1>a, <3>1, <3>2
  <2> QED BY <1>14, <2>1
<1> QED BY <1>15, <1>16 DEF DecodeSignedMessage, ReadEnvelope

-----------------------------------------------------------------------------
(* Verdicts.                                                               *)

Ids == DOMAIN envelopes
ToOf(id) == envelopes[id].envelope.to
NonceOf(id) == envelopes[id].envelope.nonce

MessagesInv == IsSequence(envelopes) /\ \A id \in Ids : IsMessage(envelopes[id])

NoncesGrow == \A i, j \in Ids : i < j /\ ToOf(i) = ToOf(j) => NonceOf(i) < NonceOf(j)

\* The highest nonce accepted is that of a message used, and no nonce of an
\* accepted message is above it.
InboxInv ==
  /\ IsSequence(verdicts)
  /\ \A i \in DOMAIN verdicts : verdicts[i].id \in Ids
  /\ tracker # Void =>
       /\ tracker \in Nat
       /\ \E j \in DOMAIN verdicts : /\ verdicts[j].verdict \in Used
                                     /\ ToOf(verdicts[j].id) = Me
                                     /\ NonceOf(verdicts[j].id) = tracker
  /\ \A j \in DOMAIN verdicts :
       verdicts[j].verdict = "accepted" => tracker # Void /\ NonceOf(verdicts[j].id) <= tracker
  /\ ReplaysAreOld

\* What the inbox makes of a copy of message id: a verdict of no consequence,
\* or a message it uses.
Reports(id, verdict) == verdicts' = Append(verdicts, [id |-> id, verdict |-> verdict])
Refuses(id) ==
  \E verdict :
    /\ verdict # "accepted" /\ Reports(id, verdict) /\ tracker' = tracker
    /\ verdict = "replay" => ToOf(id) = Me /\ ~IsFresh(tracker, NonceOf(id))
Uses(id) ==
  /\ \E verdict \in Used : Reports(id, verdict)
  /\ tracker' = NonceOf(id) /\ ToOf(id) = Me /\ IsFresh(tracker, NonceOf(id))

LEMMA VerdictSays ==
  ASSUME NEW m, NEW calls, NEW head, NEW seen, NEW lookup, NEW verdict,
         verdict = Verdict(m, calls, head, seen, lookup)
  PROVE  /\ verdict = "accepted" => m.envelope.to = Me /\ IsFresh(seen, m.envelope.nonce)
         /\ verdict = "replay" => m.envelope.to = Me /\ ~IsFresh(seen, m.envelope.nonce)
<1>1. PICK onBody : onBody = BodyVerdict(m, lookup)
  OBVIOUS
<1>2. onBody # "replay"
  BY <1>1 DEF BodyVerdict
<1> QED BY <1>1, <1>2 DEF Verdict

LEMMA ReceiveSays ==
  ASSUME MessagesInv, NEW id \in Ids, NEW whole, whole = EncodeSignedMessage(envelopes[id]),
         NEW frame \in {whole, Front(whole)}, NEW calls, NEW head,
         NEW inbox \in Receive(Inbox, id, frame, calls, head), Becomes(inbox)
  PROVE  Refuses(id) \/ Uses(id)
<1>1. CASE ~Decodes(frame)
  <2>1. inbox = Says(Inbox, id, "malformed")
    BY <1>1 DEF Receive
  <2>2. Reports(id, "malformed") /\ tracker' = tracker
    BY <2>1 DEF Says, Inbox, Becomes, Reports
  <2> QED BY <2>2 DEF Refuses
<1>2. CASE Decodes(frame)
  <2>1. PICK m, lookup : /\ m = DecodeSignedMessage(frame)
                         /\ inbox = Read(Inbox, id, m, Verdict(m, calls, head, Inbox.seen, lookup), lookup)
    BY <1>2 DEF Receive
  <2>2. m.envelope.to = ToOf(id) /\ m.envelope.nonce = NonceOf(id)
    <3>1. IsMessage(envelopes[id])
      BY DEF MessagesInv
    <3> QED BY <2>1, <3>1, FrameTells DEF ToOf, NonceOf
  <2>3. PICK verdict : verdict = Verdict(m, calls, head, tracker, lookup)
    OBVIOUS
  <2>4. inbox = Read(Inbox, id, m, verdict, lookup)
    BY <2>1, <2>3 DEF Inbox
  <2>5. /\ verdict = "accepted" => ToOf(id) = Me /\ IsFresh(tracker, NonceOf(id))
        /\ verdict = "replay" => ToOf(id) = Me /\ ~IsFresh(tracker, NonceOf(id))
    BY <2>2, <2>3, VerdictSays
  <2>6. CASE verdict # "accepted"
    <3>1. inbox = Says(Inbox, id, verdict)
      BY <2>4, <2>6 DEF Read
    <3>2. Reports(id, verdict) /\ tracker' = tracker
      BY <3>1 DEF Says, Inbox, Becomes, Reports
    <3> QED BY <2>5, <2>6, <3>2 DEF Refuses
  <2>7. CASE verdict = "accepted"
    <3>1. PICK said : /\ said \in Used
                      /\ inbox = Says([Inbox EXCEPT !.seen = m.envelope.nonce], id, said)
      BY <2>4, <2>7 DEF Read, Used
    <3>2. Reports(id, said) /\ tracker' = m.envelope.nonce
      BY <3>1 DEF Says, Inbox, Becomes, Reports
    <3> QED BY <2>2, <2>5, <2>7, <3>1, <3>2 DEF Uses
  <2> QED BY <2>6, <2>7
<1> QED BY <1>1, <1>2

\* Of two messages to the inbox, the one with the lower nonce is the older.
LEMMA LowerIsOlder ==
  ASSUME MessagesInv, NoncesGrow, NEW i \in Ids, NEW j \in Ids, ToOf(i) = ToOf(j),
         NonceOf(i) <= NonceOf(j)
  PROVE  i <= j
<1>1. i \in Nat /\ j \in Nat
  BY SequenceHas DEF MessagesInv, Ids
<1>2. NonceOf(i) \in Nat /\ NonceOf(j) \in Nat
  BY DEF MessagesInv, IsMessage, NonceOf
<1>3. CASE j < i
  <2>1. NonceOf(j) < NonceOf(i)
    BY <1>3 DEF NoncesGrow
  <2> QED BY <1>2, <2>1
<1> QED BY <1>1, <1>3

Grown(n, id, verdict) ==
  /\ IsSequence(verdicts') /\ DOMAIN verdicts' = 1..(n + 1) /\ DOMAIN verdicts = 1..n
  /\ \A i \in 1..n : verdicts'[i] = verdicts[i]
  /\ verdicts'[n + 1] = [id |-> id, verdict |-> verdict]

LEMMA ReportsGrow ==
  ASSUME InboxInv, NEW id, NEW verdict, Reports(id, verdict)
  PROVE  \E n \in Nat : Grown(n, id, verdict)
<1>1. PICK n \in Nat : n = Len(verdicts)
  BY SequenceHas DEF InboxInv
<1>2. IsSequence(verdicts') /\ Len(verdicts') = n + 1
  BY <1>1, Appends DEF Reports, InboxInv
<1>3. /\ \A i \in 1..n : verdicts'[i] = verdicts[i]
      /\ verdicts'[n + 1] = [id |-> id, verdict |-> verdict]
  BY <1>1, Appends DEF Reports, InboxInv
<1> QED BY <1>1, <1>2, <1>3, SequenceHas DEF InboxInv, Grown

\* What it reports without using the message.
LEMMA RefusesKeeps ==
  ASSUME MessagesInv, NoncesGrow, InboxInv, NEW id \in Ids, Refuses(id), UNCHANGED envelopes
  PROVE  InboxInv'
<1>1. PICK verdict : /\ verdict # "accepted" /\ Reports(id, verdict) /\ tracker' = tracker
                     /\ verdict = "replay" => ToOf(id) = Me /\ ~IsFresh(tracker, NonceOf(id))
  BY DEF Refuses
<1>2. PICK n \in Nat : Grown(n, id, verdict)
  BY <1>1, ReportsGrow
<1>4. \A i \in DOMAIN verdicts' : verdicts'[i].id \in Ids'
  BY <1>2 DEF Grown, InboxInv, Ids
<1>5. tracker' # Void =>
        /\ tracker' \in Nat
        /\ \E j \in DOMAIN verdicts' : /\ verdicts'[j].verdict \in Used
                                       /\ ToOf(verdicts'[j].id) = Me
                                       /\ NonceOf(verdicts'[j].id) = tracker'
  <2> SUFFICES ASSUME tracker # Void
               PROVE  /\ tracker \in Nat
                      /\ \E j \in DOMAIN verdicts' : /\ verdicts'[j].verdict \in Used
                                                     /\ ToOf(verdicts'[j].id) = Me
                                                     /\ NonceOf(verdicts'[j].id) = tracker
    BY <1>1
  <2>1. PICK j \in DOMAIN verdicts : /\ verdicts[j].verdict \in Used
                                     /\ ToOf(verdicts[j].id) = Me
                                     /\ NonceOf(verdicts[j].id) = tracker
    BY DEF InboxInv
  <2>2. j \in DOMAIN verdicts' /\ verdicts'[j] = verdicts[j]
    BY <1>2 DEF Grown
  <2> QED BY <2>1, <2>2 DEF InboxInv
<1>6. \A j \in DOMAIN verdicts' :
        verdicts'[j].verdict = "accepted" => tracker' # Void /\ NonceOf(verdicts'[j].id) <= tracker'
  <2> SUFFICES ASSUME NEW j \in DOMAIN verdicts', verdicts'[j].verdict = "accepted"
               PROVE  tracker # Void /\ NonceOf(verdicts'[j].id) <= tracker
    BY <1>1
  <2>1. j \in DOMAIN verdicts /\ verdicts'[j] = verdicts[j]
    BY <1>1, <1>2 DEF Grown
  <2> QED BY <2>1 DEF InboxInv
<1>7. ReplaysAreOld'
  <2>1. ASSUME NEW i \in DOMAIN verdicts', NEW j \in DOMAIN verdicts',
               verdicts'[i].verdict = "accepted", verdicts'[j] = verdicts'[i]
        PROVE  i = j
    <3>1. i \in 1..n /\ j \in 1..n
      BY <1>1, <1>2, <2>1 DEF Grown
    <3> QED BY <1>2, <2>1, <3>1 DEF Grown, InboxInv, ReplaysAreOld
  <2>2. ASSUME NEW i \in DOMAIN verdicts', verdicts'[i].verdict = "replay"
        PROVE  \E j \in 1..(i - 1) : verdicts'[j].verdict \in Used /\ verdicts'[j].id >= verdicts'[i].id
    <3>1. CASE i \in 1..n
      <4>1. PICK j \in 1..(i - 1) : verdicts[j].verdict \in Used /\ verdicts[j].id >= verdicts[i].id
        BY <1>2, <2>2, <3>1 DEF Grown, InboxInv, ReplaysAreOld
      <4>2. j \in 1..n
        BY <3>1
      <4> QED BY <1>2, <3>1, <4>1, <4>2 DEF Grown
    <3>2. CASE i = n + 1
      <4>1. verdict = "replay" /\ verdicts'[i].id = id
        BY <1>2, <2>2, <3>2 DEF Grown
      <4>2. ToOf(id) = Me /\ tracker # Void /\ ~(NonceOf(id) > tracker)
        BY <1>1, <4>1 DEF IsFresh
      <4>3. PICK j \in DOMAIN verdicts : /\ verdicts[j].verdict \in Used
                                         /\ ToOf(verdicts[j].id) = Me
                                         /\ NonceOf(verdicts[j].id) = tracker
        BY <4>2 DEF InboxInv
      <4>4. verdicts[j].id \in Ids
        BY <4>3 DEF InboxInv
      <4>5. NonceOf(id) \in Nat /\ tracker \in Nat
        BY <4>2 DEF MessagesInv, IsMessage, NonceOf, InboxInv
      <4>6. id <= verdicts[j].id
        BY <4>2, <4>3, <4>4, <4>5, LowerIsOlder
      <4>7. j \in 1..n /\ j \in 1..(i - 1) /\ verdicts'[j] = verdicts[j]
        BY <1>2, <3>2, <4>3 DEF Grown
      <4>8. verdicts[j].id >= id
        <5>1. id \in Nat /\ verdicts[j].id \in Nat
          BY <4>4, SequenceHas DEF MessagesInv, Ids
        <5> QED BY <4>6, <5>1
      <4> QED BY <4>1, <4>3, <4>7, <4>8
    <3>3. i \in 1..n \/ i = n + 1
      BY <1>2, <2>2 DEF Grown
    <3> QED BY <3>1, <3>2, <3>3
  <2> QED BY <2>1, <2>2 DEF ReplaysAreOld
<1> QED BY <1>2, <1>4, <1>5, <1>6, <1>7 DEF InboxInv, Grown, ToOf, NonceOf, Ids

\* A message it uses is above everything it used before.
LEMMA UsesKeeps ==
  ASSUME MessagesInv, InboxInv, NEW id \in Ids, Uses(id), UNCHANGED envelopes
  PROVE  InboxInv'
<1>1. PICK verdict \in Used : Reports(id, verdict)
  BY DEF Uses
<1>2. PICK n \in Nat : Grown(n, id, verdict)
  BY <1>1, ReportsGrow
<1>4. /\ tracker' = NonceOf(id) /\ NonceOf(id) \in Nat /\ ToOf(id) = Me
      /\ tracker # Void => tracker \in Nat /\ NonceOf(id) > tracker
  BY DEF MessagesInv, IsMessage, NonceOf, InboxInv, Uses, IsFresh
<1>5. \A i \in DOMAIN verdicts' : verdicts'[i].id \in Ids'
  BY <1>2 DEF Grown, InboxInv, Ids
<1>6. /\ tracker' \in Nat /\ tracker' # Void
      /\ \E j \in DOMAIN verdicts' : /\ verdicts'[j].verdict \in Used
                                     /\ ToOf(verdicts'[j].id) = Me
                                     /\ NonceOf(verdicts'[j].id) = tracker'
  <2>1. n + 1 \in DOMAIN verdicts' /\ verdicts'[n + 1].verdict \in Used /\ verdicts'[n + 1].id = id
    BY <1>1, <1>2 DEF Grown
  <2> QED BY <1>4, <2>1, MessagingConstants
<1>7. \A i \in 1..n : verdicts[i].verdict = "accepted" =>
                        verdicts[i].id \in Ids /\ NonceOf(verdicts[i].id) < NonceOf(id)
  <2> SUFFICES ASSUME NEW i \in 1..n, verdicts[i].verdict = "accepted"
               PROVE  verdicts[i].id \in Ids /\ NonceOf(verdicts[i].id) < NonceOf(id)
    OBVIOUS
  <2>1. tracker # Void /\ NonceOf(verdicts[i].id) <= tracker /\ verdicts[i].id \in Ids
    BY <1>2 DEF InboxInv, Grown
  <2>2. NonceOf(verdicts[i].id) \in Nat
    BY <2>1 DEF MessagesInv, IsMessage, NonceOf
  <2> QED BY <1>4, <2>1, <2>2
<1>8. \A j \in DOMAIN verdicts' :
        verdicts'[j].verdict = "accepted" => tracker' # Void /\ NonceOf(verdicts'[j].id) <= tracker'
  <2> SUFFICES ASSUME NEW j \in DOMAIN verdicts', verdicts'[j].verdict = "accepted"
               PROVE  NonceOf(verdicts'[j].id) <= NonceOf(id)
    BY <1>4, <1>6
  <2>1. CASE j \in 1..n
    <3>1. verdicts'[j] = verdicts[j]
      BY <1>2, <2>1 DEF Grown
    <3>2. verdicts[j].id \in Ids /\ NonceOf(verdicts[j].id) < NonceOf(id)
      BY <1>7, <2>1, <3>1
    <3>3. NonceOf(verdicts[j].id) \in Nat
      BY <3>2 DEF MessagesInv, IsMessage, NonceOf
    <3> QED BY <1>4, <3>1, <3>2, <3>3
  <2>2. CASE j = n + 1
    BY <1>2, <1>4, <2>2 DEF Grown
  <2> QED BY <1>2, <2>1, <2>2 DEF Grown
<1>9. ReplaysAreOld'
  <2>1. ASSUME NEW i \in DOMAIN verdicts', NEW j \in DOMAIN verdicts',
               verdicts'[i].verdict = "accepted", verdicts'[j] = verdicts'[i]
        PROVE  i = j
    <3>1. ASSUME NEW k \in 1..n, verdicts[k].verdict = "accepted"
          PROVE  verdicts[k].id # id
      BY <1>4, <1>7, <3>1
    <3>2. (i \in 1..n \/ i = n + 1) /\ (j \in 1..n \/ j = n + 1)
      BY <1>2 DEF Grown
    <3>3. CASE i \in 1..n /\ j \in 1..n
      BY <1>2, <2>1, <3>3 DEF Grown, InboxInv, ReplaysAreOld
    <3>4. CASE i \in 1..n /\ j = n + 1
      BY <1>2, <2>1, <3>1, <3>4 DEF Grown
    <3>5. CASE i = n + 1 /\ j \in 1..n
      BY <1>2, <2>1, <3>1, <3>5 DEF Grown
    <3> QED BY <3>2, <3>3, <3>4, <3>5
  <2>2. ASSUME NEW i \in DOMAIN verdicts', verdicts'[i].verdict = "replay"
        PROVE  \E j \in 1..(i - 1) : verdicts'[j].verdict \in Used /\ verdicts'[j].id >= verdicts'[i].id
    <3>1. i \in 1..n
      BY <1>1, <1>2, <2>2 DEF Grown, Used
    <3>2. PICK j \in 1..(i - 1) : verdicts[j].verdict \in Used /\ verdicts[j].id >= verdicts[i].id
      BY <1>2, <2>2, <3>1 DEF Grown, InboxInv, ReplaysAreOld
    <3>3. j \in 1..n
      BY <3>1
    <3> QED BY <1>2, <3>1, <3>2, <3>3 DEF Grown
  <2> QED BY <2>1, <2>2 DEF ReplaysAreOld
<1> QED BY <1>2, <1>5, <1>6, <1>8, <1>9 DEF InboxInv, Grown, ToOf, NonceOf, Ids

-----------------------------------------------------------------------------
(* The sender's nonces.                                                    *)

OutboundInv ==
  /\ clockMs \in Nat /\ DOMAIN outbound = {"last", "latest", "since"}
  /\ outbound.latest \in Nat /\ outbound.since \in Nat
  /\ outbound.since <= outbound.latest /\ outbound.since < clockMs
  /\ outbound.last \in [Recipients -> Nat \cup {Void}]

\* Of the process that runs, a nonce is no higher than the last one to that
\* recipient; of those before it, it belongs to a millisecond before its own.
NoncesAreBelow ==
  \A id \in Ids :
    IF outbound.last[ToOf(id)] # Void THEN NonceOf(id) <= outbound.last[ToOf(id)]
                                      ELSE NonceOf(id) < (outbound.since + 1) * PerMs

NoncesInv == OutboundInv /\ NoncesAreBelow /\ NoncesGrow

LEMMA LaterMs ==
  ASSUME NEW a \in Nat, NEW b \in Nat, a <= b
  PROVE  a * PerMs \in Nat /\ a * PerMs <= b * PerMs
<1>1. PICK k \in Nat : b = a + k
  <2>1. b - a \in Nat /\ b = a + (b - a)
    OBVIOUS
  <2> QED BY <2>1
<1>2. PerMs \in Nat
  BY MessagingConstants
<1>3. k * PerMs \in Nat /\ a * PerMs \in Nat
  BY <1>2
<1>4. (a + k) * PerMs = a * PerMs + k * PerMs
  BY <1>2
<1> QED BY <1>1, <1>3, <1>4

\* The next nonce to a recipient is above every earlier one to it.
LEMMA NextIsAbove ==
  ASSUME MessagesInv, NoncesInv, NEW to \in Recipients
  PROVE  /\ NextNonce(to) \in Nat
         /\ \A id \in Ids : ToOf(id) = to => NonceOf(id) < NextNonce(to)
<1>1. PICK floor : floor = clockMs * PerMs
  OBVIOUS
<1>2. PICK start : start = (outbound.since + 1) * PerMs
  OBVIOUS
<1>3. start \in Nat /\ start <= floor /\ floor \in Nat
  <2>1. outbound.since + 1 \in Nat /\ clockMs \in Nat /\ outbound.since + 1 <= clockMs
    BY DEF NoncesInv, OutboundInv
  <2> QED BY <1>1, <1>2, <2>1, LaterMs
<1>4. PICK prev \in Nat \cup {Void} : prev = outbound.last[to]
  BY DEF NoncesInv, OutboundInv
<1>5. NextNonce(to) = IF prev # Void /\ prev + 1 > floor THEN prev + 1 ELSE floor
  BY <1>1, <1>4 DEF NextNonce
<1>6. CASE prev = Void
  <2>1. NextNonce(to) = floor
    BY <1>5, <1>6
  <2>2. ASSUME NEW id \in Ids, ToOf(id) = to
        PROVE  NonceOf(id) < floor
    <3>1. NonceOf(id) \in Nat
      BY DEF MessagesInv, IsMessage, NonceOf
    <3>2. NonceOf(id) < start
      BY <1>2, <1>4, <1>6, <2>2 DEF NoncesInv, NoncesAreBelow
    <3> QED BY <1>3, <3>1, <3>2
  <2> QED BY <1>3, <2>1, <2>2
<1>7. CASE prev # Void
  <2>1. prev \in Nat
    BY <1>4, <1>7
  <2>2. NextNonce(to) \in Nat /\ NextNonce(to) > prev
    BY <1>3, <1>5, <1>7, <2>1
  <2>3. ASSUME NEW id \in Ids, ToOf(id) = to
        PROVE  NonceOf(id) < NextNonce(to)
    <3>1. NonceOf(id) \in Nat
      BY DEF MessagesInv, IsMessage, NonceOf
    <3>2. NonceOf(id) <= prev
      BY <1>4, <1>7, <2>3 DEF NoncesInv, NoncesAreBelow
    <3> QED BY <2>1, <2>2, <3>1, <3>2
  <2> QED BY <2>2, <2>3
<1> QED BY <1>6, <1>7

LEMMA ComposedIsMessage ==
  ASSUME MessagesInv, NoncesInv, NEW draft \in Drafts
  PROVE  /\ IsMessage(Message(draft)) /\ Message(draft).envelope.to = draft.to
         /\ Message(draft).envelope.nonce = NextNonce(draft.to)
<1>1. draft.to \in Recipients
  BY DEF Recipients
<1>2. PICK m : m = Message(draft)
  OBVIOUS
<1>3. m.envelope = Envelope(draft)
  BY <1>2 DEF Message
<1>4. /\ m.envelope.to = draft.to /\ m.envelope.nonce = NextNonce(draft.to)
      /\ m.envelope.agreement = draft.agreement
  BY <1>3 DEF Envelope
<1>5. m.body.type \in {"None", "Plain", "Sealed"}
  <2>1. m.body \in {NoBody, ComposedBody(draft)}
    BY <1>2 DEF Message
  <2>2. NoBody.type = "None"
    BY DEF NoBody
  <2>3. ComposedBody(draft).type \in {"Plain", "Sealed"}
    BY DEF ComposedBody, SealBody
  <2> QED BY <2>1, <2>2, <2>3
<1>6. NextNonce(draft.to) \in Nat
  BY <1>1, NextIsAbove
<1> QED BY <1>1, <1>2, <1>4, <1>5, <1>6, MessagingConstants DEF IsMessage

\* A message more: the envelopes stand, and the new one is the last.
Extended(m) ==
  \E n \in Nat :
    /\ IsSequence(envelopes') /\ DOMAIN envelopes' = 1..(n + 1) /\ Ids = 1..n
    /\ \A id \in 1..n : envelopes'[id] = envelopes[id]
    /\ envelopes'[n + 1] = m

LEMMA ComposeExtends ==
  ASSUME MessagesInv, NEW draft, Compose(draft)
  PROVE  Extended(Message(draft))
<1>1. PICK n \in Nat : n = Len(envelopes)
  BY SequenceHas DEF MessagesInv
<1>2. PICK m : m = Message(draft)
  OBVIOUS
<1>3. envelopes' = Append(envelopes, m)
  BY <1>2 DEF Compose
<1>4. IsSequence(envelopes') /\ Len(envelopes') = n + 1
  BY <1>1, <1>3, Appends DEF MessagesInv
<1>5. /\ \A i \in 1..n : envelopes'[i] = envelopes[i]
      /\ envelopes'[n + 1] = m
  BY <1>1, <1>3, Appends DEF MessagesInv
<1> QED BY <1>1, <1>2, <1>4, <1>5, SequenceHas DEF MessagesInv, Ids, Extended

LEMMA ComposeKeepsNonces ==
  ASSUME MessagesInv, NoncesInv, NEW draft \in Drafts, Compose(draft)
  PROVE  MessagesInv' /\ NoncesInv'
<1>1. PICK to \in Recipients : to = draft.to
  BY DEF Recipients
<1>2. PICK m : m = Message(draft)
  OBVIOUS
<1>3. PICK next \in Nat : next = NextNonce(to)
  BY NextIsAbove
<1>4. IsMessage(m) /\ m.envelope.to = to /\ m.envelope.nonce = next
  BY <1>1, <1>2, <1>3, ComposedIsMessage
<1>5. PICK n \in Nat :
        /\ IsSequence(envelopes') /\ DOMAIN envelopes' = 1..(n + 1) /\ Ids = 1..n
        /\ \A id \in 1..n : envelopes'[id] = envelopes[id]
        /\ envelopes'[n + 1] = m
  BY <1>2, ComposeExtends DEF Extended
<1>6. MessagesInv'
  <2>1. ASSUME NEW id \in 1..(n + 1) PROVE IsMessage(envelopes'[id])
    <3>1. CASE id \in 1..n
      BY <1>5, <3>1 DEF MessagesInv
    <3>2. CASE id = n + 1
      BY <1>4, <1>5, <3>2
    <3> QED BY <3>1, <3>2
  <2> QED BY <1>5, <2>1 DEF MessagesInv, Ids, IsMessage
<1>7. /\ outbound' = [outbound EXCEPT !.last[to] = next,
                                      !.latest = IF clockMs > @ THEN clockMs ELSE @]
      /\ clockMs' = clockMs
  BY <1>1, <1>3 DEF Compose
<1>8. /\ DOMAIN outbound' = DOMAIN outbound /\ outbound'.since = outbound.since
      /\ outbound'.latest \in Nat /\ outbound'.latest >= outbound.latest
      /\ outbound'.last = [outbound.last EXCEPT ![to] = next]
  BY <1>7 DEF NoncesInv, OutboundInv
<1>9. OutboundInv'
  <2>1. outbound'.since <= outbound'.latest
    BY <1>8 DEF NoncesInv, OutboundInv
  <2> QED BY <1>7, <1>8, <2>1 DEF NoncesInv, OutboundInv
<1>10. NoncesGrow'
  <2>1. ASSUME NEW i \in 1..(n + 1), NEW j \in 1..(n + 1), i < j,
               envelopes'[i].envelope.to = envelopes'[j].envelope.to
        PROVE  envelopes'[i].envelope.nonce < envelopes'[j].envelope.nonce
    <3>1. i \in 1..n
      BY <2>1
    <3>2. CASE j \in 1..n
      BY <1>5, <2>1, <3>1, <3>2 DEF NoncesInv, NoncesGrow, ToOf, NonceOf
    <3>3. CASE j = n + 1
      <4>1. ToOf(i) = to
        BY <1>4, <1>5, <2>1, <3>1, <3>3 DEF ToOf
      <4>2. NonceOf(i) < next
        BY <1>3, <1>5, <3>1, <4>1, NextIsAbove
      <4> QED BY <1>4, <1>5, <3>1, <3>3, <4>2 DEF NonceOf
    <3> QED BY <3>2, <3>3
  <2> QED BY <1>5, <2>1 DEF NoncesGrow, Ids, ToOf, NonceOf
<1>11. NoncesAreBelow'
  <2> DEFINE Below(id) ==
        IF outbound'.last[envelopes'[id].envelope.to] # Void
        THEN envelopes'[id].envelope.nonce <= outbound'.last[envelopes'[id].envelope.to]
        ELSE envelopes'[id].envelope.nonce < (outbound'.since + 1) * PerMs
  <2>1. ASSUME NEW id \in 1..(n + 1) PROVE Below(id)
    <3>1. PICK other \in Recipients : other = envelopes'[id].envelope.to
      BY <1>5, <1>6 DEF MessagesInv, IsMessage, Ids
    <3>2. PICK k \in Nat : k = envelopes'[id].envelope.nonce
      BY <1>5, <1>6 DEF MessagesInv, IsMessage, Ids
    <3>3. CASE other = to
      <4>1. outbound'.last[other] = next /\ next # Void
        BY <1>8, <3>3, MessagingConstants DEF NoncesInv, OutboundInv
      <4>2. k <= next
        <5>1. CASE id \in 1..n
          <6>1. ToOf(id) = to /\ NonceOf(id) = k
            BY <1>5, <3>1, <3>2, <3>3, <5>1 DEF ToOf, NonceOf
          <6> QED BY <1>3, <1>5, <5>1, <6>1, NextIsAbove
        <5>2. CASE id = n + 1
          BY <1>4, <1>5, <3>2, <5>2
        <5> QED BY <5>1, <5>2
      <4> QED BY <3>1, <3>2, <4>1, <4>2
    <3>4. CASE other # to
      <4>1. id \in 1..n
        BY <1>4, <1>5, <3>1, <3>4
      <4>2. ToOf(id) = other /\ NonceOf(id) = k
        BY <1>5, <3>1, <3>2, <4>1 DEF ToOf, NonceOf
      <4>3. outbound'.last[other] = outbound.last[other]
        BY <1>8, <3>4 DEF NoncesInv, OutboundInv
      <4> QED BY <1>5, <1>8, <3>1, <3>2, <4>1, <4>2, <4>3 DEF NoncesInv, NoncesAreBelow
    <3> QED BY <3>3, <3>4
  <2> QED BY <1>5, <2>1 DEF NoncesAreBelow, Ids, ToOf, NonceOf
<1> QED BY <1>6, <1>9, <1>10, <1>11 DEF NoncesInv

\* What an old process gave out is, by then, of an earlier millisecond.
LEMMA RestartKeepsNonces ==
  ASSUME MessagesInv, NoncesInv, SenderRestarts
  PROVE  NoncesInv'
<1>1. /\ outbound' = [outbound EXCEPT !.last = NoNonces, !.since = outbound.latest]
      /\ clockMs' = clockMs /\ envelopes' = envelopes /\ clockMs > outbound.latest
  BY DEF SenderRestarts
<1>2. /\ DOMAIN outbound' = DOMAIN outbound /\ outbound'.since = outbound.latest
      /\ outbound'.latest = outbound.latest /\ outbound'.last = NoNonces
  BY <1>1 DEF NoncesInv, OutboundInv
<1>3. NoNonces \in [Recipients -> Nat \cup {Void}] /\ \A to \in Recipients : NoNonces[to] = Void
  BY DEF NoNonces
<1>4. OutboundInv'
  BY <1>1, <1>2, <1>3 DEF NoncesInv, OutboundInv
<1>5. NoncesGrow'
  BY <1>1 DEF NoncesInv, NoncesGrow, Ids, ToOf, NonceOf
<1>6. PICK since \in Nat, latest \in Nat :
        since = outbound.since /\ latest = outbound.latest /\ since <= latest
  BY DEF NoncesInv, OutboundInv
<1>7. PICK early \in Nat, late \in Nat :
        early = (since + 1) * PerMs /\ late = (latest + 1) * PerMs /\ early <= late
  <2>1. since + 1 \in Nat /\ latest + 1 \in Nat /\ since + 1 <= latest + 1
    BY <1>6
  <2> QED BY <2>1, LaterMs
<1>8. \A id \in Ids : ToOf(id) \in Recipients /\ NonceOf(id) < late
  <2> SUFFICES ASSUME NEW id \in Ids PROVE ToOf(id) \in Recipients /\ NonceOf(id) < late
    OBVIOUS
  <2>1. PICK to \in Recipients, k \in Nat : to = ToOf(id) /\ k = NonceOf(id)
    BY DEF MessagesInv, IsMessage, ToOf, NonceOf
  <2>2. CASE outbound.last[to] # Void
    <3>1. outbound.last[to] \in Nat /\ k <= outbound.last[to]
      BY <2>1, <2>2 DEF NoncesInv, NoncesAreBelow, OutboundInv
    <3>2. outbound.last[to] < late
      BY <1>6, <1>7, <2>2 DEF SenderRestarts, WithinMilliseconds
    <3> QED BY <2>1, <3>1, <3>2
  <2>3. CASE outbound.last[to] = Void
    <3>1. k < early
      BY <1>6, <1>7, <2>1, <2>3 DEF NoncesInv, NoncesAreBelow
    <3> QED BY <1>7, <2>1, <3>1
  <2> QED BY <2>2, <2>3
<1>9. NoncesAreBelow'
  <2>1. (outbound'.since + 1) * PerMs = late
    BY <1>2, <1>6, <1>7
  <2>2. \A id \in Ids : /\ outbound'.last[envelopes'[id].envelope.to] = Void
                        /\ envelopes'[id].envelope.nonce < (outbound'.since + 1) * PerMs
    BY <1>1, <1>2, <1>3, <1>8, <2>1 DEF ToOf, NonceOf
  <2> QED BY <1>1, <2>2 DEF NoncesAreBelow, Ids, ToOf, NonceOf
<1> QED BY <1>4, <1>5, <1>9 DEF NoncesInv

LEMMA ClockKeepsNonces ==
  ASSUME NoncesInv, NEW ms \in 1..LastMs, ClockMoves(ms)
  PROVE  NoncesInv'
<1>1. UNCHANGED <<outbound, envelopes>> /\ clockMs' = ms /\ ms \in Nat /\ ms > outbound.since
  BY DEF ClockMoves
<1> QED BY <1>1 DEF NoncesInv, OutboundInv, NoncesAreBelow, NoncesGrow, Ids, ToOf, NonceOf

-----------------------------------------------------------------------------
(* The chain and the subscription.                                         *)

CallIn(tx) == tx.call \in Ids

SubmissionIsOfOne ==
  submission # Void => DOMAIN submission = SubmissionFields /\ submission.call \in Ids

CallsInv ==
  /\ SubmissionIsOfOne
  /\ \A tx \in txPool : CallIn(tx)
  /\ posts \subseteq Ids
  /\ IsSequence(blocks) /\ finalHead \in Nat /\ finalHead >= 1 /\ finalHead < Len(blocks)
  /\ \A n \in DOMAIN blocks :
       IsSequence(blocks[n]) /\ \A k \in DOMAIN blocks[n] : CallIn(blocks[n][k])

\* A scan is within the finalized blocks, which no step changes.
ScanInv ==
  /\ DOMAIN subscription = {"next", "heads", "scan"}
  /\ subscription.next # Void => subscription.next \in Nat /\ subscription.next >= 1
  /\ IsSequence(subscription.heads)
  /\ \A i \in DOMAIN subscription.heads : subscription.heads[i] \in 1..finalHead
  /\ subscription.scan # Void =>
       /\ DOMAIN subscription.scan = {"n", "head", "handed"}
       /\ subscription.scan.n \in Nat /\ subscription.scan.n >= 1
       /\ subscription.scan.head \in 1..finalHead /\ subscription.scan.n <= subscription.scan.head
       /\ subscription.scan.handed \in Nat

MessagingInv == MessagesInv /\ NoncesInv /\ InboxInv /\ CallsInv /\ ScanInv

LEMMA MessagingStart == MessagingInit => MessagingInv
<1> SUFFICES ASSUME MessagingInit PROVE MessagingInv
  OBVIOUS
<1>1. <<>> \in Seq({}) /\ Len(<<>>) = 0 /\ DOMAIN <<>> = {}
  OBVIOUS
<1>2. IsSequence(<<>>) /\ DOMAIN <<>> = {}
  BY <1>1 DEF IsSequence
<1>3. MessagesInv /\ Ids = {}
  BY <1>2 DEF MessagingInit, MessagesInv, Ids
<1>4. NoncesInv
  <2>1. OutboundInv
    BY DEF MessagingInit, OutboundInv, NoNonces
  <2> QED BY <1>3, <2>1 DEF NoncesInv, NoncesAreBelow, NoncesGrow
<1>5. InboxInv
  BY <1>2 DEF MessagingInit, InboxInv, ReplaysAreOld
<1>6. CallsInv
  <2>1. IsSequence(blocks) /\ Len(blocks) = 2
    <3>1. blocks \in Seq({<<>>}) /\ Len(blocks) = 2
      BY DEF MessagingInit
    <3> QED BY <3>1 DEF IsSequence
  <2>2. \A n \in DOMAIN blocks : blocks[n] = <<>>
    BY <2>1, SequenceHas DEF MessagingInit
  <2> QED BY <1>2, <2>1, <2>2 DEF MessagingInit, SubmissionInit, CallsInv, SubmissionIsOfOne
<1>7. ScanInv
  <2>1. subscription \in {Idle, [Idle EXCEPT !.next = 1]}
    BY DEF MessagingInit
  <2> QED BY <1>2, <2>1 DEF Idle, ScanInv
<1> QED BY <1>3, <1>4, <1>5, <1>6, <1>7 DEF MessagingInv

\* Whatever becomes of an attempt, the call is that of a message composed.
LEMMA CallsStay ==
  ASSUME CallsInv, UNCHANGED envelopes, NEW tx,
         SendStep \/ (tx \in txPool /\ (DropTx(tx) \/ Include(tx, Void))) \/ (CallIn(tx) /\ Retract(tx))
  PROVE  SubmissionIsOfOne' /\ \A t \in txPool' : CallIn(t)
<1>1. submission' = submission
      \/ /\ submission # Void
         /\ \/ \E e : submission' = Failed(e) \/ submission' = Settled(e)
            \/ submission' = [submission EXCEPT !.stage = "watching", !.nonce = nonce]
  BY DEF SendStep, SignAndSend, PoolRefuses, SendIsLost, DropTx, Include, Retract, Signing,
         Watches, Watching
<1>2. SubmissionIsOfOne'
  <2> SUFFICES ASSUME submission' # Void
               PROVE  DOMAIN submission' = SubmissionFields /\ submission'.call \in Ids
    BY DEF SubmissionIsOfOne, Ids
  <2>1. CASE submission' = submission
    BY <2>1 DEF CallsInv, SubmissionIsOfOne
  <2>2. CASE submission # Void
    <3>1. DOMAIN submission = SubmissionFields /\ submission.call \in Ids
      BY <2>2 DEF CallsInv, SubmissionIsOfOne
    <3>2. \A e : /\ DOMAIN Settled(e) = SubmissionFields /\ DOMAIN Failed(e) = SubmissionFields
                 /\ Settled(e).call = submission.call /\ Failed(e).call = submission.call
      BY <3>1 DEF Settled, Failed, SubmissionFields
    <3>3. LET watching == [submission EXCEPT !.stage = "watching", !.nonce = nonce]
          IN  DOMAIN watching = SubmissionFields /\ watching.call = submission.call
      BY <3>1 DEF SubmissionFields
    <3> QED BY <1>1, <3>1, <3>2, <3>3
  <2> QED BY <1>1, <2>1, <2>2
<1>3. Signing => CallIn(Signed)
  BY DEF Signing, Signed, CallIn, CallsInv, SubmissionIsOfOne
<1>4. \A t \in txPool' : CallIn(t)
  <2>1. CASE SendStep
    BY <1>3, <2>1 DEF SendStep, SignAndSend, PoolRefuses, SendIsLost, CallsInv
  <2>2. CASE DropTx(tx) \/ Include(tx, Void)
    BY <2>2 DEF DropTx, Include, CallsInv
  <2>3. CASE CallIn(tx) /\ Retract(tx)
    BY <2>3 DEF Retract, CallsInv
  <2> QED BY <2>1, <2>2, <2>3
<1> QED BY <1>2, <1>4

SenderRests == UNCHANGED senderVars
InboxRests == UNCHANGED <<tracker, verdicts>>

LEMMA SenderRestsKeeps ==
  ASSUME MessagesInv, NoncesInv, SenderRests
  PROVE  MessagesInv' /\ NoncesInv'
BY DEF SenderRests, senderVars, MessagesInv, IsMessage, NoncesInv, OutboundInv, NoncesAreBelow,
       NoncesGrow, Ids, ToOf, NonceOf

LEMMA InboxRestsKeeps ==
  ASSUME InboxInv, InboxRests, UNCHANGED envelopes
  PROVE  InboxInv'
BY DEF InboxRests, InboxInv, ReplaysAreOld, Ids, ToOf, NonceOf

LEMMA CallsRestKeeps ==
  ASSUME CallsInv, UNCHANGED envelopes, SubmissionIsOfOne', \A t \in txPool' : CallIn(t),
         posts' \subseteq Ids, UNCHANGED chainVars
  PROVE  CallsInv'
BY DEF chainVars, CallsInv, CallIn, Ids

LEMMA ScanRestsKeeps ==
  ASSUME ScanInv, UNCHANGED <<subscription, finalHead>>
  PROVE  ScanInv'
BY DEF ScanInv

LEMMA ComposeKeeps ==
  ASSUME MessagingInv, NEW draft \in Drafts, Compose(draft)
  PROVE  MessagingInv'
<1>m. PICK m : m = Message(draft)
  OBVIOUS
<1>1. PICK n \in Nat :
        /\ IsSequence(envelopes') /\ DOMAIN envelopes' = 1..(n + 1) /\ Ids = 1..n
        /\ \A id \in 1..n : envelopes'[id] = envelopes[id]
        /\ envelopes'[n + 1] = m
  <2>1. Extended(m)
    BY <1>m, ComposeExtends DEF MessagingInv
  <2> QED BY <2>1 DEF Extended
<1>2. /\ \A id \in Ids : id \in DOMAIN envelopes' /\ envelopes'[id] = envelopes[id]
      /\ Len(envelopes) + 1 \in DOMAIN envelopes'
  <2>1. Len(envelopes) = n
    BY <1>1, SequenceHas DEF MessagingInv, MessagesInv, Ids
  <2> QED BY <1>1, <2>1
<1>3. InboxInv'
  <2>1. UNCHANGED <<tracker, verdicts>>
    BY DEF Compose, inboxVars
  <2>2. \A i \in DOMAIN verdicts :
          /\ verdicts[i].id \in Ids /\ verdicts[i].id \in DOMAIN envelopes'
          /\ envelopes'[verdicts[i].id] = envelopes[verdicts[i].id]
    BY <1>2 DEF MessagingInv, InboxInv
  <2> QED BY <2>1, <2>2 DEF MessagingInv, InboxInv, ReplaysAreOld, Ids, ToOf, NonceOf
<1>4. CallsInv'
  <2>1. UNCHANGED <<txPool, blocks, finalHead, posts>>
    BY DEF Compose, chainVars
  <2>2. submission' \in {Submitted(Len(envelopes) + 1, MaxRetries), Void}
    BY DEF Compose
  <2>3. SubmissionIsOfOne'
    BY <1>2, <2>2 DEF SubmissionIsOfOne, Submitted, SubmissionFields, Ids
  <2>4. \A tx : CallIn(tx) => tx.call \in DOMAIN envelopes'
    BY <1>2 DEF CallIn
  <2> QED BY <1>2, <2>1, <2>3, <2>4 DEF MessagingInv, CallsInv, CallIn, Ids
<1>5. ScanInv'
  BY ScanRestsKeeps DEF MessagingInv, Compose, inboxVars, chainVars
<1>6. MessagesInv' /\ NoncesInv'
  BY ComposeKeepsNonces DEF MessagingInv
<1> QED BY <1>3, <1>4, <1>5, <1>6 DEF MessagingInv

LEMMA SendsKeepMessages ==
  ASSUME MessagingInv, SenderSends \/ SendReturns \/ \E tx \in txPool : SendDrops(tx)
  PROVE  MessagingInv'
<1>1. SenderRests /\ InboxRests /\ UNCHANGED <<envelopes, subscription, finalHead, blocks, posts>>
  BY DEF SenderSends, SendReturns, SendDrops, SenderRests, senderVars, InboxRests, inboxVars, chainVars
<1>2. SubmissionIsOfOne' /\ \A t \in txPool' : CallIn(t)
  <2>1. CASE SenderSends
    BY <1>1, <2>1, CallsStay DEF SenderSends, MessagingInv
  <2>2. CASE SendReturns
    BY <1>1, <2>2 DEF SendReturns, SubmissionIsOfOne, MessagingInv, CallsInv, CallIn
  <2>3. ASSUME NEW tx \in txPool, SendDrops(tx)
        PROVE  SubmissionIsOfOne' /\ \A t \in txPool' : CallIn(t)
    BY <1>1, <2>3, CallsStay DEF SendDrops, MessagingInv
  <2> QED BY <2>1, <2>2, <2>3
<1>3. CallsInv'
  BY <1>1, <1>2, CallsRestKeeps DEF MessagingInv, CallsInv, chainVars
<1> QED BY <1>1, <1>3, SenderRestsKeeps, InboxRestsKeeps, ScanRestsKeeps DEF MessagingInv

LEMMA SenderKeeps ==
  ASSUME MessagingInv,
         \/ SenderRestarts
         \/ \E ms \in 1..LastMs : ClockMoves(ms)
         \/ \E id \in DOMAIN envelopes : Post(id)
  PROVE  MessagingInv'
<1>1. /\ InboxRests /\ UNCHANGED <<envelopes, subscription, finalHead, blocks, txPool>>
      /\ submission' = Void \/ submission' = submission
      /\ posts' \subseteq Ids
  BY DEF SenderRestarts, ClockMoves, Post, senderVars, InboxRests, inboxVars, chainVars, submissionVars,
         MessagingInv, CallsInv, Ids
<1>2. CallsInv'
  <2>1. SubmissionIsOfOne' /\ \A t \in txPool' : CallIn(t)
    BY <1>1 DEF MessagingInv, CallsInv, CallIn, SubmissionIsOfOne, Ids
  <2> QED BY <1>1, <2>1, CallsRestKeeps DEF MessagingInv, chainVars
<1>3. MessagesInv'
  BY <1>1 DEF MessagingInv, MessagesInv, IsMessage, Ids
<1>4. NoncesInv'
  <2>1. CASE SenderRestarts
    BY <2>1, RestartKeepsNonces DEF MessagingInv
  <2>2. ASSUME NEW ms \in 1..LastMs, ClockMoves(ms) PROVE NoncesInv'
    BY <2>2, ClockKeepsNonces DEF MessagingInv
  <2>3. CASE \E id \in DOMAIN envelopes : Post(id)
    <3>1. SenderRests
      BY <2>3 DEF Post, SenderRests
    <3> QED BY <3>1, SenderRestsKeeps DEF MessagingInv
  <2> QED BY <2>1, <2>2, <2>3
<1> QED BY <1>1, <1>2, <1>3, <1>4, InboxRestsKeeps, ScanRestsKeeps DEF MessagingInv

\* blocks' are sound, and the finalized ones still below the best.
BlocksSound ==
  /\ IsSequence(blocks') /\ finalHead' \in Nat /\ finalHead' >= 1 /\ finalHead' < Len(blocks')
  /\ \A n \in DOMAIN blocks' :
       IsSequence(blocks'[n]) /\ \A k \in DOMAIN blocks'[n] : CallIn(blocks'[n][k])

LEMMA BlockReplaced ==
  ASSUME CallsInv, NEW n \in DOMAIN blocks, NEW block, IsSequence(block),
         \A k \in DOMAIN block : CallIn(block[k]), blocks' = [blocks EXCEPT ![n] = block],
         UNCHANGED finalHead
  PROVE  BlocksSound
<1>1. IsSequence(blocks')
  <2>1. PICK S : blocks \in Seq(S)
    BY DEF CallsInv, IsSequence
  <2>2. blocks \in Seq(S \cup {block}) /\ n \in 1..Len(blocks)
    BY <2>1, SeqMonotonic
  <2>3. blocks' \in Seq(S \cup {block})
    BY <2>2, ExceptSeq
  <2> QED BY <2>3 DEF IsSequence
<1>2. DOMAIN blocks' = DOMAIN blocks
  OBVIOUS
<1>3. Len(blocks') = Len(blocks)
  <2>1. DOMAIN blocks = 1..Len(blocks) /\ DOMAIN blocks' = 1..Len(blocks')
    BY <1>1, SequenceHas DEF CallsInv
  <2>2. Len(blocks) \in Nat /\ Len(blocks') \in Nat
    BY <1>1, SequenceHas DEF CallsInv
  <2> QED BY <1>2, <2>1, <2>2
<1>4. \A m \in DOMAIN blocks' :
        IsSequence(blocks'[m]) /\ \A k \in DOMAIN blocks'[m] : CallIn(blocks'[m][k])
  <2> SUFFICES ASSUME NEW m \in DOMAIN blocks
               PROVE  IsSequence(blocks'[m]) /\ \A k \in DOMAIN blocks'[m] : CallIn(blocks'[m][k])
    BY <1>2
  <2>1. CASE m = n
    BY <2>1
  <2>2. CASE m # n
    <3>1. blocks'[m] = blocks[m]
      BY <2>2
    <3> QED BY <3>1 DEF CallsInv
  <2> QED BY <2>1, <2>2
<1> QED BY <1>1, <1>3, <1>4 DEF CallsInv, BlocksSound

LEMMA BlocksSoundKeeps ==
  ASSUME CallsInv, UNCHANGED envelopes, SubmissionIsOfOne', \A t \in txPool' : CallIn(t),
         UNCHANGED posts, BlocksSound
  PROVE  CallsInv'
BY DEF BlocksSound, CallsInv, CallIn, Ids

LEMMA ChainKeeps ==
  ASSUME MessagingInv, (\E tx \in txPool : SendLands(tx)) \/ BlockIsLost
  PROVE  MessagingInv'
<1>1. SenderRests /\ InboxRests /\ UNCHANGED <<envelopes, subscription, finalHead, posts>>
  BY DEF SendLands, BlockIsLost, SenderRests, senderVars, InboxRests, inboxVars
<1>2. /\ Best \in DOMAIN blocks /\ IsSequence(blocks[Best]) /\ Best \in Nat
      /\ \A k \in DOMAIN blocks[Best] : CallIn(blocks[Best][k])
  <2>1. DOMAIN blocks = 1..Len(blocks) /\ Len(blocks) \in Nat /\ Len(blocks) >= 1
    BY SequenceHas DEF MessagingInv, CallsInv
  <2> QED BY <2>1 DEF Best, MessagingInv, CallsInv
<1>3. PICK n \in Nat : n = Len(blocks[Best]) /\ DOMAIN blocks[Best] = 1..n
  BY <1>2, SequenceHas
<1>4. ASSUME NEW tx \in txPool, SendLands(tx)
      PROVE  CallsInv'
  <2>1. PICK block : block = Append(blocks[Best], tx)
    OBVIOUS
  <2>2. IsSequence(block) /\ Len(block) = n + 1
    BY <1>2, <1>3, <2>1, Appends
  <2>3. (\A i \in 1..n : block[i] = blocks[Best][i]) /\ block[n + 1] = tx
    BY <1>2, <1>3, <2>1, Appends
  <2>4. CallIn(tx)
    BY DEF MessagingInv, CallsInv
  <2>5. \A k \in DOMAIN block : CallIn(block[k])
    <3>1. DOMAIN block = 1..(n + 1)
      BY <2>2, SequenceHas
    <3> QED BY <1>2, <1>3, <2>3, <2>4, <3>1
  <2>6. BlocksSound
    BY <1>1, <1>2, <1>4, <2>1, <2>2, <2>5, BlockReplaced DEF SendLands, MessagingInv
  <2>7. SubmissionIsOfOne' /\ \A t \in txPool' : CallIn(t)
    BY <1>1, <1>4, CallsStay DEF SendLands, MessagingInv
  <2> QED BY <1>1, <2>6, <2>7, BlocksSoundKeeps DEF MessagingInv
<1>5. ASSUME BlockIsLost
      PROVE  CallsInv'
  <2>1. PICK block : block = Front(blocks[Best])
    OBVIOUS
  <2>2. n > 0
    <3>1. blocks[Best] # <<>>
      BY <1>5 DEF BlockIsLost
    <3>2. PICK S : blocks[Best] \in Seq(S)
      BY <1>2 DEF IsSequence
    <3> QED BY <1>3, <3>1, <3>2, EmptySeq
  <2>3. IsSequence(block) /\ Len(block) = n - 1 /\ \A i \in 1..(n - 1) : block[i] = blocks[Best][i]
    BY <1>2, <1>3, <2>1, <2>2, FrontOf
  <2>4. \A k \in DOMAIN block : CallIn(block[k])
    <3>1. DOMAIN block = 1..(n - 1)
      BY <2>3, SequenceHas
    <3> QED BY <1>2, <1>3, <2>3, <3>1
  <2>5. BlocksSound
    BY <1>1, <1>2, <1>5, <2>1, <2>3, <2>4, BlockReplaced DEF BlockIsLost, MessagingInv
  <2>6. CallIn(Last(blocks[Best]))
    BY <1>2, <1>3, <2>2 DEF Last
  <2>7. SubmissionIsOfOne' /\ \A t \in txPool' : CallIn(t)
    BY <1>1, <1>5, <2>6, CallsStay DEF BlockIsLost, MessagingInv
  <2> QED BY <1>1, <2>5, <2>7, BlocksSoundKeeps DEF MessagingInv
<1> QED BY <1>1, <1>4, <1>5, SenderRestsKeeps, InboxRestsKeeps, ScanRestsKeeps DEF MessagingInv

LEMMA FinalityKeeps ==
  ASSUME MessagingInv, NewBlock \/ Finalizes
  PROVE  MessagingInv'
<1>1. /\ SenderRests /\ InboxRests
      /\ UNCHANGED <<envelopes, subscription, posts, submission, txPool>>
  BY DEF NewBlock, Finalizes, SenderRests, senderVars, InboxRests, inboxVars, submissionVars
<1>2. SubmissionIsOfOne' /\ \A t \in txPool' : CallIn(t)
  BY <1>1 DEF MessagingInv, CallsInv, SubmissionIsOfOne, Ids
<1>3. PICK n \in Nat : n = Len(blocks) /\ DOMAIN blocks = 1..n
  BY SequenceHas DEF MessagingInv, CallsInv
<1>4. BlocksSound
  <2>1. CASE NewBlock
    <3>1. blocks' = Append(blocks, <<>>) /\ finalHead' = finalHead
      BY <2>1 DEF NewBlock
    <3>2. IsSequence(blocks') /\ Len(blocks') = n + 1
      BY <1>3, <3>1, Appends DEF MessagingInv, CallsInv
    <3>3. (\A i \in 1..n : blocks'[i] = blocks[i]) /\ blocks'[n + 1] = <<>>
      BY <1>3, <3>1, Appends DEF MessagingInv, CallsInv
    <3>4. IsSequence(<<>>) /\ DOMAIN <<>> = {}
      <4>1. <<>> \in Seq({})
        OBVIOUS
      <4> QED BY <4>1 DEF IsSequence
    <3>5. DOMAIN blocks' = 1..(n + 1)
      BY <3>2, SequenceHas
    <3>6. ASSUME NEW i \in 1..(n + 1)
          PROVE  IsSequence(blocks'[i]) /\ \A k \in DOMAIN blocks'[i] : CallIn(blocks'[i][k])
      <4>1. CASE i \in 1..n
        <5>1. blocks'[i] = blocks[i]
          BY <3>3, <4>1
        <5> QED BY <1>3, <4>1, <5>1 DEF MessagingInv, CallsInv
      <4>2. CASE i = n + 1
        BY <3>3, <3>4, <4>2
      <4> QED BY <4>1, <4>2
    <3> QED BY <1>3, <3>1, <3>2, <3>5, <3>6 DEF MessagingInv, CallsInv, BlocksSound
  <2>2. CASE Finalizes
    <3>1. blocks' = blocks /\ finalHead' = finalHead + 1 /\ finalHead + 1 < n
      BY <1>3, <2>2 DEF Finalizes, Best, MessagingInv, CallsInv
    <3> QED BY <1>3, <3>1 DEF MessagingInv, CallsInv, BlocksSound
  <2> QED BY <2>1, <2>2
<1>5. CallsInv'
  BY <1>1, <1>2, <1>4, BlocksSoundKeeps DEF MessagingInv
<1>6. ScanInv'
  <2>1. PICK f \in Nat, g \in Nat : f = finalHead /\ g = finalHead' /\ f <= g
    BY DEF NewBlock, Finalizes, MessagingInv, CallsInv
  <2>2. \A h \in 1..f : h \in 1..g
    BY <2>1
  <2> QED BY <1>1, <2>1, <2>2 DEF MessagingInv, ScanInv
<1> QED BY <1>1, <1>5, <1>6, SenderRestsKeeps, InboxRestsKeeps DEF MessagingInv

\* The recipient leaves the sender and the chain alone.
RecipientStep ==
  SenderRests /\ UNCHANGED <<envelopes, blocks, finalHead, submission, txPool>>

LEMMA RecipientStepKeeps ==
  ASSUME MessagingInv, RecipientStep, posts' \subseteq Ids
  PROVE  MessagesInv' /\ NoncesInv' /\ CallsInv'
<1>1. MessagesInv' /\ NoncesInv'
  BY SenderRestsKeeps DEF MessagingInv, RecipientStep
<1>2. SubmissionIsOfOne' /\ \A t \in txPool' : CallIn(t)
  BY DEF RecipientStep, MessagingInv, CallsInv, CallIn, SubmissionIsOfOne, Ids
<1>3. CallsInv'
  BY <1>2, CallsRestKeeps DEF MessagingInv, RecipientStep, chainVars
<1> QED BY <1>1, <1>3

LEMMA SubscriptionKeeps ==
  ASSUME MessagingInv,
         \/ \E head \in 1..LastHead : HeadArrives(head)
         \/ ScanStarts \/ BlockIsScanned \/ ScanFails \/ RecipientRestarts
  PROVE  MessagingInv'
<1>1. RecipientStep /\ InboxRests /\ UNCHANGED posts
  BY DEF HeadArrives, ScanStarts, BlockIsScanned, ScanFails, RecipientRestarts, RecipientStep,
         SenderRests, InboxRests, senderVars, chainVars, submissionVars
<1>2. DOMAIN subscription = {"next", "heads", "scan"} /\ ScanInv
  BY DEF MessagingInv, ScanInv
<1>3. PICK f \in Nat : f = finalHead /\ f = finalHead'
  BY <1>1 DEF MessagingInv, CallsInv, RecipientStep
<1>4. ASSUME NEW head \in 1..LastHead, HeadArrives(head)
      PROVE  ScanInv'
  <2>1. PICK heads, new : heads = subscription.heads /\ new = Append(heads, head)
    OBVIOUS
  <2>2. PICK n \in Nat : n = Len(heads) /\ DOMAIN heads = 1..n
    BY <1>2, <2>1, SequenceHas DEF ScanInv
  <2>3. IsSequence(new) /\ Len(new) = n + 1
    BY <1>2, <2>1, <2>2, Appends DEF ScanInv
  <2>4. (\A i \in 1..n : new[i] = heads[i]) /\ new[n + 1] = head
    BY <1>2, <2>1, <2>2, Appends DEF ScanInv
  <2>5. DOMAIN new = 1..(n + 1)
    BY <2>3, SequenceHas
  <2>6. head \in 1..f
    BY <1>3, <1>4 DEF HeadArrives
  <2>7. \A i \in DOMAIN new : new[i] \in 1..f
    BY <1>2, <1>3, <2>1, <2>2, <2>4, <2>5, <2>6 DEF ScanInv
  <2>8. subscription' = [subscription EXCEPT !.heads = new]
    BY <1>4, <2>1 DEF HeadArrives
  <2>9. /\ DOMAIN subscription' = DOMAIN subscription /\ subscription'.heads = new
        /\ subscription'.next = subscription.next /\ subscription'.scan = subscription.scan
    BY <1>2, <2>8
  <2> QED BY <1>2, <1>3, <2>3, <2>7, <2>9 DEF ScanInv
<1>5. ASSUME ScanStarts PROVE ScanInv'
  <2>1. PICK heads, head, rest : /\ heads = subscription.heads /\ head = Head(heads)
                                 /\ rest = Tail(heads)
    OBVIOUS
  <2>2. PICK n \in Nat : n = Len(heads) /\ DOMAIN heads = 1..n
    BY <1>2, <2>1, SequenceHas DEF ScanInv
  <2>3. PICK S : heads \in Seq(S)
    BY <1>2, <2>1 DEF ScanInv, IsSequence
  <2>4. heads # <<>>
    BY <1>5, <2>1 DEF ScanStarts
  <2>5. rest \in Seq(S) /\ Len(rest) = n - 1 /\ n > 0
        /\ \A i \in 1..(n - 1) : rest[i] = heads[i + 1]
    BY <2>1, <2>2, <2>3, <2>4, HeadTailProperties, EmptySeq
  <2>6. IsSequence(rest) /\ DOMAIN rest = 1..(n - 1)
    <3>1. IsSequence(rest)
      BY <2>5 DEF IsSequence
    <3> QED BY <2>5, <3>1, SequenceHas
  <2>7. \A i \in 1..n : heads[i] \in 1..f
    BY <1>2, <1>3, <2>1, <2>2 DEF ScanInv
  <2>8. \A i \in DOMAIN rest : rest[i] \in 1..f
    BY <2>5, <2>6, <2>7
  <2>9. head \in 1..f
    BY <2>1, <2>2, <2>3, <2>5, <2>7
  <2>10. PICK from : from = From(head)
    OBVIOUS
  <2>11. from \in Nat /\ from >= 1
    BY <1>2, <2>9, <2>10 DEF From, ScanInv
  <2>12. PICK scan : scan = IF from > head THEN Void ELSE ScanOf(from, head)
    OBVIOUS
  <2>13. subscription' = [subscription EXCEPT !.heads = rest, !.scan = scan]
    BY <1>5, <2>1, <2>10, <2>12 DEF ScanStarts
  <2>14. scan # Void => /\ DOMAIN scan = {"n", "head", "handed"} /\ scan.n \in Nat /\ scan.n >= 1
                        /\ scan.head \in 1..f /\ scan.n <= scan.head /\ scan.handed \in Nat
    <3>1. scan # Void => scan = ScanOf(from, head) /\ ~(from > head)
      BY <2>12
    <3> QED BY <2>9, <2>11, <3>1 DEF ScanOf
  <2>15. /\ DOMAIN subscription' = DOMAIN subscription /\ subscription'.heads = rest
         /\ subscription'.next = subscription.next /\ subscription'.scan = scan
    BY <1>2, <2>13
  <2> QED BY <1>2, <1>3, <2>6, <2>8, <2>14, <2>15 DEF ScanInv
<1>6. ASSUME BlockIsScanned PROVE ScanInv'
  <2>1. PICK scan : scan = subscription.scan /\ scan # Void
    BY <1>6 DEF BlockIsScanned, Scanning
  <2>2. scan.n \in Nat /\ scan.n >= 1 /\ scan.head \in 1..f /\ scan.n <= scan.head
    BY <1>2, <1>3, <2>1 DEF ScanInv
  <2>3. PICK new : new = IF scan.n = scan.head THEN Void ELSE ScanOf(scan.n + 1, scan.head)
    OBVIOUS
  <2>4. subscription' = [subscription EXCEPT !.next = scan.n + 1, !.scan = new]
    BY <1>6, <2>1, <2>3 DEF BlockIsScanned
  <2>5. new # Void => /\ DOMAIN new = {"n", "head", "handed"} /\ new.n \in Nat /\ new.n >= 1
                      /\ new.head \in 1..f /\ new.n <= new.head /\ new.handed \in Nat
    <3>1. new # Void => new = ScanOf(scan.n + 1, scan.head) /\ scan.n # scan.head
      BY <2>3
    <3> QED BY <2>2, <3>1 DEF ScanOf
  <2>6. /\ DOMAIN subscription' = DOMAIN subscription /\ subscription'.heads = subscription.heads
        /\ subscription'.next = scan.n + 1 /\ subscription'.scan = new
    BY <1>2, <2>4
  <2> QED BY <1>2, <1>3, <2>2, <2>5, <2>6 DEF ScanInv
<1>7. ASSUME ScanFails PROVE ScanInv'
  <2>1. subscription' = [subscription EXCEPT !.scan = Void]
    BY <1>7 DEF ScanFails, AfterFailure
  <2>2. /\ DOMAIN subscription' = DOMAIN subscription /\ subscription'.heads = subscription.heads
        /\ subscription'.next = subscription.next /\ subscription'.scan = Void
    BY <1>2, <2>1
  <2> QED BY <1>2, <1>3, <2>2 DEF ScanInv
<1>8. ASSUME RecipientRestarts PROVE ScanInv'
  <2>1. PICK from \in 1..subscription.next : subscription' = [Idle EXCEPT !.next = from]
    BY <1>8 DEF RecipientRestarts
  <2>2. /\ DOMAIN subscription' = {"next", "heads", "scan"} /\ subscription'.heads = <<>>
        /\ subscription'.next = from /\ subscription'.scan = Void
    BY <2>1 DEF Idle
  <2>3. IsSequence(<<>>) /\ DOMAIN <<>> = {}
    <3>1. <<>> \in Seq({})
      OBVIOUS
    <3> QED BY <3>1 DEF IsSequence
  <2> QED BY <2>2, <2>3 DEF ScanInv
<1>9. ScanInv'
  BY <1>4, <1>5, <1>6, <1>7, <1>8
<1>10. posts' \subseteq Ids
  BY <1>1 DEF MessagingInv, CallsInv
<1> QED BY <1>1, <1>9, <1>10, RecipientStepKeeps, InboxRestsKeeps DEF MessagingInv, RecipientStep

LEMMA HandsOverKeeps ==
  ASSUME MessagingInv, HandsOver
  PROVE  MessagingInv'
<1>1. RecipientStep /\ UNCHANGED posts
  BY DEF HandsOver, RecipientStep, SenderRests, senderVars, chainVars, submissionVars
<1>2. PICK scan : scan = subscription.scan /\ scan # Void
  BY DEF HandsOver, Scanning
<1>3. /\ DOMAIN scan = {"n", "head", "handed"} /\ scan.n \in Nat /\ scan.n >= 1 /\ scan.handed \in Nat
      /\ scan.head \in 1..finalHead /\ scan.n <= scan.head
  BY <1>2 DEF MessagingInv, ScanInv
<1>4. PICK block : block = blocks[scan.n] /\ scan.handed < Len(block)
  BY <1>2 DEF HandsOver, ScannedBlock
<1>5. scan.n \in DOMAIN blocks
  <2>1. DOMAIN blocks = 1..Len(blocks) /\ Len(blocks) \in Nat
    BY SequenceHas DEF MessagingInv, CallsInv
  <2> QED BY <1>3, <2>1 DEF MessagingInv, CallsInv
<1>6. PICK id \in Ids : id = block[scan.handed + 1].call
  <2>1. IsSequence(block) /\ \A k \in DOMAIN block : CallIn(block[k])
    BY <1>4, <1>5 DEF MessagingInv, CallsInv
  <2>2. scan.handed + 1 \in DOMAIN block
    <3>1. DOMAIN block = 1..Len(block) /\ Len(block) \in Nat
      BY <2>1, SequenceHas
    <3> QED BY <1>3, <1>4, <3>1
  <2> QED BY <2>1, <2>2 DEF CallIn
<1>7. PICK inbox \in (IF envelopes[id].envelope.to = Me THEN Deliver(Inbox, id, scan.n) ELSE {Inbox}) :
        Becomes(inbox)
  BY <1>2, <1>4, <1>6 DEF HandsOver, ScannedBlock
<1>8. InboxInv'
  <2>1. UNCHANGED envelopes
    BY <1>1 DEF RecipientStep
  <2>2. CASE inbox \in Deliver(Inbox, id, scan.n)
    <3>1. PICK args : /\ args = SendCall(envelopes[id])
                      /\ inbox \in Receive(Inbox, id, args.payload, <<OnChainCall(args, Author)>>, scan.n)
      BY <2>2 DEF Deliver
    <3>2. PICK whole, calls : whole = args.payload /\ calls = <<OnChainCall(args, Author)>>
      OBVIOUS
    <3>3. whole = EncodeSignedMessage(envelopes[id])
      BY <3>1, <3>2 DEF SendCall
    <3>4. inbox \in Receive(Inbox, id, whole, calls, scan.n)
      BY <3>1, <3>2
    <3>5. Refuses(id) \/ Uses(id)
      BY <1>7, <3>3, <3>4, ReceiveSays DEF MessagingInv
    <3> QED BY <2>1, <3>5, RefusesKeeps, UsesKeeps DEF MessagingInv, NoncesInv
  <2>3. CASE inbox = Inbox
    <3>1. InboxRests
      BY <1>7, <2>3 DEF Inbox, Becomes, InboxRests
    <3> QED BY <2>1, <3>1, InboxRestsKeeps DEF MessagingInv
  <2> QED BY <1>7, <2>2, <2>3
<1>9. ScanInv'
  <2>1. PICK new : new = [scan EXCEPT !.handed = @ + 1]
    OBVIOUS
  <2>2. /\ DOMAIN new = {"n", "head", "handed"} /\ new.n = scan.n /\ new.head = scan.head
        /\ new.handed = scan.handed + 1
    BY <1>3, <2>1
  <2>3. subscription' = [subscription EXCEPT !.scan = new]
    BY <1>2, <2>1 DEF HandsOver, MessagingInv, ScanInv
  <2>4. /\ DOMAIN subscription' = DOMAIN subscription /\ subscription'.heads = subscription.heads
        /\ subscription'.next = subscription.next /\ subscription'.scan = new
    BY <2>3 DEF MessagingInv, ScanInv
  <2>5. finalHead' = finalHead
    BY <1>1 DEF RecipientStep
  <2> QED BY <1>3, <2>2, <2>4, <2>5 DEF MessagingInv, ScanInv
<1>10. posts' \subseteq Ids
  BY <1>1 DEF MessagingInv, CallsInv
<1> QED BY <1>1, <1>8, <1>9, <1>10, RecipientStepKeeps DEF MessagingInv

LEMMA PostArrivesKeeps ==
  ASSUME MessagingInv, NEW id \in posts, PostArrives(id)
  PROVE  MessagingInv'
<1>1. RecipientStep /\ UNCHANGED <<subscription, finalHead, envelopes>> /\ posts' \subseteq Ids
  BY DEF PostArrives, RecipientStep, SenderRests, senderVars, chainVars, submissionVars,
         MessagingInv, CallsInv
<1>2. id \in Ids
  BY DEF MessagingInv, CallsInv
<1>3. PICK whole, frame, inbox :
        /\ whole = EncodeSignedMessage(envelopes[id]) /\ frame \in {whole, Front(whole)}
        /\ inbox \in Receive(Inbox, id, frame, <<>>, Best) /\ Becomes(inbox)
  BY DEF PostArrives
<1>4. Refuses(id) \/ Uses(id)
  BY <1>2, <1>3, ReceiveSays DEF MessagingInv
<1>5. InboxInv'
  BY <1>1, <1>2, <1>4, RefusesKeeps, UsesKeeps DEF MessagingInv, NoncesInv
<1> QED BY <1>1, <1>5, RecipientStepKeeps, ScanRestsKeeps DEF MessagingInv

LEMMA MessagingStep ==
  ASSUME MessagingInv, [MessagingNext]_messagingVars
  PROVE  MessagingInv'
<1>1. CASE UNCHANGED messagingVars
  <2>1. /\ SenderRests /\ InboxRests /\ RecipientStep /\ UNCHANGED <<posts, subscription, finalHead, envelopes>>
    BY <1>1 DEF messagingVars, messagingOwn, submissionVars, senderVars, SenderRests, InboxRests,
                RecipientStep
  <2>2. posts' \subseteq Ids
    BY <2>1 DEF MessagingInv, CallsInv
  <2> QED BY <2>1, <2>2, RecipientStepKeeps, InboxRestsKeeps, ScanRestsKeeps DEF MessagingInv
<1>2. ASSUME NEW draft \in Drafts, Compose(draft) PROVE MessagingInv'
  BY <1>2, ComposeKeeps
<1>3. CASE SenderSends \/ SendReturns \/ \E tx \in txPool : SendDrops(tx)
  BY <1>3, SendsKeepMessages
<1>4. CASE \/ SenderRestarts
           \/ \E ms \in (1..LastMs) \ {clockMs} : ClockMoves(ms)
           \/ \E id \in DOMAIN envelopes : Post(id)
  BY <1>4, SenderKeeps
<1>5. ASSUME NEW id \in posts, PostArrives(id) PROVE MessagingInv'
  BY <1>5, PostArrivesKeeps
<1>6. CASE (\E tx \in txPool : SendLands(tx)) \/ BlockIsLost
  BY <1>6, ChainKeeps
<1>7. CASE NewBlock \/ Finalizes
  BY <1>7, FinalityKeeps
<1>8. CASE \/ \E head \in 1..LastHead : HeadArrives(head)
           \/ ScanStarts \/ BlockIsScanned \/ ScanFails \/ RecipientRestarts
  BY <1>8, SubscriptionKeeps
<1>9. CASE HandsOver
  BY <1>9, HandsOverKeeps
<1> QED BY <1>1, <1>2, <1>3, <1>4, <1>5, <1>6, <1>7, <1>8, <1>9 DEF MessagingNext, Scans

LEMMA MessagingKeeps == MessagingInit /\ [][MessagingNext]_messagingVars => []MessagingInv
BY MessagingStart, MessagingStep, PTL

\* Nonces to one recipient rise in the order of composing, over restarts of
\* the sender and a clock that steps back: what OutboundNonces promises, as
\* long as a restarted process is in a later millisecond and none runs out
\* of nonces.
THEOREM NoncesRise == MessagingInit /\ [][MessagingNext]_messagingVars => []NoncesGrow
<1>1. MessagingInv => NoncesGrow
  BY DEF MessagingInv, NoncesInv
<1> QED BY <1>1, MessagingKeeps, PTL

\* A message is read once, whatever copies of it the chain, a rescan or a
\* POST brings, and refused as a replay only when it, or a message composed
\* after it, was used before: for any messages, any clock, and any number of
\* lost calls, blocks given up, failed reads and restarts on either side, as
\* long as the recipient keeps its nonces and the sender's rise.
THEOREM OldIsRefused == MessagingInit /\ [][MessagingNext]_messagingVars => []ReplaysAreOld
<1>1. MessagingInv => ReplaysAreOld
  BY DEF MessagingInv, InboxInv
<1> QED BY <1>1, MessagingKeeps, PTL

=============================================================================
