-------------------------- MODULE ExportQueueProofs --------------------------
(***************************************************************************)
(* Proofs about ExportQueue, for any queue, any workers and any bounds.    *)
(***************************************************************************)
EXTENDS ExportQueue, TLAPS

-----------------------------------------------------------------------------
(* Entries.                                                                *)

LEMMA LeaseRange == Lease \in Nat /\ 0 \in 0..Lease /\ Lease \in 0..Lease
BY QueueAssumption

\* Giving an entry back clears its claim and touches neither its attempts,
\* its receipt nor its name (_clear_claim and the code around its calls).
LEMMA GiveBackResult ==
  ASSUME NEW entry \in Entry, NEW max \in RetryLimits
  PROVE  /\ GiveBack(entry, max) \in Entry
         /\ GiveBack(entry, max).status \in {"failed", "pending"}
         /\ GiveBack(entry, max).receipt = entry.receipt
         /\ GiveBack(entry, max).resolved = entry.resolved
         /\ GiveBack(entry, max).attempts = entry.attempts
<1> DEFINE c == ClearClaim(entry)
<1>1. /\ c \in Entry
      /\ c.receipt = entry.receipt /\ c.resolved = entry.resolved
      /\ c.attempts = entry.attempts
  BY LeaseRange DEF ClearClaim, Entry
<1> HIDE DEF c
<1>2. PICK s \in {"failed", "pending"} : GiveBack(entry, max) = [c EXCEPT !.status = s]
  BY DEF GiveBack, c
<1>3. QED
  BY <1>1, <1>2 DEF Entry, Statuses

\* A queue that differs from another at most by claims and imports that it
\* lacks: what every operation but a claim and a commit makes of the queue.
Calmer(r, q) ==
  \A e \in Entries :
    /\ r[e].receipt = q[e].receipt
    /\ r[e].status = "claimed" =>
         q[e].status = "claimed" /\ r[e].token = q[e].token /\ r[e].worker = q[e].worker
    /\ r[e].status = "imported" => q[e].status = "imported"

\* Recovering expired claims yields a queue without any new claim or import.
LEMMA RecoverResult ==
  ASSUME NEW q \in [Entries -> Entry], NEW max \in RetryLimits
  PROVE  /\ RecoverExpired(q, max) \in [Entries -> Entry]
         /\ Calmer(RecoverExpired(q, max), q)
<1> DEFINE r == RecoverExpired(q, max)
<1>1. \A e \in Entries : r[e] = IF Expired(q[e]) THEN GiveBack(q[e], max) ELSE q[e]
  BY DEF RecoverExpired
<1>2. ASSUME NEW e \in Entries
      PROVE  /\ r[e] \in Entry
             /\ r[e].receipt = q[e].receipt
             /\ r[e] = q[e] \/ r[e].status \in {"failed", "pending"}
  BY <1>1, GiveBackResult
<1>3. r \in [Entries -> Entry]
  BY <1>2 DEF RecoverExpired
<1>4. QED
  BY <1>2, <1>3 DEF Calmer

\* Claiming an entry yields an entry.
LEMMA ClaimedResult ==
  ASSUME NEW entry \in Entry, NEW w \in Workers, NEW token \in Nat
  PROVE  /\ Claimed(entry, w, token) \in Entry
         /\ Claimed(entry, w, token).status = "claimed"
         /\ Claimed(entry, w, token).worker = w
         /\ Claimed(entry, w, token).token = token
         /\ Claimed(entry, w, token).receipt = entry.receipt
<1>1. entry.attempts + 1 \in Nat
  BY DEF Entry
<1>2. QED
  BY <1>1, LeaseRange DEF Claimed, Entry, Statuses

\* Reopening an entry yields an entry.
LEMMA ReopenedResult ==
  ASSUME NEW c \in Entry
  PROVE  LET r == [c EXCEPT !.status = "pending", !.attempts = 0]
         IN  r \in Entry /\ r.status = "pending" /\ r.receipt = c.receipt
BY DEF Entry, Statuses

-----------------------------------------------------------------------------
(* Type correctness.                                                       *)

LEMMA IdleType ==
  ASSUME NEW w \in Workers, NEW max \in RetryLimits
  PROVE  Idle(w, max) \in Work
BY QueueAssumption DEF Idle, Work, Working

LEMMA InitType == Init => TypeOK
<1> SUFFICES ASSUME Init PROVE TypeOK
  OBVIOUS
<1>1. queue \in [Entries -> Entry]
  BY QueueAssumption DEF Init, Entry, Statuses
<1>2. work \in [Workers -> Work]
  BY IdleType DEF Init
<1>3. QED
  BY <1>1, <1>2, QueueAssumption DEF Init, TypeOK

\* A worker moves on, keeping its entry, or lets go of it.
LEMMA BecomeType ==
  ASSUME NEW w \in Workers, work \in [Workers -> Work],
         NEW pc \in Working, Become(w, pc)
  PROVE  work' \in [Workers -> Work]
BY DEF Become, Work

LEMMA LetGoType ==
  ASSUME NEW w \in Workers, work \in [Workers -> Work],
         NEW pc \in {"claiming", "exited", "dead"}, NEW done \in SUBSET Entries,
         LetGo(w, pc, done)
  PROVE  work' \in [Workers -> Work]
BY DEF LetGo, Work

LEMMA TakeType ==
  ASSUME TypeOK, NEW w \in Workers, NEW q \in [Entries -> Entry],
         NEW e \in Entries, Take(w, q, e)
  PROVE  TypeOK'
<1>1. issued[e] + 1 \in Nat
  BY DEF TypeOK
<1>2. queue' \in [Entries -> Entry]
  BY <1>1, ClaimedResult DEF Take
<1>3. work' \in [Workers -> Work]
  <2> DEFINE job == [work[w] EXCEPT !.pc = "waiting", !.entry = e,
                       !.token = issued[e] + 1, !.resolved = q[e].resolved]
  <2>1. q[e].resolved \in BOOLEAN
    BY DEF Entry
  <2>2. job \in Work
    BY <1>1, <2>1 DEF TypeOK, Work, Working
  <2>3. work' = [work EXCEPT ![w] = job]
    BY DEF Take
  <2> QED
    BY <2>2, <2>3 DEF TypeOK
<1>4. issued' \in [Entries -> Nat]
  BY <1>1 DEF Take, TypeOK
<1>5. QED
  BY <1>2, <1>3, <1>4 DEF Take, TypeOK

-----------------------------------------------------------------------------
(* The inductive invariant.                                                *)

\* A worker inside the body of the loop works on an entry, under a token
\* issued for it; any other worker holds nothing.
Busy ==
  \A w \in Workers :
    IF work[w].pc \in Working
    THEN work[w].entry \in Entries /\ work[w].token \in 1..issued[work[w].entry]
    ELSE work[w].entry = NoEntry /\ work[w].token = 0

\* No two workers hold the same token.
TokensDistinct ==
  \A w, v \in Workers :
    /\ work[w].pc \in Working /\ work[v].pc \in Working
    /\ work[w].entry = work[v].entry /\ work[w].token = work[v].token
    => w = v

\* The claim in the queue is the newest, and names the worker that has it.
ClaimIsNewest ==
  \A e \in Entries : queue[e].status = "claimed" =>
    /\ queue[e].token = issued[e] /\ issued[e] > 0
    /\ \A w \in Workers :
         work[w].entry = e /\ work[w].token = issued[e] => queue[e].worker = w

\* A worker about to commit has stored its files.
StoredFirst ==
  \A w \in Workers :
    work[w].pc = "committing" => <<work[w].entry, work[w].token>> \in stored

\* An imported entry has the receipt of its newest claim.
ImportedUnderNewest ==
  \A e \in Entries : queue[e].status = "imported" =>
    /\ queue[e].receipt = issued[e] /\ issued[e] > 0
    /\ <<e, queue[e].receipt>> \in stored

IInv ==
  /\ TypeOK /\ Busy /\ TokensDistinct /\ ClaimIsNewest /\ StoredFirst
  /\ ImportedUnderNewest /\ ReportedImported

THEOREM InitIInv == Init => IInv
<1> SUFFICES ASSUME Init PROVE IInv
  OBVIOUS
<1>1. TypeOK
  BY InitType
<1>2. \A w \in Workers : /\ work[w].pc \notin Working /\ work[w].entry = NoEntry
                         /\ work[w].token = 0 /\ work[w].done = {}
  BY DEF Init, Idle, Working
<1>3. \A e \in Entries : queue[e].status = "pending"
  BY DEF Init
<1>4. QED
  BY <1>1, <1>2, <1>3 DEF IInv, Busy, TokensDistinct, ClaimIsNewest, StoredFirst,
     ImportedUnderNewest, ReportedImported, Working

-----------------------------------------------------------------------------
(* Steps that make no claim and no commit.                                 *)

\* Each worker keeps its claim, or lets go of it; it adds to its list of
\* imports only an entry with a receipt.
CalmWork ==
  \A w \in Workers :
    \/ /\ work[w].pc \in Working /\ work'[w].pc \in Working
       /\ work'[w].entry = work[w].entry /\ work'[w].token = work[w].token
       /\ work'[w].pc = "committing" => <<work[w].entry, work[w].token>> \in stored'
       /\ work'[w].done = work[w].done
    \/ /\ work'[w].pc \notin Working /\ work'[w].entry = NoEntry /\ work'[w].token = 0
       /\ \A e \in work'[w].done : e \in work[w].done \/ queue[e].receipt > 0

CalmStep ==
  TypeOK' /\ Calmer(queue', queue) /\ issued' = issued /\ stored \subseteq stored' /\ CalmWork

LEMMA SameWork ==
  ASSUME IInv, work' = work, stored \subseteq stored'
  PROVE  CalmWork
BY DEF IInv, Busy, StoredFirst, CalmWork

LEMMA OneKeeps ==
  ASSUME IInv, NEW w \in Workers, work[w].pc \in Working, NEW pc \in Working,
         Become(w, pc), stored \subseteq stored',
         pc = "committing" => <<work[w].entry, work[w].token>> \in stored'
  PROVE  CalmWork
<1>1. work' = [work EXCEPT ![w].pc = pc] /\ work \in [Workers -> Work]
  BY DEF Become, IInv, TypeOK
<1>2. \A v \in Workers : v # w => work'[v] = work[v]
  BY <1>1
<1>3. /\ work'[w].pc = pc /\ work'[w].entry = work[w].entry
      /\ work'[w].token = work[w].token /\ work'[w].done = work[w].done
  BY <1>1 DEF Work
<1>4. QED
  BY <1>2, <1>3 DEF IInv, Busy, StoredFirst, CalmWork

LEMMA OneLetsGo ==
  ASSUME IInv, NEW w \in Workers, NEW pc \in {"claiming", "exited", "dead"},
         NEW done \in SUBSET Entries, LetGo(w, pc, done), stored \subseteq stored',
         \A e \in done : e \in work[w].done \/ queue[e].receipt > 0
  PROVE  CalmWork
<1>1. work \in [Workers -> Work]
  BY DEF IInv, TypeOK
<1>2. \A v \in Workers : v # w => work'[v] = work[v]
  BY <1>1 DEF LetGo
<1>3. /\ work'[w].pc = pc /\ work'[w].entry = NoEntry
      /\ work'[w].token = 0 /\ work'[w].done = done
  BY <1>1 DEF LetGo, Work
<1>4. QED
  BY <1>2, <1>3 DEF IInv, Busy, StoredFirst, CalmWork, Working

\* Calm steps preserve the invariant.
LEMMA CalmPreserves ==
  ASSUME IInv, CalmStep
  PROVE  IInv'
<1> USE DEF IInv, CalmStep
<1>1. Busy'
  BY DEF Busy, CalmWork
<1>2. TokensDistinct'
  BY DEF TokensDistinct, CalmWork, Busy
<1>3. ClaimIsNewest'
  <2> SUFFICES ASSUME NEW e \in Entries, queue'[e].status = "claimed"
               PROVE  /\ queue'[e].token = issued[e] /\ issued[e] > 0
                      /\ \A w \in Workers :
                           work'[w].entry = e /\ work'[w].token = issued[e]
                             => queue'[e].worker = w
    BY DEF ClaimIsNewest
  <2>1. /\ queue[e].status = "claimed" /\ queue'[e].token = queue[e].token
        /\ queue'[e].worker = queue[e].worker
    BY DEF Calmer
  <2>2. \A w \in Workers : work'[w].entry = e /\ work'[w].token = issued[e]
          => work[w].entry = e /\ work[w].token = issued[e]
    BY QueueAssumption DEF CalmWork
  <2>3. QED
    BY <2>1, <2>2 DEF ClaimIsNewest
<1>4. StoredFirst'
  BY DEF StoredFirst, CalmWork, Working
<1>5. ImportedUnderNewest'
  BY DEF ImportedUnderNewest, Calmer
<1>6. ReportedImported'
  <2> SUFFICES ASSUME NEW w \in Workers, NEW e \in work'[w].done
               PROVE  queue'[e].receipt > 0
    BY DEF ReportedImported
  <2>1. e \in Entries
    BY DEF TypeOK, Work
  <2>2. queue'[e].receipt = queue[e].receipt
    BY <2>1 DEF Calmer
  <2>3. e \in work[w].done \/ queue[e].receipt > 0
    BY DEF CalmWork
  <2>4. QED
    BY <2>2, <2>3 DEF ReportedImported
<1>7. QED
  BY <1>1, <1>2, <1>3, <1>4, <1>5, <1>6

-----------------------------------------------------------------------------
(* Every step is calm, a claim, or a commit.                               *)

\* The cases share what is known before the step.
LEMMA MaxRange ==
  ASSUME IInv, NEW w \in Workers
  PROVE  /\ work[w].max \in RetryLimits /\ work[w].done \in SUBSET Entries
         /\ work[w].pc \in Working => work[w].entry \in Entries
BY DEF IInv, TypeOK, Work, Busy

\* Changing nothing is calm.
LEMMA SameQueue == Calmer(queue, queue)
BY DEF Calmer

\* Replacing one entry by a calmer one is calm.
LEMMA OneEntry ==
  ASSUME IInv, NEW e \in Entries, NEW x \in Entry,
         queue' = [queue EXCEPT ![e] = x],
         x.receipt = queue[e].receipt,
         x.status = "claimed" =>
           queue[e].status = "claimed" /\ x.token = queue[e].token /\ x.worker = queue[e].worker,
         x.status = "imported" => queue[e].status = "imported"
  PROVE  queue' \in [Entries -> Entry] /\ Calmer(queue', queue)
BY DEF IInv, TypeOK, Calmer

\* The rest of the loop's body that leaves the queue alone.
LEMMA QuietStep ==
  ASSUME IInv, NEW w \in Workers, UNCHANGED <<queue, issued>>, stored' = stored,
         budget' \in [upsets : Nat, runs : Nat],
         \/ \E pc \in {"waiting", "releasing"} : work[w].pc \in Working /\ Become(w, pc)
         \/ \E pc \in {"claiming", "exited", "dead"} : LetGo(w, pc, work[w].done)
  PROVE  CalmStep
<1>1. CASE \E pc \in {"waiting", "releasing"} : work[w].pc \in Working /\ Become(w, pc)
  <2>1. PICK pc \in {"waiting", "releasing"} : work[w].pc \in Working /\ Become(w, pc)
    BY <1>1
  <2>2. CalmWork
    BY <2>1, OneKeeps DEF Working
  <2>3. work' \in [Workers -> Work]
    BY <2>1, BecomeType DEF IInv, TypeOK, Working
  <2>4. QED
    BY <2>2, <2>3, SameQueue DEF CalmStep, IInv, TypeOK
<1>2. CASE \E pc \in {"claiming", "exited", "dead"} : LetGo(w, pc, work[w].done)
  <2>1. PICK pc \in {"claiming", "exited", "dead"} : LetGo(w, pc, work[w].done)
    BY <1>2
  <2>2. CalmWork
    BY <2>1, OneLetsGo, MaxRange
  <2>3. work' \in [Workers -> Work]
    BY <2>1, LetGoType, MaxRange DEF IInv, TypeOK
  <2>4. QED
    BY <2>2, <2>3, SameQueue DEF CalmStep, IInv, TypeOK
<1>3. QED
  BY <1>1, <1>2

\* The steps of a worker, apart from claims and commits.
LEMMA WorkerCalm ==
  ASSUME IInv, NEW w \in Workers,
         \/ NothingToClaim(w) \/ StopAtLimit(w) \/ CannotAdopt(w)
         \/ Renew(w) \/ Finishing(w) \/ CommitAlreadyImported(w) \/ CommitRefused(w)
         \/ Releasing(w) \/ QueueUnavailable(w) \/ Crash(w)
  PROVE  CalmStep
<1> DEFINE e == work[w].entry
<1>1. CASE NothingToClaim(w)
  <2>1. queue' \in [Entries -> Entry] /\ Calmer(queue', queue)
    BY <1>1, RecoverResult, MaxRange DEF NothingToClaim, IInv, TypeOK
  <2>2. LetGo(w, "exited", work[w].done) /\ UNCHANGED <<issued, stored, budget>>
    BY <1>1 DEF NothingToClaim, Stop
  <2>3. CalmWork
    BY <2>2, OneLetsGo, MaxRange
  <2>4. work' \in [Workers -> Work]
    BY <2>2, LetGoType, MaxRange DEF IInv, TypeOK
  <2>5. QED
    BY <2>1, <2>2, <2>3, <2>4 DEF CalmStep, IInv, TypeOK
<1>2. CASE StopAtLimit(w) \/ CannotAdopt(w) \/ ReleaseNotClaimed(w) \/ ReleaseRefused(w)
  <2>1. \E pc \in {"claiming", "exited", "dead"} : LetGo(w, pc, work[w].done)
    BY <1>2 DEF StopAtLimit, CannotAdopt, ReleaseNotClaimed, ReleaseRefused, Stop, NextRound
  <2>2. UNCHANGED <<queue, issued, stored, budget>>
    BY <1>2 DEF StopAtLimit, CannotAdopt, ReleaseNotClaimed, ReleaseRefused
  <2>3. QED
    BY <2>1, <2>2, QuietStep DEF IInv, TypeOK
<1>3. CASE RenewalRefused(w) \/ WaitFails(w) \/ CommitRefused(w)
  <2>1. work[w].pc \in Working /\ Become(w, "releasing")
    BY <1>3 DEF RenewalRefused, WaitFails, CommitRefused, Working
  <2>2. UNCHANGED <<queue, issued, stored, budget>>
    BY <1>3 DEF RenewalRefused, WaitFails, CommitRefused
  <2>3. QED
    BY <2>1, <2>2, QuietStep DEF IInv, TypeOK
<1>4. CASE QueueUnavailable(w) \/ Crash(w)
  <2>1. \/ \E pc \in {"waiting", "releasing"} : work[w].pc \in Working /\ Become(w, pc)
        \/ \E pc \in {"claiming", "exited", "dead"} : LetGo(w, pc, work[w].done)
    BY <1>4 DEF QueueUnavailable, Crash, Stop, Working
  <2>2. UNCHANGED <<queue, issued>> /\ stored' = stored
    BY <1>4 DEF QueueUnavailable, Crash
  <2>3. budget' \in [upsets : Nat, runs : Nat]
    BY <1>4 DEF QueueUnavailable, Crash, IInv, TypeOK
  <2>4. QED
    BY <2>1, <2>2, <2>3, QuietStep
<1>5. CASE Renew(w)
  <2>1. e \in Entries /\ queue[e] \in Entry
    BY <1>5, MaxRange DEF Renew, Working, IInv, TypeOK
  <2>2. [queue[e] EXCEPT !.ttl = Lease] \in Entry
    BY <2>1, LeaseRange DEF Entry
  <2>3. queue' = [queue EXCEPT ![e] = [queue[e] EXCEPT !.ttl = Lease]]
    BY <1>5 DEF Renew
  <2>4. queue' \in [Entries -> Entry] /\ Calmer(queue', queue)
    BY <2>1, <2>2, <2>3, OneEntry DEF Entry
  <2>5. UNCHANGED <<issued, stored, work, budget>>
    BY <1>5 DEF Renew
  <2>6. QED
    BY <2>4, <2>5, SameWork DEF CalmStep, IInv, TypeOK
<1>6. CASE ImportCsv(w)
  <2>1. work[w].pc \in Working /\ Become(w, "committing")
    BY <1>6 DEF ImportCsv, Working
  <2>2. stored' = stored \cup {<<e, work[w].token>>} /\ UNCHANGED <<queue, issued, budget>>
    BY <1>6 DEF ImportCsv
  <2>3. CalmWork
    BY <2>1, <2>2, OneKeeps DEF Working
  <2>4. e \in Entries /\ work[w].token \in Nat
    BY <2>1, MaxRange DEF IInv, TypeOK, Work
  <2>5. stored' \subseteq Entries \X Nat
    BY <2>2, <2>4 DEF IInv, TypeOK
  <2>6. work' \in [Workers -> Work]
    BY <2>1, BecomeType DEF IInv, TypeOK, Working
  <2>7. QED
    BY <2>2, <2>3, <2>5, <2>6, SameQueue DEF CalmStep, IInv, TypeOK
<1>7. CASE CommitAlreadyImported(w)
  <2>1. e \in Entries /\ queue[e].receipt > 0
    BY <1>7, MaxRange DEF CommitAlreadyImported, Working, IInv, ImportedUnderNewest
  <2>2. LetGo(w, "claiming", work[w].done \cup {e}) /\ UNCHANGED <<queue, issued, stored, budget>>
    BY <1>7 DEF CommitAlreadyImported, NextRound
  <2>3. work[w].done \cup {e} \in SUBSET Entries
    BY <2>1, MaxRange
  <2>4. CalmWork
    BY <2>1, <2>2, <2>3, OneLetsGo
  <2>5. work' \in [Workers -> Work]
    BY <2>2, <2>3, LetGoType DEF IInv, TypeOK
  <2>6. QED
    BY <2>2, <2>4, <2>5, SameQueue DEF CalmStep, IInv, TypeOK
<1>8. CASE Release(w)
  <2>1. e \in Entries /\ queue[e] \in Entry /\ work[w].max \in RetryLimits
    BY <1>8, MaxRange DEF Release, Working, IInv, TypeOK
  <2>2. queue' = [queue EXCEPT ![e] = GiveBack(queue[e], work[w].max)]
    BY <1>8 DEF Release
  <2>3. queue' \in [Entries -> Entry] /\ Calmer(queue', queue)
    BY <2>1, <2>2, OneEntry, GiveBackResult
  <2>4. LetGo(w, "claiming", work[w].done) /\ UNCHANGED <<issued, stored, budget>>
    BY <1>8 DEF Release, NextRound
  <2>5. CalmWork
    BY <2>4, OneLetsGo, MaxRange
  <2>6. work' \in [Workers -> Work]
    BY <2>4, LetGoType, MaxRange DEF IInv, TypeOK
  <2>7. QED
    BY <2>3, <2>4, <2>5, <2>6 DEF CalmStep, IInv, TypeOK
<1>9. QED
  BY <1>1, <1>2, <1>3, <1>4, <1>5, <1>6, <1>7, <1>8 DEF Finishing, Releasing

\* The operator's commands and the clock.
LEMMA OperatorCalm ==
  ASSUME IInv, Operator \/ Tick
  PROVE  CalmStep
<1> USE DEF IInv, TypeOK
<1>1. CASE PrintStatus
  <2>1. PICK max \in RetryLimits : queue' = RecoverExpired(queue, max)
    BY <1>1 DEF PrintStatus
  <2>2. queue' \in [Entries -> Entry] /\ Calmer(queue', queue)
    BY <2>1, RecoverResult
  <2>3. UNCHANGED <<issued, stored, work, budget>>
    BY <1>1 DEF PrintStatus
  <2>4. QED
    BY <2>2, <2>3, SameWork DEF CalmStep
<1>2. CASE ResetFailed
  <2>1. \A e \in Entries : queue'[e] =
          IF queue[e].status = "failed"
          THEN [ClearClaim(queue[e]) EXCEPT !.status = "pending", !.attempts = 0]
          ELSE queue[e]
    BY <1>2 DEF ResetFailed
  <2>2. ASSUME NEW e \in Entries, queue[e].status = "failed"
        PROVE  /\ queue'[e] \in Entry /\ queue'[e].status = "pending"
               /\ queue'[e].receipt = queue[e].receipt
    <3> DEFINE c == ClearClaim(queue[e])
    <3>1. c \in Entry /\ c.receipt = queue[e].receipt
      BY LeaseRange DEF ClearClaim, Entry
    <3>2. queue'[e] = [c EXCEPT !.status = "pending", !.attempts = 0]
      BY <2>1, <2>2
    <3> HIDE DEF c
    <3>3. QED
      BY <3>1, <3>2, ReopenedResult
  <2>3. queue' \in [Entries -> Entry]
    BY <1>2, <2>1, <2>2 DEF ResetFailed
  <2>4. Calmer(queue', queue)
    BY <2>1, <2>2 DEF Calmer
  <2>5. /\ UNCHANGED <<issued, stored, work>>
        /\ budget.upsets > 0 /\ budget' = [budget EXCEPT !.upsets = @ - 1]
    BY <1>2 DEF ResetFailed
  <2>6. budget' \in [upsets : Nat, runs : Nat]
    BY <2>5
  <2>7. QED
    BY <2>3, <2>4, <2>5, <2>6, SameWork DEF CalmStep
<1>3. ASSUME NEW w \in Workers, Restart(w)
      PROVE  CalmStep
  <2>1. PICK max \in RetryLimits : work' = [work EXCEPT ![w] = Idle(w, max)]
    BY <1>3 DEF Restart
  <2>2. work' \in [Workers -> Work]
    BY <2>1, IdleType
  <2>3. /\ Idle(w, max).pc \notin Working /\ Idle(w, max).entry = NoEntry
        /\ Idle(w, max).token = 0 /\ Idle(w, max).done = {}
    BY DEF Idle, Working
  <2>4. UNCHANGED <<queue, issued, stored>> /\ budget' \in [upsets : Nat, runs : Nat]
    BY <1>3 DEF Restart
  <2>5. \A v \in Workers : v # w => work'[v] = work[v]
    BY <2>1
  <2>6. work'[w] = Idle(w, max)
    BY <2>1
  <2>7. CalmWork
    BY <2>3, <2>4, <2>5, <2>6 DEF CalmWork, Busy, StoredFirst
  <2>8. QED
    BY <2>2, <2>4, <2>7, SameQueue DEF CalmStep
<1>4. ASSUME NEW e \in Entries, Skip(e) \/ Discover(e)
      PROVE  CalmStep
  <2>1. PICK x : /\ queue' = [queue EXCEPT ![e] = x]
                 /\ x = [queue[e] EXCEPT !.status = "skipped"] \/ x = [queue[e] EXCEPT !.resolved = TRUE]
    BY <1>4 DEF Skip, Discover
  <2>2. /\ x \in Entry /\ x.receipt = queue[e].receipt /\ x.token = queue[e].token
        /\ x.worker = queue[e].worker /\ x.status \in {queue[e].status, "skipped"}
    BY <2>1 DEF Entry, Statuses
  <2>3. queue' \in [Entries -> Entry] /\ Calmer(queue', queue)
    BY <2>1, <2>2, OneEntry
  <2>4. UNCHANGED <<issued, stored, work, budget>>
    BY <1>4 DEF Skip, Discover
  <2>5. QED
    BY <2>3, <2>4, SameWork DEF CalmStep
<1>5. CASE Tick
  <2>1. \A e \in Entries : queue'[e] =
          IF queue[e].ttl > 0 THEN [queue[e] EXCEPT !.ttl = @ - 1] ELSE queue[e]
    BY <1>5 DEF Tick
  <2>2. ASSUME NEW e \in Entries
        PROVE  /\ queue'[e] \in Entry /\ queue'[e].receipt = queue[e].receipt
               /\ queue'[e].status = queue[e].status /\ queue'[e].token = queue[e].token
               /\ queue'[e].worker = queue[e].worker
    <3>1. queue[e] \in Entry
      OBVIOUS
    <3>2. CASE queue[e].ttl > 0
      <4>1. queue'[e] = [queue[e] EXCEPT !.ttl = queue[e].ttl - 1]
        BY <2>1, <3>2
      <4>2. queue[e].ttl - 1 \in 0..Lease
        BY <3>1, <3>2, LeaseRange DEF Entry
      <4>3. QED
        BY <3>1, <4>1, <4>2 DEF Entry
    <3>3. CASE ~(queue[e].ttl > 0)
      BY <2>1, <3>1, <3>3
    <3>4. QED
      BY <3>2, <3>3
  <2>3. queue' \in [Entries -> Entry]
    BY <1>5, <2>2 DEF Tick
  <2>4. Calmer(queue', queue)
    BY <2>2 DEF Calmer
  <2>5. UNCHANGED <<issued, stored, work, budget>>
    BY <1>5 DEF Tick
  <2>6. QED
    BY <2>3, <2>4, <2>5, SameWork DEF CalmStep
<1>6. QED
  BY <1>1, <1>2, <1>3, <1>4, <1>5, QueueAssumption DEF Operator

-----------------------------------------------------------------------------
(* Claims and commits.                                                     *)

\* A claim gives an entry a token that no worker holds.
LEMMA TakePreserves ==
  ASSUME IInv, NEW w \in Workers, work[w].pc \notin Working,
         NEW q \in [Entries -> Entry], Calmer(q, queue),
         NEW e \in Entries, Take(w, q, e)
  PROVE  IInv'
<1> DEFINE t == issued[e] + 1
<1>1. TypeOK'
  BY TakeType DEF IInv
<1>2. /\ issued \in [Entries -> Nat] /\ work \in [Workers -> Work] /\ queue \in [Entries -> Entry]
      /\ issued' = [issued EXCEPT ![e] = t] /\ stored' = stored
      /\ queue' = [q EXCEPT ![e] = Claimed(q[e], w, t)]
  BY DEF IInv, TypeOK, Take
<1>3. \A v \in Workers : v # w => work'[v] = work[v]
  BY DEF Take, IInv, TypeOK
<1>4. /\ work'[w].pc = "waiting" /\ work'[w].entry = e /\ work'[w].token = t
      /\ work'[w].done = work[w].done
  BY DEF Take, IInv, TypeOK, Work
<1>5. /\ queue'[e].status = "claimed" /\ queue'[e].token = t /\ queue'[e].worker = w
      /\ queue'[e].receipt = queue[e].receipt
  BY <1>2, ClaimedResult DEF Calmer
<1>6. \A f \in Entries : f # e => queue'[f] = q[f] /\ issued'[f] = issued[f]
  BY <1>2
<1>7. issued'[e] = t /\ t \in Nat /\ t > issued[e] /\ t > 0
  BY <1>2
<1>8. Busy'
  <2> SUFFICES ASSUME NEW v \in Workers
               PROVE  IF work'[v].pc \in Working
                      THEN work'[v].entry \in Entries /\ work'[v].token \in 1..issued'[work'[v].entry]
                      ELSE work'[v].entry = NoEntry /\ work'[v].token = 0
    BY DEF Busy
  <2>1. CASE v = w
    BY <2>1, <1>4, <1>7 DEF Working
  <2>2. CASE v # w
    BY <2>2, <1>2, <1>3, <1>6, <1>7 DEF IInv, Busy
  <2>3. QED
    BY <2>1, <2>2
<1>9. TokensDistinct'
  <2>1. \A v \in Workers : v # w /\ work[v].pc \in Working /\ work[v].entry = e => work[v].token # t
    BY <1>2, <1>7 DEF IInv, Busy
  <2>2. QED
    BY <2>1, <1>3, <1>4 DEF IInv, TokensDistinct
<1>10. ClaimIsNewest'
  <2> SUFFICES ASSUME NEW f \in Entries, queue'[f].status = "claimed"
               PROVE  /\ queue'[f].token = issued'[f] /\ issued'[f] > 0
                      /\ \A v \in Workers :
                           work'[v].entry = f /\ work'[v].token = issued'[f]
                             => queue'[f].worker = v
    BY DEF ClaimIsNewest
  <2>1. CASE f = e
    <3>1. \A v \in Workers : v # w /\ work[v].entry = e => work[v].token # t
      BY <1>2, <1>7, QueueAssumption DEF IInv, Busy
    <3>2. QED
      BY <2>1, <3>1, <1>3, <1>4, <1>5, <1>7
  <2>2. CASE f # e
    <3>1. /\ queue[f].status = "claimed" /\ queue'[f].token = queue[f].token
          /\ queue'[f].worker = queue[f].worker
      BY <2>2, <1>6 DEF Calmer
    <3>2. QED
      BY <2>2, <3>1, <1>3, <1>4, <1>6 DEF IInv, ClaimIsNewest
  <2>3. QED
    BY <2>1, <2>2
<1>11. StoredFirst'
  BY <1>2, <1>3, <1>4 DEF IInv, StoredFirst
<1>12. ImportedUnderNewest'
  BY <1>2, <1>5, <1>6 DEF IInv, ImportedUnderNewest, Calmer
<1>13. ReportedImported'
  <2>1. \A f \in Entries : queue'[f].receipt = queue[f].receipt
    BY <1>5, <1>6 DEF Calmer
  <2>2. \A v \in Workers : work'[v].done = work[v].done /\ work[v].done \subseteq Entries
    BY <1>2, <1>3, <1>4 DEF Work
  <2>3. QED
    BY <2>1, <2>2 DEF IInv, ReportedImported
<1>14. QED
  BY <1>1, <1>8, <1>9, <1>10, <1>11, <1>12, <1>13 DEF IInv

\* A commit is made under the newest token, with its files stored.
LEMMA CommitPreserves ==
  ASSUME IInv, NEW w \in Workers, Commit(w)
  PROVE  IInv'
<1> DEFINE e == work[w].entry
           t == work[w].token
           x == [ClearClaim(queue[e]) EXCEPT !.status = "imported", !.receipt = t]
<1>1. /\ e \in Entries /\ queue[e] \in Entry /\ t \in Nat /\ t > 0
      /\ work \in [Workers -> Work] /\ queue \in [Entries -> Entry]
      /\ issued \in [Entries -> Nat]
  BY MaxRange DEF Commit, Working, IInv, TypeOK, Work, Busy
<1>2. queue[e].status = "claimed" /\ t = issued[e] /\ <<e, t>> \in stored
  BY <1>1 DEF Commit, HoldsClaim, Mine, IInv, ClaimIsNewest, StoredFirst
<1>3. x \in Entry /\ x.status = "imported" /\ x.receipt = t
  <2>1. ClearClaim(queue[e]) \in Entry
    BY <1>1, LeaseRange DEF ClearClaim, Entry
  <2>2. QED
    BY <2>1, <1>1 DEF Entry, Statuses
<1>4. queue' = [queue EXCEPT ![e] = x] /\ UNCHANGED <<issued, stored, budget>>
  BY DEF Commit
<1>5. LetGo(w, "claiming", work[w].done \cup {e}) /\ work[w].done \subseteq Entries
  BY MaxRange DEF Commit, NextRound
<1>6. TypeOK'
  <2>1. queue' \in [Entries -> Entry]
    BY <1>1, <1>3, <1>4
  <2>2. work' \in [Workers -> Work]
    BY <1>1, <1>5, LetGoType
  <2>3. QED
    BY <2>1, <2>2, <1>4 DEF IInv, TypeOK
<1>7. \A v \in Workers : v # w => work'[v] = work[v]
  BY <1>1, <1>5 DEF LetGo
<1>8. /\ work'[w].pc = "claiming" /\ work'[w].entry = NoEntry
      /\ work'[w].token = 0 /\ work'[w].done = work[w].done \cup {e}
  BY <1>1, <1>5 DEF LetGo, Work
<1>9. /\ \A f \in Entries : f # e => queue'[f] = queue[f]
      /\ queue'[e].status = "imported" /\ queue'[e].receipt = t
  BY <1>1, <1>3, <1>4
<1>10. Busy'
  BY <1>4, <1>7, <1>8 DEF IInv, Busy, Working
<1>11. TokensDistinct'
  BY <1>7, <1>8 DEF IInv, TokensDistinct, Working
<1>12. ClaimIsNewest'
  BY <1>4, <1>7, <1>8, <1>9, QueueAssumption DEF IInv, ClaimIsNewest
<1>13. StoredFirst'
  BY <1>4, <1>7, <1>8 DEF IInv, StoredFirst
<1>14. ImportedUnderNewest'
  BY <1>1, <1>2, <1>4, <1>9 DEF IInv, ImportedUnderNewest
<1>15. ReportedImported'
  <2>1. \A f \in Entries : queue[f].receipt > 0 => queue'[f].receipt > 0
    BY <1>1, <1>9
  <2>2. queue'[e].receipt > 0
    BY <1>1, <1>9
  <2>3. \A v \in Workers : work[v].done \subseteq Entries
    BY <1>1 DEF Work
  <2>4. QED
    BY <2>1, <2>2, <2>3, <1>7, <1>8 DEF IInv, ReportedImported
<1>16. QED
  BY <1>6, <1>10, <1>11, <1>12, <1>13, <1>14, <1>15 DEF IInv

THEOREM NextIInv == IInv /\ [Next]_vars => IInv'
<1> SUFFICES ASSUME IInv, [Next]_vars PROVE IInv'
  OBVIOUS
<1>1. ASSUME NEW w \in Workers, ClaimNext(w)
      PROVE  IInv'
  <2> DEFINE q == RecoverExpired(queue, work[w].max)
  <2>1. q \in [Entries -> Entry] /\ Calmer(q, queue)
    BY RecoverResult, MaxRange DEF IInv, TypeOK
  <2>2. PICK e \in Entries : Take(w, q, e)
    BY <1>1 DEF ClaimNext
  <2>3. work[w].pc \notin Working
    BY <1>1 DEF ClaimNext, Working
  <2>4. QED
    BY <2>1, <2>2, <2>3, TakePreserves
<1>2. ASSUME NEW w \in Workers, ClaimInstance(w)
      PROVE  IInv'
  <2> DEFINE q == RecoverExpired(queue, work[w].max)
  <2>1. q \in [Entries -> Entry] /\ Calmer(q, queue)
    BY RecoverResult, MaxRange DEF IInv, TypeOK
  <2>2. Take(w, q, Adopted[w]) /\ q[Adopted[w]].status = "pending" /\ work[w].pc \notin Working
    BY <1>2 DEF ClaimInstance, Adopting, Working
  <2>3. Adopted[w] \in Entries
    BY <1>2, QueueAssumption DEF ClaimInstance, Adopting
  <2>4. QED
    BY <2>1, <2>2, <2>3, TakePreserves
<1>3. ASSUME NEW w \in Workers, Commit(w)
      PROVE  IInv'
  BY <1>3, CommitPreserves
<1>4. ASSUME NEW w \in Workers,
             \/ NothingToClaim(w) \/ StopAtLimit(w) \/ CannotAdopt(w)
             \/ Renew(w) \/ Finishing(w) \/ CommitAlreadyImported(w) \/ CommitRefused(w)
             \/ Releasing(w) \/ QueueUnavailable(w) \/ Crash(w)
      PROVE  IInv'
  BY <1>4, WorkerCalm, CalmPreserves
<1>5. CASE Operator \/ Tick
  BY <1>5, OperatorCalm, CalmPreserves
<1>6. CASE UNCHANGED vars
  <2>1. CalmStep
    BY <1>6, SameWork, SameQueue DEF vars, CalmStep, IInv, TypeOK
  <2>2. QED
    BY <2>1, CalmPreserves
<1>7. QED
  BY <1>1, <1>2, <1>3, <1>4, <1>5, <1>6
     DEF Next, WorkerStep, Progress, Claiming, Committing

THEOREM Invariance == Spec => []IInv
BY InitIInv, NextIInv, PTL DEF Spec

-----------------------------------------------------------------------------
(* Results.                                                                *)

\* Every variable keeps its type, whatever the workers and the operator do.
THEOREM TypeCorrect == Spec => []TypeOK
<1>1. IInv => TypeOK
  BY DEF IInv
<1>2. QED
  BY <1>1, Invariance, PTL

\* At any time, the claim in the queue is the newest and at most one worker
\* holds it.
THEOREM NewestHolds == Spec => []HeldByNewest
<1>1. IInv => HeldByNewest
  <2> SUFFICES ASSUME IInv, NEW e \in Entries, queue[e].status = "claimed"
               PROVE  /\ queue[e].token = issued[e]
                      /\ \A w, v \in Workers :
                           /\ work[w].entry = e /\ work[w].token = queue[e].token
                           /\ work[v].entry = e /\ work[v].token = queue[e].token
                           => w = v /\ queue[e].worker = w
    BY DEF HeldByNewest
  <2>1. queue[e].token = issued[e]
    BY DEF IInv, ClaimIsNewest
  <2>2. \A w \in Workers :
          work[w].entry = e /\ work[w].token = queue[e].token => queue[e].worker = w
    BY <2>1 DEF IInv, ClaimIsNewest
  <2>3. QED
    BY <2>1, <2>2
<1>2. QED
  BY <1>1, Invariance, PTL

\* Whatever leases expire while a CSV is imported, only the newest claim of
\* an entry is ever committed, and its files are stored.
THEOREM NewestCommits == Spec => []ReceiptOfNewestClaim
<1>1. IInv => ReceiptOfNewestClaim
  BY DEF IInv, ImportedUnderNewest, ReceiptOfNewestClaim
<1>2. QED
  BY <1>1, Invariance, PTL

\* A worker never reports an import that the queue has no receipt for.
THEOREM ReportsAreTrue == Spec => []ReportedImported
<1>1. IInv => ReportedImported
  BY DEF IInv
<1>2. QED
  BY <1>1, Invariance, PTL

-----------------------------------------------------------------------------
(* What each step does to the queue.                                       *)

\* A step that counts leases down, renews one, or gives an entry its UUID.
Ages ==
  /\ issued' = issued
  /\ \A e \in Entries :
       /\ queue'[e].status = queue[e].status /\ queue'[e].token = queue[e].token
       /\ queue'[e].attempts = queue[e].attempts /\ queue'[e].receipt = queue[e].receipt

\* Expired claims come back, and nothing else happens.
Recovers ==
  issued' = issued /\ \E max \in RetryLimits : queue' = RecoverExpired(queue, max)

\* Expired claims come back and a pending entry is claimed, in one save.
Claims ==
  \E max \in RetryLimits, w \in Workers, e \in Entries :
    LET q == RecoverExpired(queue, max) IN q[e].status = "pending" /\ Take(w, q, e)

\* Every step is one of these.
LEMMA QueueStep ==
  ASSUME IInv, [Next]_vars
  PROVE  \/ Ages \/ Recovers \/ Claims \/ ResetFailed
         \/ \E w \in Workers : Commit(w) \/ Release(w)
         \/ \E e \in Entries : Skip(e)
<1> USE DEF IInv, TypeOK
<1>1. ASSUME UNCHANGED <<queue, issued>>
      PROVE  Ages
  BY <1>1 DEF Ages
<1>2. ASSUME NEW w \in Workers, Claiming(w)
      PROVE  Ages \/ Recovers \/ Claims
  <2>1. work[w].max \in RetryLimits
    BY MaxRange
  <2>2. CASE ClaimNext(w)
    BY <2>1, <2>2 DEF ClaimNext, FirstPending, Claims
  <2>3. CASE NothingToClaim(w)
    BY <2>1, <2>3 DEF NothingToClaim, Recovers
  <2>4. CASE ClaimInstance(w)
    BY <2>1, <2>4, QueueAssumption DEF ClaimInstance, Adopting, Claims
  <2>5. CASE StopAtLimit(w) \/ CannotAdopt(w)
    BY <2>5, <1>1 DEF StopAtLimit, CannotAdopt
  <2>6. QED
    BY <1>2, <2>2, <2>3, <2>4, <2>5 DEF Claiming
<1>3. ASSUME NEW w \in Workers, Renew(w)
      PROVE  Ages
  <2>1. work[w].entry \in Entries
    BY <1>3, MaxRange DEF Renew, Working
  <2>2. QED
    BY <1>3, <2>1 DEF Renew, Ages, Entry
<1>4. ASSUME NEW w \in Workers,
             \/ Finishing(w) \/ CommitAlreadyImported(w) \/ CommitRefused(w)
             \/ ReleaseNotClaimed(w) \/ ReleaseRefused(w) \/ QueueUnavailable(w) \/ Crash(w)
      PROVE  Ages
  BY <1>1, <1>4 DEF Finishing, RenewalRefused, WaitFails, ImportCsv, CommitAlreadyImported,
     CommitRefused, ReleaseNotClaimed, ReleaseRefused, QueueUnavailable, Crash
<1>5. CASE Operator \/ Tick
  <2>1. CASE PrintStatus
    BY <2>1 DEF PrintStatus, Recovers
  <2>2. CASE \E w \in Workers : Restart(w)
    BY <1>1, <2>2 DEF Restart
  <2>3. CASE \E e \in Unresolved : Discover(e)
    BY <2>3, QueueAssumption DEF Discover, Ages, Entry
  <2>4. CASE Tick
    BY <2>4 DEF Tick, Ages, Entry
  <2>5. QED
    BY <1>5, <2>1, <2>2, <2>3, <2>4, QueueAssumption DEF Operator
<1>6. CASE UNCHANGED vars
  BY <1>1, <1>6 DEF vars
<1>7. QED
  BY <1>2, <1>3, <1>4, <1>5, <1>6
     DEF Next, WorkerStep, Progress, Committing, Releasing

-----------------------------------------------------------------------------
(* Attempts.                                                               *)

\* An entry fits the limits: no limit that is in use says otherwise.
Fits(x) ==
  /\ \E max \in RetryLimits : x.attempts <= max
  /\ x.status = "pending" => \E max \in RetryLimits : x.attempts < max
  /\ x.status = "failed" => \E limit \in RetryLimits : x.attempts >= limit

AttemptsFit == \A e \in Entries : Fits(queue[e])

\* An entry without attempts is below every limit.
LEMMA FreshFits == \E max \in RetryLimits : 0 <= max /\ 0 < max
<1>1. PICK max \in RetryLimits : max \in Nat \ {0}
  BY QueueAssumption
<1>2. QED
  BY <1>1

\* An entry that is given back fits the limit it was compared with.
LEMMA GiveBackFits ==
  ASSUME NEW x \in Entry, NEW max \in RetryLimits, Fits(x)
  PROVE  Fits(GiveBack(x, max))
<1> DEFINE y == GiveBack(x, max)
<1>1. y.attempts = x.attempts /\ y \in Entry
  BY GiveBackResult
<1>2. y.status = IF x.attempts >= max THEN "failed" ELSE "pending"
  BY DEF GiveBack, ClearClaim, Entry
<1>3. x.attempts \in Nat /\ max \in Nat
  BY QueueAssumption DEF Entry
<1>4. QED
  BY <1>1, <1>2, <1>3 DEF Fits

\* Recovery leaves every entry within the limits.
LEMMA RecoverFits ==
  ASSUME IInv, AttemptsFit, NEW max \in RetryLimits, NEW e \in Entries
  PROVE  Fits(RecoverExpired(queue, max)[e])
BY GiveBackFits DEF IInv, TypeOK, AttemptsFit, RecoverExpired

\* No step takes an entry out of the limits, and only a pending entry is tried.
LEMMA NextFits == IInv /\ AttemptsFit /\ [Next]_vars => AttemptsFit'
<1> SUFFICES ASSUME IInv, AttemptsFit, [Next]_vars PROVE AttemptsFit'
  OBVIOUS
<1>1. CASE Ages
  BY <1>1 DEF Ages, AttemptsFit, Fits
<1>2. CASE Recovers
  BY <1>2, RecoverFits DEF Recovers, AttemptsFit
<1>3. CASE Claims
  <2>1. PICK max \in RetryLimits, w \in Workers, e \in Entries :
          /\ RecoverExpired(queue, max)[e].status = "pending"
          /\ Take(w, RecoverExpired(queue, max), e)
    BY <1>3 DEF Claims
  <2> DEFINE q == RecoverExpired(queue, max)
             x == Claimed(q[e], w, issued[e] + 1)
  <2>2. q \in [Entries -> Entry] /\ \A f \in Entries : Fits(q[f])
    BY RecoverResult, RecoverFits DEF IInv, TypeOK
  <2>3. queue' = [q EXCEPT ![e] = x]
    BY <2>1 DEF Take
  <2> HIDE DEF q
  <2>4. q[e].attempts \in Nat /\ \E m \in RetryLimits : q[e].attempts < m
    BY <2>1, <2>2 DEF Fits, Entry, q
  <2>5. x.attempts = q[e].attempts + 1 /\ x.status = "claimed"
    BY <2>2 DEF Claimed, Entry
  <2>6. Fits(x)
    BY <2>4, <2>5, QueueAssumption DEF Fits
  <2> HIDE DEF x
  <2>7. QED
    BY <2>2, <2>3, <2>6 DEF AttemptsFit
<1>4. CASE ResetFailed
  <2> SUFFICES ASSUME NEW e \in Entries PROVE Fits(queue'[e])
    BY DEF AttemptsFit
  <2>1. CASE queue[e].status = "failed"
    <3>1. queue'[e].attempts = 0 /\ queue'[e].status = "pending"
      BY <1>4, <2>1 DEF ResetFailed, ClearClaim, IInv, TypeOK, Entry
    <3>2. QED
      BY <3>1, FreshFits DEF Fits
  <2>2. CASE queue[e].status # "failed"
    BY <1>4, <2>2 DEF ResetFailed, AttemptsFit
  <2>3. QED
    BY <2>1, <2>2
<1>5. ASSUME NEW w \in Workers, Commit(w)
      PROVE  AttemptsFit'
  <2>1. work[w].entry \in Entries
    BY <1>5, MaxRange DEF Commit, Working
  <2>2. queue'[work[w].entry].attempts = queue[work[w].entry].attempts
        /\ queue'[work[w].entry].status = "imported"
    BY <1>5, <2>1 DEF Commit, ClearClaim, IInv, TypeOK, Entry
  <2>3. \A e \in Entries : e # work[w].entry => queue'[e] = queue[e]
    BY <1>5 DEF Commit, IInv, TypeOK
  <2>4. QED
    BY <2>1, <2>2, <2>3 DEF AttemptsFit, Fits
<1>6. ASSUME NEW w \in Workers, Release(w)
      PROVE  AttemptsFit'
  <2>1. work[w].entry \in Entries /\ work[w].max \in RetryLimits
    BY <1>6, MaxRange DEF Release, Working
  <2>2. Fits(GiveBack(queue[work[w].entry], work[w].max))
    BY <2>1, GiveBackFits DEF IInv, TypeOK, AttemptsFit
  <2>3. QED
    BY <1>6, <2>1, <2>2 DEF Release, AttemptsFit, IInv, TypeOK
<1>7. ASSUME NEW e \in Entries, Skip(e)
      PROVE  AttemptsFit'
  BY <1>7 DEF Skip, AttemptsFit, Fits, IInv, TypeOK, Entry
<1>8. QED
  BY <1>1, <1>2, <1>3, <1>4, <1>5, <1>6, <1>7, QueueStep

\* Whatever limits the commands are given and however claims end, no entry is
\* tried more often than the largest limit allows, offered again above all of
\* them, or given up below all of them.
THEOREM AttemptsAreLimited == Spec => []AttemptsWithinLimit
<1>1. Init => AttemptsFit
  BY FreshFits DEF Init, AttemptsFit, Fits
<1>2. IInv /\ AttemptsFit => AttemptsWithinLimit
  <2> SUFFICES ASSUME IInv, AttemptsFit, NEW e \in Entries
               PROVE  \E max \in RetryLimits :
                        /\ queue[e].attempts <= max
                        /\ queue[e].status = "pending" => queue[e].attempts < max
                        /\ queue[e].status = "failed" =>
                             \E limit \in RetryLimits : queue[e].attempts >= limit
    BY DEF AttemptsWithinLimit
  <2>1. queue[e].attempts \in Nat /\ RetryLimits \subseteq Nat
    BY QueueAssumption DEF IInv, TypeOK, Entry
  <2>2. CASE queue[e].status = "pending"
    BY <2>1, <2>2 DEF AttemptsFit, Fits
  <2>3. CASE queue[e].status # "pending"
    BY <2>1, <2>3 DEF AttemptsFit, Fits
  <2>4. QED
    BY <2>2, <2>3
<1>3. QED
  BY <1>1, <1>2, NextFits, InitIInv, NextIInv, PTL DEF Spec

-----------------------------------------------------------------------------
(* Who ends a claim.                                                       *)

\* While its lease runs, a claim is ended by its holder, who commits or
\* releases, or by the operator's skip: no recovery, no other worker's claim
\* or commit and no reset touches it.
THEOREM LiveClaimsAreTheHolders == Spec => LiveClaimEndsByHolder
<1> DEFINE Ends ==
      \A e \in Entries :
        queue[e].status = "claimed" /\ queue[e].ttl > 0 =>
          \/ queue'[e].status = "claimed" /\ queue'[e].token = queue[e].token
          \/ queue'[e].status = "skipped"
          \/ \E w \in Workers :
               /\ work[w].entry = e /\ work[w].token = queue[e].token
               /\ work[w].pc \in {"committing", "releasing"}
               /\ work'[w].pc = "claiming"
<1>1. IInv /\ [Next]_vars => Ends
  <2> SUFFICES ASSUME IInv, [Next]_vars, NEW e \in Entries,
                      queue[e].status = "claimed", queue[e].ttl > 0
               PROVE  \/ queue'[e].status = "claimed" /\ queue'[e].token = queue[e].token
                      \/ queue'[e].status = "skipped"
                      \/ \E w \in Workers :
                           /\ work[w].entry = e /\ work[w].token = queue[e].token
                           /\ work[w].pc \in {"committing", "releasing"}
                           /\ work'[w].pc = "claiming"
    OBVIOUS
  <2>1. queue \in [Entries -> Entry] /\ work \in [Workers -> Work]
    BY DEF IInv, TypeOK
  <2>2. ASSUME NEW max \in RetryLimits
        PROVE  RecoverExpired(queue, max)[e] = queue[e]
    BY <2>1 DEF RecoverExpired, Expired
  <2>3. CASE Ages
    BY <2>3 DEF Ages
  <2>4. CASE Recovers
    BY <2>2, <2>4 DEF Recovers
  <2>5. CASE Claims
    <3>1. PICK max \in RetryLimits, w \in Workers, f \in Entries :
            /\ RecoverExpired(queue, max)[f].status = "pending"
            /\ Take(w, RecoverExpired(queue, max), f)
      BY <2>5 DEF Claims
    <3>2. f # e
      BY <2>2, <3>1
    <3>3. queue'[e] = RecoverExpired(queue, max)[e]
      BY <3>1, <3>2 DEF Take, RecoverExpired
    <3>4. QED
      BY <2>2, <3>3
  <2>6. CASE ResetFailed
    BY <2>6 DEF ResetFailed
  <2>7. ASSUME NEW w \in Workers, Commit(w) \/ Release(w), work[w].entry = e
        PROVE  /\ work[w].token = queue[e].token
               /\ work[w].pc \in {"committing", "releasing"}
               /\ work'[w].pc = "claiming"
    <3>1. \E done \in SUBSET Entries : LetGo(w, "claiming", done)
      BY <2>7, MaxRange DEF Commit, Release, NextRound
    <3>2. work'[w].pc = "claiming"
      BY <2>1, <3>1 DEF LetGo, Work
    <3>3. QED
      BY <2>7, <3>2 DEF Commit, Release, HoldsClaim, Mine
  <2>8. ASSUME NEW w \in Workers, Commit(w) \/ Release(w), work[w].entry # e
        PROVE  queue'[e] = queue[e]
    BY <2>1, <2>8 DEF Commit, Release
  <2>9. ASSUME NEW f \in Entries, Skip(f)
        PROVE  \/ queue'[e].status = "claimed" /\ queue'[e].token = queue[e].token
               \/ queue'[e].status = "skipped"
    BY <2>1, <2>9 DEF Skip, Entry
  <2>10. QED
    BY <2>3, <2>4, <2>5, <2>6, <2>7, <2>8, <2>9, QueueStep
<1>2. QED
  BY <1>1, Invariance, PTL DEF Spec, LiveClaimEndsByHolder

-----------------------------------------------------------------------------
(* The promise of ExportClaims.                                            *)

\* What the promise sees of an entry.
View(x, n) ==
  [phase |-> PhaseOf(x.status), tries |-> x.attempts, grants |-> n, winner |-> x.receipt]

Bar == [e \in Entries |-> View(queue[e], issued[e])]

\* The limit that every command is given.
OneLimitGiven == \E limit : RetryLimits = {limit}

Limit == CHOOSE max \in RetryLimits : TRUE

\* Limit of ExportClaims is what every command is given.
LEMMA LimitIsGiven ==
  ASSUME OneLimitGiven, NEW max \in RetryLimits
  PROVE  max = Limit
BY DEF OneLimitGiven, Limit

\* Giving an entry back returns its claim.
LEMMA GiveBackReturns ==
  ASSUME OneLimitGiven, NEW x \in Entry, NEW max \in RetryLimits, NEW n
  PROVE  View(GiveBack(x, max), n) = Promise!Returned(View(x, n))
<1>1. /\ GiveBack(x, max).status = IF x.attempts >= Limit THEN "failed" ELSE "pending"
      /\ GiveBack(x, max).attempts = x.attempts /\ GiveBack(x, max).receipt = x.receipt
  BY LimitIsGiven DEF GiveBack, ClearClaim, Entry
<1>2. QED
  BY <1>1 DEF View, PhaseOf, Promise!Returned, Limit

\* Recovering expired claims returns the claims that are held and expired.
LEMMA RecoverReturns ==
  ASSUME OneLimitGiven, IInv, NEW max \in RetryLimits
  PROVE  LET R == {e \in Entries : Expired(queue[e])}
         IN  /\ Promise!Held(R)
             /\ Promise!ReturnAll(R) =
                  [e \in Entries |-> View(RecoverExpired(queue, max)[e], issued[e])]
<1> DEFINE R == {e \in Entries : Expired(queue[e])}
<1>1. Promise!Held(R)
  BY DEF Promise!Held, Expired, PhaseOf
<1>2. \A e \in Entries :
        View(RecoverExpired(queue, max)[e], issued[e]) =
          IF e \in R THEN Promise!Returned(View(queue[e], issued[e])) ELSE View(queue[e], issued[e])
  BY GiveBackReturns DEF RecoverExpired, IInv, TypeOK
<1>3. Promise!ReturnAll(R) =
        [e \in Entries |-> IF e \in R THEN Promise!Returned(View(queue[e], issued[e]))
                           ELSE View(queue[e], issued[e])]
  BY DEF Promise!ReturnAll, View
<1>4. QED
  BY <1>1, <1>2, <1>3

\* One entry changes and nothing is claimed.
LEMMA OneView ==
  ASSUME IInv, issued' = issued, NEW e \in Entries, NEW x,
         queue' = [queue EXCEPT ![e] = x]
  PROVE  Bar' = [Bar EXCEPT ![e] = View(x, issued[e])]
BY DEF Bar, IInv, TypeOK

\* A grant, field by field.
LEMMA GrantedResult ==
  ASSUME NEW p, NEW t, NEW g, NEW v
  PROVE  Promise!Granted([phase |-> p, tries |-> t, grants |-> g, winner |-> v]) =
           [phase |-> "held", tries |-> t + 1, grants |-> g + 1, winner |-> v]
<1> DEFINE c  == [phase |-> p, tries |-> t, grants |-> g, winner |-> v]
           c1 == [c EXCEPT !.phase = "held"]
           c2 == [c1 EXCEPT !.tries = @ + 1]
           c3 == [c2 EXCEPT !.grants = @ + 1]
<1>1. Promise!Granted(c) = c3
  BY DEF Promise!Granted
<1>2. c1 = [phase |-> "held", tries |-> t, grants |-> g, winner |-> v]
  OBVIOUS
<1> HIDE DEF c1
<1>3. c2 = [phase |-> "held", tries |-> t + 1, grants |-> g, winner |-> v]
  BY <1>2
<1> HIDE DEF c2
<1>4. c3 = [phase |-> "held", tries |-> t + 1, grants |-> g + 1, winner |-> v]
  BY <1>3
<1>5. QED
  BY <1>1, <1>4

\* Every step of the queue is a step of the promise, or leaves it alone.
LEMMA StepsArePromised ==
  ASSUME OneLimitGiven, IInv, [Next]_vars
  PROVE  Promise!Next \/ Bar' = Bar
<1> USE DEF Bar
<1>1. CASE Ages
  BY <1>1 DEF Ages, View
<1>2. CASE Recovers
  <2>1. PICK max \in RetryLimits : queue' = RecoverExpired(queue, max) /\ issued' = issued
    BY <1>2 DEF Recovers
  <2> DEFINE R == {e \in Entries : Expired(queue[e])}
  <2>2. Promise!Held(R) /\ Bar' = Promise!ReturnAll(R)
    BY <2>1, RecoverReturns
  <2> HIDE DEF R
  <2>3. R \in SUBSET Entries
    BY DEF R
  <2>4. Promise!Return
    BY <2>2, <2>3 DEF Promise!Return, View
  <2>5. QED
    BY <2>4 DEF Promise!Next
<1>3. CASE Claims
  <2>1. PICK max \in RetryLimits, w \in Workers, e \in Entries :
          /\ RecoverExpired(queue, max)[e].status = "pending"
          /\ Take(w, RecoverExpired(queue, max), e)
    BY <1>3 DEF Claims
  <2> DEFINE R == {f \in Entries : Expired(queue[f])}
             q == RecoverExpired(queue, max)
             x == Claimed(q[e], w, issued[e] + 1)
             c == [f \in Entries |-> View(q[f], issued[f])]
  <2>2. Promise!Held(R) /\ Promise!ReturnAll(R) = c
    BY RecoverReturns
  <2>3. /\ queue' = [q EXCEPT ![e] = x] /\ issued' = [issued EXCEPT ![e] = issued[e] + 1]
        /\ q[e].status = "pending"
    BY <2>1 DEF Take
  <2>4. q \in [Entries -> Entry] /\ issued \in [Entries -> Nat]
    BY RecoverResult DEF IInv, TypeOK
  <2>5. x.status = "claimed" /\ x.attempts = q[e].attempts + 1 /\ x.receipt = q[e].receipt
    BY <2>4 DEF Claimed, Entry
  <2> HIDE DEF R, q, x
  <2>6. View(x, issued[e] + 1) = Promise!Granted(c[e])
    <3>1. c[e] = View(q[e], issued[e])
      OBVIOUS
    <3> HIDE DEF c
    <3>2. Promise!Granted(View(q[e], issued[e])) =
            [phase |-> "held", tries |-> q[e].attempts + 1,
             grants |-> issued[e] + 1, winner |-> q[e].receipt]
      BY GrantedResult DEF View
    <3>3. QED
      BY <2>5, <3>1, <3>2 DEF View, PhaseOf
  <2>7. Bar' = [f \in Entries |-> IF f = e THEN View(x, issued[e] + 1) ELSE c[f]]
    BY <2>3, <2>4
  <2>8. Bar' = [c EXCEPT ![e] = Promise!Granted(c[e])]
    BY <2>6, <2>7
  <2>9. c[e].phase = "open"
    BY <2>3 DEF View, PhaseOf
  <2> HIDE DEF c
  <2>10. R \in SUBSET Entries
    BY DEF R
  <2>11. Promise!Grant
    BY <2>2, <2>8, <2>9, <2>10 DEF Promise!Grant, View
  <2>12. QED
    BY <2>11 DEF Promise!Next
<1>4. CASE ResetFailed
  <2>1. issued' = issued /\ \A e \in Entries :
          queue'[e] = IF queue[e].status = "failed"
                      THEN [ClearClaim(queue[e]) EXCEPT !.status = "pending", !.attempts = 0]
                      ELSE queue[e]
    BY <1>4 DEF ResetFailed
  <2>2. ASSUME NEW e \in Entries
        PROVE  View(queue'[e], issued[e]) =
                 IF Bar[e].phase = "shut" THEN [Bar[e] EXCEPT !.phase = "open", !.tries = 0]
                 ELSE Bar[e]
    <3>1. CASE queue[e].status = "failed"
      <4>1. /\ queue'[e].status = "pending" /\ queue'[e].attempts = 0
            /\ queue'[e].receipt = queue[e].receipt
        BY <2>1, <3>1 DEF ClearClaim, IInv, TypeOK, Entry
      <4>2. QED
        BY <3>1, <4>1 DEF View, PhaseOf
    <3>2. CASE queue[e].status # "failed"
      <4>1. queue[e].status \in Statuses
        BY DEF IInv, TypeOK, Entry
      <4>2. PhaseOf(queue[e].status) # "shut"
        BY <3>2, <4>1 DEF PhaseOf, Statuses
      <4>3. QED
        BY <2>1, <3>2, <4>2 DEF View
    <3>3. QED
      BY <3>1, <3>2
  <2>3. Promise!Reopen
    BY <2>1, <2>2 DEF Promise!Reopen, View
  <2>4. QED
    BY <2>3 DEF Promise!Next
<1>5. ASSUME NEW w \in Workers, Commit(w)
      PROVE  Promise!Next
  <2> DEFINE e == work[w].entry
             x == [ClearClaim(queue[e]) EXCEPT !.status = "imported", !.receipt = work[w].token]
  <2>1. e \in Entries /\ queue[e] \in Entry /\ queue[e].status = "claimed"
    BY <1>5, MaxRange DEF Commit, HoldsClaim, Working, IInv, TypeOK
  <2>2. work[w].token = issued[e]
    BY <1>5, <2>1 DEF Commit, HoldsClaim, Mine, IInv, ClaimIsNewest
  <2>3. queue' = [queue EXCEPT ![e] = x] /\ issued' = issued
    BY <1>5 DEF Commit
  <2>4. x.status = "imported" /\ x.attempts = queue[e].attempts /\ x.receipt = issued[e]
    BY <2>1, <2>2 DEF ClearClaim, Entry
  <2> HIDE DEF x, e
  <2>5. Bar' = [Bar EXCEPT ![e] = View(x, issued[e])]
    BY <2>1, <2>3, OneView
  <2>6. Bar' = [Bar EXCEPT ![e].phase = "done", ![e].winner = Bar[e].grants]
    BY <2>1, <2>4, <2>5 DEF View, PhaseOf
  <2>7. Bar[e].phase = "held"
    BY <2>1 DEF View, PhaseOf
  <2>8. Promise!Win
    BY <2>1, <2>6, <2>7 DEF Promise!Win, View
  <2>9. QED
    BY <2>8 DEF Promise!Next
<1>6. ASSUME NEW w \in Workers, Release(w)
      PROVE  Promise!Next
  <2> DEFINE e == work[w].entry
             x == GiveBack(queue[e], work[w].max)
  <2>1. e \in Entries /\ queue[e] \in Entry /\ queue[e].status = "claimed"
    BY <1>6, MaxRange DEF Release, HoldsClaim, Working, IInv, TypeOK
  <2>2. queue' = [queue EXCEPT ![e] = x] /\ issued' = issued
    BY <1>6 DEF Release
  <2>3. View(x, issued[e]) = Promise!Returned(Bar[e])
    BY <2>1, GiveBackReturns, MaxRange
  <2> HIDE DEF x, e
  <2>4. Bar' = Promise!ReturnAll({e})
    <3>1. Bar' = [Bar EXCEPT ![e] = Promise!Returned(Bar[e])]
      BY <2>1, <2>2, <2>3, OneView
    <3>2. Promise!ReturnAll({e}) =
            [f \in Entries |-> IF f = e THEN Promise!Returned(Bar[f]) ELSE Bar[f]]
      BY DEF Promise!ReturnAll, View
    <3>3. QED
      BY <3>1, <3>2
  <2>5. Promise!Held({e})
    BY <2>1 DEF Promise!Held, PhaseOf
  <2>6. Promise!Return
    BY <2>1, <2>4, <2>5 DEF Promise!Return, View
  <2>7. QED
    BY <2>6 DEF Promise!Next
<1>7. ASSUME NEW e \in Entries, Skip(e)
      PROVE  Promise!Next
  <2> DEFINE x == [queue[e] EXCEPT !.status = "skipped"]
  <2>1. queue' = [queue EXCEPT ![e] = x] /\ issued' = issued
    BY <1>7 DEF Skip
  <2>2. x.status = "skipped" /\ x.attempts = queue[e].attempts /\ x.receipt = queue[e].receipt
    BY DEF IInv, TypeOK, Entry
  <2> HIDE DEF x
  <2>3. Bar' = [Bar EXCEPT ![e].phase = "withdrawn"]
    <3>1. Bar' = [Bar EXCEPT ![e] = View(x, issued[e])]
      BY <2>1, OneView
    <3>2. View(x, issued[e]) = [Bar[e] EXCEPT !.phase = "withdrawn"]
      BY <2>2 DEF View, PhaseOf
    <3>3. QED
      BY <3>1, <3>2
  <2>4. Promise!Withdraw
    BY <2>3 DEF Promise!Withdraw, View
  <2>5. QED
    BY <2>4 DEF Promise!Next
<1>8. QED
  BY <1>1, <1>2, <1>3, <1>4, <1>5, <1>6, <1>7, QueueStep

\* The queue of run_parallel keeps the promise of ExportClaims when every
\* command is given the same --max-retries: workers, leases, tokens, crashes
\* and restarts can be forgotten by whoever reads the queue.
THEOREM PromiseHolds ==
  ASSUME OneLimitGiven
  PROVE  Spec => PromiseKept
<1>1. Init => Promise!Init
  BY DEF Init, Promise!Init, PhaseOf
<1>2. IInv /\ [Next]_vars => [Promise!Next]_Bar
  BY StepsArePromised
<1>3. QED
  BY <1>1, <1>2, Invariance, PTL DEF Spec, PromiseKept, Promise!Spec, Bar, View
=============================================================================
