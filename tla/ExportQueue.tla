----------------------------- MODULE ExportQueue -----------------------------
(***************************************************************************)
(* The queue of Chronicle exports and the parallel workers that drain it   *)
(* (o2o_dps/chronicle_parallel_export.py).  Every operation on             *)
(* export_queue.json is one action here: the file lock that makes it so,   *)
(* and when it fails to, is the subject of ExportQueueLock.                *)
(*                                                                         *)
(* Entries are numbered in queue order.  A token is the ordinal of the     *)
(* claim among the claims of its entry, which is as unique as the uuid4 of *)
(* the code.  A lease is the number of ticks it still has to run.          *)
(***************************************************************************)
EXTENDS Integers, FiniteSets

CONSTANTS
  NumEntries,   \* length of the queue
  Workers,      \* worker identifiers ("worker-01", ...)
  NoWorker,     \* no claim_worker field
  NoEntry,      \* the worker works on no entry
  Lease,        \* --lease-seconds, in ticks
  RetryLimits,  \* values that --max-retries is given, on any command line
  WorkerLimit,  \* --worker-limit; 0 stands for no limit
  Adopted,      \* --adopt-instance, per worker; NoEntry for none
  Unresolved,   \* entries queued by slug, whose UUID is not known yet
  Skippable,    \* bound: entries the operator may skip
  Retried,      \* bound: whether the operator uses retry-failed
  MaxUpsets,    \* bound: crashes, failed queue accesses and uses of retry-failed
  MaxRuns       \* bound: workers started again

Entries  == 1..NumEntries
Statuses == {"pending", "claimed", "imported", "failed", "skipped"}
Working  == {"waiting", "committing", "releasing"}

ASSUME QueueAssumption ==
  /\ NumEntries \in Nat \ {0}
  /\ NoWorker \notin Workers
  /\ NoEntry \notin Entries
  /\ Lease \in Nat \ {0}
  /\ RetryLimits # {} /\ RetryLimits \subseteq Nat \ {0}
  /\ WorkerLimit \in Nat
  /\ Adopted \in [Workers -> Entries \cup {NoEntry}]
  /\ Unresolved \subseteq Entries /\ Skippable \subseteq Entries
  /\ Retried \in BOOLEAN /\ {MaxUpsets, MaxRuns} \subseteq Nat

VARIABLES
  queue,    \* the entries of export_queue.json
  issued,   \* claims ever made on each entry: the newest token
  stored,   \* <<entry, token>>: CSV imported under that claim
  work,     \* what each worker process holds in memory
  budget    \* what is left of the bounds

vars == <<queue, issued, stored, work, budget>>

Entry == [status : Statuses, worker : Workers \cup {NoWorker}, token : Nat,
          ttl : 0..Lease, attempts : Nat, resolved : BOOLEAN, receipt : Nat]
Work  == [pc : {"adopting", "claiming", "exited", "dead"} \cup Working,
          entry : Entries \cup {NoEntry}, token : Nat, resolved : BOOLEAN,
          done : SUBSET Entries, max : RetryLimits]

Idle(w, max) ==
  [pc |-> IF Adopted[w] = NoEntry THEN "claiming" ELSE "adopting",
   entry |-> NoEntry, token |-> 0, resolved |-> FALSE, done |-> {}, max |-> max]

Init ==
  /\ queue = [e \in Entries |->
       [status |-> "pending", worker |-> NoWorker, token |-> 0, ttl |-> 0,
        attempts |-> 0, resolved |-> e \notin Unresolved, receipt |-> 0]]
  /\ issued = [e \in Entries |-> 0]
  /\ stored = {}
  /\ \E max \in [Workers -> RetryLimits] : work = [w \in Workers |-> Idle(w, max[w])]
  /\ budget = [upsets |-> MaxUpsets, runs |-> MaxRuns]

-----------------------------------------------------------------------------
(* Entries.                                                                *)

ClearClaim(entry) == [entry EXCEPT !.worker = NoWorker, !.token = 0, !.ttl = 0]

\* Mutant: one attempt too many.
GiveBackLate(entry, max) ==
  [ClearClaim(entry) EXCEPT !.status = IF entry.attempts > max THEN "failed" ELSE "pending"]

\* What an unsuccessful attempt makes of its entry.
GiveBack(entry, max) ==
  [ClearClaim(entry) EXCEPT !.status = IF entry.attempts >= max THEN "failed" ELSE "pending"]

\* Mutant: a lease counts as expired one tick early.
ExpiredEarly(entry) == entry.status = "claimed" /\ entry.ttl <= 1

Expired(entry) == entry.status = "claimed" /\ entry.ttl = 0

RecoverExpired(q, max) ==
  [e \in Entries |-> IF Expired(q[e]) THEN GiveBack(q[e], max) ELSE q[e]]

Claimed(entry, w, token) ==
  [entry EXCEPT !.status = "claimed", !.worker = w, !.token = token,
                !.ttl = Lease, !.attempts = @ + 1]

FirstPending(q, e) ==
  q[e].status = "pending" /\ \A f \in Entries : f < e => q[f].status # "pending"

\* The worker's detached copy of the entry still names an entry of the queue.
Found(w) == queue[work[w].entry].resolved = work[w].resolved

Mine(w) ==
  /\ queue[work[w].entry].worker = w
  /\ queue[work[w].entry].token = work[w].token

-----------------------------------------------------------------------------
(* The loop of run_worker.                                                 *)

Become(w, pc) == work' = [work EXCEPT ![w].pc = pc]

\* The worker lets go of its entry: at the top of the loop, or as it ends.
LetGo(w, pc, done) ==
  work' = [work EXCEPT ![w] =
    [@ EXCEPT !.pc = pc, !.entry = NoEntry, !.token = 0,
              !.resolved = FALSE, !.done = done]]

NextRound(w, done) == LetGo(w, "claiming", done)
Stop(w, pc) == LetGo(w, pc, work[w].done)

LimitReached(w) == WorkerLimit > 0 /\ Cardinality(work[w].done) >= WorkerLimit

\* Mutant: the token of the previous claim is used again.
TakeSameToken(w, q, e) ==
  LET token == IF issued[e] = 0 THEN 1 ELSE issued[e] IN
  /\ queue' = [q EXCEPT ![e] = Claimed(@, w, token)]
  /\ issued' = [issued EXCEPT ![e] = token]
  /\ work' = [work EXCEPT ![w] =
       [@ EXCEPT !.pc = "waiting", !.entry = e, !.token = token,
                 !.resolved = q[e].resolved]]
  /\ UNCHANGED <<stored, budget>>

Take(w, q, e) ==
  /\ queue' = [q EXCEPT ![e] = Claimed(@, w, issued[e] + 1)]
  /\ issued' = [issued EXCEPT ![e] = @ + 1]
  /\ work' = [work EXCEPT ![w] =
       [@ EXCEPT !.pc = "waiting", !.entry = e, !.token = issued[e] + 1,
                 !.resolved = q[e].resolved]]
  /\ UNCHANGED <<stored, budget>>

ClaimNext(w) ==
  /\ work[w].pc = "claiming" /\ ~LimitReached(w)
  /\ LET q == RecoverExpired(queue, work[w].max)
     IN  \E e \in Entries : FirstPending(q, e) /\ Take(w, q, e)

NothingToClaim(w) ==
  /\ work[w].pc = "claiming" /\ ~LimitReached(w)
  /\ queue' = RecoverExpired(queue, work[w].max)
  /\ \A e \in Entries : queue'[e].status # "pending"
  /\ Stop(w, "exited")
  /\ UNCHANGED <<issued, stored, budget>>

StopAtLimit(w) ==
  /\ work[w].pc = "claiming" /\ LimitReached(w)
  /\ Stop(w, "exited")
  /\ UNCHANGED <<queue, issued, stored, budget>>

\* The instance named on the command line is the one the queue had at first.
AdoptFound(w) == queue[Adopted[w]].resolved = (Adopted[w] \notin Unresolved)

\* args.adopt_instance and not adopted
Adopting(w) == work[w].pc = "adopting" /\ Adopted[w] # NoEntry

ClaimInstance(w) ==
  /\ Adopting(w)
  /\ LET q == RecoverExpired(queue, work[w].max)
     IN  /\ AdoptFound(w) /\ q[Adopted[w]].status = "pending"
         /\ Take(w, q, Adopted[w])

\* claim_instance raises before it saves, and nothing catches it.
CannotAdopt(w) ==
  /\ Adopting(w)
  /\ ~ /\ AdoptFound(w)
       /\ RecoverExpired(queue, work[w].max)[Adopted[w]].status = "pending"
  /\ Stop(w, "dead")
  /\ UNCHANGED <<queue, issued, stored, budget>>

HoldsClaim(w) == Found(w) /\ queue[work[w].entry].status = "claimed" /\ Mine(w)

\* Mutant: a renewal extends the old deadline instead of starting from now.
RenewAdds(w) ==
  /\ work[w].pc = "waiting" /\ HoldsClaim(w)
  /\ queue' = [queue EXCEPT ![work[w].entry].ttl = @ + Lease]
  /\ UNCHANGED <<issued, stored, work, budget>>

Renew(w) ==
  /\ work[w].pc = "waiting" /\ HoldsClaim(w)
  /\ queue' = [queue EXCEPT ![work[w].entry].ttl = Lease]
  /\ UNCHANGED <<issued, stored, work, budget>>

RenewalRefused(w) ==
  /\ work[w].pc = "waiting" /\ ~HoldsClaim(w)
  /\ Become(w, "releasing")
  /\ UNCHANGED <<queue, issued, stored, budget>>

\* The UI process failed, the wait timed out, or the file system did.
WaitFails(w) ==
  /\ work[w].pc = "waiting"
  /\ Become(w, "releasing")
  /\ UNCHANGED <<queue, issued, stored, budget>>

\* A stable new CSV passed the importer: its copies are on disk from here on.
ImportCsv(w) ==
  /\ work[w].pc = "waiting"
  /\ stored' = stored \cup {<<work[w].entry, work[w].token>>}
  /\ Become(w, "committing")
  /\ UNCHANGED <<queue, issued, budget>>

\* Mutant: the commit looks at the status alone.
CommitUnchecked(w) ==
  LET e == work[w].entry IN
  /\ work[w].pc = "committing" /\ Found(w) /\ queue[e].status = "claimed"
  /\ queue' = [queue EXCEPT ![e] =
       [ClearClaim(@) EXCEPT !.status = "imported", !.receipt = work[w].token]]
  /\ NextRound(w, work[w].done \cup {e})
  /\ UNCHANGED <<issued, stored, budget>>

Commit(w) ==
  LET e == work[w].entry IN
  /\ work[w].pc = "committing" /\ HoldsClaim(w)
  /\ queue' = [queue EXCEPT ![e] =
       [ClearClaim(@) EXCEPT !.status = "imported", !.receipt = work[w].token]]
  /\ NextRound(w, work[w].done \cup {e})
  /\ UNCHANGED <<issued, stored, budget>>

\* commit_import returns silently when the entry is already imported.
CommitAlreadyImported(w) ==
  /\ work[w].pc = "committing" /\ Found(w)
  /\ queue[work[w].entry].status = "imported"
  /\ NextRound(w, work[w].done \cup {work[w].entry})
  /\ UNCHANGED <<queue, issued, stored, budget>>

\* Mutant: the import is reported although the commit was refused.
CommitRefusedCounted(w) ==
  /\ work[w].pc = "committing" /\ ~HoldsClaim(w)
  /\ ~(Found(w) /\ queue[work[w].entry].status = "imported")
  /\ NextRound(w, work[w].done \cup {work[w].entry})
  /\ UNCHANGED <<queue, issued, stored, budget>>

CommitRefused(w) ==
  /\ work[w].pc = "committing" /\ ~HoldsClaim(w)
  /\ ~(Found(w) /\ queue[work[w].entry].status = "imported")
  /\ Become(w, "releasing")
  /\ UNCHANGED <<queue, issued, stored, budget>>

\* Mutant: the released entry is not saved.
ReleaseForgets(w) ==
  /\ work[w].pc = "releasing" /\ HoldsClaim(w)
  /\ NextRound(w, work[w].done)
  /\ UNCHANGED <<queue, issued, stored, budget>>

Release(w) ==
  /\ work[w].pc = "releasing" /\ HoldsClaim(w)
  /\ queue' = [queue EXCEPT ![work[w].entry] = GiveBack(@, work[w].max)]
  /\ NextRound(w, work[w].done)
  /\ UNCHANGED <<issued, stored, budget>>

ReleaseNotClaimed(w) ==
  /\ work[w].pc = "releasing" /\ Found(w)
  /\ queue[work[w].entry].status # "claimed"
  /\ NextRound(w, work[w].done)
  /\ UNCHANGED <<queue, issued, stored, budget>>

\* release_claim raises inside the handler: the worker process ends.
ReleaseRefused(w) ==
  /\ work[w].pc = "releasing"
  /\ Found(w) => queue[work[w].entry].status = "claimed" /\ ~Mine(w)
  /\ Stop(w, "dead")
  /\ UNCHANGED <<queue, issued, stored, budget>>

\* queue_file_lock times out, or save_queue cannot replace the file: the
\* operation raises and leaves the queue alone.
QueueUnavailable(w) ==
  /\ work[w].pc \notin {"exited", "dead"}
  /\ budget.upsets > 0
  /\ budget' = [budget EXCEPT !.upsets = @ - 1]
  /\ IF work[w].pc \in {"waiting", "committing"}
       THEN Become(w, "releasing") ELSE Stop(w, "dead")
  /\ UNCHANGED <<queue, issued, stored>>

\* The process is killed, or the operator interrupts run_parallel.
Crash(w) ==
  /\ work[w].pc \notin {"exited", "dead"}
  /\ budget.upsets > 0
  /\ budget' = [budget EXCEPT !.upsets = @ - 1]
  /\ Stop(w, "dead")
  /\ UNCHANGED <<queue, issued, stored>>

-----------------------------------------------------------------------------
(* The operator and the clock.                                             *)

\* "run" again under the same worker id, perhaps with another limit.
Restart(w) ==
  /\ work[w].pc \in {"exited", "dead"}
  /\ budget.runs > 0
  /\ budget' = [budget EXCEPT !.runs = @ - 1]
  /\ \E max \in RetryLimits : work' = [work EXCEPT ![w] = Idle(w, max)]
  /\ UNCHANGED <<queue, issued, stored>>

\* Mutant: what the status command recovers is not saved.
PrintStatusUnsaved == UNCHANGED vars

PrintStatus ==
  /\ \E max \in RetryLimits : queue' = RecoverExpired(queue, max)
  /\ UNCHANGED <<issued, stored, work, budget>>

\* Mutant: the attempts made before the reset still count.
ResetKeepsAttempts ==
  /\ Retried /\ budget.upsets > 0
  /\ \E e \in Entries : queue[e].status = "failed"
  /\ queue' = [e \in Entries |->
       IF queue[e].status = "failed"
       THEN [ClearClaim(queue[e]) EXCEPT !.status = "pending"] ELSE queue[e]]
  /\ budget' = [budget EXCEPT !.upsets = @ - 1]
  /\ UNCHANGED <<issued, stored, work>>

ResetFailed ==
  /\ Retried /\ budget.upsets > 0
  /\ \E e \in Entries : queue[e].status = "failed"
  /\ queue' = [e \in Entries |->
       IF queue[e].status = "failed"
       THEN [ClearClaim(queue[e]) EXCEPT !.status = "pending", !.attempts = 0]
       ELSE queue[e]]
  /\ budget' = [budget EXCEPT !.upsets = @ - 1]
  /\ UNCHANGED <<issued, stored, work>>

\* The "skip" command of the assistant, whatever the status; the fields of a
\* claim stay behind.
Skip(e) ==
  /\ queue' = [queue EXCEPT ![e].status = "skipped"]
  /\ UNCHANGED <<issued, stored, work, budget>>

\* A discovery matches the slug of an entry and gives it its UUID as
\* instance_id; status and claim are protected or not among the new fields.
Discover(e) ==
  /\ queue' = [queue EXCEPT ![e].resolved = TRUE]
  /\ UNCHANGED <<issued, stored, work, budget>>

Tick ==
  /\ \E e \in Entries : queue[e].ttl > 0
  /\ queue' = [e \in Entries |->
       IF queue[e].ttl > 0 THEN [queue[e] EXCEPT !.ttl = @ - 1] ELSE queue[e]]
  /\ UNCHANGED <<issued, stored, work, budget>>

-----------------------------------------------------------------------------
Claiming(w)  == ClaimNext(w) \/ NothingToClaim(w) \/ StopAtLimit(w)
                  \/ ClaimInstance(w) \/ CannotAdopt(w)
Finishing(w) == RenewalRefused(w) \/ WaitFails(w) \/ ImportCsv(w)
Committing(w) == Commit(w) \/ CommitAlreadyImported(w) \/ CommitRefused(w)
Releasing(w) == Release(w) \/ ReleaseNotClaimed(w) \/ ReleaseRefused(w)

Progress(w) == Claiming(w) \/ Finishing(w) \/ Committing(w) \/ Releasing(w)
WorkerStep(w) == Progress(w) \/ Renew(w) \/ QueueUnavailable(w) \/ Crash(w)

Operator ==
  \/ PrintStatus
  \/ ResetFailed
  \/ \E w \in Workers : Restart(w)
  \/ \E e \in Skippable : Skip(e)
  \/ \E e \in Unresolved : Discover(e)

Next == (\E w \in Workers : WorkerStep(w)) \/ Operator \/ Tick

Spec == Init /\ [][Next]_vars

\* A live process is scheduled, its wait ends at the deadline at the latest,
\* and time passes.  Nothing makes the operator act.
Fairness == (\A w \in Workers : WF_vars(Progress(w))) /\ WF_vars(Tick)

FairSpec == Spec /\ Fairness

-----------------------------------------------------------------------------
(* Properties.                                                             *)

TypeOK ==
  /\ queue \in [Entries -> Entry]
  /\ issued \in [Entries -> Nat]
  /\ stored \subseteq Entries \X Nat
  /\ work \in [Workers -> Work]
  /\ budget \in [upsets : Nat, runs : Nat]

\* Of several workers that all believe they export the same entry, at most
\* one still holds its claim, and the claim in the queue is the newest one
\* made on the entry ("The import commit checks worker and token").
HeldByNewest ==
  \A e \in Entries : queue[e].status = "claimed" =>
    /\ queue[e].token = issued[e]
    /\ \A w, v \in Workers :
         /\ work[w].entry = e /\ work[w].token = queue[e].token
         /\ work[v].entry = e /\ work[v].token = queue[e].token
         => w = v /\ queue[e].worker = w

\* The receipt of an imported entry is that of the newest claim made on it,
\* and the files it speaks of are on disk: no stale worker, whose lease ran
\* out during a long import, ever commits over a newer claim.
ReceiptOfNewestClaim ==
  \A e \in Entries : queue[e].status = "imported" =>
    queue[e].receipt = issued[e] /\ <<e, queue[e].receipt>> \in stored

\* What a worker reports as imported has a receipt in the queue, although
\* commit_import returns silently when another worker was first.
ReportedImported ==
  \A w \in Workers : \A e \in work[w].done : queue[e].receipt > 0

\* --max-retries is the total number of attempts: whatever limits the commands
\* are given, no entry is tried more often than the largest allows, is offered
\* again only below one of them and given up only at one of them, whatever
\* crashes, expiries, renewals and resets happen in between.
AttemptsWithinLimit ==
  \A e \in Entries : \E max \in RetryLimits :
    /\ queue[e].attempts <= max
    /\ queue[e].status = "pending" => queue[e].attempts < max
    /\ queue[e].status = "failed" => \E limit \in RetryLimits : queue[e].attempts >= limit

\* While its lease runs, a claim is ended by the worker that holds it, when
\* it commits or releases, or by the operator's skip, and by nobody else.
LiveClaimEndsByHolder ==
  [][\A e \in Entries :
       queue[e].status = "claimed" /\ queue[e].ttl > 0 =>
         \/ queue'[e].status = "claimed" /\ queue'[e].token = queue[e].token
         \/ queue'[e].status = "skipped"
         \/ \E w \in Workers :
              /\ work[w].entry = e /\ work[w].token = queue[e].token
              /\ work[w].pc \in {"committing", "releasing"}
              /\ work'[w].pc = "claiming"]_vars

\* The queue keeps the promise of ExportClaims, when every command is given
\* the same --max-retries: recovery, claim, renewal, release, commit, reset and
\* skip, in any interleaving and with any crash, are moves of that machine.
PhaseOf(status) ==
  CASE status = "pending" -> "open" [] status = "claimed" -> "held"
    [] status = "imported" -> "done" [] status = "failed" -> "shut"
    [] status = "skipped" -> "withdrawn"

Promise == INSTANCE ExportClaims WITH
  Limit <- CHOOSE max \in RetryLimits : TRUE,
  claim <- [e \in Entries |->
    [phase |-> PhaseOf(queue[e].status), tries |-> queue[e].attempts,
     grants |-> issued[e], winner |-> queue[e].receipt]]

PromiseKept == Promise!Spec

\* Unless something upsets them, the workers settle the whole queue: none of them
\* leaves an entry behind that nobody comes back for, although each exits as soon
\* as it finds nothing pending (with no worker limit, and nobody told to adopt).
\* What upsets them: a crash, a queue that cannot be reached, failed entries put
\* back after the workers have gone, and a discovery that gives an entry its UUID
\* while a worker holds it.  That worker no longer finds its entry, renewal and
\* release are refused, it dies, and its claim is left behind when the others have
\* exited already.
Overtaken(w) == work[w].entry # NoEntry /\ ~Found(w)
Undisturbed == budget.upsets = MaxUpsets /\ \A w \in Workers : ~Overtaken(w)

Settled(e) == queue[e].status \in {"imported", "failed", "skipped"}
AllSettled == []Undisturbed => <>[](\A e \in Entries : Settled(e))

\* A claim never lasts for ever: "after a worker exits abnormally, an expired
\* claim automatically returns to pending, or to failed after the last attempt".
ClaimsEnd ==
  \A e \in Entries : queue[e].status = "claimed" ~> queue[e].status # "claimed"

\* The same with an operator who asks for the status again and again.
WatchedClaimsEnd == WF_vars(PrintStatus) => ClaimsEnd
=============================================================================
