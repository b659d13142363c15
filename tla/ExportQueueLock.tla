--------------------------- MODULE ExportQueueLock ---------------------------
(***************************************************************************)
(* queue_file_lock of o2o_dps/chronicle_parallel_export.py at the grain of *)
(* its file-system calls, around one load, change and save of the export   *)
(* queue per process.  ExportQueue takes these for one atomic step; this   *)
(* module shows when they are.  The commands of the older assistant        *)
(* (discover, import-manifest, skip, collect) load, change and save the    *)
(* same file without the lock.                                             *)
(***************************************************************************)
EXTENDS Integers, FiniteSets

CONSTANTS
  Lockers,      \* operations of the parallel exporter
  Assistants,   \* commands of the older assistant
  Free,         \* there is no lock file
  Timeout,      \* LOCK_TIMEOUT_SECONDS, in ticks
  Stale,        \* LOCK_STALE_SECONDS, in ticks
  Prompt,       \* no live holder keeps the lock until it looks stale
  MaxCrashes    \* bound: processes killed, and locks left behind

Procs == Lockers \cup Assistants

ASSUME LockAssumption ==
  /\ Lockers \cap Assistants = {}
  /\ Timeout \in Nat /\ Stale \in Nat \ {0} /\ MaxCrashes \in Nat
  /\ Prompt \in BOOLEAN
  /\ Free \notin [by : Procs, age : 0..Stale]

VARIABLES
  lock,     \* export_queue.json.lock: who created it (nobody reads that) and its age
  file,     \* export_queue.json: the operations whose change it holds
  pc,       \* where each process is
  waited,   \* time each process has spent in queue_file_lock
  read,     \* what each process loaded
  crashes

vars == <<lock, file, pc, waited, read, crashes>>

Positions == {"idle", "create", "stat", "break", "load", "save", "unlock",
              "saved", "done", "raised", "dead"}

Init ==
  /\ lock = Free /\ file = {} /\ crashes = 0
  /\ pc = [p \in Procs |-> "idle"]
  /\ waited = [p \in Procs |-> 0]
  /\ read = [p \in Procs |-> {}]

Goto(p, position) == pc' = [pc EXCEPT ![p] = position]

Begin(p) ==
  /\ pc[p] = "idle"
  /\ Goto(p, IF p \in Lockers THEN "create" ELSE "load")
  /\ UNCHANGED <<lock, file, waited, read, crashes>>

\* os.open with O_CREAT | O_EXCL.
Create(p) ==
  /\ pc[p] = "create" /\ lock = Free
  /\ lock' = [by |-> p, age |-> 0]
  /\ Goto(p, "load")
  /\ UNCHANGED <<file, waited, read, crashes>>

\* The file is there, or Windows refuses to create it: a PermissionError counts
\* as contention, with or without a lock file.
Contend(p) ==
  /\ pc[p] = "create"
  /\ Goto(p, "stat")
  /\ UNCHANGED <<lock, file, waited, read, crashes>>

Refused(p) == lock = Free /\ Contend(p)

\* What waits for the lock tries again until its deadline.
TryAgain(p) == Goto(p, IF waited[p] >= Timeout THEN "raised" ELSE "create")

\* Any other error of os.open, stat or unlink: what looks transient is tried
\* again, the rest is raised.
CallFails(p) ==
  /\ pc[p] \in {"create", "stat", "break"}
  /\ Goto(p, "raised") \/ (pc[p] # "create" /\ TryAgain(p))
  /\ UNCHANGED <<lock, file, waited, read, crashes>>

\* lock_path.stat(): the lock is gone, too young to break, or stale.  When it is
\* gone the loop goes back at once, without sleep or deadline.
StatGone(p) ==
  /\ pc[p] = "stat" /\ lock = Free
  /\ Goto(p, "create")
  /\ UNCHANGED <<lock, file, waited, read, crashes>>

StatYoung(p) ==
  /\ pc[p] = "stat" /\ lock # Free /\ lock.age < Stale
  /\ TryAgain(p)
  /\ UNCHANGED <<lock, file, waited, read, crashes>>

StatStale(p) ==
  /\ pc[p] = "stat" /\ lock # Free /\ lock.age >= Stale
  /\ Goto(p, "break")
  /\ UNCHANGED <<lock, file, waited, read, crashes>>

\* Mutant: an unlink that fails is taken for one that succeeded.
BreakNothing(p) ==
  /\ pc[p] = "break"
  /\ Goto(p, "create")
  /\ UNCHANGED <<lock, file, waited, read, crashes>>

\* Removes the file of that name, be it still the one whose age was read.
Break(p) ==
  /\ pc[p] = "break"
  /\ lock' = Free
  /\ Goto(p, "create")
  /\ UNCHANGED <<file, waited, read, crashes>>

\* Mutant: the queue was loaded before the lock was taken.
LoadEarlier(p) ==
  /\ pc[p] = "load"
  /\ Goto(p, "save")
  /\ UNCHANGED <<lock, file, waited, read, crashes>>

Load(p) ==
  /\ pc[p] = "load"
  /\ read' = [read EXCEPT ![p] = file]
  /\ Goto(p, "save")
  /\ UNCHANGED <<lock, file, waited, crashes>>

Save(p) ==
  /\ pc[p] = "save"
  /\ file' = read[p] \cup {p}
  /\ Goto(p, IF p \in Lockers THEN "unlock" ELSE "saved")
  /\ UNCHANGED <<lock, waited, read, crashes>>

\* The operation changes nothing, raises, or cannot save.
Abandon(p) ==
  /\ pc[p] = "save"
  /\ pc' = [pc EXCEPT ![p] = "done"]
  /\ lock' = IF p \in Lockers THEN Free ELSE lock
  /\ UNCHANGED <<file, waited, read, crashes>>

\* The finally clause removes the file of that name, whoever made it.
Unlock(p) ==
  /\ pc[p] = "unlock"
  /\ lock' = Free
  /\ Goto(p, "saved")
  /\ UNCHANGED <<file, waited, read, crashes>>

Running(p) == pc[p] \notin {"idle", "saved", "done", "raised", "dead"}

Holding(p) == pc[p] \in {"load", "save", "unlock"} /\ p \in Lockers

\* The operation raises and leaves its lock file: the payload could not be
\* written, or the last unlink went on failing.
Strand(p) ==
  /\ crashes < MaxCrashes
  /\ crashes' = crashes + 1
  /\ \/ pc[p] = "create" /\ lock = Free /\ lock' = [by |-> p, age |-> 0] /\ Goto(p, "raised")
     \/ pc[p] = "save" /\ Holding(p) /\ UNCHANGED lock /\ Goto(p, "raised")
     \/ pc[p] = "unlock" /\ UNCHANGED lock /\ Goto(p, "saved")
  /\ UNCHANGED <<file, waited, read>>

Crash(p) ==
  /\ Running(p) /\ crashes < MaxCrashes
  /\ Goto(p, "dead")
  /\ crashes' = crashes + 1
  /\ UNCHANGED <<lock, file, waited, read>>

\* Ages saturate where nothing distinguishes them any more.
Older(age, limit) == IF age < limit THEN age + 1 ELSE age

Tick ==
  /\ Prompt /\ (\E p \in Procs : Holding(p)) /\ lock # Free => lock.age + 1 < Stale
  /\ lock' = IF lock = Free THEN Free ELSE [lock EXCEPT !.age = Older(@, Stale)]
  /\ waited' = [p \in Procs |-> IF pc[p] \in {"create", "stat", "break"}
                                THEN Older(waited[p], Timeout) ELSE waited[p]]
  /\ UNCHANGED <<file, pc, read, crashes>>

Acquire(p) == Create(p) \/ Contend(p) \/ StatGone(p) \/ StatYoung(p) \/ StatStale(p)
                \/ Break(p) \/ CallFails(p)
Update(p)  == Load(p) \/ Save(p) \/ Abandon(p) \/ Unlock(p)
Step(p)    == Acquire(p) \/ Update(p)

Next == (\E p \in Procs : Begin(p) \/ Step(p) \/ Strand(p) \/ Crash(p)) \/ Tick

Spec == Init /\ [][Next]_vars

\* The operating system schedules every live process, and time passes.
FairSpec == Spec /\ (\A p \in Procs : WF_vars(Step(p))) /\ WF_vars(Tick)

-----------------------------------------------------------------------------
(* Properties.                                                             *)

TypeOK ==
  /\ lock \in {Free} \cup [by : Procs, age : 0..Stale]
  /\ file \subseteq Procs
  /\ pc \in [Procs -> Positions]
  /\ waited \in [Procs -> 0..Timeout]
  /\ read \in [Procs -> SUBSET Procs]
  /\ crashes \in Nat

\* At most one locked operation is between its load and its save.
MutualExclusion ==
  \A p, q \in Lockers :
    pc[p] \in {"load", "save"} /\ pc[q] \in {"load", "save"} => p = q

\* What an operation has saved is never overwritten from an older copy of the
\* queue: "Serialize queue read-modify-write operations across processes".
NoLostUpdate == \A p \in Procs : pc[p] = "saved" => p \in file

\* A call of queue_file_lock returns or raises, although the loop goes back
\* without looking at its deadline when the lock is gone or was stale.  It does
\* so unless Windows refuses it the lock file again and again while there is
\* none: then the call stays in the loop, far beyond its timeout, and for as
\* long as the directory refuses.
EveryCallEnds ==
  \A p \in Procs : <>[][~Refused(p)]_vars => (Running(p) ~> ~Running(p))
=============================================================================
