------------------------ MODULE ExportQueueLockProofs ------------------------
(***************************************************************************)
(* When queue_file_lock does protect the queue, for any number of          *)
(* operations and any timeouts: if no holder is killed or leaves its lock  *)
(* file behind, none outlasts the stale age, and the commands of the older *)
(* assistant stay away.  The run ExportQueueLock_break shows that the      *)
(* first is needed.                                                        *)
(***************************************************************************)
EXTENDS ExportQueueLock, TLAPS

Careful == Prompt /\ MaxCrashes = 0 /\ Assistants = {}

\* The lock file belongs to the one live process that holds the lock, and it
\* is never old enough for anybody to break it.
LockIsHolders ==
  /\ \A p \in Procs : Holding(p) => lock # Free /\ lock.by = p
  /\ lock # Free => lock.by \in Lockers /\ Holding(lock.by) /\ lock.age < Stale
  /\ \A p \in Procs : pc[p] # "break"

\* The copy of the queue that a holder is about to change is up to date.
ReadIsFresh == \A p \in Procs : pc[p] = "save" => read[p] = file

\* What was saved is still there.
SavedIsKept == \A p \in Procs : pc[p] \in {"unlock", "saved"} => p \in file

LInv == TypeOK /\ LockIsHolders /\ ReadIsFresh /\ SavedIsKept /\ crashes = 0

THEOREM InitLInv == Init => LInv
BY LockAssumption
   DEF Init, LInv, TypeOK, LockIsHolders, ReadIsFresh, SavedIsKept, Holding, Positions

LEMMA GotoResult ==
  ASSUME TypeOK, NEW p \in Procs, NEW x \in Positions, Goto(p, x)
  PROVE  /\ pc' \in [Procs -> Positions] /\ pc'[p] = x
         /\ \A q \in Procs : q # p => pc'[q] = pc[q]
BY DEF TypeOK, Goto

\* Waiting for the lock, when nobody ever finds it stale.
LEMMA WaitPreserves ==
  ASSUME Careful, LInv, NEW p \in Procs,
         Begin(p) \/ Contend(p) \/ StatGone(p) \/ StatYoung(p) \/ CallFails(p)
  PROVE  LInv'
<1>1. PICK x \in {"create", "stat", "raised", "load"} :
        Goto(p, x) /\ (x = "load" => p \notin Lockers) /\ x \in Positions
  BY DEF Begin, Contend, StatGone, StatYoung, CallFails, TryAgain, Positions
<1>2. UNCHANGED <<lock, file, waited, read, crashes>> /\ pc[p] \in {"idle", "create", "stat"}
  BY DEF Begin, Contend, StatGone, StatYoung, CallFails, LInv, LockIsHolders
<1>3. /\ pc' \in [Procs -> Positions] /\ pc'[p] = x
      /\ \A q \in Procs : q # p => pc'[q] = pc[q]
  BY <1>1, GotoResult DEF LInv
<1>4. TypeOK'
  BY <1>2, <1>3 DEF LInv, TypeOK
<1>5. LockIsHolders'
  BY <1>1, <1>2, <1>3 DEF LInv, LockIsHolders, Holding, Procs
<1>6. ReadIsFresh' /\ SavedIsKept'
  BY <1>1, <1>2, <1>3 DEF LInv, ReadIsFresh, SavedIsKept
<1>7. QED
  BY <1>2, <1>4, <1>5, <1>6 DEF LInv

LEMMA CreatePreserves ==
  ASSUME Careful, LInv, NEW p \in Procs, Create(p)
  PROVE  LInv'
<1>1. lock = Free /\ lock' = [by |-> p, age |-> 0] /\ UNCHANGED <<file, waited, read, crashes>>
  BY DEF Create
<1>2. /\ pc' \in [Procs -> Positions] /\ pc'[p] = "load"
      /\ \A q \in Procs : q # p => pc'[q] = pc[q]
  BY GotoResult DEF LInv, Create, Positions
<1>3. lock' \in [by : Procs, age : 0..Stale] /\ lock' # Free /\ lock'.by = p /\ lock'.age = 0
  BY <1>1, LockAssumption
<1>4. p \in Lockers
  BY DEF Careful, Procs
<1>5. TypeOK'
  BY <1>1, <1>2, <1>3 DEF LInv, TypeOK
<1>6. LockIsHolders'
  <2>1. \A q \in Procs : q # p => ~Holding(q)' /\ pc'[q] # "break"
    BY <1>1, <1>2 DEF LInv, LockIsHolders, Holding
  <2>2. Holding(p)' /\ pc'[p] # "break"
    BY <1>2, <1>4 DEF Holding
  <2>3. lock'.age < Stale
    BY <1>3, LockAssumption
  <2>4. QED
    BY <1>3, <1>4, <2>1, <2>2, <2>3 DEF LockIsHolders
<1>7. ReadIsFresh' /\ SavedIsKept'
  BY <1>1, <1>2 DEF LInv, ReadIsFresh, SavedIsKept
<1>8. QED
  BY <1>1, <1>5, <1>6, <1>7 DEF LInv

LEMMA LoadPreserves ==
  ASSUME Careful, LInv, NEW p \in Procs, Load(p)
  PROVE  LInv'
<1>1. pc[p] = "load" /\ read' = [read EXCEPT ![p] = file] /\ UNCHANGED <<lock, file, waited, crashes>>
  BY DEF Load
<1>2. /\ pc' \in [Procs -> Positions] /\ pc'[p] = "save"
      /\ \A q \in Procs : q # p => pc'[q] = pc[q]
  BY GotoResult DEF LInv, Load, Positions
<1>3. TypeOK'
  BY <1>1, <1>2 DEF LInv, TypeOK
<1>4. LockIsHolders'
  <2>1. \A q \in Procs : Holding(q)' = Holding(q) /\ pc'[q] # "break"
    BY <1>1, <1>2 DEF LInv, LockIsHolders, Holding
  <2>2. Lockers \subseteq Procs
    BY DEF Procs
  <2>3. QED
    BY <1>1, <2>1, <2>2 DEF LInv, LockIsHolders
<1>5. ReadIsFresh' /\ SavedIsKept'
  BY <1>1, <1>2 DEF LInv, TypeOK, ReadIsFresh, SavedIsKept
<1>6. QED
  BY <1>1, <1>3, <1>4, <1>5 DEF LInv

\* The holder saves the newest copy of the queue, with its own change.
LEMMA SavePreserves ==
  ASSUME Careful, LInv, NEW p \in Procs, Save(p)
  PROVE  LInv'
<1>1. p \in Lockers
  BY DEF Careful, Procs
<1>2. pc[p] = "save" /\ file' = read[p] \cup {p} /\ UNCHANGED <<lock, waited, read, crashes>>
  BY DEF Save
<1>3. file' = file \cup {p}
  BY <1>2 DEF LInv, ReadIsFresh
<1>4. /\ pc' \in [Procs -> Positions] /\ pc'[p] = "unlock"
      /\ \A q \in Procs : q # p => pc'[q] = pc[q]
  BY <1>1, GotoResult DEF LInv, Save, Positions
<1>5. \A q \in Procs : q # p => pc[q] # "save"
  <2>1. \A q \in Procs : pc[q] = "save" => Holding(q)
    BY DEF Careful, Procs, Holding
  <2>2. QED
    BY <1>2, <2>1 DEF LInv, LockIsHolders
<1>6. TypeOK'
  BY <1>2, <1>3, <1>4 DEF LInv, TypeOK
<1>7. LockIsHolders'
  BY <1>1, <1>2, <1>4 DEF LInv, LockIsHolders, Holding
<1>8. ReadIsFresh' /\ SavedIsKept'
  BY <1>3, <1>4, <1>5 DEF LInv, ReadIsFresh, SavedIsKept
<1>9. QED
  BY <1>2, <1>6, <1>7, <1>8 DEF LInv

\* Giving up the lock, with or without a change.
LEMMA UnlockPreserves ==
  ASSUME Careful, LInv, NEW p \in Procs, Unlock(p) \/ Abandon(p)
  PROVE  LInv'
<1>1. p \in Lockers
  BY DEF Careful, Procs
<1>2. PICK x \in {"saved", "done"} : Goto(p, x) /\ (x = "saved" => pc[p] = "unlock") /\ x \in Positions
  BY DEF Unlock, Abandon, Goto, Positions
<1>3. lock' = Free /\ UNCHANGED <<file, waited, read, crashes>> /\ Holding(p)
  BY <1>1 DEF Unlock, Abandon, Holding
<1>4. /\ pc' \in [Procs -> Positions] /\ pc'[p] = x
      /\ \A q \in Procs : q # p => pc'[q] = pc[q]
  BY <1>2, GotoResult DEF LInv
<1>5. TypeOK'
  BY <1>3, <1>4 DEF LInv, TypeOK
<1>6. \A q \in Procs : q # p => ~Holding(q)
  BY <1>3 DEF LInv, LockIsHolders
<1>7. LockIsHolders'
  BY <1>2, <1>3, <1>4, <1>6 DEF LInv, LockIsHolders, Holding
<1>8. ReadIsFresh' /\ SavedIsKept'
  BY <1>2, <1>3, <1>4 DEF LInv, ReadIsFresh, SavedIsKept
<1>9. QED
  BY <1>3, <1>5, <1>7, <1>8 DEF LInv

LEMMA TickPreserves ==
  ASSUME Careful, LInv, Tick
  PROVE  LInv'
<1>1. UNCHANGED <<file, pc, read, crashes>>
  BY DEF Tick
<1>2. waited' \in [Procs -> 0..Timeout]
  BY LockAssumption DEF Tick, LInv, TypeOK, Older
<1>3. CASE lock = Free
  <2>1. lock' = Free
    BY <1>3 DEF Tick
  <2>2. QED
    BY <1>1, <1>2, <1>3, <2>1
       DEF LInv, TypeOK, LockIsHolders, ReadIsFresh, SavedIsKept, Holding
<1>4. CASE lock # Free
  <2>1. lock \in [by : Procs, age : 0..Stale] /\ lock.by \in Lockers /\ Holding(lock.by)
    BY <1>4 DEF LInv, TypeOK, LockIsHolders
  <2>2. lock.age + 1 < Stale
    BY <1>4, <2>1 DEF Tick, Careful, Procs
  <2>3. lock' = [lock EXCEPT !.age = lock.age + 1]
    BY <1>4, <2>1, <2>2, LockAssumption DEF Tick, Older
  <2>4. /\ lock' \in [by : Procs, age : 0..Stale]
        /\ lock'.by = lock.by /\ lock'.age < Stale
    BY <2>1, <2>2, <2>3, LockAssumption
  <2>5. lock' # Free
    BY <2>4, LockAssumption
  <2>6. TypeOK'
    BY <1>1, <1>2, <2>4 DEF LInv, TypeOK
  <2>7. LockIsHolders'
    BY <1>1, <1>4, <2>1, <2>4, <2>5 DEF LInv, LockIsHolders, Holding
  <2>8. QED
    BY <1>1, <2>6, <2>7 DEF LInv, ReadIsFresh, SavedIsKept
<1>5. QED
  BY <1>3, <1>4

THEOREM NextLInv == Careful /\ LInv /\ [Next]_vars => LInv'
<1> SUFFICES ASSUME Careful, LInv, [Next]_vars PROVE LInv'
  OBVIOUS
<1>1. ASSUME NEW p \in Procs,
             Begin(p) \/ Contend(p) \/ StatGone(p) \/ StatYoung(p) \/ CallFails(p)
      PROVE  LInv'
  BY <1>1, WaitPreserves
<1>2. ASSUME NEW p \in Procs, Create(p)
      PROVE  LInv'
  BY <1>2, CreatePreserves
<1>3. ASSUME NEW p \in Procs, StatStale(p) \/ Break(p)
      PROVE  LInv'
  BY <1>3, LockAssumption DEF StatStale, Break, LInv, LockIsHolders, TypeOK
<1>4. ASSUME NEW p \in Procs, Load(p)
      PROVE  LInv'
  BY <1>4, LoadPreserves
<1>5. ASSUME NEW p \in Procs, Save(p)
      PROVE  LInv'
  BY <1>5, SavePreserves
<1>6. ASSUME NEW p \in Procs, Unlock(p) \/ Abandon(p)
      PROVE  LInv'
  BY <1>6, UnlockPreserves
<1>7. ASSUME NEW p \in Procs, Strand(p) \/ Crash(p)
      PROVE  LInv'
  BY <1>7 DEF Strand, Crash, Careful, LInv
<1>8. CASE Tick
  BY <1>8, TickPreserves
<1>9. CASE UNCHANGED vars
  BY <1>9 DEF vars, LInv, TypeOK, LockIsHolders, ReadIsFresh, SavedIsKept, Holding
<1>10. QED
  BY <1>1, <1>2, <1>3, <1>4, <1>5, <1>6, <1>7, <1>8, <1>9 DEF Next, Step, Acquire, Update

\* Under that care, two locked operations never overlap between load and save.
THEOREM LockExcludes == Careful /\ Spec => []MutualExclusion
<1>1. LInv => MutualExclusion
  <2> SUFFICES ASSUME LInv, NEW p \in Lockers, NEW q \in Lockers,
                      pc[p] \in {"load", "save"}, pc[q] \in {"load", "save"}
               PROVE  p = q
    BY DEF MutualExclusion
  <2>1. Holding(p) /\ Holding(q) /\ p \in Procs /\ q \in Procs
    BY DEF Holding, Procs
  <2>2. QED
    BY <2>1 DEF LInv, LockIsHolders
<1>2. Careful /\ Spec => []LInv
  <2>1. Careful => []Careful
    BY DEF Careful
  <2>2. QED
    BY <2>1, InitLInv, NextLInv, PTL DEF Spec
<1>3. QED
  BY <1>1, <1>2, PTL

\* Under that care, no change of the queue that was saved is ever lost.
THEOREM NothingLost == Careful /\ Spec => []NoLostUpdate
<1>1. LInv => NoLostUpdate
  BY DEF LInv, SavedIsKept, NoLostUpdate
<1>2. Careful /\ Spec => []LInv
  <2>1. Careful => []Careful
    BY DEF Careful
  <2>2. QED
    BY <2>1, InitLInv, NextLInv, PTL DEF Spec
<1>3. QED
  BY <1>1, <1>2, PTL
=============================================================================
