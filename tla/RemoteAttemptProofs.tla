------------------------- MODULE RemoteAttemptProofs -------------------------
(***************************************************************************)
(* Proofs about RemoteAttempt, for any commands, nodes, arms and faults,   *)
(* and then about ConfirmationJobs, which implements it, for any groups,   *)
(* costs, pools and losses of workers as well.                             *)
(***************************************************************************)
EXTENDS ConfirmationJobs, FiniteSetTheorems, WellFoundedInduction, TLAPS

PCs == {"idle", "reserve", "incoming", "install", "verify", "probe", "probeNodes",
        "launch", "receipt"}

Process == [pc : PCs, action : Actions, seen : SUBSET Early, todo : SUBSET Units,
            bad : BOOLEAN]

-----------------------------------------------------------------------------
(* What moves a command process.                                           *)

\* The other processes stay as they are.
Only(o) == \A p \in Operators : p # o => op'[p] = op[p]

LEMMA IdleIsProcess == Idle \in Process
BY DEF Idle, Process, PCs, Actions

\* Actions are launched for units, and every unit has a place for its markers.
LEMMA UnitsOfActions ==
  ASSUME NEW action \in Actions \ {"stage"}
  PROVE  UnitsOf(action) \subseteq Units
BY DEF UnitsOf, Units, Actions

LEMMA GotoResult ==
  ASSUME TypeOK, NEW o \in Operators, NEW pc \in PCs, Goto(o, pc)
  PROVE  /\ op' \in [Operators -> Process] /\ Only(o)
         /\ op'[o].pc = pc /\ op'[o].action = op[o].action /\ op'[o].seen = op[o].seen
         /\ op'[o].todo = op[o].todo /\ op'[o].bad = op[o].bad
BY DEF Goto, Only, TypeOK, Process, PCs

LEMMA FailResult ==
  ASSUME TypeOK, NEW o \in Operators, Fail(o)
  PROVE  /\ op' \in [Operators -> Process] /\ Only(o)
         /\ op'[o].pc = "receipt" /\ op'[o].action = op[o].action /\ op'[o].seen = op[o].seen
         /\ op'[o].todo = op[o].todo /\ op'[o].bad = TRUE
BY DEF Fail, Only, TypeOK, Process, PCs

LEMMA FinishResult ==
  ASSUME TypeOK, NEW o \in Operators, Finish(o)
  PROVE  op' \in [Operators -> Process] /\ Only(o) /\ op'[o] = Idle
BY IdleIsProcess DEF Finish, Only, TypeOK, Process, PCs

LEMMA BeginResult ==
  ASSUME TypeOK, NEW o \in Operators, NEW action \in Actions, Begin(o, action)
  PROVE  /\ op' \in [Operators -> Process] /\ Only(o)
         /\ op'[o].pc = IF action = "stage" THEN "reserve" ELSE "probe"
         /\ op'[o].action = action /\ op'[o].seen = {} /\ op'[o].todo = {}
         /\ op'[o].bad = FALSE
<1> DEFINE x == [Idle EXCEPT !.pc = IF action = "stage" THEN "reserve" ELSE "probe",
                             !.action = action]
<1>1. op' = [op EXCEPT ![o] = x] /\ op \in [Operators -> Process]
  BY DEF Begin, TypeOK, Process, PCs
<1>2. /\ x \in Process
      /\ x.pc = IF action = "stage" THEN "reserve" ELSE "probe"
      /\ x.action = action /\ x.seen = {} /\ x.todo = {} /\ x.bad = FALSE
  BY DEF Idle, Process, PCs, Actions
<1> HIDE DEF x
<1>3. QED
  BY <1>1, <1>2 DEF Only

LEMMA ProbeResult ==
  ASSUME TypeOK, NEW o \in Operators, ProbePhases(o)
  PROVE  /\ op' \in [Operators -> Process] /\ Only(o)
         /\ op'[o].pc = "probeNodes" /\ op'[o].action = op[o].action
         /\ op'[o].seen = marks \cap Early
         /\ op'[o].todo = op[o].todo /\ op'[o].bad = op[o].bad
BY DEF ProbePhases, Only, TypeOK, Process, PCs

LEMMA LaunchDoneResult ==
  ASSUME TypeOK, NEW o \in Operators, NEW u \in Units, NEW bad \in BOOLEAN,
         LaunchDone(o, u, bad)
  PROVE  /\ op' \in [Operators -> Process] /\ Only(o)
         /\ op'[o].pc = op[o].pc /\ op'[o].action = op[o].action
         /\ op'[o].seen = op[o].seen /\ op'[o].todo = op[o].todo \ {u}
         /\ op'[o].bad = (op[o].bad \/ bad)
BY DEF LaunchDone, Only, TypeOK, Process, PCs

-----------------------------------------------------------------------------
(* The inductive invariant.                                                *)

\* A supervisor is launched at most once because its launch lock stays, and
\* the attempt is installed at most once because it stays.
Locked ==
  /\ \A u \in Units : starts[u] = IF Has(marks, u, "lock") THEN 1 ELSE 0
  /\ starts["stage"] = IF Has(marks, "stage", "prepared") THEN 1 ELSE 0

\* What must hold when a launch of the unit is sent, and holds ever after.
Cleared(u) ==
  /\ local["stage"] = "ok"
  /\ u \in Nodes => SmokeComplete(marks)
  /\ u = "reduce" => FullComplete(marks)

\* What a process does follows from its action and from what it has seen.
ProcessFits(o) ==
  /\ op[o].pc \in {"idle", "reserve", "incoming", "install", "verify"} => op[o].action = "stage"
  /\ op[o].pc \in {"probe", "probeNodes", "launch"} => op[o].action # "stage"
  /\ op[o].action # "stage" => local["stage"] = "ok"
  /\ \/ op[o].pc = "verify"
     \/ op[o].pc = "receipt" /\ op[o].action = "stage" /\ ~op[o].bad
     => Has(marks, "stage", "prepared")
  /\ \A m \in op[o].seen : m = <<"stage", "reserved">> \/ m \in marks
  /\ op[o].todo # {} => op[o].pc = "launch"
  /\ \A u \in op[o].todo : u \in UnitsOf(op[o].action) /\ Cleared(u)
  /\ op[o].pc \in {"launch", "receipt"} /\ op[o].action # "stage" /\ ~op[o].bad =>
       \A u \in UnitsOf(op[o].action) : u \in op[o].todo \/ starts[u] = 1

ProcessesFit == \A o \in Operators : ProcessFits(o)

\* Every unit that is started, or whose launch may yet arrive, was cleared.
UnitsCleared == \A u \in Units : starts[u] > 0 \/ u \in inflight => Cleared(u)

StageVerified == local["stage"] = "ok" => Has(marks, "stage", "prepared")

\* As long as no command was killed, somebody answers for every node that was
\* started or may yet be: a command, or the receipt of one.
Launching(o) == op[o].action = "full-launch" /\ op[o].pc \in {"launch", "receipt"}

Answered == local["full-launch"] # "none" \/ \E o \in Operators : Launching(o)

NodesAnswered ==
  /\ faults["command"] <= MaxFaults["command"]
  /\ /\ faults["command"] = MaxFaults["command"]
     /\ \E n \in Nodes : starts[n] > 0 \/ n \in inflight
     => Answered

IInv ==
  /\ TypeOK /\ Locked /\ ProcessesFit /\ UnitsCleared /\ StageVerified
  /\ ReceiptMeansStarted /\ NodesAnswered

THEOREM InitIInv == Init => IInv
<1> SUFFICES ASSUME Init PROVE IInv
  OBVIOUS
<1>1. TypeOK
  BY AttemptAssumption, IdleIsProcess DEF Init, TypeOK, Process, PCs
<1>2. \A o \in Operators : ProcessFits(o)
  BY DEF Init, Idle, ProcessFits
<1>3. Locked /\ UnitsCleared
  BY DEF Init, Locked, UnitsCleared, Has
<1>4. StageVerified /\ ReceiptMeansStarted
  BY DEF Init, StageVerified, ReceiptMeansStarted, Actions
<1>5. NodesAnswered
  BY AttemptAssumption DEF Init, NodesAnswered, Units
<1>6. QED
  BY <1>1, <1>2, <1>3, <1>4, <1>5 DEF IInv, ProcessesFit

-----------------------------------------------------------------------------
(* What a step does to the shared disk and to the receipts.                *)

\* A marker other than those that decide about installing and launching.
Notes ==
  /\ starts' = starts
  /\ \E m \in Markers :
       /\ m # <<"stage", "prepared">> /\ \A u \in Units : m # <<u, "lock">>
       /\ marks' = marks \cup {m}

DiskStep ==
  \/ UNCHANGED <<marks, starts>>
  \/ Notes
  \/ Installed
  \/ \E u \in Units : Starts(u)

\* No step does anything else to the disk.
LEMMA NextDisk ==
  ASSUME IInv, [Next]_vars
  PROVE  DiskStep
<1>1. ASSUME NEW kind \in Kinds \ {"lock", "prepared"},
             NEW s \in Units \cup {"stage", "full", "analysis"},
             marks' = marks \cup {<<s, kind>>}, starts' = starts
      PROVE  Notes
  BY <1>1 DEF Notes, Markers
<1>2. ASSUME NEW u \in Units, NEW a \in Arms, NEW kind \in {"complete", "failed"},
             marks' = marks \cup {<<u, a, kind>>}, starts' = starts
      PROVE  Notes
  BY <1>2 DEF Notes, Markers
<1>3. ASSUME NEW o \in Operators, NEW action \in Actions,
             Begin(o, action) \/ Reserve(o) \/ ProbePhases(o) \/ ProbeNodes(o)
               \/ ProbeFails(o) \/ WriteOnce(o) \/ Crash(o)
      PROVE  DiskStep
  BY <1>3 DEF DiskStep, Begin, Reserve, ProbePhases, ProbeNodes, ProbeFails, WriteOnce, Crash
<1>4. ASSUME NEW o \in Operators, Incoming(o)
      PROVE  DiskStep
  BY <1>1, <1>4 DEF DiskStep, Incoming, Kinds
<1>5. ASSUME NEW o \in Operators, Install(o)
      PROVE  DiskStep
  BY <1>5 DEF DiskStep, Install
<1>6. ASSUME NEW o \in Operators, Verify(o)
      PROVE  DiskStep
  BY <1>1, <1>6 DEF DiskStep, Verify, Kinds
<1>7. ASSUME NEW o \in Operators, NEW u \in Units, Launch(o, u) \/ LaunchFails(o, u)
      PROVE  DiskStep
  BY <1>7 DEF DiskStep, Launch, LaunchFails
<1>8. ASSUME NEW o \in Operators, Launched(o)
      PROVE  DiskStep
  <2>1. op[o].action \in Actions \ {"stage"}
    BY <1>8 DEF Launched, At, IInv, TypeOK, ProcessesFit, ProcessFits
  <2>2. StateOf(op[o].action) \in Units \cup {"stage", "full", "analysis"}
    BY <2>1 DEF StateOf, Actions, Units
  <2>3. QED
    BY <1>1, <1>8, <2>2 DEF Launched, DiskStep, Kinds
<1>9. ASSUME NEW u \in Units, SupervisorStep(u)
      PROVE  DiskStep
  <2>1. CASE EnvironmentFails(u)
    BY <1>1, <2>1 DEF EnvironmentFails, Put, DiskStep, Kinds
  <2>2. CASE SupervisorEnds(u)
    <3>1. PICK kind \in {"complete", "failed"} : Put(<<u, kind>>)
      BY <2>2 DEF SupervisorEnds
    <3>2. QED
      BY <1>1, <2>2, <3>1 DEF SupervisorEnds, Put, DiskStep, Kinds
  <2>3. CASE \E a \in Arms : JobEnds(u, a)
    BY <1>2, <2>3 DEF JobEnds, Put, DiskStep
  <2>4. QED
    BY <1>9, <2>1, <2>2, <2>3 DEF SupervisorStep
<1>10. ASSUME NEW u \in Units, NodeDies(u) \/ LateLaunch(u)
      PROVE  DiskStep
  BY <1>10 DEF NodeDies, LateLaunch, DiskStep
<1>11. CASE LateInstall
  BY <1>11 DEF LateInstall, DiskStep
<1>12. CASE ReduceStep
  BY <1>1, <1>12 DEF ReduceStep, ReduceWrites, ReduceEnds, Put, DiskStep, Kinds, Units
<1>13. CASE UNCHANGED vars
  BY <1>13 DEF vars, DiskStep
<1>14. QED
  BY <1>3, <1>4, <1>5, <1>6, <1>7, <1>8, <1>9, <1>10, <1>11, <1>12, <1>13
     DEF Next, CommandStep, Actions

\* A receipt is written once.
LEMMA NextLocal ==
  ASSUME [Next]_vars
  PROVE  local' = local \/ \E o \in Operators : WriteOnce(o)
BY DEF Next, vars, CommandStep, SupervisorStep, ReduceStep, Begin, Reserve, Incoming, Install,
   Verify, ProbePhases, ProbeNodes, ProbeFails, Launch, LaunchFails, Launched, Crash,
   EnvironmentFails, SupervisorEnds, JobEnds, NodeDies, LateLaunch, LateInstall,
   ReduceWrites, ReduceEnds

-----------------------------------------------------------------------------
(* What never goes back.                                                   *)

Grows ==
  /\ \A m \in marks : m = <<"stage", "reserved">> \/ m \in marks'
  /\ \A u \in Units \cup {"stage"} : starts[u] > 0 => starts'[u] = 1
  /\ \A a \in Actions : local[a] # "none" => local'[a] = local[a]

\* A step keeps the start locks true to the starts.
LEMMA NextLocked ==
  ASSUME IInv, DiskStep
  PROVE  Locked'
<1> USE DEF Has
<1>1. marks \subseteq Markers /\ starts \in [Units \cup {"stage"} -> Nat] /\ "stage" \notin Units
  BY AttemptAssumption DEF IInv, TypeOK, Units
<1>2. CASE UNCHANGED <<marks, starts>>
  BY <1>2 DEF IInv, Locked
<1>3. CASE Notes
  BY <1>3 DEF IInv, Locked, Notes
<1>4. CASE Installed
  BY <1>1, <1>4 DEF IInv, Locked, Installed
<1>5. ASSUME NEW u \in Units, Starts(u)
      PROVE  Locked'
  BY <1>1, <1>5 DEF IInv, Locked, Starts
<1>6. QED
  BY <1>2, <1>3, <1>4, <1>5 DEF DiskStep

LEMMA NextGrows ==
  ASSUME IInv, [Next]_vars
  PROVE  Grows
<1>1. DiskStep /\ Locked'
  BY NextDisk, NextLocked
<1>2. ASSUME NEW m \in marks
      PROVE  m = <<"stage", "reserved">> \/ m \in marks'
  BY <1>1 DEF DiskStep, Notes, Installed, Starts
<1>3. ASSUME NEW u \in Units \cup {"stage"}, starts[u] > 0
      PROVE  starts'[u] = 1
  <2>1. CASE u = "stage"
    <3>1. <<"stage", "prepared">> \in marks
      BY <1>3, <2>1 DEF IInv, Locked, Has
    <3>2. <<"stage", "prepared">> \in marks'
      BY <1>2, <3>1
    <3>3. QED
      BY <1>1, <2>1, <3>2 DEF Locked, Has
  <2>2. CASE u \in Units
    <3>1. <<u, "lock">> \in marks
      BY <1>3, <2>2 DEF IInv, Locked, Has
    <3>2. <<u, "lock">> \in marks'
      BY <1>2, <3>1
    <3>3. QED
      BY <1>1, <2>2, <3>2 DEF Locked, Has
  <2>3. QED
    BY <2>1, <2>2
<1>4. ASSUME NEW a \in Actions, local[a] # "none"
      PROVE  local'[a] = local[a]
  BY <1>4, NextLocal DEF WriteOnce, IInv, TypeOK
<1>5. QED
  BY <1>2, <1>3, <1>4 DEF Grows

LEMMA GateStays ==
  ASSUME Grows
  PROVE  /\ SmokeComplete(marks) => SmokeComplete(marks)'
         /\ FullComplete(marks) => FullComplete(marks)'
         /\ Has(marks, "stage", "prepared") => Has(marks, "stage", "prepared")'
<1>1. ASSUME NEW u \in {"smoke"} \cup Nodes, NEW kind, <<u, kind>> \in marks
      PROVE  <<u, kind>> \in marks'
  BY <1>1, AttemptAssumption DEF Grows
<1>2. ASSUME NEW u, NEW a, NEW kind, <<u, a, kind>> \in marks
      PROVE  <<u, a, kind>> \in marks'
  BY <1>2 DEF Grows
<1>3. Has(marks, "stage", "prepared") => Has(marks, "stage", "prepared")'
  BY DEF Grows, Has
<1>4. QED
  BY <1>1, <1>2, <1>3 DEF SmokeComplete, FullComplete, Has

\* A unit that was cleared stays so.
LEMMA ClearedStays ==
  ASSUME Grows, NEW u, Cleared(u)
  PROVE  Cleared(u)'
<1>1. local'["stage"] = "ok"
  BY DEF Grows, Cleared, Actions
<1>2. QED
  BY <1>1, GateStays DEF Cleared

\* A process that does not move goes on to fit.
LEMMA ProcessStays ==
  ASSUME IInv, Grows, NEW o \in Operators, op'[o] = op[o]
  PROVE  ProcessFits(o)'
<1>1. ProcessFits(o) /\ op[o] \in Process
  BY DEF IInv, ProcessesFit, TypeOK, Process, PCs
<1>2. local["stage"] = "ok" => local'["stage"] = "ok"
  BY DEF Grows, Actions
<1>3. \A u \in op[o].todo : Cleared(u)'
  BY <1>1, ClearedStays DEF ProcessFits
<1>4. \A u \in Units : starts[u] = 1 => starts'[u] = 1
  BY DEF Grows
<1>5. op[o].action # "stage" => UnitsOf(op[o].action) \subseteq Units
  BY <1>1, UnitsOfActions DEF Process
<1>6. \A m \in op[o].seen : m = <<"stage", "reserved">> \/ m \in marks'
  BY <1>1 DEF ProcessFits, Grows
<1>7. Has(marks, "stage", "prepared") => Has(marks', "stage", "prepared")
  BY GateStays DEF Has
<1>8. QED
  BY <1>1, <1>2, <1>3, <1>4, <1>5, <1>6, <1>7 DEF ProcessFits

-----------------------------------------------------------------------------
(* The processes.                                                          *)

\* What the status says about the gates.
LEMMA PhaseTells ==
  ASSUME NEW m, NEW action \in Actions \ {"stage"}, Phase(m, FALSE) = Required(action)
  PROVE  /\ action = "full-launch" => SmokeComplete(m)
         /\ action = "reduce-launch" => FullComplete(m)
BY DEF Phase, Required, Actions

\* What is seen of markers that stay is still there when the units are launched.
LEMMA ProbeNodesResult ==
  ASSUME IInv, NEW o \in Operators, ProbeNodes(o)
  PROVE  \/ Finish(o)
         \/ /\ op' \in [Operators -> Process] /\ Only(o)
            /\ op'[o].pc = "launch" /\ op'[o].action = op[o].action /\ op'[o].seen = {}
            /\ op'[o].todo = UnitsOf(op[o].action)
            /\ \A u \in UnitsOf(op[o].action) : Cleared(u)
<1> DEFINE m == op[o].seen \cup (marks \ Early)
           a == op[o].action
<1>1. /\ a \in Actions \ {"stage"} /\ local["stage"] = "ok"
      /\ op \in [Operators -> Process] /\ At(o, "probeNodes")
  BY DEF ProbeNodes, At, IInv, TypeOK, ProcessesFit, ProcessFits, Process, PCs
<1>2. \A x \in m : x = <<"stage", "reserved">> \/ x \in marks
  BY DEF IInv, ProcessesFit, ProcessFits
<1> HIDE DEF m, a
<1>3. SmokeComplete(m) => SmokeComplete(marks)
  BY <1>2 DEF SmokeComplete, Has
<1>4. FullComplete(m) => FullComplete(marks)
  BY <1>2, AttemptAssumption DEF FullComplete, Has
<1>5. CASE Has(m, "stage", "prepared") /\ Phase(m, FALSE) = Required(a)
  <2>1. op' = [op EXCEPT ![o].pc = "launch", ![o].seen = {}, ![o].todo = UnitsOf(a)]
    BY <1>5 DEF ProbeNodes, m, a
  <2>2. UnitsOf(a) \in SUBSET Units
    BY <1>1, UnitsOfActions
  <2>3. /\ op' \in [Operators -> Process] /\ Only(o)
        /\ op'[o].pc = "launch" /\ op'[o].action = a /\ op'[o].seen = {}
        /\ op'[o].todo = UnitsOf(a)
    BY <1>1, <2>1, <2>2 DEF Process, PCs, Only, a
  <2>4. ASSUME NEW u \in UnitsOf(a)
        PROVE  Cleared(u)
    <3>1. (a = "full-launch" => SmokeComplete(marks)) /\ (a = "reduce-launch" => FullComplete(marks))
      BY <1>1, <1>3, <1>4, <1>5, PhaseTells
    <3>2. (u \in Nodes => a = "full-launch") /\ (u = "reduce" => a = "reduce-launch")
      BY <1>1, AttemptAssumption DEF UnitsOf, Actions
    <3>3. QED
      BY <1>1, <3>1, <3>2 DEF Cleared
  <2>5. QED
    BY <2>3, <2>4 DEF a
<1>6. CASE ~(Has(m, "stage", "prepared") /\ Phase(m, FALSE) = Required(a))
  BY <1>6 DEF ProbeNodes, m, a
<1>7. QED
  BY <1>5, <1>6

\* Every step of a process leaves it fit.
Moves(o) == op' \in [Operators -> Process] /\ Only(o) /\ ProcessFits(o)'

LEMMA StopMoves ==
  ASSUME IInv, NEW o \in Operators, Finish(o)
  PROVE  Moves(o)
BY FinishResult DEF IInv, Moves, Idle, ProcessFits

LEMMA StageMoves ==
  ASSUME IInv, Grows, NEW o \in Operators,
         Reserve(o) \/ Incoming(o) \/ Install(o) \/ Verify(o)
  PROVE  Moves(o)
<1>1. /\ op[o].action = "stage" /\ op[o].todo = {}
      /\ \A m \in op[o].seen : m = <<"stage", "reserved">> \/ m \in marks'
  BY DEF Reserve, Incoming, Install, Verify, At, IInv, ProcessesFit, ProcessFits, Grows
<1>2. CASE Fail(o)
  BY <1>1, <1>2, FailResult DEF IInv, Moves, ProcessFits
<1>3. ASSUME NEW pc \in {"incoming", "install"}, Goto(o, pc)
      PROVE  Moves(o)
  BY <1>1, <1>3, GotoResult DEF IInv, Moves, ProcessFits, PCs
<1>4. ASSUME NEW pc \in {"verify", "receipt"}, Goto(o, pc), Has(marks', "stage", "prepared")
      PROVE  Moves(o)
  BY <1>1, <1>4, GotoResult DEF IInv, Moves, ProcessFits, PCs, Has
<1>5. CASE Reserve(o)
  BY <1>2, <1>3, <1>5 DEF Reserve
<1>6. CASE Incoming(o)
  BY <1>2, <1>3, <1>6 DEF Incoming
<1>7. CASE Install(o)
  BY <1>2, <1>4, <1>7 DEF Install, Installed, Has
<1>8. CASE Verify(o)
  <2>1. Has(marks', "stage", "prepared")
    BY <1>8, GateStays DEF Verify, At, IInv, ProcessesFit, ProcessFits, Has
  <2>2. QED
    BY <1>2, <1>4, <1>8, <2>1 DEF Verify
<1>9. QED
  BY <1>5, <1>6, <1>7, <1>8

LEMMA LaunchMoves ==
  ASSUME IInv, Grows, NEW o \in Operators, NEW u \in Units, Launch(o, u) \/ LaunchFails(o, u)
  PROVE  Moves(o)
<1>1. PICK bad \in BOOLEAN : LaunchDone(o, u, bad) /\ (~bad => Starts(u))
  BY DEF Launch, LaunchFails
<1>2. /\ op' \in [Operators -> Process] /\ Only(o)
      /\ op'[o].pc = op[o].pc /\ op'[o].action = op[o].action
      /\ op'[o].seen = op[o].seen /\ op'[o].todo = op[o].todo \ {u}
      /\ op'[o].bad = (op[o].bad \/ bad)
  BY <1>1, LaunchDoneResult DEF IInv
<1>3. ProcessFits(o) /\ op[o].pc = "launch" /\ op[o] \in Process
  BY DEF IInv, ProcessesFit, Launch, LaunchFails, At, TypeOK, Process, PCs
<1>4. local["stage"] = "ok" /\ local'["stage"] = "ok" /\ op[o].action # "stage"
  BY <1>3 DEF ProcessFits, Grows, Actions
<1>5. \A v \in op[o].todo : v \in UnitsOf(op[o].action) /\ Cleared(v)'
  BY <1>3, ClearedStays DEF ProcessFits
<1>6. ASSUME ~op'[o].bad, NEW v \in UnitsOf(op[o].action)
      PROVE  v \in op'[o].todo \/ starts'[v] = 1
  <2>1. ~op[o].bad /\ ~bad
    BY <1>2, <1>6
  <2>2. v \in op[o].todo \/ starts[v] = 1
    BY <1>3, <1>4, <1>6, <2>1 DEF ProcessFits
  <2>3. v \in Units
    BY <1>3, <1>4, UnitsOfActions DEF Process
  <2>4. starts[v] = 1 => starts'[v] = 1
    BY <2>3 DEF Grows
  <2>5. starts'[u] = 1
    BY <1>1, <2>1 DEF Starts, IInv, TypeOK, Locked
  <2>6. QED
    BY <1>2, <2>2, <2>4, <2>5
<1>7. \A m \in op[o].seen : m = <<"stage", "reserved">> \/ m \in marks'
  BY <1>3 DEF ProcessFits, Grows
<1>8. QED
  BY <1>2, <1>3, <1>4, <1>5, <1>6, <1>7 DEF Moves, ProcessFits

LEMMA BeginMoves ==
  ASSUME IInv, NEW o \in Operators, NEW action \in Actions, Begin(o, action)
  PROVE  Moves(o)
<1>1. /\ op' \in [Operators -> Process] /\ Only(o)
      /\ op'[o].pc = IF action = "stage" THEN "reserve" ELSE "probe"
      /\ op'[o].action = action /\ op'[o].seen = {} /\ op'[o].todo = {}
      /\ op'[o].bad = FALSE
  BY BeginResult DEF IInv
<1>2. (action # "stage" => local["stage"] = "ok") /\ local' = local
  BY DEF Begin
<1>3. QED
  BY <1>1, <1>2 DEF Moves, ProcessFits

LEMMA ProbeMoves ==
  ASSUME IInv, Grows, NEW o \in Operators, ProbePhases(o) \/ ProbeNodes(o)
  PROVE  Moves(o)
<1>1. ProcessFits(o) /\ op[o].action # "stage" /\ op[o].todo = {}
  BY DEF IInv, ProcessesFit, ProcessFits, ProbePhases, ProbeNodes, At
<1>2. UNCHANGED <<marks, local, starts>> /\ local["stage"] = "ok"
  BY <1>1 DEF ProbePhases, ProbeNodes, ProcessFits
<1>3. CASE ProbePhases(o)
  BY <1>1, <1>2, <1>3, ProbeResult DEF IInv, Moves, ProcessFits
<1>4. CASE ProbeNodes(o)
  <2>1. CASE Finish(o)
    BY <2>1, StopMoves
  <2>2. CASE ~Finish(o)
    <3>1. /\ op' \in [Operators -> Process] /\ Only(o)
          /\ op'[o].pc = "launch" /\ op'[o].action = op[o].action /\ op'[o].seen = {}
          /\ op'[o].todo = UnitsOf(op[o].action)
          /\ \A u \in UnitsOf(op[o].action) : Cleared(u)
      BY <1>4, <2>2, ProbeNodesResult
    <3>2. \A u \in UnitsOf(op[o].action) : Cleared(u)'
      BY <3>1, ClearedStays
    <3>3. QED
      BY <1>1, <1>2, <3>1, <3>2 DEF Moves, ProcessFits
  <2>3. QED
    BY <2>1, <2>2
<1>5. QED
  BY <1>3, <1>4

LEMMA LaunchedMoves ==
  ASSUME IInv, Grows, NEW o \in Operators, Launched(o)
  PROVE  Moves(o)
<1>1. /\ op' \in [Operators -> Process] /\ Only(o)
      /\ op'[o].pc = "receipt" /\ op'[o].action = op[o].action /\ op'[o].seen = op[o].seen
      /\ op'[o].todo = op[o].todo /\ op'[o].bad = op[o].bad
  BY GotoResult DEF Launched, IInv, PCs
<1>2. ProcessFits(o) /\ op[o].pc = "launch" /\ op[o].todo = {} /\ UNCHANGED <<local, starts>>
  BY DEF IInv, ProcessesFit, Launched, At
<1>3. \A m \in op[o].seen : m = <<"stage", "reserved">> \/ m \in marks'
  BY <1>2 DEF ProcessFits, Grows
<1>4. QED
  BY <1>1, <1>2, <1>3 DEF Moves, ProcessFits

LEMMA NextProcesses ==
  ASSUME IInv, [Next]_vars
  PROVE  op' \in [Operators -> Process] /\ ProcessesFit'
<1>1. Grows
  BY NextGrows
<1>2. ASSUME NEW o \in Operators, Moves(o)
      PROVE  op' \in [Operators -> Process] /\ ProcessesFit'
  BY <1>1, <1>2, ProcessStays DEF Moves, Only, ProcessesFit
<1>3. CASE op' = op
  BY <1>1, <1>3, ProcessStays DEF IInv, TypeOK, Process, PCs, ProcessesFit
<1>4. ASSUME NEW o \in Operators, CommandStep(o)
      PROVE  Moves(o)
  <2>1. CASE ProbeFails(o) \/ WriteOnce(o)
    BY <2>1, StopMoves DEF ProbeFails, WriteOnce
  <2>2. QED
    BY <1>1, <1>4, <2>1, StageMoves, ProbeMoves, LaunchMoves, LaunchedMoves DEF CommandStep
<1>5. ASSUME NEW o \in Operators, Crash(o)
      PROVE  Moves(o)
  BY <1>5, StopMoves DEF Crash
<1>6. ASSUME NEW o \in Operators, NEW action \in Actions, Begin(o, action)
      PROVE  Moves(o)
  BY <1>6, BeginMoves
<1>7. ASSUME \/ \E u \in Units : SupervisorStep(u) \/ NodeDies(u) \/ LateLaunch(u)
             \/ LateInstall \/ ReduceStep \/ UNCHANGED vars
      PROVE  op' = op
  BY <1>7 DEF SupervisorStep, EnvironmentFails, SupervisorEnds, JobEnds, NodeDies, LateLaunch,
     LateInstall, ReduceStep, ReduceWrites, ReduceEnds, vars
<1>8. QED
  BY <1>2, <1>3, <1>4, <1>5, <1>6, <1>7 DEF Next

-----------------------------------------------------------------------------
(* Supervisors, launches under way and faults.                             *)

\* Only what a command was about to send may still be under way after it.
LEMMA NextRest ==
  ASSUME IInv, [Next]_vars
  PROVE  /\ up' \subseteq Units
         /\ inflight' \subseteq Units \cup {"stage"}
         /\ \A u \in inflight' : u \in inflight \/ u = "stage" \/ \E o \in Operators : u \in op[o].todo
         /\ faults' \in [{"call", "command", "node"} -> Nat]
         /\ faults'["command"] <= faults["command"]
<1> DEFINE Rest ==
      /\ up' \subseteq Units
      /\ inflight' \subseteq Units \cup {"stage"}
      /\ \A u \in inflight' : u \in inflight \/ u = "stage" \/ \E o \in Operators : u \in op[o].todo
      /\ faults' \in [{"call", "command", "node"} -> Nat]
      /\ faults'["command"] <= faults["command"]
<1>1. /\ up \subseteq Units /\ inflight \subseteq Units \cup {"stage"}
      /\ faults \in [{"call", "command", "node"} -> Nat]
      /\ \A o \in Operators : op[o].todo \subseteq Units
  BY DEF IInv, TypeOK
<1>2. ASSUME NEW kind \in {"call", "command", "node"}, Fault(kind)
      PROVE  /\ faults' \in [{"call", "command", "node"} -> Nat]
             /\ faults'["command"] <= faults["command"]
  BY <1>1, <1>2 DEF Fault
<1>3. ASSUME NEW o \in Operators, NEW action \in Actions,
             \/ Begin(o, action) \/ Reserve(o) \/ Incoming(o) \/ Verify(o) \/ ProbePhases(o)
             \/ ProbeNodes(o) \/ ProbeFails(o) \/ Launched(o) \/ WriteOnce(o)
      PROVE  Rest
  <2>1. UNCHANGED <<up, inflight>> /\ (faults' = faults \/ Lost)
    BY <1>3 DEF Begin, Reserve, Incoming, Verify, ProbePhases, ProbeNodes, ProbeFails,
       Launched, WriteOnce
  <2>2. QED
    BY <1>1, <1>2, <2>1 DEF Lost
<1>4. ASSUME NEW o \in Operators, Install(o)
      PROVE  Rest
  <2>1. up' = up /\ (faults' = faults \/ Lost) /\ inflight' \in {inflight, inflight \cup {"stage"}}
    BY <1>4 DEF Install
  <2>2. QED
    BY <1>1, <1>2, <2>1 DEF Lost
<1>5. ASSUME NEW o \in Operators, NEW u \in Units, Launch(o, u) \/ LaunchFails(o, u)
      PROVE  Rest
  <2>1. /\ up' \in {up, up \cup {u}} /\ (faults' = faults \/ Lost)
        /\ u \in op[o].todo /\ inflight' \in {inflight, inflight \cup {u}}
    BY <1>5 DEF Launch, LaunchFails, Starts
  <2>2. QED
    BY <1>1, <1>2, <2>1 DEF Lost
<1>6. ASSUME NEW o \in Operators, Crash(o)
      PROVE  Rest
  <2>1. Sent(o) \subseteq op[o].todo \cup {"stage"}
    BY DEF Sent
  <2>2. up' = up /\ Fault("command") /\ \A u \in inflight' : u \in inflight \/ u \in Sent(o)
    BY <1>6 DEF Crash
  <2>3. QED
    BY <1>1, <1>2, <2>1, <2>2
<1>7. ASSUME NEW u \in Units, SupervisorStep(u) \/ ReduceStep
      PROVE  Rest
  <2>1. UNCHANGED <<inflight, faults>> /\ up' \subseteq up
    BY <1>7 DEF SupervisorStep, EnvironmentFails, SupervisorEnds, JobEnds, ReduceStep,
       ReduceWrites, ReduceEnds, Down
  <2>2. QED
    BY <1>1, <2>1
<1>8. ASSUME NEW u \in Units, NodeDies(u)
      PROVE  Rest
  BY <1>1, <1>2, <1>8 DEF NodeDies, Down
<1>9. ASSUME NEW u \in Units, LateLaunch(u)
      PROVE  Rest
  BY <1>1, <1>9 DEF LateLaunch, Starts
<1>10. CASE LateInstall
  BY <1>1, <1>10 DEF LateInstall
<1>11. CASE UNCHANGED vars
  BY <1>1, <1>11 DEF vars
<1>12. "smoke" \in Units
  BY DEF Units
<1>13. QED
  BY <1>3, <1>4, <1>5, <1>6, <1>7, <1>8, <1>9, <1>10, <1>11, <1>12
     DEF Next, CommandStep, Actions

LEMMA NextType ==
  ASSUME IInv, [Next]_vars
  PROVE  TypeOK'
<1>1. marks' \subseteq Markers /\ starts' \in [Units \cup {"stage"} -> Nat]
  <2>1. DiskStep
    BY NextDisk
  <2>2. marks \subseteq Markers /\ starts \in [Units \cup {"stage"} -> Nat]
    BY DEF IInv, TypeOK
  <2>3. CASE Installed
    BY <2>2, <2>3 DEF Installed, Markers, Kinds
  <2>4. ASSUME NEW u \in Units, Starts(u)
        PROVE  marks' \subseteq Markers /\ starts' \in [Units \cup {"stage"} -> Nat]
    BY <2>2, <2>4 DEF Starts, Markers, Kinds
  <2>5. QED
    BY <2>1, <2>2, <2>3, <2>4 DEF DiskStep, Notes
<1>2. local' \in [Actions -> {"none", "ok", "FAILED"}]
  BY NextLocal DEF WriteOnce, IInv, TypeOK
<1>3. QED
  BY <1>1, <1>2, NextProcesses, NextRest DEF TypeOK, Process, PCs

-----------------------------------------------------------------------------
(* Launches are cleared, and somebody answers for them.                    *)

\* A unit is started by a command that was about to, or late.
LEMMA NextStarts ==
  ASSUME IInv, [Next]_vars, NEW u \in Units, starts'[u] > 0
  PROVE  starts[u] > 0 \/ u \in inflight \/ \E o \in Operators : u \in op[o].todo
<1>1. starts \in [Units \cup {"stage"} -> Nat] /\ u # "stage"
  BY AttemptAssumption DEF IInv, TypeOK, Units
<1>2. ASSUME starts' = starts \/ Installed
      PROVE  starts[u] > 0
  BY <1>1, <1>2 DEF Installed
<1>3. ASSUME NEW v \in Units, Starts(v), v # u
      PROVE  starts[u] > 0
  BY <1>1, <1>3 DEF Starts
<1>4. ASSUME NEW o \in Operators, CommandStep(o)
      PROVE  starts[u] > 0 \/ \E p \in Operators : u \in op[p].todo
  BY <1>2, <1>3, <1>4 DEF CommandStep, Reserve, Incoming, Install, Verify, ProbePhases,
     ProbeNodes, ProbeFails, Launch, LaunchFails, Launched, WriteOnce
<1>5. ASSUME NEW v \in Units, LateLaunch(v)
      PROVE  starts[u] > 0 \/ u \in inflight
  BY <1>2, <1>3, <1>5 DEF LateLaunch
<1>6. CASE LateInstall
  BY <1>2, <1>6 DEF LateInstall
<1>7. ASSUME \/ \E o \in Operators : Crash(o) \/ \E action \in Actions : Begin(o, action)
             \/ \E v \in Units : SupervisorStep(v) \/ NodeDies(v)
             \/ ReduceStep \/ UNCHANGED vars
      PROVE  starts[u] > 0
  BY <1>2, <1>7 DEF Crash, Begin, SupervisorStep, EnvironmentFails, SupervisorEnds, JobEnds,
     NodeDies, ReduceStep, ReduceWrites, ReduceEnds, vars
<1>8. QED
  BY <1>4, <1>5, <1>6, <1>7 DEF Next

LEMMA NextCleared ==
  ASSUME IInv, [Next]_vars
  PROVE  UnitsCleared'
<1> SUFFICES ASSUME NEW u \in Units, starts'[u] > 0 \/ u \in inflight'
             PROVE  Cleared(u)'
  BY DEF UnitsCleared
<1>1. u # "stage"
  BY AttemptAssumption DEF Units
<1>2. starts[u] > 0 \/ u \in inflight \/ \E o \in Operators : u \in op[o].todo
  BY <1>1, NextStarts, NextRest
<1>3. Cleared(u)
  BY <1>2 DEF IInv, UnitsCleared, ProcessesFit, ProcessFits
<1>4. QED
  BY <1>3, ClearedStays, NextGrows

\* A receipt is written by a process that fits.
LEMMA NextReceipts ==
  ASSUME IInv, [Next]_vars
  PROVE  StageVerified' /\ ReceiptMeansStarted'
<1>1. Grows
  BY NextGrows
<1>2. ASSUME NEW a \in Actions, local[a] = "ok"
      PROVE  IF a = "stage" THEN Has(marks', "stage", "prepared")
                            ELSE \A u \in UnitsOf(a) : starts'[u] = 1
  <2>1. CASE a = "stage"
    BY <1>1, <1>2, <2>1, GateStays DEF IInv, StageVerified, Has
  <2>2. CASE a # "stage"
    <3>1. \A u \in UnitsOf(a) : u \in Units /\ starts[u] = 1
      BY <1>2, <2>2, UnitsOfActions DEF IInv, ReceiptMeansStarted
    <3>2. QED
      BY <1>1, <2>2, <3>1 DEF Grows
  <2>3. QED
    BY <2>1, <2>2
<1>3. ASSUME NEW o \in Operators, WriteOnce(o), NEW a \in Actions,
             local[a] # "ok", local'[a] = "ok"
      PROVE  IF a = "stage" THEN Has(marks', "stage", "prepared")
                            ELSE \A u \in UnitsOf(a) : starts'[u] = 1
  <2>1. op[o].pc = "receipt" /\ op[o].action = a /\ ~op[o].bad /\ UNCHANGED <<marks, starts>>
    BY <1>3 DEF WriteOnce, At, IInv, TypeOK
  <2>2. ProcessFits(o)
    BY DEF IInv, ProcessesFit
  <2>3. QED
    BY <2>1, <2>2 DEF ProcessFits, Has
<1>4. \A a \in Actions : local'[a] = "ok" =>
        IF a = "stage" THEN Has(marks', "stage", "prepared")
                       ELSE \A u \in UnitsOf(a) : starts'[u] = 1
  BY <1>2, <1>3, NextLocal
<1>5. QED
  BY <1>4 DEF StageVerified, ReceiptMeansStarted, Has, Actions

\* Nobody who answers for the nodes leaves without a receipt, unless killed.
LEMMA AnswerStays ==
  ASSUME IInv, [Next]_vars, Answered, faults'["command"] = faults["command"]
  PROVE  Answered'
<1>1. CASE local["full-launch"] # "none"
  BY <1>1, NextGrows DEF Grows, Answered, Actions
<1>2. ASSUME NEW p \in Operators, Launching(p)
      PROVE  Answered'
  <2>1. op[p].pc \in {"launch", "receipt"} /\ op[p].action = "full-launch"
    BY <1>2 DEF Launching
  <2>2. ASSUME op'[p].pc \in {"launch", "receipt"}, op'[p].action = "full-launch"
        PROVE  Answered'
    BY <2>2 DEF Answered, Launching
  <2>3. ASSUME NEW o \in Operators, Only(o), o # p
        PROVE  Answered'
    BY <2>1, <2>2, <2>3 DEF Only
  <2>4. ASSUME op' = op
        PROVE  Answered'
    BY <2>1, <2>2, <2>4
  <2>5. ASSUME NEW o \in Operators, CommandStep(o) \/ \E action \in Actions : Begin(o, action), o # p
        PROVE  Answered'
    <3>1. op \in [Operators -> Process]
      BY DEF IInv, TypeOK, Process, PCs
    <3>2. Only(o)
      BY <2>5, <3>1 DEF CommandStep, Reserve, Incoming, Install, Verify, ProbePhases, ProbeNodes,
         ProbeFails, Launch, LaunchFails, Launched, WriteOnce, Goto, Fail, Finish, LaunchDone,
         Begin, Only
    <3>3. QED
      BY <2>3, <2>5, <3>2
  <2>6. ASSUME NEW u \in Units, Launch(p, u) \/ LaunchFails(p, u)
        PROVE  Answered'
    <3>1. \E bad \in BOOLEAN : LaunchDone(p, u, bad)
      BY <2>6 DEF Launch, LaunchFails
    <3>2. QED
      BY <2>1, <2>2, <3>1, LaunchDoneResult DEF IInv
  <2>7. CASE Launched(p)
    BY <2>1, <2>2, <2>7, GotoResult DEF Launched, IInv, PCs
  <2>8. CASE WriteOnce(p)
    <3>1. local'["full-launch"] # "none"
      BY <2>1, <2>8 DEF WriteOnce, IInv, TypeOK, Actions
    <3>2. QED
      BY <3>1 DEF Answered
  <2>9. ASSUME Reserve(p) \/ Incoming(p) \/ Install(p) \/ Verify(p) \/ ProbePhases(p)
                 \/ ProbeNodes(p) \/ ProbeFails(p) \/ \E action \in Actions : Begin(p, action)
        PROVE  FALSE
    BY <2>1, <2>9 DEF Reserve, Incoming, Install, Verify, ProbePhases, ProbeNodes, ProbeFails,
       Begin, At
  <2>10. ASSUME NEW o \in Operators, Crash(o)
         PROVE  FALSE
    BY <2>10 DEF Crash, Fault, IInv, TypeOK
  <2>11. ASSUME \/ \E u \in Units : SupervisorStep(u) \/ NodeDies(u) \/ LateLaunch(u)
                \/ LateInstall \/ ReduceStep \/ UNCHANGED vars
         PROVE  Answered'
    BY <2>4, <2>11 DEF SupervisorStep, EnvironmentFails, SupervisorEnds, JobEnds, NodeDies,
       LateLaunch, LateInstall, ReduceStep, ReduceWrites, ReduceEnds, vars
  <2>12. QED
    BY <2>5, <2>6, <2>7, <2>8, <2>9, <2>10, <2>11 DEF Next, CommandStep
<1>3. QED
  BY <1>1, <1>2 DEF Answered

LEMMA NextAnswered ==
  ASSUME IInv, [Next]_vars
  PROVE  NodesAnswered'
<1>1. /\ faults["command"] \in Nat /\ faults'["command"] \in Nat /\ MaxFaults["command"] \in Nat
      /\ faults'["command"] <= faults["command"] /\ faults["command"] <= MaxFaults["command"]
  BY NextRest, AttemptAssumption DEF IInv, TypeOK, NodesAnswered
<1>2. ASSUME faults'["command"] = MaxFaults["command"],
             NEW n \in Nodes, starts'[n] > 0 \/ n \in inflight'
      PROVE  Answered'
  <2>1. faults["command"] = MaxFaults["command"]
    BY <1>1, <1>2
  <2>2. n \in Units /\ n # "stage"
    BY AttemptAssumption DEF Units
  <2>3. starts[n] > 0 \/ n \in inflight \/ \E o \in Operators : n \in op[o].todo
    BY <1>2, <2>2, NextStarts, NextRest
  <2>4. ASSUME NEW o \in Operators, n \in op[o].todo
        PROVE  Launching(o)
    <3>1. op[o].pc = "launch" /\ n \in UnitsOf(op[o].action) /\ op[o].action \in Actions \ {"stage"}
      BY <2>4 DEF IInv, ProcessesFit, ProcessFits, TypeOK
    <3>2. QED
      BY <3>1, AttemptAssumption DEF Launching, UnitsOf, Actions
  <2>5. Answered
    BY <2>1, <2>3, <2>4 DEF IInv, NodesAnswered, Answered
  <2>6. QED
    BY <1>2, <2>1, <2>5, AnswerStays
<1>3. QED
  BY <1>1, <1>2 DEF NodesAnswered

THEOREM NextIInv == IInv /\ [Next]_vars => IInv'
BY NextType, NextDisk, NextLocked, NextProcesses, NextCleared, NextReceipts, NextAnswered DEF IInv

THEOREM Invariance == Spec => []IInv
BY InitIInv, NextIInv, PTL DEF Spec

-----------------------------------------------------------------------------
(* Results.                                                                *)

\* Every variable keeps its type, whatever is lost, killed or late.
THEOREM TypeCorrect == Spec => []TypeOK
<1>1. IInv => TypeOK
  BY DEF IInv
<1>2. QED
  BY <1>1, Invariance, PTL

\* Any number of racing, repeated or late commands install the attempt and
\* start each supervisor at most once.
THEOREM StartsAreSingle == Spec => []StartedOnce
<1>1. IInv => StartedOnce
  BY DEF IInv, Locked, StartedOnce
<1>2. QED
  BY <1>1, Invariance, PTL

\* No node starts before the smoke is complete, no reduction before the nodes
\* are, and nothing before the stage was verified, although a launch acts on
\* markers read one after another some time ago.
THEOREM GatesAreHeld == Spec => []GatesHold
<1>1. IInv => GatesHold
  <2> SUFFICES ASSUME IInv PROVE GatesHold
    OBVIOUS
  <2>1. ASSUME NEW u \in Units, starts[u] > 0
        PROVE  Cleared(u) /\ starts["stage"] = 1
    BY <2>1 DEF IInv, UnitsCleared, Cleared, StageVerified, Locked
  <2>2. QED
    BY <2>1 DEF GatesHold, Cleared, Units
<1>2. QED
  BY <1>1, Invariance, PTL

\* A receipt of success vouches for every supervisor of its command.
THEOREM ReceiptsMeanStarts == Spec => []ReceiptMeansStarted
<1>1. IInv => ReceiptMeansStarted
  BY DEF IInv
<1>2. QED
  BY <1>1, Invariance, PTL

\* The status is FAILED as soon as a receipt or a probed marker says so.
LEMMA WhenFailed ==
  Status = "FAILED" <=> local["stage"] # "none" /\ (LocalFailure \/ ProbedFailure(marks))
BY DEF Status, Phase

\* Commands that launched some of the nodes and not all leave an attempt that
\* shows as failed, once they are done.
THEOREM PartialLaunchesShow == Spec => []PartialLaunchShows
<1>1. IInv => PartialLaunchShows
  <2> SUFFICES ASSUME IInv,
                      faults["command"] = MaxFaults["command"],
                      \A o \in Operators : At(o, "idle") \/ op[o].action # "full-launch",
                      NEW n \in Nodes, starts[n] > 0,
                      NEW m \in Nodes, starts[m] = 0
               PROVE  Status = "FAILED"
    BY DEF PartialLaunchShows
  <2>1. ~ \E o \in Operators : Launching(o)
    BY DEF Launching, At
  <2>2. local["full-launch"] # "none"
    BY <2>1 DEF IInv, NodesAnswered, Answered
  <2>3. UnitsOf("full-launch") = Nodes
    BY DEF UnitsOf
  <2>4. local["full-launch"] # "ok"
    BY <2>3 DEF IInv, ReceiptMeansStarted, Actions
  <2>5. LocalFailure
    BY <2>2, <2>4 DEF IInv, TypeOK, LocalFailure, Actions
  <2>6. local["stage"] = "ok"
    BY DEF IInv, UnitsCleared, Cleared, Units
  <2>7. QED
    BY <2>5, <2>6, WhenFailed
<1>2. QED
  BY <1>1, Invariance, PTL

\* A failed attempt stays failed, whatever its supervisors still write.
THEOREM FailureIsFinal == Spec => FailedIsFinal
<1>1. IInv /\ [Next]_vars => (Status = "FAILED" => Status' = "FAILED")
  <2> SUFFICES ASSUME IInv, [Next]_vars, Status = "FAILED"
               PROVE  Status' = "FAILED"
    OBVIOUS
  <2>1. Grows
    BY NextGrows
  <2>2. local["stage"] # "none" /\ (LocalFailure \/ ProbedFailure(marks))
    BY WhenFailed
  <2>3. local'["stage"] # "none"
    BY <2>1, <2>2 DEF Grows, Actions
  <2>4. LocalFailure => LocalFailure'
    BY <2>1 DEF Grows, LocalFailure
  <2>5. ProbedFailure(marks) => ProbedFailure(marks')
    BY <2>1 DEF Grows, ProbedFailure, Has
  <2>6. (local["stage"] # "none" /\ (LocalFailure \/ ProbedFailure(marks)))'
    BY <2>2, <2>3, <2>4, <2>5
  <2>7. QED
    BY <2>6, WhenFailed DEF Status, Phase
<1>2. QED
  BY <1>1, Invariance, PTL DEF Spec, FailedIsFinal

-----------------------------------------------------------------------------
(* Least members.                                                          *)

LEMMA LeastNumber ==
  ASSUME NEW T \in SUBSET Nat, T # {}
  PROVE  \E x \in T : \A y \in T : x <= y
<1> DEFINE R == OpToRel(<, Nat)
<1>1. IsWellFoundedOn(R, Nat)
  BY NatLessThanWellFounded, Zenon
<1>2. \A x, y \in Nat : x < y => <<x, y>> \in R
  BY Zenon DEF OpToRel
<1> HIDE DEF R
<1>3. PICK x \in T : \A y \in T : ~(<<y, x>> \in R)
  BY <1>1, WFMin
<1>4. ASSUME NEW y \in T PROVE x <= y
  <2>1. ~(y < x)
    BY <1>2, <1>3
  <2>2. QED
    BY <2>1
<1>5. QED
  BY <1>4

\* A set of finite sets has a smallest member.
LEMMA SmallestSet ==
  ASSUME NEW F, F # {}, \A S \in F : IsFiniteSet(S)
  PROVE  \E S \in F : \A T \in F : Cardinality(S) <= Cardinality(T)
<1>1. \A S \in F : Cardinality(S) \in Nat
  BY FS_CardinalityType
<1>2. PICK k \in {Cardinality(S) : S \in F} : \A y \in {Cardinality(S) : S \in F} : k <= y
  BY <1>1, LeastNumber
<1>3. QED
  BY <1>2

\* In a finite set that R orders, something comes before all else.
LEMMA FirstOfOrder ==
  ASSUME NEW S, IsFiniteSet(S), S # {}, NEW R,
         \A x, y, z \in S : <<x, y>> \in R /\ <<y, z>> \in R => <<x, z>> \in R,
         \A x, y \in S : x # y => <<x, y>> \in R \/ <<y, x>> \in R
  PROVE  \E x \in S : \A y \in S \ {x} : <<x, y>> \in R
<1> DEFINE First(T) == \E x \in T : \A y \in T \ {x} : <<x, y>> \in R
           Bad == {T \in SUBSET S : T # {} /\ ~First(T)}
<1>1. SUFFICES ASSUME Bad # {} PROVE FALSE
  OBVIOUS
<1>2. \A T \in SUBSET S : IsFiniteSet(T)
  BY FS_Subset
<1>3. PICK T \in Bad : \A U \in Bad : Cardinality(T) <= Cardinality(U)
  <2>1. \A U \in Bad : IsFiniteSet(U)
    BY <1>2
  <2> HIDE DEF Bad
  <2>2. QED
    BY <1>1, <2>1, SmallestSet
<1>4. PICK x \in T : TRUE
  OBVIOUS
<1>5. T \ {x} \notin Bad
  <2>1. Cardinality(T \ {x}) = Cardinality(T) - 1 /\ Cardinality(T) \in Nat
    BY <1>2, FS_RemoveElement, FS_CardinalityType
  <2> HIDE DEF Bad
  <2>2. QED
    BY <1>3, <2>1
<1>6. CASE T \ {x} = {}
  BY <1>6
<1>7. CASE T \ {x} # {}
  <2>1. PICK y \in T \ {x} : \A z \in (T \ {x}) \ {y} : <<y, z>> \in R
    BY <1>5, <1>7
  <2>2. CASE <<y, x>> \in R
    BY <2>1, <2>2
  <2>3. CASE <<x, y>> \in R
    <3>1. \A z \in T \ {x} : <<x, z>> \in R
      BY <2>1, <2>3
    <3>2. QED
      BY <3>1
  <2>4. QED
    BY <2>1, <2>2, <2>3
<1>8. QED
  BY <1>6, <1>7
-----------------------------------------------------------------------------
(* The assignment of the groups to the nodes.                              *)

Assignment == [has : [Nodes -> SUBSET Groups], load : [Nodes -> Nat]]

LEMMA NodesInOrder ==
  /\ IsFiniteSet(DOMAIN NodeOrder) /\ DOMAIN NodeOrder # {} /\ DOMAIN NodeOrder \subseteq Nat
  /\ \A i \in DOMAIN NodeOrder : NodeOrder[i] \in Nodes
  /\ \A n \in Nodes : \E i \in DOMAIN NodeOrder : NodeOrder[i] = n
<1>1. /\ DOMAIN NodeOrder = 1..Len(NodeOrder) /\ Len(NodeOrder) \in Nat
      /\ \A i \in DOMAIN NodeOrder : NodeOrder[i] \in Nodes
  BY JobsAssumption
<1>2. IsFiniteSet(1..Len(NodeOrder))
  BY <1>1, FS_Interval
<1>3. NodeNames = Nodes /\ Nodes # {}
  BY JobsAssumption, AttemptAssumption
<1>4. QED
  BY <1>1, <1>2, <1>3 DEF NodeNames

\* Of the groups in a set, one comes last.
LastOf(S) == CHOOSE g \in S : \A h \in S \ {g} : Before(h, g)

LEMMA LastInSet ==
  ASSUME NEW S \in SUBSET Groups, S # {}
  PROVE  LastOf(S) \in S
<1> DEFINE R == {p \in Groups \X Groups : Before(p[2], p[1])}
<1>1. /\ Groups \subseteq Nat /\ IsFiniteSet(S) /\ \A g \in Groups : Cost[g] \in Nat
  BY JobsAssumption, FS_Subset
<1>2. \A x, y \in Groups : <<x, y>> \in R <=> Before(y, x)
  OBVIOUS
<1> HIDE DEF R
<1>3. \A x, y, z \in S : <<x, y>> \in R /\ <<y, z>> \in R => <<x, z>> \in R
  BY <1>1, <1>2 DEF Before
<1>4. \A x, y \in S : x # y => <<x, y>> \in R \/ <<y, x>> \in R
  BY <1>1, <1>2 DEF Before
<1>5. \E x \in S : \A y \in S \ {x} : <<x, y>> \in R
  BY <1>1, <1>3, <1>4, FirstOfOrder
<1>6. QED
  BY <1>2, <1>5 DEF LastOf

\* A group is assigned to some node, whatever the loads.
LightestOf(a) ==
  CHOOSE i \in DOMAIN NodeOrder : \A j \in DOMAIN NodeOrder \ {i} : Lighter(a, i, j)

LEMMA LightestIsNode ==
  ASSUME NEW a \in Assignment
  PROVE  NodeOrder[LightestOf(a)] \in Nodes
<1> DEFINE D == DOMAIN NodeOrder
           R == {p \in D \X D : Lighter(a, p[1], p[2])}
<1>1. IsFiniteSet(D) /\ D # {} /\ D \subseteq Nat /\ \A i \in D : NodeOrder[i] \in Nodes
  BY NodesInOrder
<1>2. \A i, j \in D : <<i, j>> \in R <=> Lighter(a, i, j)
  OBVIOUS
<1>3. ASSUME NEW n \in Nodes
      PROVE  a.load[n] \in Nat /\ Cardinality(a.has[n]) \in Nat
  <2>1. a.load[n] \in Nat /\ a.has[n] \in SUBSET Groups
    BY DEF Assignment
  <2>2. QED
    BY <2>1, JobsAssumption, FS_Subset, FS_CardinalityType
<1> HIDE DEF R, D
<1>4. \A x, y, z \in D : <<x, y>> \in R /\ <<y, z>> \in R => <<x, z>> \in R
  <2> SUFFICES ASSUME NEW x \in D, NEW y \in D, NEW z \in D, Lighter(a, x, y), Lighter(a, y, z)
               PROVE  Lighter(a, x, z)
    BY <1>2
  <2>1. x \in Nat /\ y \in Nat /\ z \in Nat
    BY <1>1
  <2>2. \A i \in {x, y, z} : a.load[NodeOrder[i]] \in Nat /\ Cardinality(a.has[NodeOrder[i]]) \in Nat
    BY <1>1, <1>3
  <2>3. QED
    BY <2>1, <2>2 DEF Lighter
<1>5. \A x, y \in D : x # y => <<x, y>> \in R \/ <<y, x>> \in R
  <2> SUFFICES ASSUME NEW x \in D, NEW y \in D, x # y
               PROVE  Lighter(a, x, y) \/ Lighter(a, y, x)
    BY <1>2
  <2>1. x \in Nat /\ y \in Nat
    BY <1>1
  <2>2. \A i \in {x, y} : a.load[NodeOrder[i]] \in Nat /\ Cardinality(a.has[NodeOrder[i]]) \in Nat
    BY <1>1, <1>3
  <2>3. QED
    BY <2>1, <2>2 DEF Lighter
<1>6. \E x \in D : \A y \in D \ {x} : <<x, y>> \in R
  <2>1. IsFiniteSet(D) /\ D # {}
    BY <1>1
  <2>2. QED
    BY <2>1, <1>4, <1>5, FirstOfOrder
<1>7. LightestOf(a) \in D
  BY <1>2, <1>6 DEF LightestOf, D
<1>8. QED
  BY <1>1, <1>7

LEMMA AssignAdds ==
  ASSUME NEW a \in Assignment, NEW g \in Groups
  PROVE  /\ Assign(a, g) \in Assignment
         /\ \E n \in Nodes : Assign(a, g).has = [a.has EXCEPT ![n] = @ \cup {g}]
<1> DEFINE n == NodeOrder[LightestOf(a)]
<1>1. n \in Nodes
  BY LightestIsNode
<1>2. Assign(a, g) = [a EXCEPT !.has[n] = @ \cup {g}, !.load[n] = @ + Cost[g]]
  BY DEF Assign, LightestOf
<1> HIDE DEF n
<1>3. PICK k \in Nat : k = a.load[n] + Cost[g]
  BY <1>1, JobsAssumption DEF Assignment
<1>4. Assign(a, g) = [has |-> [a.has EXCEPT ![n] = @ \cup {g}], load |-> [a.load EXCEPT ![n] = k]]
  BY <1>2, <1>3 DEF Assignment
<1>5. [a.has EXCEPT ![n] = @ \cup {g}] \in [Nodes -> SUBSET Groups]
  BY <1>1 DEF Assignment
<1>6. [a.load EXCEPT ![n] = k] \in [Nodes -> Nat]
  BY <1>1 DEF Assignment
<1>7. Assign(a, g) \in Assignment /\ Assign(a, g).has = [a.has EXCEPT ![n] = @ \cup {g}]
  BY <1>4, <1>5, <1>6 DEF Assignment
<1>8. QED
  BY <1>1, <1>7

-----------------------------------------------------------------------------
(* The recursive function Assigned has the value its equation gives it.    *)

NoneAssigned == [has |-> [n \in NodeNames |-> {}], load |-> [n \in NodeNames |-> 0]]

AssignedFrom(f, S) ==
  IF S = {} THEN NoneAssigned ELSE Assign(f[S \ {LastOf(S)}], LastOf(S))

\* A function that obeys the equation for the sets of up to n groups.
ObeysUpTo(f, n) ==
  \A S \in SUBSET Groups : Cardinality(S) <= n => f[S] = AssignedFrom(f, S)

LEMMA WithoutLast ==
  ASSUME NEW S \in SUBSET Groups, S # {}
  PROVE  /\ S \ {LastOf(S)} \in SUBSET Groups
         /\ Cardinality(S \ {LastOf(S)}) = Cardinality(S) - 1
         /\ Cardinality(S) \in Nat
BY LastInSet, JobsAssumption, FS_Subset, FS_RemoveElement, FS_CardinalityType

LEMMA ObeysFurther ==
  ASSUME NEW f, NEW n \in Nat, ObeysUpTo(f, n)
  PROVE  ObeysUpTo([S \in SUBSET Groups |-> AssignedFrom(f, S)], n + 1)
<1> DEFINE g == [S \in SUBSET Groups |-> AssignedFrom(f, S)]
<1>1. \A S \in SUBSET Groups : g[S] = AssignedFrom(f, S)
  OBVIOUS
<1> HIDE DEF g
<1>2. ASSUME NEW S \in SUBSET Groups, Cardinality(S) <= n + 1
      PROVE  g[S] = AssignedFrom(g, S)
  <2>1. CASE S = {}
    BY <1>1, <2>1 DEF AssignedFrom
  <2>2. CASE S # {}
    <3> DEFINE T == S \ {LastOf(S)}
    <3>1. T \in SUBSET Groups /\ Cardinality(T) <= n
      BY <1>2, <2>2, WithoutLast
    <3> HIDE DEF T
    <3>2. g[T] = f[T]
      BY <1>1, <3>1 DEF ObeysUpTo
    <3>3. AssignedFrom(f, S) = AssignedFrom(g, S)
      BY <2>2, <3>2 DEF AssignedFrom, T
    <3>4. QED
      BY <1>1, <3>3
  <2>3. QED
    BY <2>1, <2>2
<1>3. QED
  BY <1>2 DEF ObeysUpTo, g

LEMMA ObeysToAnySize ==
  \A n \in Nat : \E f : ObeysUpTo(f, n)
<1> DEFINE Bad == {n \in Nat : ~\E f : ObeysUpTo(f, n)}
<1>1. SUFFICES ASSUME Bad # {} PROVE FALSE
  OBVIOUS
<1>2. PICK n \in Bad : \A m \in Bad : n <= m
  <2>1. Bad \in SUBSET Nat
    OBVIOUS
  <2> HIDE DEF Bad
  <2>2. QED
    BY <1>1, <2>1, LeastNumber
<1>3. n # 0
  <2> DEFINE f == [S \in SUBSET Groups |-> NoneAssigned]
  <2>1. ASSUME NEW S \in SUBSET Groups, Cardinality(S) <= 0
        PROVE  f[S] = AssignedFrom(f, S)
    <3>1. S = {}
      <4>1. IsFiniteSet(S) /\ Cardinality(S) \in Nat
        BY JobsAssumption, FS_Subset, FS_CardinalityType
      <4>2. Cardinality(S) = 0
        BY <2>1, <4>1
      <4>3. QED
        BY <4>1, <4>2, FS_EmptySet
    <3>2. QED
      BY <3>1 DEF AssignedFrom
  <2> HIDE DEF f
  <2>2. ObeysUpTo(f, 0)
    BY <2>1 DEF ObeysUpTo
  <2>3. QED
    BY <2>2
<1>4. n - 1 \in Nat /\ n - 1 \notin Bad
  BY <1>2, <1>3
<1>5. PICK f : ObeysUpTo(f, n - 1)
  BY <1>4
<1>6. \E g : ObeysUpTo(g, (n - 1) + 1)
  BY <1>4, <1>5, ObeysFurther
<1>7. (n - 1) + 1 = n
  BY <1>2
<1>8. QED
  BY <1>2, <1>6, <1>7

LEMMA AssignedObeys ==
  \A S \in SUBSET Groups : Assigned[S] = AssignedFrom(Assigned, S)
<1> DEFINE Right(f) == [S \in SUBSET Groups |-> AssignedFrom(f, S)]
<1>1. Assigned = CHOOSE f : f = Right(f)
  BY DEF Assigned, AssignedFrom, NoneAssigned, LastOf
<1>2. \E f : f = Right(f)
  <2>1. Cardinality(Groups) \in Nat /\ \A S \in SUBSET Groups : Cardinality(S) <= Cardinality(Groups)
    BY JobsAssumption, FS_CardinalityType, FS_Subset
  <2>2. PICK f : ObeysUpTo(f, Cardinality(Groups))
    BY <2>1, ObeysToAnySize
  <2> DEFINE g == [S \in SUBSET Groups |-> f[S]]
  <2>3. \A S \in SUBSET Groups : g[S] = f[S] /\ f[S] = AssignedFrom(f, S)
    BY <2>1, <2>2 DEF ObeysUpTo
  <2> HIDE DEF g
  <2>4. ASSUME NEW S \in SUBSET Groups
        PROVE  g[S] = AssignedFrom(g, S)
    <3>1. CASE S = {}
      BY <2>3, <3>1 DEF AssignedFrom
    <3>2. CASE S # {}
      <4>1. g[S \ {LastOf(S)}] = f[S \ {LastOf(S)}]
        BY <2>3, <3>2, WithoutLast
      <4>2. QED
        BY <2>3, <3>2, <4>1 DEF AssignedFrom
    <3>3. QED
      BY <3>1, <3>2
  <2>5. g = Right(g)
    BY <2>4 DEF g
  <2>6. QED
    BY <2>5
<1>3. Assigned = Right(Assigned)
  BY <1>1, <1>2
<1>4. QED
  BY <1>3

\* What the assignment of a set of groups must be: each of them has one node.
Assigns(a, S) ==
  /\ a \in Assignment
  /\ \A g \in S : \E n \in Nodes : g \in a.has[n]
  /\ \A n \in Nodes : a.has[n] \subseteq S
  /\ \A m, n \in Nodes : m # n => a.has[m] \cap a.has[n] = {}

LEMMA AssignsFurther ==
  ASSUME NEW S \in SUBSET Groups, NEW g \in Groups, g \notin S, NEW a, Assigns(a, S)
  PROVE  Assigns(Assign(a, g), S \cup {g})
<1>1. a \in Assignment /\ a.has \in [Nodes -> SUBSET Groups]
  BY DEF Assigns, Assignment
<1>2. PICK k \in Nodes : Assign(a, g).has = [a.has EXCEPT ![k] = @ \cup {g}]
  BY <1>1, AssignAdds
<1>3. Assign(a, g) \in Assignment
  BY <1>1, AssignAdds
<1>4. \A n \in Nodes : Assign(a, g).has[n] = IF n = k THEN a.has[n] \cup {g} ELSE a.has[n]
  BY <1>1, <1>2
<1> DEFINE b == Assign(a, g)
<1> HIDE DEF b
<1>5. \A h \in S \cup {g} : \E n \in Nodes : h \in b.has[n]
  BY <1>4 DEF Assigns, b
<1>6. \A n \in Nodes : b.has[n] \subseteq S \cup {g}
  BY <1>4 DEF Assigns, b
<1>7. ASSUME NEW m \in Nodes, NEW n \in Nodes, m # n
      PROVE  b.has[m] \cap b.has[n] = {}
  <2>1. a.has[m] \cap a.has[n] = {} /\ g \notin a.has[m] /\ g \notin a.has[n]
    BY <1>7 DEF Assigns
  <2>2. b.has[m] \subseteq a.has[m] \cup {g} /\ b.has[n] \subseteq a.has[n] \cup {g}
    BY <1>4 DEF b
  <2>3. ~(m = k /\ n = k) /\ (m # k => b.has[m] = a.has[m]) /\ (n # k => b.has[n] = a.has[n])
    BY <1>4, <1>7 DEF b
  <2>4. QED
    BY <2>1, <2>2, <2>3
<1>8. QED
  BY <1>3, <1>5, <1>6, <1>7 DEF Assigns, b

\* The assignment of any groups, of whatever cost, gives each of them to one
\* node: the dispatch's check of this ("LPT assignment lost a paired group")
\* never fails.
THEOREM LptPartitions ==
  \A S \in SUBSET Groups : Assigns(Assigned[S], S)
<1> DEFINE Bad == {S \in SUBSET Groups : ~Assigns(Assigned[S], S)}
<1>1. SUFFICES ASSUME Bad # {} PROVE FALSE
  OBVIOUS
<1>2. PICK S \in Bad : \A T \in Bad : Cardinality(S) <= Cardinality(T)
  <2>1. \A T \in Bad : IsFiniteSet(T)
    BY JobsAssumption, FS_Subset
  <2> HIDE DEF Bad
  <2>2. QED
    BY <1>1, <2>1, SmallestSet
<1>3. S # {}
  <2>1. Assigned[{}] = NoneAssigned
    BY AssignedObeys DEF AssignedFrom
  <2>2. NodeNames = Nodes
    BY JobsAssumption
  <2>3. NoneAssigned \in Assignment /\ \A n \in Nodes : NoneAssigned.has[n] = {}
    BY <2>2 DEF NoneAssigned, Assignment
  <2>4. Assigns(NoneAssigned, {})
    BY <2>3 DEF Assigns
  <2>5. QED
    BY <2>1, <2>4
<1> DEFINE T == S \ {LastOf(S)}
<1>4. T \in SUBSET Groups /\ T \notin Bad
  <2>1. T \in SUBSET Groups /\ Cardinality(T) = Cardinality(S) - 1 /\ Cardinality(S) \in Nat
    BY <1>3, WithoutLast
  <2> HIDE DEF Bad, T
  <2>2. QED
    BY <1>2, <2>1
<1>5. Assigns(Assigned[T], T)
  BY <1>4
<1>6. LastOf(S) \in Groups /\ LastOf(S) \notin T /\ S = T \cup {LastOf(S)}
  BY <1>3, LastInSet
<1>7. Assigned[S] = Assign(Assigned[T], LastOf(S))
  BY <1>3, AssignedObeys DEF AssignedFrom
<1>8. Assigns(Assigned[S], S)
  <2> HIDE DEF T, Bad
  <2>1. Assigns(Assign(Assigned[T], LastOf(S)), T \cup {LastOf(S)})
    BY <1>4, <1>5, <1>6, AssignsFurther
  <2>2. QED
    BY <1>6, <1>7, <2>1
<1>9. QED
  BY <1>8

-----------------------------------------------------------------------------
(* The workers' jobs and their files.                                      *)

\* Every group has one node, and the smoke takes one of the groups.
LEMMA GroupsOfUnits ==
  /\ DOMAIN GroupsOf = Nodes \cup {"smoke"}
  /\ \A u \in Nodes \cup {"smoke"} : GroupsOf[u] \subseteq Groups
  /\ \A g \in Groups : \E n \in Nodes : g \in GroupsOf[n]
  /\ \A m, n \in Nodes : m # n => GroupsOf[m] \cap GroupsOf[n] = {}
<1> DEFINE first == LptGroups[NodeOrder[1]]
           least == CHOOSE g \in first : \A h \in first : g <= h
<1>1. NodeNames = Nodes /\ "smoke" \notin Nodes
  BY JobsAssumption, AttemptAssumption
<1>2. /\ GroupsOf = [u \in Nodes \cup {"smoke"} |-> IF u = "smoke" THEN {least} ELSE LptGroups[u]]
      /\ GroupsOf["smoke"] = {least} /\ \A n \in Nodes : GroupsOf[n] = LptGroups[n]
  BY <1>1 DEF GroupsOf
<1>3. /\ \A g \in Groups : \E n \in Nodes : g \in LptGroups[n]
      /\ \A n \in Nodes : LptGroups[n] \subseteq Groups
      /\ \A m, n \in Nodes : m # n => LptGroups[m] \cap LptGroups[n] = {}
  BY LptPartitions DEF LptGroups, Assigns
<1>4. NodeOrder[1] \in Nodes
  <2>1. Len(NodeOrder) \in Nat /\ DOMAIN NodeOrder = 1..Len(NodeOrder)
    BY JobsAssumption
  <2>2. 1 \in DOMAIN NodeOrder
    BY <2>1, NodesInOrder
  <2>3. QED
    BY <2>2, NodesInOrder
<1>5. first \subseteq Nat /\ first # {}
  <2>1. first \subseteq Nat
    BY <1>3, <1>4, JobsAssumption
  <2>2. Cardinality(first) >= Pool /\ Pool \in Nat \ {0}
    BY <1>2, <1>4, JobsAssumption
  <2>3. Cardinality({}) = 0
    BY FS_EmptySet
  <2> HIDE DEF first
  <2>4. first # {}
    BY <2>2, <2>3
  <2>5. QED
    BY <2>1, <2>4
<1>6. least \in first
  <2> HIDE DEF first
  <2>1. \E x \in first : \A y \in first : x <= y
    BY <1>5, LeastNumber
  <2>2. QED
    BY <2>1
<1>7. {least} \subseteq Groups
  BY <1>3, <1>4, <1>6
<1> HIDE DEF least, first
<1>8. DOMAIN GroupsOf = Nodes \cup {"smoke"}
  BY <1>2
<1>9. \A u \in Nodes \cup {"smoke"} : GroupsOf[u] \subseteq Groups
  BY <1>2, <1>3, <1>7
<1>10. QED
  BY <1>2, <1>3, <1>8, <1>9

Plan == UNION {{u} \X Arms \X GroupsOf[u] : u \in DOMAIN GroupsOf}

LEMMA JobOfPlan ==
  ASSUME NEW j \in Plan
  PROVE  /\ j = <<j[1], j[2], j[3]>>
         /\ j[1] \in Nodes \cup {"smoke"} /\ j[2] \in Arms
         /\ j[3] \in GroupsOf[j[1]] /\ j[3] \in Groups
<1>1. PICK u \in DOMAIN GroupsOf : j \in {u} \X Arms \X GroupsOf[u]
  BY DEF Plan
<1>2. u \in Nodes \cup {"smoke"} /\ GroupsOf[u] \subseteq Groups
  BY <1>1, GroupsOfUnits
<1>3. j = <<j[1], j[2], j[3]>> /\ j[1] = u /\ j[2] \in Arms /\ j[3] \in GroupsOf[u]
  BY <1>1
<1>4. QED
  BY <1>2, <1>3

LEMMA JobIsPlanned ==
  ASSUME NEW n \in Nodes, NEW a \in Arms, NEW g \in GroupsOf[n]
  PROVE  <<n, a, g>> \in Plan
BY GroupsOfUnits DEF Plan

\* No two jobs share a file.
LEMMA FilesOfOne ==
  ASSUME NEW i \in Plan, NEW j \in Plan, i # j, NEW k, NEW l
  PROVE  File(i, k) # File(j, l)
<1> SUFFICES ASSUME File(i, k) = File(j, l) PROVE FALSE
  OBVIOUS
<1>1. /\ (i[1] = "smoke") = (j[1] = "smoke")
      /\ i[2] = j[2] /\ i[3] = j[3]
  BY DEF File
<1>2. i[1] # j[1]
  BY <1>1, JobOfPlan
<1>3. i[1] \in Nodes /\ j[1] \in Nodes
  BY <1>1, <1>2, JobOfPlan
<1>4. i[3] \in GroupsOf[i[1]] \cap GroupsOf[j[1]]
  BY <1>1, JobOfPlan
<1>5. QED
  BY <1>2, <1>3, <1>4, GroupsOfUnits

-----------------------------------------------------------------------------
(* The jobs implement the attempt.                                         *)

\* What the jobs do to the attempt is one of its own steps.
LEMMA JobsStepMaps ==
  JobsNext => [Next]_vars
<1> SUFFICES ASSUME JobsNext PROVE Next \/ UNCHANGED vars
  OBVIOUS
<1>1. ASSUME NEW u \in Units, NoRelease(u) \/ SupervisorEnds(u)
      PROVE  Next
  BY <1>1 DEF NoRelease, Next, SupervisorStep
<1>2. ASSUME NEW u \in Units, u # "reduce", NEW a \in Arms, XargsEnds(u, a)
      PROVE  Next
  <2>1. JobEnds(u, a)
    BY <1>2 DEF XargsEnds, JobEnds
  <2>2. QED
    BY <2>1 DEF Next, SupervisorStep
<1>3. ASSUME NEW j \in Jobs, WorkStep(j) \/ WorkerFails(j) \/ WorkerKilled(j)
      PROVE  UNCHANGED vars
  BY <1>3 DEF WorkStep, WorkerStarts, WorkerWrites, WorkerEnds, WorkerFails, WorkerKilled
<1>4. ASSUME NEW u \in Units, NodeGone(u)
      PROVE  Next
  BY <1>4 DEF NodeGone, Next
<1>5. CASE ReductionStep
  BY <1>5 DEF ReductionStep, Analyse, ReduceScriptEnds, ReduceArm, Next, ReduceStep
<1>6. ASSUME \/ \E o \in Operators :
                  CommandStep(o) \/ Crash(o) \/ \E action \in Actions : Begin(o, action)
             \/ \E u \in Units : LateLaunch(u)
             \/ LateInstall
      PROVE  Next
  BY <1>6 DEF Next
<1>7. QED
  BY <1>1, <1>2, <1>3, <1>4, <1>5, <1>6 DEF JobsNext, JobsStep

\* Whatever its workers do, the attempt is one that RemoteAttempt describes:
\* what is proved of that holds of this.
THEOREM JobsImplementAttempt == JobsSpec => ImplementsAttempt
<1>1. JobsInit => Init
  BY DEF JobsInit
<1>2. [JobsNext]_allVars => [Next]_vars
  BY JobsStepMaps DEF allVars
<1>3. QED
  BY <1>1, <1>2, PTL DEF JobsSpec, ImplementsAttempt, Spec

-----------------------------------------------------------------------------
(* The inductive invariant of the jobs.                                    *)

Places == {"waiting", "runs", "rows", "done", "failed", "refused", "killed"}

JobsTyped ==
  /\ work \in [Plan -> Places]
  /\ files \subseteq {"smoke", "full"} \X Arms \X Groups \X {"rows", "receipt"}
  /\ reduced \subseteq Arms
  /\ spoils \in 0..MaxSpoils

\* The files of a job are those its worker has written.
JobFits(j) ==
  /\ work[j] # "refused"
  /\ work[j] \in {"waiting", "runs"} => File(j, "rows") \notin files /\ File(j, "receipt") \notin files
  /\ work[j] \in {"rows", "done"} => File(j, "rows") \in files
  /\ work[j] = "done" => File(j, "receipt") \in files

\* An arm of a node is marked complete when every group of it is done.
ArmFits(n, a) ==
  <<n, a, "complete">> \in marks => \A j \in Plan : j[1] = n /\ j[2] = a => work[j] = "done"

JInv ==
  /\ JobsTyped
  /\ \A j \in Plan : JobFits(j)
  /\ \A n \in Nodes, a \in Arms : ArmFits(n, a)

LEMMA InitJInv == JobsInit => JInv
<1> SUFFICES ASSUME JobsInit PROVE JInv
  OBVIOUS
<1>1. work = [j \in Plan |-> "waiting"] /\ files = {} /\ marks = {} /\ reduced = {} /\ spoils = MaxSpoils
  BY DEF JobsInit, Init, Plan
<1>2. MaxSpoils \in Nat
  BY JobsAssumption
<1>3. JobsTyped
  BY <1>1, <1>2 DEF JobsTyped, Places
<1>4. QED
  BY <1>1, <1>3 DEF JInv, JobFits, ArmFits

-----------------------------------------------------------------------------
(* What a step does to the jobs.                                           *)

\* One job moves, and of the files only its own appear or go.
Touches(j) ==
  /\ \E p \in Places : work' = [work EXCEPT ![j] = p]
  /\ \A f : f # File(j, "rows") /\ f # File(j, "receipt") => (f \in files' <=> f \in files)

LEMMA FileTyped ==
  ASSUME NEW j \in Plan, NEW kind \in {"rows", "receipt"}
  PROVE  File(j, kind) \in {"smoke", "full"} \X Arms \X Groups \X {"rows", "receipt"}
BY JobOfPlan DEF File

LEMMA FilesDiffer ==
  ASSUME NEW j \in Plan
  PROVE  File(j, "rows") # File(j, "receipt")
BY DEF File

LEMMA OthersFit ==
  ASSUME JInv, NEW j \in Plan, Touches(j), NEW i \in Plan, i # j
  PROVE  work'[i] = work[i] /\ JobFits(i)'
<1>1. work'[i] = work[i]
  BY DEF Touches, JInv, JobsTyped
<1>2. ASSUME NEW kind \in {"rows", "receipt"}
      PROVE  File(i, kind) \in files' <=> File(i, kind) \in files
  BY FilesOfOne DEF Touches
<1>3. \A kind : File(i, kind)' = File(i, kind)
  BY DEF File
<1>4. JobFits(i)
  BY DEF JInv
<1>5. QED
  BY <1>1, <1>2, <1>3, <1>4 DEF JobFits

\* A worker's step leaves its own job fit, and is not that of one that is done.
LEMMA WorkerTouches ==
  ASSUME JInv, NEW j \in Plan, WorkStep(j) \/ WorkerFails(j) \/ WorkerKilled(j)
  PROVE  /\ Touches(j) /\ JobFits(j)' /\ JobsTyped'
         /\ UNCHANGED vars /\ ~Ended(j[1], j[2]) /\ work[j] # "done"
<1> DEFINE AllFiles == {"smoke", "full"} \X Arms \X Groups \X {"rows", "receipt"}
<1>1. JobFits(j) /\ work \in [Plan -> Places] /\ files \subseteq AllFiles /\ reduced \subseteq Arms
  BY DEF JInv, JobsTyped
<1>2. spoils \in 0..MaxSpoils /\ MaxSpoils \in Nat
  BY JobsAssumption DEF JInv, JobsTyped
<1>3. /\ File(j, "rows") \in AllFiles /\ File(j, "receipt") \in AllFiles
      /\ File(j, "rows") # File(j, "receipt")
  BY FileTyped, FilesDiffer
<1>4. \A kind : File(j, kind)' = File(j, kind)
  BY DEF File
<1> HIDE DEF AllFiles
<1>5. ASSUME NEW p \in Places \ {"refused"}, work' = [work EXCEPT ![j] = p],
             files' \subseteq AllFiles,
             \A f : f # File(j, "rows") /\ f # File(j, "receipt") => (f \in files' <=> f \in files),
             p \in {"waiting", "runs"} => File(j, "rows") \notin files' /\ File(j, "receipt") \notin files',
             p \in {"rows", "done"} => File(j, "rows") \in files',
             p = "done" => File(j, "receipt") \in files',
             reduced' = reduced, spoils' \in 0..MaxSpoils
      PROVE  Touches(j) /\ JobFits(j)' /\ JobsTyped'
  <2>1. Touches(j)
    BY <1>5 DEF Touches
  <2>2. work'[j] = p /\ work' \in [Plan -> Places]
    BY <1>1, <1>5
  <2>3. JobFits(j)'
    BY <1>4, <1>5, <2>2 DEF JobFits
  <2>4. JobsTyped'
    BY <1>1, <1>5, <2>2 DEF JobsTyped, AllFiles
  <2>5. QED
    BY <2>1, <2>3, <2>4
<1>6. UNCHANGED vars /\ ~Ended(j[1], j[2]) /\ work[j] # "done"
  BY DEF WorkStep, WorkerStarts, WorkerWrites, WorkerEnds, WorkerFails, WorkerKilled, Working
<1>7. CASE WorkerStarts(j)
  <2>1. work' = [work EXCEPT ![j] = "runs"] /\ work[j] = "waiting" /\ UNCHANGED <<files, reduced, spoils>>
    BY <1>7 DEF WorkerStarts
  <2>2. File(j, "rows") \notin files' /\ File(j, "receipt") \notin files'
    BY <1>1, <2>1 DEF JobFits
  <2>3. QED
    BY <1>1, <1>2, <1>5, <1>6, <2>1, <2>2 DEF Places
<1>8. CASE WorkerWrites(j)
  <2>1. work[j] = "runs" /\ UNCHANGED <<reduced, spoils>>
    BY <1>8 DEF WorkerWrites
  <2>2. ~Exists(j)
    BY <1>1, <2>1 DEF JobFits, Exists
  <2>3. work' = [work EXCEPT ![j] = "rows"] /\ files' = files \cup {File(j, "rows")}
    BY <1>8, <2>2 DEF WorkerWrites
  <2>4. QED
    BY <1>1, <1>2, <1>3, <1>5, <1>6, <2>1, <2>3 DEF Places
<1>9. CASE WorkerEnds(j)
  <2>1. /\ work[j] = "rows" /\ UNCHANGED <<reduced, spoils>>
        /\ work' = [work EXCEPT ![j] = "done"] /\ files' = files \cup {File(j, "receipt")}
    BY <1>9 DEF WorkerEnds
  <2>2. File(j, "rows") \in files'
    BY <1>1, <2>1 DEF JobFits
  <2>3. QED
    BY <1>1, <1>2, <1>3, <1>5, <1>6, <2>1, <2>2 DEF Places
<1>10. ASSUME Spoil PROVE spoils' \in 0..MaxSpoils
  BY <1>2, <1>10 DEF Spoil
<1>11. CASE WorkerFails(j)
  <2>1. /\ work' = [work EXCEPT ![j] = "failed"] /\ reduced' = reduced /\ Spoil
        /\ files' \in {files, files \ {File(j, "rows")}}
    BY <1>11 DEF WorkerFails
  <2>2. spoils' \in 0..MaxSpoils
    BY <1>10, <2>1
  <2>3. QED
    BY <1>1, <1>5, <1>6, <2>1, <2>2 DEF Places
<1>12. CASE WorkerKilled(j)
  <2>1. /\ work' = [work EXCEPT ![j] = "killed"] /\ reduced' = reduced /\ Spoil
        /\ files' \in {files, files \cup {File(j, "receipt")}}
    BY <1>12 DEF WorkerKilled
  <2>2. spoils' \in 0..MaxSpoils
    BY <1>10, <2>1
  <2>3. QED
    BY <1>1, <1>3, <1>5, <1>6, <2>1, <2>2 DEF Places
<1>13. QED
  BY <1>7, <1>8, <1>9, <1>11, <1>12 DEF WorkStep

-----------------------------------------------------------------------------
(* What a step does to the markers of the arms.                            *)

\* No marker of an arm appears.
NoArmEnds == \A u, a : <<u, a, "complete">> \in marks' => <<u, a, "complete">> \in marks

LEMMA CommandsEndNoArm ==
  ASSUME \/ \E o \in Operators :
              CommandStep(o) \/ Crash(o) \/ \E action \in Actions : Begin(o, action)
         \/ \E u \in Units : LateLaunch(u)
         \/ LateInstall
  PROVE  NoArmEnds
<1>1. ASSUME NEW m, NEW s, NEW kind, marks' \subseteq marks \cup {<<s, kind>>}
      PROVE  NoArmEnds
  BY <1>1 DEF NoArmEnds
<1>2. ASSUME marks' = marks
      PROVE  NoArmEnds
  BY <1>2 DEF NoArmEnds
<1>3. ASSUME Installed PROVE NoArmEnds
  BY <1>3 DEF Installed, NoArmEnds
<1>4. ASSUME NEW u \in Units, Starts(u)
      PROVE  NoArmEnds
  BY <1>4 DEF Starts, NoArmEnds
<1>5. ASSUME NEW o \in Operators, CommandStep(o)
      PROVE  NoArmEnds
  <2>1. CASE Reserve(o) \/ ProbePhases(o) \/ ProbeNodes(o) \/ ProbeFails(o) \/ WriteOnce(o)
    BY <1>2, <2>1 DEF Reserve, ProbePhases, ProbeNodes, ProbeFails, WriteOnce
  <2>2. CASE Incoming(o)
    BY <1>1, <2>2 DEF Incoming
  <2>3. CASE Install(o)
    BY <1>2, <1>3, <2>3 DEF Install
  <2>4. CASE Verify(o)
    BY <1>1, <2>4 DEF Verify
  <2>5. CASE \E u \in Units : Launch(o, u) \/ LaunchFails(o, u)
    BY <1>2, <1>4, <2>5 DEF Launch, LaunchFails
  <2>6. CASE Launched(o)
    BY <1>1, <2>6 DEF Launched
  <2>7. QED
    BY <1>5, <2>1, <2>2, <2>3, <2>4, <2>5, <2>6 DEF CommandStep
<1>6. ASSUME NEW o \in Operators, Crash(o) \/ \E action \in Actions : Begin(o, action)
      PROVE  NoArmEnds
  BY <1>2, <1>6 DEF Crash, Begin
<1>7. ASSUME NEW u \in Units, LateLaunch(u)
      PROVE  NoArmEnds
  BY <1>2, <1>4, <1>7 DEF LateLaunch
<1>8. CASE LateInstall
  BY <1>3, <1>8 DEF LateInstall
<1>9. QED
  BY <1>5, <1>6, <1>7, <1>8

\* What is not a worker's step, nor the end of a node.
Elsewhere ==
  /\ UNCHANGED <<work, files>>
  /\ reduced' \subseteq Arms
  /\ spoils' \in 0..MaxSpoils
  /\ NoArmEnds \/ \E u \in Units, a \in Arms : XargsEnds(u, a)

LEMMA JobsNextCases ==
  ASSUME JInv, [JobsNext]_allVars
  PROVE  \/ Elsewhere
         \/ \E u \in Units : NodeGone(u)
         \/ \E j \in Plan : WorkStep(j) \/ WorkerFails(j) \/ WorkerKilled(j)
<1> USE DEF jobVars
<1>1. Jobs = Plan /\ reduced \subseteq Arms
  BY DEF Jobs, JInv, JobsTyped
<1>2. spoils \in 0..MaxSpoils /\ MaxSpoils \in Nat
  BY JobsAssumption DEF JInv, JobsTyped
<1>3. CASE UNCHANGED allVars
  BY <1>1, <1>2, <1>3 DEF allVars, vars, Elsewhere, NoArmEnds
<1>4. CASE /\ \/ \E o \in Operators :
                   CommandStep(o) \/ Crash(o) \/ \E action \in Actions : Begin(o, action)
              \/ \E u \in Units : LateLaunch(u)
              \/ LateInstall
           /\ UNCHANGED jobVars
  <2>1. NoArmEnds
    BY <1>4, CommandsEndNoArm
  <2>2. QED
    BY <1>1, <1>2, <1>4, <2>1 DEF Elsewhere
<1>5. ASSUME NEW s, NEW kind, Put(<<s, kind>>)
      PROVE  NoArmEnds
  BY <1>5 DEF Put, NoArmEnds
<1>6. ASSUME NEW u \in Units, JobsStep(u), ~\E j \in Jobs : j[1] = u /\ WorkStep(j)
      PROVE  Elsewhere
  <2>1. CASE NoRelease(u)
    <3>1. NoArmEnds
      BY <1>5, <2>1 DEF NoRelease, EnvironmentFails
    <3>2. QED
      BY <1>1, <1>2, <2>1, <3>1 DEF NoRelease, Elsewhere
  <2>2. CASE SupervisorEnds(u) /\ UNCHANGED jobVars
    <3>1. NoArmEnds
      BY <1>5, <2>2 DEF SupervisorEnds
    <3>2. QED
      BY <1>1, <1>2, <2>2, <3>1 DEF Elsewhere
  <2>3. ASSUME NEW a \in Arms, XargsEnds(u, a)
        PROVE  Elsewhere
    <3>1. UNCHANGED jobVars
      BY <2>3 DEF XargsEnds
    <3>2. QED
      BY <1>1, <1>2, <2>3, <3>1 DEF Elsewhere
  <2>4. QED
    BY <1>6, <2>1, <2>2, <2>3 DEF JobsStep
<1>7. CASE ReductionStep
  <2>1. CASE Analyse
    <3>1. NoArmEnds
      BY <1>5, <2>1 DEF Analyse, ReduceWrites
    <3>2. QED
      BY <1>1, <1>2, <2>1, <3>1 DEF Analyse, Elsewhere
  <2>2. CASE ReduceScriptEnds
    <3>1. NoArmEnds
      BY <1>5, <2>2 DEF ReduceScriptEnds, ReduceEnds
    <3>2. spoils' \in 0..MaxSpoils
      BY <1>2, <2>2 DEF ReduceScriptEnds, Spoil
    <3>3. QED
      BY <1>1, <2>2, <3>1, <3>2 DEF ReduceScriptEnds, Elsewhere
  <2>3. ASSUME NEW a \in Arms, ReduceArm(a)
        PROVE  Elsewhere
    BY <1>1, <1>2, <2>3 DEF ReduceArm, vars, Elsewhere, NoArmEnds
  <2>4. QED
    BY <1>7, <2>1, <2>2, <2>3 DEF ReductionStep
<1>8. QED
  BY <1>1, <1>3, <1>4, <1>6, <1>7 DEF JobsNext, JobsStep

-----------------------------------------------------------------------------
(* Every step preserves the invariant.                                     *)

LEMMA ElsewhereJInv ==
  ASSUME JInv, Elsewhere
  PROVE  JInv'
<1>1. work' = work /\ files' = files
  BY DEF Elsewhere
<1>2. JobsTyped'
  BY <1>1 DEF Elsewhere, JInv, JobsTyped
<1>3. ASSUME NEW j \in Plan
      PROVE  JobFits(j)'
  <2>1. JobFits(j)
    BY DEF JInv
  <2>2. QED
    BY <1>1, <2>1 DEF JobFits, File
<1>4. ASSUME NEW n \in Nodes, NEW a \in Arms
      PROVE  ArmFits(n, a)'
  <2>1. ArmFits(n, a)
    BY DEF JInv
  <2>2. CASE NoArmEnds
    BY <1>1, <2>1, <2>2 DEF NoArmEnds, ArmFits
  <2>3. ASSUME NEW u \in Units, NEW b \in Arms, XargsEnds(u, b)
        PROVE  ArmFits(n, a)'
    <3>1. CASE Succeeds(u, b) /\ u = n /\ b = a
      <4>1. \A j \in Plan : j[1] = n /\ j[2] = a => work[j] = "done"
        BY <3>1 DEF Succeeds, Pooled, Jobs, JInv, JobsTyped
      <4>2. QED
        BY <1>1, <4>1 DEF ArmFits
    <3>2. CASE ~(Succeeds(u, b) /\ u = n /\ b = a)
      <4>1. <<n, a, "complete">> \in marks' => <<n, a, "complete">> \in marks
        BY <2>3, <3>2 DEF XargsEnds, Put
      <4>2. QED
        BY <1>1, <2>1, <4>1 DEF ArmFits
    <3>3. QED
      BY <3>1, <3>2
  <2>4. QED
    BY <2>2, <2>3 DEF Elsewhere
<1>5. QED
  BY <1>2, <1>3, <1>4 DEF JInv

LEMMA NodeGoneJInv ==
  ASSUME JInv, NEW u \in Units, NodeGone(u)
  PROVE  JInv'
<1>1. /\ work \in [Plan -> Places] /\ Jobs = Plan
      /\ UNCHANGED <<files, reduced, spoils>> /\ marks' = marks
      /\ work' = [j \in Plan |-> IF j[1] = u /\ work[j] \in {"runs", "rows"} THEN "killed" ELSE work[j]]
  BY DEF NodeGone, NodeDies, Jobs, JInv, JobsTyped
<1>2. \A j \in Plan : work'[j] = work[j] \/ (work[j] \in {"runs", "rows"} /\ work'[j] = "killed")
  BY <1>1
<1>3. work' \in [Plan -> Places]
  BY <1>1 DEF Places
<1>4. JobsTyped'
  BY <1>1, <1>3 DEF JInv, JobsTyped
<1>5. ASSUME NEW j \in Plan
      PROVE  JobFits(j)'
  <2>1. JobFits(j)
    BY DEF JInv
  <2>2. QED
    BY <1>1, <1>2, <2>1 DEF JobFits, File
<1>6. ASSUME NEW n \in Nodes, NEW a \in Arms
      PROVE  ArmFits(n, a)'
  <2>1. ArmFits(n, a)
    BY DEF JInv
  <2>2. QED
    BY <1>1, <1>2, <2>1 DEF ArmFits
<1>7. QED
  BY <1>4, <1>5, <1>6 DEF JInv

LEMMA WorkerJInv ==
  ASSUME JInv, NEW j \in Plan, WorkStep(j) \/ WorkerFails(j) \/ WorkerKilled(j)
  PROVE  JInv'
<1>1. /\ Touches(j) /\ JobFits(j)' /\ JobsTyped'
      /\ marks' = marks /\ ~Ended(j[1], j[2])
  BY WorkerTouches DEF vars
<1>2. \A i \in Plan : JobFits(i)'
  BY <1>1, OthersFit
<1>3. ASSUME NEW n \in Nodes, NEW a \in Arms, <<n, a, "complete">> \in marks,
             NEW i \in Plan, i[1] = n, i[2] = a
      PROVE  work'[i] = "done"
  <2>1. i # j
    BY <1>1, <1>3 DEF Ended
  <2>2. work[i] = "done"
    BY <1>3 DEF JInv, ArmFits
  <2>3. QED
    BY <1>1, <2>1, <2>2, OthersFit
<1>4. \A n \in Nodes, a \in Arms : ArmFits(n, a)'
  BY <1>1, <1>3 DEF ArmFits
<1>5. QED
  BY <1>1, <1>2, <1>4 DEF JInv

THEOREM NextJInv == JInv /\ [JobsNext]_allVars => JInv'
BY JobsNextCases, ElsewhereJInv, NodeGoneJInv, WorkerJInv

THEOREM JobsInvariance == JobsSpec => []JInv
BY InitJInv, NextJInv, PTL DEF JobsSpec

-----------------------------------------------------------------------------
(* What the runs check.                                                    *)

\* Whatever happens to the workers, the variables keep their types.
THEOREM JobsTypeCorrect == JobsSpec => []JobsTypeOK
<1>1. JInv => JobsTypeOK
  BY DEF JInv, JobsTyped, JobsTypeOK, Jobs, Places
<1>2. QED
  BY <1>1, JobsInvariance, PTL

\* No worker finds the outputs of another: every group has one node, and one
\* directory entry per arm, however the groups and their costs are chosen.
THEOREM NoWorkerRefused == JobsSpec => []NoneRefused
<1>1. JInv => NoneRefused
  BY DEF JInv, JobsTyped, JobFits, NoneRefused, Jobs
<1>2. QED
  BY <1>1, JobsInvariance, PTL

\* A reduction that is launched finds all groups of all arms, and no worker of
\* a node still at work.
THEOREM ReductionHasAll == JobsSpec => []ReductionFindsAll
<1>1. JInv /\ GatesHold => ReductionFindsAll
  <2> SUFFICES ASSUME JInv, GatesHold, starts["reduce"] > 0
               PROVE  /\ \A a \in Arms : Reducible(a)
                      /\ \A j \in Jobs : j[1] \in Nodes => work[j] = "done"
    BY DEF ReductionFindsAll
  <2>1. \A n \in Nodes, a \in Arms : <<n, a, "complete">> \in marks
    BY DEF GatesHold, FullComplete
  <2>2. ASSUME NEW j \in Plan, j[1] \in Nodes
        PROVE  work[j] = "done"
    BY <2>1, <2>2, JobOfPlan DEF JInv, ArmFits
  <2>3. ASSUME NEW a \in Arms, NEW g \in Groups, NEW kind \in {"rows", "receipt"}
        PROVE  <<"full", a, g, kind>> \in files
    <3>1. PICK n \in Nodes : g \in GroupsOf[n]
      BY GroupsOfUnits
    <3> DEFINE j == <<n, a, g>>
    <3>2. j \in Plan /\ j[1] = n
      BY <3>1, JobIsPlanned
    <3>3. work[j] = "done"
      BY <2>2, <3>2
    <3>4. File(j, kind) \in files
      BY <3>2, <3>3 DEF JInv, JobFits
    <3>5. File(j, kind) = <<"full", a, g, kind>>
      BY AttemptAssumption DEF File
    <3>6. QED
      BY <3>4, <3>5
  <2>4. Jobs = Plan
    BY DEF JInv, JobsTyped, Jobs
  <2>5. QED
    BY <2>2, <2>3, <2>4 DEF Reducible
<1>2. Spec => []GatesHold
  BY GatesAreHeld
<1>3. JobsSpec => Spec
  BY JobsImplementAttempt DEF ImplementsAttempt
<1>4. QED
  BY <1>1, <1>2, <1>3, JobsInvariance, PTL
=============================================================================
