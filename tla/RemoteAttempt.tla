---------------------------- MODULE RemoteAttempt ----------------------------
(***************************************************************************)
(* One attempt of a remote confirmation run                                *)
(* (o2o_dps/fury_cat2_horizon_remote_orchestrator_v1.py): commands on the  *)
(* workstation stage it, launch the smoke, the supervisors of the nodes    *)
(* and the reduction, each through a transport whose replies may be lost;  *)
(* what they know of one another are write-once receipts beside the plan   *)
(* and marker files on the nodes' shared disk.                             *)
(***************************************************************************)
EXTENDS Naturals, FiniteSets

CONSTANTS
  Operators,   \* command processes that may run at the same time
  Nodes,       \* EXPECTED_NODES
  Arms,        \* the arms of the plan
  MaxFaults    \* bounds: calls or replies lost, commands killed, nodes down

Units   == {"smoke", "reduce"} \cup Nodes     \* what has a supervisor
Actions == {"stage", "smoke-launch", "full-launch", "reduce-launch"}

ASSUME AttemptAssumption ==
  /\ IsFiniteSet(Nodes) /\ Nodes # {}
  /\ Nodes \cap {"smoke", "reduce", "stage", "full", "analysis"} = {}
  /\ MaxFaults \in [{"call", "command", "node"} -> Nat]

\* A marker file: of a unit or a phase, or of one arm of a unit.
Kinds   == {"reserved", "prepared", "lock", "running", "complete", "failed"}
Markers == ((Units \cup {"stage", "full", "analysis"}) \X Kinds)
             \cup (Units \X Arms \X {"complete", "failed"})

VARIABLES
  marks,    \* the marker files
  local,    \* receipt of each action: absent, a success, or a failure
  op,       \* what each command process is doing
  up,       \* units whose supervisor is alive
  inflight, \* installation and launches given up here that may yet arrive there
  starts,   \* how often each unit was started, and the attempt installed
  faults    \* what is left of the bounds

vars == <<marks, local, op, up, inflight, starts, faults>>

Idle == [pc |-> "idle", action |-> "stage", seen |-> {}, todo |-> {}, bad |-> FALSE]

Init ==
  /\ marks = {} /\ up = {} /\ inflight = {} /\ faults = MaxFaults
  /\ local = [a \in Actions |-> "none"]
  /\ op = [o \in Operators |-> Idle]
  /\ starts = [u \in Units \cup {"stage"} |-> 0]

-----------------------------------------------------------------------------
(* The status derived from receipts and markers.                           *)

Has(m, unit, kind) == <<unit, kind>> \in m

SmokeComplete(m) ==
  Has(m, "smoke", "complete") /\ \A a \in Arms : <<"smoke", a, "complete">> \in m

FullComplete(m) ==
  \A n \in Nodes : Has(m, n, "complete") /\ \A a \in Arms : <<n, a, "complete">> \in m

ReductionComplete(m) ==
  Has(m, "reduce", "complete") /\ Has(m, "analysis", "complete") /\ FullComplete(m)

\* The failure markers that the probe asks for: that of a partial launch of
\* the nodes, "full", is not among them.
ProbedFailure(m) ==
  \/ \E u \in Units \cup {"stage"} : Has(m, u, "failed")
  \/ \E u \in {"smoke"} \cup Nodes, a \in Arms : <<u, a, "failed">> \in m

LocalFailure == \E a \in Actions : local[a] = "FAILED"

Phase(m, failedHere) ==
  CASE failedHere \/ ProbedFailure(m)          -> "FAILED"
    [] OTHER ->
  CASE ReductionComplete(m)                    -> "REDUCTION_COMPLETE"
    [] OTHER ->
  CASE Has(m, "reduce", "running")             -> "REDUCTION"
    [] OTHER ->
  CASE FullComplete(m)                         -> "FULL_COMPLETE_READY_FOR_REDUCTION"
    [] OTHER ->
  CASE \E n \in Nodes : Has(m, n, "running")   -> "FULL_DISPATCH"
    [] OTHER ->
  CASE SmokeComplete(m)                        -> "SMOKE_COMPLETE_READY_FOR_FULL"
    [] OTHER ->
  CASE Has(m, "smoke", "running")              -> "SMOKE"
    [] OTHER                                   -> "STAGED"

Required(action) ==
  CASE action = "smoke-launch"  -> "STAGED"
    [] action = "full-launch"   -> "SMOKE_COMPLETE_READY_FOR_FULL"
    [] action = "reduce-launch" -> "FULL_COMPLETE_READY_FOR_REDUCTION"

UnitsOf(action) ==
  CASE action = "smoke-launch"  -> {"smoke"}
    [] action = "full-launch"   -> Nodes
    [] action = "reduce-launch" -> {"reduce"}

\* Where a failed launch leaves its failure marker.
StateOf(action) ==
  CASE action = "smoke-launch"  -> "smoke"
    [] action = "full-launch"   -> "full"
    [] action = "reduce-launch" -> "reduce"

-----------------------------------------------------------------------------
(* The commands.                                                           *)

At(o, pc) == op[o].pc = pc
Goto(o, pc) == op' = [op EXCEPT ![o].pc = pc]
Finish(o) == op' = [op EXCEPT ![o] = Idle]
Fail(o) == op' = [op EXCEPT ![o].pc = "receipt", ![o].bad = TRUE]

Fault(kind) == faults[kind] > 0 /\ faults' = [faults EXCEPT ![kind] = @ - 1]
Lost == Fault("call")

\* A command goes on only if its own receipt is absent, and after the stage
\* only if that succeeded and no receipt records a failure.
Begin(o, action) ==
  /\ At(o, "idle")
  /\ local[action] = "none"
  /\ action # "stage" => local["stage"] = "ok" /\ ~LocalFailure
  /\ op' = [op EXCEPT ![o] = [Idle EXCEPT !.pc = IF action = "stage" THEN "reserve" ELSE "probe",
                                          !.action = action]]
  /\ UNCHANGED <<marks, local, up, inflight, starts, faults>>

\* The reservation: the attempt is looked for first, then the incoming
\* directory is made.
Reserve(o) ==
  /\ At(o, "reserve")
  /\ \/ ~Has(marks, "stage", "prepared") /\ Goto(o, "incoming") /\ UNCHANGED faults
     \/ Has(marks, "stage", "prepared") /\ Fail(o) /\ UNCHANGED faults
     \/ Lost /\ Fail(o)
  /\ UNCHANGED <<marks, local, up, inflight, starts>>

Incoming(o) ==
  /\ At(o, "incoming")
  /\ \/ /\ ~Has(marks, "stage", "reserved")
        /\ marks' = marks \cup {<<"stage", "reserved">>}
        /\ \/ Goto(o, "install") /\ UNCHANGED faults
           \/ Lost /\ Fail(o)
     \/ Has(marks, "stage", "reserved") /\ Fail(o) /\ UNCHANGED <<marks, faults>>
  /\ UNCHANGED <<local, up, inflight, starts>>

\* The attempt appears by one rename, and the incoming directory goes after it.
Installed ==
  /\ ~Has(marks, "stage", "prepared")
  /\ marks' = (marks \ {<<"stage", "reserved">>}) \cup {<<"stage", "prepared">>}
  /\ starts' = [starts EXCEPT !["stage"] = @ + 1]

\* The copies and the installation.  One that times out here may go on there.
Install(o) ==
  /\ At(o, "install")
  /\ \/ /\ Installed
        /\ \/ Goto(o, "verify") /\ UNCHANGED faults
           \/ Lost /\ Fail(o)
        /\ UNCHANGED inflight
     \/ /\ Has(marks, "stage", "prepared") /\ Fail(o)
        /\ UNCHANGED <<marks, starts, inflight, faults>>
     \/ /\ Lost /\ Fail(o)
        /\ inflight' \in {inflight, inflight \cup {"stage"}}
        /\ UNCHANGED <<marks, starts>>
  /\ UNCHANGED <<local, up>>

LateInstall ==
  /\ "stage" \in inflight /\ inflight' = inflight \ {"stage"}
  /\ Installed
  /\ UNCHANGED <<local, op, up, faults>>

Verify(o) ==
  /\ At(o, "verify")
  /\ \/ Goto(o, "receipt") /\ UNCHANGED <<marks, faults>>
     \/ Lost /\ Fail(o) /\ marks' \in {marks, marks \cup {<<"stage", "failed">>}}
  /\ UNCHANGED <<local, up, inflight, starts>>

\* The probe reads the markers of the phases first, those of nodes and arms
\* later, and is not atomic.
Early == {"stage", "smoke", "reduce", "analysis"} \X Kinds

ProbePhases(o) ==
  /\ At(o, "probe")
  /\ op' = [op EXCEPT ![o].pc = "probeNodes", ![o].seen = marks \cap Early]
  /\ UNCHANGED <<marks, local, up, inflight, starts, faults>>

\* The probe fails: the command raises and leaves no receipt.
ProbeFails(o) ==
  /\ At(o, "probe") /\ Lost /\ Finish(o)
  /\ UNCHANGED <<marks, local, up, inflight, starts>>

\* Mutant: a launch asks only that the attempt is staged.
ProbePreparedOnly(o) ==
  /\ At(o, "probeNodes")
  /\ LET m == op[o].seen \cup (marks \ Early)
     IN  IF Has(m, "stage", "prepared")
         THEN op' = [op EXCEPT ![o].pc = "launch", ![o].seen = {},
                               ![o].todo = UnitsOf(op[o].action)]
         ELSE Finish(o)
  /\ UNCHANGED <<marks, local, up, inflight, starts, faults>>

ProbeNodes(o) ==
  /\ At(o, "probeNodes")
  /\ LET m == op[o].seen \cup (marks \ Early)
     IN  IF Has(m, "stage", "prepared") /\ Phase(m, FALSE) = Required(op[o].action)
         THEN op' = [op EXCEPT ![o].pc = "launch", ![o].seen = {},
                               ![o].todo = UnitsOf(op[o].action)]
         ELSE Finish(o)
  /\ UNCHANGED <<marks, local, up, inflight, starts, faults>>

\* Mutant: the last node launched decides the outcome.
LaunchDoneLast(o, u, bad) ==
  op' = [op EXCEPT ![o].todo = @ \ {u}, ![o].bad = bad]

\* The launch command on the node of a unit: mkdir of the launch lock, the
\* running marker, the supervisor.  A lost reply looks like a failure.
LaunchDone(o, u, bad) ==
  op' = [op EXCEPT ![o].todo = @ \ {u}, ![o].bad = @ \/ bad]

\* Mutant: mkdir -p of the launch lock.
StartsUnlocked(u) ==
  /\ marks' = marks \cup {<<u, "lock">>, <<u, "running">>}
  /\ up' = up \cup {u}
  /\ starts' = [starts EXCEPT ![u] = @ + 1]

Starts(u) ==
  /\ ~Has(marks, u, "lock")
  /\ marks' = marks \cup {<<u, "lock">>, <<u, "running">>}
  /\ up' = up \cup {u}
  /\ starts' = [starts EXCEPT ![u] = @ + 1]

Launch(o, u) ==
  /\ At(o, "launch") /\ u \in op[o].todo
  /\ Starts(u)
  /\ \/ LaunchDone(o, u, FALSE) /\ UNCHANGED faults
     \/ LaunchDone(o, u, TRUE) /\ Lost
  /\ UNCHANGED <<local, inflight>>

LaunchFails(o, u) ==
  /\ At(o, "launch") /\ u \in op[o].todo
  /\ \/ Has(marks, u, "lock") /\ UNCHANGED <<inflight, faults>>
     \/ Lost /\ inflight' \in {inflight, inflight \cup {u}}
  /\ LaunchDone(o, u, TRUE)
  /\ UNCHANGED <<marks, local, up, starts>>

LateLaunch(u) ==
  /\ u \in inflight /\ inflight' = inflight \ {u}
  /\ \/ Starts(u)
     \/ Has(marks, u, "lock") /\ UNCHANGED <<marks, up, starts>>
  /\ UNCHANGED <<local, op, faults>>

\* After a failed launch, a best-effort failure marker.
Launched(o) ==
  /\ At(o, "launch") /\ op[o].todo = {}
  /\ Goto(o, "receipt")
  /\ \/ ~op[o].bad /\ UNCHANGED <<marks, faults>>
     \/ op[o].bad /\ marks' = marks \cup {<<StateOf(op[o].action), "failed">>} /\ UNCHANGED faults
     \/ op[o].bad /\ Lost /\ UNCHANGED marks
  /\ UNCHANGED <<local, up, inflight, starts>>

\* Mutant: a later receipt replaces the first.
WriteAgain(o) ==
  /\ At(o, "receipt")
  /\ local' = [local EXCEPT ![op[o].action] = IF op[o].bad THEN "FAILED" ELSE "ok"]
  /\ Finish(o)
  /\ UNCHANGED <<marks, up, inflight, starts, faults>>

\* Mutant: a command that failed leaves no receipt.
WriteSuccessOnly(o) ==
  /\ At(o, "receipt")
  /\ local' = [local EXCEPT ![op[o].action] = IF @ # "none" \/ op[o].bad THEN @ ELSE "ok"]
  /\ Finish(o)
  /\ UNCHANGED <<marks, up, inflight, starts, faults>>

\* O_CREAT | O_EXCL: the first receipt of an action stays.
WriteOnce(o) ==
  /\ At(o, "receipt")
  /\ local' = [local EXCEPT ![op[o].action] =
       IF @ # "none" THEN @ ELSE IF op[o].bad THEN "FAILED" ELSE "ok"]
  /\ Finish(o)
  /\ UNCHANGED <<marks, up, inflight, starts, faults>>

\* What a killed command has sent may arrive after it.
Sent(o) ==
  CASE At(o, "launch") -> op[o].todo [] At(o, "install") -> {"stage"} [] OTHER -> {}

Crash(o) ==
  /\ ~At(o, "idle")
  /\ Fault("command") /\ Finish(o)
  /\ \E late \in SUBSET Sent(o) : inflight' = inflight \cup late
  /\ UNCHANGED <<marks, local, up, starts>>

-----------------------------------------------------------------------------
(* The supervisors on the nodes.                                           *)

Ended(u, a) == <<u, a, "complete">> \in marks \/ <<u, a, "failed">> \in marks

Put(marker) == marks' = marks \cup {marker}
Down(u) == up' = up \ {u}

\* The release directory is gone before any job starts.
EnvironmentFails(u) ==
  /\ u \in up /\ \A a \in Arms : ~Ended(u, a)
  /\ ~Has(marks, "analysis", "complete")
  /\ Put(<<u, "failed">>) /\ Down(u)
  /\ UNCHANGED <<local, op, inflight, starts, faults>>

JobEnds(u, a) ==
  /\ u \in up \ {"reduce"} /\ ~Ended(u, a)
  /\ \E outcome \in {"complete", "failed"} : Put(<<u, a, outcome>>)
  /\ UNCHANGED <<local, op, up, inflight, starts, faults>>

SupervisorEnds(u) ==
  /\ u \in up \ {"reduce"} /\ \A a \in Arms : Ended(u, a)
  /\ Put(<<u, IF \A a \in Arms : <<u, a, "complete">> \in marks
              THEN "complete" ELSE "failed">>)
  /\ Down(u)
  /\ UNCHANGED <<local, op, inflight, starts, faults>>

\* The reduction checks the nodes' markers before it writes the analysis.
ReduceWrites ==
  /\ "reduce" \in up
  /\ \A n \in Nodes : Has(marks, n, "complete") /\ ~Has(marks, n, "failed")
  /\ Put(<<"analysis", "complete">>)
  /\ UNCHANGED <<local, op, up, inflight, starts, faults>>

\* Mutant: the exit status of the reduction is not looked at.
ReduceEndsComplete ==
  /\ "reduce" \in up
  /\ Put(<<"reduce", "complete">>)
  /\ Down("reduce")
  /\ UNCHANGED <<local, op, inflight, starts, faults>>

ReduceEnds ==
  /\ "reduce" \in up
  /\ \/ Has(marks, "analysis", "complete") /\ Put(<<"reduce", "complete">>)
     \/ Put(<<"reduce", "failed">>)
  /\ Down("reduce")
  /\ UNCHANGED <<local, op, inflight, starts, faults>>

NodeDies(u) ==
  /\ u \in up
  /\ Fault("node") /\ Down(u)
  /\ UNCHANGED <<marks, local, op, inflight, starts>>

-----------------------------------------------------------------------------
CommandStep(o) ==
  \/ Reserve(o) \/ Incoming(o) \/ Install(o) \/ Verify(o)
  \/ ProbePhases(o) \/ ProbeNodes(o) \/ ProbeFails(o)
  \/ \E u \in Units : Launch(o, u) \/ LaunchFails(o, u)
  \/ Launched(o) \/ WriteOnce(o)

SupervisorStep(u) ==
  EnvironmentFails(u) \/ SupervisorEnds(u) \/ \E a \in Arms : JobEnds(u, a)

ReduceStep == ReduceWrites \/ ReduceEnds

Next ==
  \/ \E o \in Operators :
       CommandStep(o) \/ Crash(o) \/ \E action \in Actions : Begin(o, action)
  \/ \E u \in Units : SupervisorStep(u) \/ NodeDies(u) \/ LateLaunch(u)
  \/ LateInstall
  \/ ReduceStep

Spec == Init /\ [][Next]_vars

-----------------------------------------------------------------------------
(* Properties.                                                             *)

TypeOK ==
  /\ marks \subseteq Markers
  /\ local \in [Actions -> {"none", "ok", "FAILED"}]
  /\ op \in [Operators -> [pc : {"idle", "reserve", "incoming", "install", "verify", "probe",
                                 "probeNodes", "launch", "receipt"},
                           action : Actions, seen : SUBSET Early,
                           todo : SUBSET Units, bad : BOOLEAN]]
  /\ up \subseteq Units
  /\ inflight \subseteq Units \cup {"stage"}
  /\ starts \in [Units \cup {"stage"} -> Nat]
  /\ faults \in [{"call", "command", "node"} -> Nat]

\* However many commands race, are repeated after a lost reply or a crash,
\* arrive after they were given up, or act on a status that is out of date,
\* the attempt is installed once and "exactly one supervisor" at most is
\* launched per unit.
StartedOnce == \A u \in Units \cup {"stage"} : starts[u] <= 1

\* The smoke gates the nodes and the nodes gate the reduction, although the
\* status that a launch depends on was read marker by marker before it.
GatesHold ==
  /\ \A u \in Units : starts[u] > 0 => local["stage"] = "ok" /\ starts["stage"] = 1
  /\ \A n \in Nodes : starts[n] > 0 => SmokeComplete(marks)
  /\ starts["reduce"] > 0 => FullComplete(marks)

\* A receipt of success means that the command's supervisors were launched,
\* all of them, also when another command held some of the launch locks.
ReceiptMeansStarted ==
  \A a \in Actions \ {"stage"} : local[a] = "ok" => \A u \in UnitsOf(a) : starts[u] = 1

Status == IF local["stage"] = "none" THEN "LOCAL_PREPARED_NOT_STAGED"
                                     ELSE Phase(marks, LocalFailure)

\* A failed attempt never becomes anything else ("No command resumes,
\* replaces, or removes a prior attempt"), also when its supervisors go on.
FailedIsFinal == [][Status = "FAILED" => Status' = "FAILED"]_vars

\* When no launch command is under way or was killed, nodes of which only
\* some were started show as a failed attempt.
PartialLaunchShows ==
  /\ faults["command"] = MaxFaults["command"]
  /\ \A o \in Operators : At(o, "idle") \/ op[o].action # "full-launch"
  /\ \E n \in Nodes : starts[n] > 0
  /\ \E n \in Nodes : starts[n] = 0
  => Status = "FAILED"

\* Between commands every failure marker shows: the status is derived "from
\* preserved markers".
MarkedFailureShows ==
  /\ local["stage"] # "none" /\ \A o \in Operators : At(o, "idle")
  /\ \E u \in Units \cup {"stage", "full"} : Has(marks, u, "failed")
  => Status = "FAILED"
=============================================================================
