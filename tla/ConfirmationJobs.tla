-------------------------- MODULE ConfirmationJobs --------------------------
(***************************************************************************)
(* What the supervisors of a remote confirmation attempt run: for each arm *)
(* an xargs pool of workers, one per paired group of the node, that leave  *)
(* rows and a receipt in the arm's output directory on the shared disk     *)
(* (o2o_dps/fury_multiseed_hpc_{dispatch,worker}_v3.py and the scripts of  *)
(* fury_cat2_horizon_remote_orchestrator_v1.py), and the reducers that     *)
(* read these files (fury_multiseed_hpc_reducer_v3.py).  RemoteAttempt     *)
(* knows of all this only the marker that each arm of a unit ends with.    *)
(***************************************************************************)
EXTENDS RemoteAttempt, Sequences

CONSTANTS
  Groups,      \* the paired groups of an arm, numbered in the order of their names
  Cost,        \* estimated_cost_units of each
  NodeOrder,   \* EXPECTED_NODES in their order
  Pool,        \* workers_per_arm
  MaxSpoils    \* bound: workers that fail or are killed, reducers that fail

-----------------------------------------------------------------------------
(* The assignment of the groups to the nodes: the dearest first, each to   *)
(* the node with the least load, then the fewest groups, then the first.   *)

Before(g, h) == Cost[g] > Cost[h] \/ (Cost[g] = Cost[h] /\ g < h)

NodeNames == {NodeOrder[i] : i \in DOMAIN NodeOrder}

Lighter(a, i, j) ==
  LET n == NodeOrder[i]  m == NodeOrder[j]
  IN  \/ a.load[n] < a.load[m]
      \/ a.load[n] = a.load[m] /\ Cardinality(a.has[n]) < Cardinality(a.has[m])
      \/ a.load[n] = a.load[m] /\ Cardinality(a.has[n]) = Cardinality(a.has[m]) /\ i < j

Assign(a, g) ==
  LET n == NodeOrder[CHOOSE i \in DOMAIN NodeOrder :
                       \A j \in DOMAIN NodeOrder \ {i} : Lighter(a, i, j)]
  IN  [a EXCEPT !.has[n] = @ \cup {g}, !.load[n] = @ + Cost[g]]

\* The assignment of the groups in S: that of all but the last, then this one.
Assigned[S \in SUBSET Groups] ==
  IF S = {}
  THEN [has |-> [n \in NodeNames |-> {}], load |-> [n \in NodeNames |-> 0]]
  ELSE LET last == CHOOSE g \in S : \A h \in S \ {g} : Before(h, g)
       IN  Assign(Assigned[S \ {last}], last)

LptGroups == Assigned[Groups].has

\* Mutant: the next node starts with the last group of the one before it.
GroupsOfOverlap ==
  LET first == LptGroups[NodeOrder[1]]
  IN  [u \in NodeNames \cup {"smoke"} |->
         IF u = "smoke" THEN {CHOOSE g \in first : \A h \in first : g <= h}
         ELSE IF u = NodeOrder[1] THEN first
         ELSE LptGroups[u] \cup {CHOOSE g \in first : \A h \in first : g >= h}]

\* The groups a unit works on.  The smoke takes the first group of the first node.
GroupsOf ==
  LET first == LptGroups[NodeOrder[1]]
  IN  [u \in NodeNames \cup {"smoke"} |->
         IF u = "smoke" THEN {CHOOSE g \in first : \A h \in first : g <= h} ELSE LptGroups[u]]

\* The attempt is prepared only when every node has work for its whole pool.
ASSUME JobsAssumption ==
  /\ Groups \subseteq Nat /\ IsFiniteSet(Groups) /\ Cost \in [Groups -> Nat \ {0}]
  /\ NodeOrder \in Seq(Nodes) /\ NodeNames = Nodes /\ Len(NodeOrder) = Cardinality(Nodes)
  /\ Pool \in Nat \ {0} /\ MaxSpoils \in Nat
  /\ \A n \in Nodes : Cardinality(GroupsOf[n]) >= Pool

-----------------------------------------------------------------------------
VARIABLES
  work,     \* where the worker of each <<unit, arm, group>> of the plan is
  files,    \* rows and receipts in the output directories
  reduced,  \* arms whose reducer has finished
  spoils    \* what is left of MaxSpoils

jobVars == <<work, files, reduced, spoils>>
allVars == <<vars, jobVars>>

JobsInit ==
  /\ Init
  /\ work = [j \in UNION {{u} \X Arms \X GroupsOf[u] : u \in DOMAIN GroupsOf} |-> "waiting"]
  /\ files = {} /\ reduced = {} /\ spoils = MaxSpoils

Jobs == DOMAIN work
Pooled(u, a) == {j \in Jobs : j[1] = u /\ j[2] = a}
In(u, a, places) == {j \in Pooled(u, a) : work[j] \in places}

PoolOf(u) == IF u = "smoke" THEN 1 ELSE Pool

\* One output directory for the nodes; the smoke has one of its own.
File(j, kind) == <<IF j[1] = "smoke" THEN "smoke" ELSE "full", j[2], j[3], kind>>

\* The supervisor is there, and the job of the arm has not ended.
Working(j) == j[1] \in up /\ ~Ended(j[1], j[2])

\* xargs starts the next worker.
WorkerStarts(j) ==
  /\ Working(j) /\ work[j] = "waiting"
  /\ Cardinality(In(j[1], j[2], {"runs", "rows"})) < PoolOf(j[1])
  /\ work' = [work EXCEPT ![j] = "runs"]
  /\ UNCHANGED <<vars, files, reduced, spoils>>

Exists(j) == {File(j, "rows"), File(j, "receipt")} \cap files # {}

\* The lanes are run and their rows written, unless the group has outputs.
WorkerWrites(j) ==
  /\ Working(j) /\ work[j] = "runs"
  /\ IF Exists(j)
     THEN work' = [work EXCEPT ![j] = "refused"] /\ UNCHANGED files
     ELSE work' = [work EXCEPT ![j] = "rows"] /\ files' = files \cup {File(j, "rows")}
  /\ UNCHANGED <<vars, reduced, spoils>>

\* Then the receipt.
WorkerEnds(j) ==
  /\ Working(j) /\ work[j] = "rows"
  /\ work' = [work EXCEPT ![j] = "done"] /\ files' = files \cup {File(j, "receipt")}
  /\ UNCHANGED <<vars, reduced, spoils>>

Spoil == spoils > 0 /\ spoils' = spoils - 1

\* A worker fails: in its checks, in a lane, or writing; rows whose receipt
\* cannot be written are removed.
WorkerFails(j) ==
  /\ Working(j) /\ work[j] \in {"runs", "rows"} /\ Spoil
  /\ work' = [work EXCEPT ![j] = "failed"]
  /\ files' = IF work[j] = "rows" THEN files \ {File(j, "rows")} ELSE files
  /\ UNCHANGED <<vars, reduced>>

\* A worker is killed and leaves what it has written, at the latest after its
\* receipt.
WorkerKilled(j) ==
  /\ Working(j) /\ work[j] \in {"runs", "rows"} /\ Spoil
  /\ work' = [work EXCEPT ![j] = "killed"]
  /\ files' \in {files} \cup (IF work[j] = "rows" THEN {files \cup {File(j, "receipt")}} ELSE {})
  /\ UNCHANGED <<vars, reduced>>

\* xargs ends when its workers have; one that was killed may stop it before
\* the others have started.
PoolEmpty(u, a) ==
  /\ In(u, a, {"runs", "rows"}) = {}
  /\ In(u, a, {"waiting"}) = {} \/ In(u, a, {"killed"}) # {}

\* Mutant: the files alone are looked at, and one of each kind will do.
SucceedsAny(u, a) ==
  \A kind \in {"rows", "receipt"} : \E j \in Pooled(u, a) : File(j, kind) \in files

\* Every worker has ended well, and every file is there.
Succeeds(u, a) ==
  \A j \in Pooled(u, a) : work[j] = "done" /\ {File(j, "rows"), File(j, "receipt")} \subseteq files

\* Mutant: an arm's failure is marked as that of its unit.
XargsEndsInUnit(u, a) ==
  /\ u \in up /\ ~Ended(u, a) /\ PoolEmpty(u, a)
  /\ Put(IF Succeeds(u, a) THEN <<u, a, "complete">> ELSE <<u, "failed">>)
  /\ UNCHANGED <<local, op, up, inflight, starts, faults, jobVars>>

XargsEnds(u, a) ==
  /\ u \in up /\ ~Ended(u, a) /\ PoolEmpty(u, a)
  /\ Put(<<u, a, IF Succeeds(u, a) THEN "complete" ELSE "failed">>)
  /\ UNCHANGED <<local, op, up, inflight, starts, faults, jobVars>>

\* The release directory is gone when the script starts.
NoRelease(u) ==
  /\ EnvironmentFails(u)
  /\ IF u = "reduce" THEN reduced = {} ELSE \A j \in Jobs : j[1] = u => work[j] = "waiting"
  /\ UNCHANGED jobVars

\* A node goes down with its workers.
NodeGone(u) ==
  /\ NodeDies(u)
  /\ work' = [j \in Jobs |-> IF j[1] = u /\ work[j] \in {"runs", "rows"} THEN "killed" ELSE work[j]]
  /\ UNCHANGED <<files, reduced, spoils>>

-----------------------------------------------------------------------------
(* The reduction.                                                          *)

NodesComplete == \A n \in Nodes : Has(marks, n, "complete") /\ ~Has(marks, n, "failed")

\* Every group of the arm has its receipt and its rows.
Reducible(a) == \A g \in Groups, kind \in {"rows", "receipt"} : <<"full", a, g, kind>> \in files

ReduceArm(a) ==
  /\ "reduce" \in up /\ NodesComplete
  /\ a \notin reduced /\ Reducible(a)
  /\ reduced' = reduced \cup {a}
  /\ UNCHANGED <<vars, work, files, spoils>>

Analyse == ReduceWrites /\ reduced = Arms /\ UNCHANGED jobVars

\* The script ends with the analysis, where a check fails, or where a reducer does.
ReduceScriptEnds ==
  /\ ReduceEnds
  /\ \/ Has(marks', "reduce", "complete") /\ UNCHANGED spoils
     \/ /\ Has(marks', "reduce", "failed")
        /\ IF NodesComplete /\ \A a \in Arms : Reducible(a) THEN Spoil ELSE UNCHANGED spoils
  /\ UNCHANGED <<work, files, reduced>>

-----------------------------------------------------------------------------
WorkStep(j) == WorkerStarts(j) \/ WorkerWrites(j) \/ WorkerEnds(j)

JobsStep(u) ==
  \/ NoRelease(u)
  \/ SupervisorEnds(u) /\ UNCHANGED jobVars
  \/ u # "reduce" /\ \E a \in Arms : XargsEnds(u, a)
  \/ \E j \in Jobs : j[1] = u /\ WorkStep(j)

ReductionStep == Analyse \/ ReduceScriptEnds \/ \E a \in Arms : ReduceArm(a)

JobsNext ==
  \/ /\ \/ \E o \in Operators :
             CommandStep(o) \/ Crash(o) \/ \E action \in Actions : Begin(o, action)
        \/ \E u \in Units : LateLaunch(u)
        \/ LateInstall
     /\ UNCHANGED jobVars
  \/ \E u \in Units : JobsStep(u) \/ NodeGone(u)
  \/ \E j \in Jobs : WorkerFails(j) \/ WorkerKilled(j)
  \/ ReductionStep

\* Commands, scripts and workers run to their end.  Nobody has to start a
\* command, and nothing has to go wrong.
JobsSpec ==
  /\ JobsInit /\ [][JobsNext]_allVars
  /\ \A o \in Operators : WF_vars(CommandStep(o) /\ UNCHANGED jobVars)
  /\ \A u \in Units : WF_allVars(JobsStep(u))
  /\ WF_allVars(ReductionStep)

-----------------------------------------------------------------------------
(* Properties.                                                             *)

JobsTypeOK ==
  /\ \A j \in Jobs :
       work[j] \in {"waiting", "runs", "rows", "done", "failed", "refused", "killed"}
  /\ files \subseteq {"smoke", "full"} \X Arms \X Groups \X {"rows", "receipt"}
  /\ reduced \subseteq Arms
  /\ spoils \in 0..MaxSpoils

\* Every paired group is worked on once: no worker finds the outputs of
\* another ("group output already exists; inspect it before retrying"),
\* whatever is launched twice or arrives late.
NoneRefused == \A j \in Jobs : work[j] # "refused"

\* When the reduction is launched, nothing writes the outputs any more and
\* every group of every arm is there: its reducers never fail for a file that
\* is missing or comes late.
ReductionFindsAll ==
  starts["reduce"] > 0 =>
    /\ \A a \in Arms : Reducible(a)
    /\ \A j \in Jobs : j[1] \in Nodes => work[j] = "done"

\* With these jobs the attempt is one that RemoteAttempt describes.
ImplementsAttempt == Spec

Undisturbed == faults["node"] = MaxFaults["node"] /\ faults["command"] = MaxFaults["command"]

\* No phase runs for ever, whatever calls and workers are lost, unless a
\* command is killed or a node dies: the attempt comes to rest, and with a
\* worker lost it rests as a failure, for all to see.
ComesToRest ==
  []<>(\/ ~Undisturbed
       \/ /\ Status \notin {"SMOKE", "FULL_DISPATCH", "REDUCTION"}
          /\ (\E j \in Jobs : work[j] \in {"failed", "killed"}) => Status = "FAILED")
=============================================================================
