---------------------------- MODULE CausalCampaign ----------------------------
(***************************************************************************)
(* A campaign of the causal action program on the cluster: its phases are  *)
(* queued one at a time by upper_kara_causal_program_remote_submit_v1.py   *)
(* and worked off by upper_kara_causal_program_remote_worker_v1.py, or in  *)
(* its compact form by ..._worker_v2.py.                                   *)
(*                                                                         *)
(* An operator queues a phase after two inventories of the scheduler's     *)
(* tasks and the shared files; nothing is locked in between, and several   *)
(* operators may do so at once.  A task reads its inputs, works, and       *)
(* publishes its result under a name that must be free (os.link).  The     *)
(* scheduler, which is external, runs a task again when it takes its node  *)
(* for down, whether or not the first run is still alive.                  *)
(*                                                                         *)
(* What a file holds is told by who wrote it and from which inputs.        *)
(***************************************************************************)
EXTENDS Naturals, Sequences

CONSTANTS
  Operators,    \* processes of the submit script
  Variants,     \* whether the campaign is compact
  Loadouts, TrainShards, EvalShards,
  MaxUpsets,    \* bound: runs killed, errors of runs, live nodes taken for down
  MaxRepeats    \* bound: submissions of a phase that somebody has just queued

ASSUME CampaignAssumption ==
  /\ Variants \subseteq BOOLEAN
  /\ {MaxUpsets, MaxRepeats} \subseteq Nat

\* Everything that a phase works off, named by phase, loadout and shard; each is
\* also the name of the file that its task publishes.
Units ==
  ({"candidate"} \X Loadouts) \union ({"train"} \X Loadouts \X TrainShards)
    \union {<<"freeze">>} \union ({"eval"} \X EvalShards) \union {<<"summarize">>}

Phases == {"candidate", "train", "freeze", "eval", "summarize"}

\* The lanes of a training shard, a file of their own in a compact campaign.
Lanes(u) == <<"lanes", u[2], u[3]>>
Files == Units \union ({"lanes"} \X Loadouts \X TrainShards)

VARIABLES
  compact,   \* whether this campaign is compact
  files,     \* the shared files
  runs,      \* all runs of the task of a unit, in the order they were queued
  op,        \* what each operator is about to do
  upsets,    \* upsets that are left
  repeats,   \* repeated submissions that are left
  harmed     \* a run died between its two files, or ended with an error

vars == <<compact, files, runs, op, upsets, repeats, harmed>>

Absent == [kind |-> "absent", by |-> 0, from |-> <<>>]
Queued == [pc |-> "queued", tracked |-> TRUE, from |-> <<>>]
Idle == [pc |-> "idle", phase |-> "none"]

Init ==
  /\ compact \in Variants
  /\ files = [f \in Files |-> Absent]
  /\ runs = [u \in Units |-> <<>>]
  /\ op = [p \in Operators |-> Idle]
  /\ upsets = MaxUpsets /\ repeats = MaxRepeats
  /\ harmed = FALSE

There(f) == files[f].kind # "absent"

\* The phases of this campaign: candidates are a phase of compact ones only.
Order == IF compact THEN Phases ELSE Phases \ {"candidate"}

\* The files that each task reads and each phase publishes, in a full (FALSE) and
\* in a compact campaign.
InputsIn == [c \in BOOLEAN |-> [u \in Units |->
  {f \in Files :
     \/ u[1] = "train" /\ c /\ f = <<"candidate", u[2]>>
     \/ u[1] = "freeze" /\ f[1] \in {"train"} \union (IF c THEN {"candidate", "lanes"} ELSE {})
     \/ u[1] \in {"eval", "summarize"} /\ f = <<"freeze">>
     \/ u[1] = "summarize" /\ f[1] = "eval"}]]

OutputsIn == [c \in BOOLEAN |-> [phase \in Phases |->
  {f \in Files : f[1] = phase \/ (phase = "train" /\ c /\ f[1] = "lanes")}]]

Inputs(u) == InputsIn[compact][u]
Outputs(phase) == OutputsIn[compact][phase]

\* The inputs of u are there, none stands for an error or for no winner, and
\* held-out results are those of the winner.
Sound(u) ==
  \A f \in Inputs(u) :
    /\ files[f].kind = "good"
    /\ f[1] = "eval" => files[f].from[<<"freeze">>] = files[<<"freeze">>].by

----------------------------------------------------------------------------
\* The operator.

\* Mutant: tasks that failed are in the way of a new submission.
MutantOccupied(phase) ==
  \E u \in Units : \E i \in DOMAIN runs[u] : runs[u][i].tracked /\ u[1] = phase

\* The scheduler has a task, not a failed one, of the phase or whose command
\* names one of its outputs.
Occupied(phase) ==
  \E u \in Units : \E i \in DOMAIN runs[u] :
    /\ runs[u][i].tracked /\ runs[u][i].pc # "failed"
    /\ \/ u[1] = phase
       \/ phase = "candidate" /\ u[1] = "train"
       \/ phase = "freeze" /\ u[1] \in {"eval", "summarize"}

\* Mutant: the inputs are not asked for.
MutantUnprepared(phase) == TRUE

Prepared(phase) == \A u \in Units : u[1] = phase => Sound(u)

Vacant(phase) == \A f \in Outputs(phase) : ~There(f)

\* The inventory before the submission reads the tasks first and then the files.
\* The one taken before it has found nothing in the way either; since files stay
\* as they are, what it has found of them still holds when the tasks are read.
Plan(p, phase) ==
  /\ op[p].pc = "idle" /\ phase \in Order
  /\ ~Occupied(phase) /\ Prepared(phase) /\ Vacant(phase)
  /\ op' = [op EXCEPT ![p] = [pc |-> "files", phase |-> phase]]
  /\ UNCHANGED <<compact, files, runs, upsets, repeats, harmed>>

LookAtFiles(p) ==
  /\ op[p].pc = "files"
  /\ op' = [op EXCEPT ![p] = IF Prepared(op[p].phase) /\ Vacant(op[p].phase)
                             THEN [@ EXCEPT !.pc = "queue"] ELSE Idle]
  /\ UNCHANGED <<compact, files, runs, upsets, repeats, harmed>>

Repeated(p) == Occupied(op[p].phase) \/ ~Vacant(op[p].phase)

\* All tasks of the phase are queued in one transaction of the scheduler.
Submit(p) ==
  /\ op[p].pc = "queue"
  /\ Repeated(p) => repeats > 0
  /\ runs' = [u \in Units |-> IF u[1] = op[p].phase THEN Append(runs[u], Queued) ELSE runs[u]]
  /\ op' = [op EXCEPT ![p] = Idle]
  /\ repeats' = IF Repeated(p) THEN repeats - 1 ELSE repeats
  /\ UNCHANGED <<compact, files, upsets, harmed>>

\* The transaction fails: needed where the bound allows no repetition, as a
\* submission that fails is one that was not tried.
SubmitFails(p) ==
  /\ op[p].pc = "queue" /\ Repeated(p) /\ repeats = 0
  /\ op' = [op EXCEPT ![p] = Idle]
  /\ UNCHANGED <<compact, files, runs, upsets, repeats, harmed>>

----------------------------------------------------------------------------
\* A run i of the task of u.

At(u, i, pc) == i \in DOMAIN runs[u] /\ runs[u][i].pc = pc

\* A restored bundle is one of lanes and commit that belong together.
Readable(u) ==
  /\ Sound(u)
  /\ u[1] = "freeze" /\ compact =>
       \A t \in Units : t[1] = "train" => files[Lanes(t)].by = files[t].by

\* The file of an error that a run of the full form leaves where it can.
Fatal(u, i) == [files EXCEPT ![u] = [kind |-> "fatal", by |-> i, from |-> <<>>]]

\* A run ends with an exit code other than 0, and with it its task.
Fail(u, i) ==
  /\ runs' = [runs EXCEPT ![u][i].pc = "failed", ![u][i].from = <<>>]
  /\ files' = IF compact \/ There(u) THEN files ELSE Fatal(u, i)

\* The run reads its inputs, or fails if one is missing or unsound.
Begin(u, i) ==
  /\ At(u, i, "queued")
  /\ IF Readable(u)
     THEN /\ runs' = [runs EXCEPT ![u][i].pc = "running",
                                  ![u][i].from = [f \in Inputs(u) |-> files[f].by]]
          /\ UNCHANGED files
     ELSE Fail(u, i)
  /\ UNCHANGED <<compact, op, upsets, repeats, harmed>>

HasLanes(u) == compact /\ u[1] = "train"

\* What run i of u publishes.
Result(u, i, kind) == [kind |-> kind, by |-> i, from |-> runs[u][i].from]

\* Run i of u has only its lanes to publish next, or only its result.
LanesNext(u, i) == HasLanes(u) /\ At(u, i, "running")
ResultNext(u, i) == IF HasLanes(u) THEN At(u, i, "half") ELSE At(u, i, "running")

\* The name is free; before it publishes its lanes, a run finds the manifest to
\* be still the one it read.
MayPublish(u, i) ==
  IF LanesNext(u, i)
  THEN ~There(Lanes(u)) /\ \A f \in Inputs(u) : files[f].by = runs[u][i].from[f]
  ELSE ~There(u)

\* Mutant: lanes that are there already are left and the commit is added.
MutantPublishLanes(u, i) ==
  /\ LanesNext(u, i)
  /\ files' = IF There(Lanes(u)) THEN files
              ELSE [files EXCEPT ![Lanes(u)] = Result(u, i, "good")]
  /\ runs' = [runs EXCEPT ![u][i].pc = "half"]
  /\ UNCHANGED <<compact, op, upsets, repeats, harmed>>

\* A compact training run publishes its lanes before its commit, which tells
\* that the lanes are whole.
PublishLanes(u, i) ==
  /\ LanesNext(u, i) /\ MayPublish(u, i)
  /\ files' = [files EXCEPT ![Lanes(u)] = Result(u, i, "good")]
  /\ runs' = [runs EXCEPT ![u][i].pc = "half"]
  /\ UNCHANGED <<compact, op, upsets, repeats, harmed>>

\* Mutant: a result replaces what is there.
MutantPublish(u, i) ==
  /\ ResultNext(u, i)
  /\ \E kind \in {"good", "failed"} :
       /\ kind = "failed" => u[1] = "freeze"
       /\ files' = [files EXCEPT ![u] = Result(u, i, kind)]
  /\ runs' = [runs EXCEPT ![u][i].pc = "done", ![u][i].from = <<>>]
  /\ UNCHANGED <<compact, op, upsets, repeats, harmed>>

\* The result, whatever the status of its lanes; the freeze may find no winner.
Publish(u, i) ==
  /\ ResultNext(u, i) /\ MayPublish(u, i)
  /\ \E kind \in {"good", "failed"} :
       /\ kind = "failed" => u[1] = "freeze"
       /\ files' = [files EXCEPT ![u] = Result(u, i, kind)]
  /\ runs' = [runs EXCEPT ![u][i].pc = "done", ![u][i].from = <<>>]
  /\ UNCHANGED <<compact, op, upsets, repeats, harmed>>

\* A name is taken, or the manifest is another.
Refuse(u, i) ==
  /\ LanesNext(u, i) \/ ResultNext(u, i)
  /\ ~MayPublish(u, i)
  /\ Fail(u, i)
  /\ UNCHANGED <<compact, op, upsets, repeats, harmed>>

\* The run meets an error of its own, or its process is killed.
Err(u, i) ==
  /\ upsets > 0
  /\ At(u, i, "running") \/ At(u, i, "half")
  /\ \/ Fail(u, i)
     \/ runs' = [runs EXCEPT ![u][i].pc = "failed", ![u][i].from = <<>>] /\ UNCHANGED files
  /\ upsets' = upsets - 1 /\ harmed' = TRUE
  /\ UNCHANGED <<compact, op, repeats>>

\* The node goes down, and the run with it.
Kill(u, i) ==
  /\ upsets > 0
  /\ At(u, i, "running") \/ At(u, i, "half")
  /\ runs' = [runs EXCEPT ![u][i].pc = "dead", ![u][i].from = <<>>]
  /\ upsets' = upsets - 1 /\ harmed' = (harmed \/ At(u, i, "half"))
  /\ UNCHANGED <<compact, files, op, repeats>>

\* The scheduler gives the task to another node.
Reroute(u, i) ==
  /\ i \in DOMAIN runs[u] /\ runs[u][i].tracked
  /\ runs' = [runs EXCEPT ![u] = Append([@ EXCEPT ![i].tracked = FALSE], Queued)]
  /\ UNCHANGED <<compact, files, op, repeats, harmed>>

RerouteDead(u, i) == At(u, i, "dead") /\ Reroute(u, i) /\ UNCHANGED upsets

\* The node was only out of reach, and the first run goes on.
RerouteLive(u, i) ==
  /\ upsets > 0
  /\ At(u, i, "running") \/ At(u, i, "half")
  /\ Reroute(u, i)
  /\ upsets' = upsets - 1

----------------------------------------------------------------------------
Operate(p) == LookAtFiles(p) \/ Submit(p) \/ SubmitFails(p)

Work(u, i) ==
  \/ Begin(u, i) \/ PublishLanes(u, i) \/ Publish(u, i) \/ Refuse(u, i)
  \/ RerouteDead(u, i)

Runs(u) == DOMAIN runs[u]

Next ==
  \/ \E p \in Operators : (\E phase \in Phases : Plan(p, phase)) \/ Operate(p)
  \/ \E u \in Units : \E i \in Runs(u) :
       Work(u, i) \/ Err(u, i) \/ Kill(u, i) \/ RerouteLive(u, i)

\* One operator queues the phases that have nothing yet, again and again; what
\* is queued runs, and what died is run again.  The others may stop anywhere.
Keeper == CHOOSE p \in Operators : TRUE

Fairness ==
  /\ WF_vars(\E phase \in Phases : Plan(Keeper, phase))
  /\ WF_vars(Operate(Keeper))
  /\ WF_vars(\E u \in Units : \E i \in Runs(u) : Work(u, i))

Spec == Init /\ [][Next]_vars
FairSpec == Spec /\ Fairness

----------------------------------------------------------------------------
\* Every variable has its type.
TypeOK ==
  /\ compact \in Variants
  /\ \A f \in Files :
       /\ files[f].kind \in {"absent", "good", "failed", "fatal"} /\ files[f].by \in Nat
       /\ DOMAIN files[f].from \subseteq Files
  /\ \A u \in Units : \A i \in Runs(u) :
       /\ runs[u][i].pc \in {"queued", "running", "half", "done", "failed", "dead"}
       /\ runs[u][i].tracked \in BOOLEAN
       /\ DOMAIN runs[u][i].from \subseteq Files
  /\ op \in [Operators -> [pc : {"idle", "files", "queue"},
                           phase : Phases \union {"none"}]]
  /\ upsets \in 0..MaxUpsets /\ repeats \in 0..MaxRepeats /\ harmed \in BOOLEAN

\* The commit of a training shard and the lanes beside it are of one run,
\* although any number of runs of the shard may write them at once, one of them
\* its lanes and another its commit ("sidecar then terminal commit").
BundlesMatch ==
  compact => \A u \in Units :
    u[1] = "train" /\ There(u) =>
      files[Lanes(u)].by = files[u].by /\ files[Lanes(u)].from = files[u].from

\* What a result was computed from is still there and what it was: no late or
\* repeated task replaces the family, the shards or the winner that later
\* results rest on ("A duplicate candidate task therefore cannot silently
\* replace the family consumed by any training shard", worker_v2:171).
RestsOnInputs ==
  \A u \in Units : files[u].kind \in {"good", "failed"} =>
    \A f \in Inputs(u) : files[f].kind = "good" /\ files[f].by = files[u].from[f]

\* Somebody may still publish the result of u.
Live(u) ==
  \E i \in Runs(u) :
    \/ runs[u][i].pc \in {"queued", "running", "half"}
    \/ runs[u][i].pc = "dead" /\ runs[u][i].tracked

\* The campaign can never be finished: an error took the place of a result, or a
\* result is missing whose phase is not queued again since some of it is there.
Blocked ==
  \E u \in Units :
    \/ files[u].kind = "fatal"
    \/ ~There(u) /\ ~Live(u) /\ ~Vacant(u[1])

\* Repeated submissions, runs that are killed before they publish, and nodes that
\* are taken for down while their runs go on never block a campaign; only a
\* run that ends with an error, or between its two files, does.
OnlyHarmBlocks == Blocked => harmed

\* The campaign ends: with a summary, without a winner, or blocked.  In
\* particular, what dies is run again and a failed phase that left nothing can
\* be queued again.
Ends == []<>(There(<<"summarize">>) \/ files[<<"freeze">>].kind = "failed" \/ Blocked)

============================================================================
