------------------------- MODULE CausalCampaignProofs -------------------------
(***************************************************************************)
(* Proofs about CausalCampaign, full and compact, for any operators,       *)
(* loadouts, shards and upsets.                                            *)
(***************************************************************************)
EXTENDS CausalCampaign, TLAPS

-----------------------------------------------------------------------------
(* The inductive invariant.                                                *)

\* What a run has read its inputs from, while it holds it.
Origins(u) == {<<>>} \union [Inputs(u) -> Nat]

RunType(u) ==
  [pc : {"queued", "running", "half", "done", "failed", "dead"},
   tracked : BOOLEAN, from : Origins(u)]

\* The types that the proofs need.
FilesTyped ==
  /\ files = [f \in Files |-> files[f]]
  /\ \A f \in Files :
       /\ files[f].kind \in {"absent", "good", "failed", "fatal"} /\ files[f].by \in Nat
       /\ DOMAIN files[f].from \subseteq Files

Typed ==
  /\ compact \in Variants /\ compact \in BOOLEAN
  /\ FilesTyped
  /\ runs = [u \in Units |-> runs[u]]
  /\ \A u \in Units : runs[u] \in Seq(RunType(u))
  /\ op \in [Operators -> [pc : {"idle", "files", "queue"},
                           phase : Phases \union {"none"}]]
  /\ upsets \in 0..MaxUpsets /\ repeats \in 0..MaxRepeats /\ harmed \in BOOLEAN

\* What run i of u has read is still what its inputs are; a run that is half
\* done wrote the lanes; and one that failed, although nothing was harmed, found
\* the work of another run in its way.
RunFits(u, i) ==
  /\ runs[u][i].pc \in {"running", "half"} =>
       /\ runs[u][i].from \in [Inputs(u) -> Nat]
       /\ \A f \in Inputs(u) : files[f].by = runs[u][i].from[f]
  /\ runs[u][i].pc = "half" =>
       /\ HasLanes(u) /\ There(Lanes(u))
       /\ files[Lanes(u)].by = i /\ files[Lanes(u)].from = runs[u][i].from
  /\ runs[u][i].pc = "done" => There(u)
  /\ runs[u][i].pc = "failed" =>
       harmed \/ There(u) \/ (HasLanes(u) /\ There(Lanes(u)))

\* A result rests on its inputs, and a commit lies beside lanes of its own run.
\* Lanes without a commit are those of a run that is half done.
FilesFit(u) ==
  /\ There(u) => runs[u] # <<>>
  /\ files[u].kind = "fatal" => harmed
  /\ files[u].kind \in {"good", "failed"} =>
       \A f \in Inputs(u) : files[f].kind = "good" /\ files[f].by = files[u].from[f]
  /\ HasLanes(u) /\ There(u) =>
       /\ There(Lanes(u))
       /\ files[Lanes(u)].by = files[u].by /\ files[Lanes(u)].from = files[u].from
  /\ HasLanes(u) /\ There(Lanes(u)) =>
       /\ runs[u] # <<>>
       /\ There(u) \/ harmed \/ At(u, files[Lanes(u)].by, "half")

\* What was queued has what it needs, and the scheduler knows its last run.
UnitFits(u) ==
  /\ runs[u] # <<>> => Sound(u) /\ runs[u][Len(runs[u])].tracked
  /\ \A i \in DOMAIN runs[u] : RunFits(u, i)
  /\ FilesFit(u)

\* The units of a phase are queued together.
PhasesFit == \A u, t \in Units : u[1] = t[1] /\ runs[u] # <<>> => runs[t] # <<>>

\* An operator queues a phase that has what it needs.
OperatorsFit == \A p \in Operators : op[p].pc = "queue" => Prepared(op[p].phase)

IInv == Typed /\ (\A u \in Units : UnitFits(u)) /\ PhasesFit /\ OperatorsFit
-----------------------------------------------------------------------------
(* Units and files.                                                        *)

LEMMA UnitsAre ==
  ASSUME NEW u \in Units
  PROVE  /\ u \in Files /\ u[1] \in Phases
         /\ u[1] = "train" => /\ u = <<"train", u[2], u[3]>>
                              /\ u[2] \in Loadouts /\ u[3] \in TrainShards
BY DEF Units, Files, Phases

\* Every training shard has lanes of its own.
LEMMA LanesAre ==
  ASSUME NEW u \in Units, u[1] = "train"
  PROVE  /\ Lanes(u) \in Files /\ Lanes(u) \notin Units
         /\ \A t \in Units : t[1] = "train" /\ Lanes(t) = Lanes(u) => t = u
<1>1. Lanes(u) \in Files /\ Lanes(u)[1] = "lanes"
  BY UnitsAre DEF Files, Lanes
<1>2. Lanes(u) \notin Units
  BY <1>1, UnitsAre DEF Phases
<1>3. ASSUME NEW t \in Units, t[1] = "train", Lanes(t) = Lanes(u)
      PROVE  t = u
  <2>1. t = <<"train", t[2], t[3]>> /\ u = <<"train", u[2], u[3]>>
    BY <1>3, UnitsAre
  <2>2. t[2] = u[2] /\ t[3] = u[3]
    BY <1>3 DEF Lanes
  <2>3. QED
    BY <2>1, <2>2
<1>4. QED
  BY <1>1, <1>2, <1>3

LEMMA InputsAre ==
  ASSUME compact \in BOOLEAN, NEW u \in Units
  PROVE  /\ Inputs(u) \subseteq Files
         /\ \A f \in Inputs(u) : f[1] = "eval" => <<"freeze">> \in Inputs(u)
         /\ u[1] = "freeze" /\ compact => \A t \in Units : t[1] = "train" => t \in Inputs(u)
<1>1. \A f : f \in Inputs(u) <=>
        /\ f \in Files
        /\ \/ u[1] = "train" /\ compact /\ f = <<"candidate", u[2]>>
           \/ u[1] = "freeze" /\ f[1] \in {"train"} \union
                                          (IF compact THEN {"candidate", "lanes"} ELSE {})
           \/ u[1] \in {"eval", "summarize"} /\ f = <<"freeze">>
           \/ u[1] = "summarize" /\ f[1] = "eval"
  BY DEF Inputs, InputsIn
<1>2. <<"freeze">> \in Files
  BY DEF Files, Units
<1>3. ASSUME NEW f \in Inputs(u), f[1] = "eval"
      PROVE  <<"freeze">> \in Inputs(u)
  <2>1. f # <<"candidate", u[2]>> /\ f # <<"freeze">>
    BY <1>3
  <2>2. QED
    BY <1>1, <1>2, <1>3, <2>1
<1>4. u[1] = "freeze" /\ compact => \A t \in Units : t[1] = "train" => t \in Inputs(u)
  BY <1>1, UnitsAre
<1>5. QED
  BY <1>1, <1>3, <1>4

LEMMA OutputsAre ==
  ASSUME compact \in BOOLEAN, NEW phase \in Phases, NEW f \in Outputs(phase)
  PROVE  \/ f \in Units /\ f[1] = phase
         \/ \E t \in Units : t[1] = phase /\ HasLanes(t) /\ f = Lanes(t)
<1>1. f \in Files /\ (f[1] = phase \/ (phase = "train" /\ compact /\ f[1] = "lanes"))
  BY DEF Outputs, OutputsIn
<1>2. CASE f \in Units
  <2>1. f[1] # "lanes"
    BY <1>2, UnitsAre DEF Phases
  <2>2. QED
    BY <1>1, <1>2, <2>1
<1>3. CASE f \notin Units
  <2>1. PICK l \in Loadouts, s \in TrainShards : f = <<"lanes", l, s>>
    BY <1>1, <1>3 DEF Files
  <2>2. phase = "train" /\ compact
    BY <1>1, <2>1 DEF Phases
  <2>3. PICK t \in Units : t = <<"train", l, s>>
    BY DEF Units
  <2>4. t[1] = "train" /\ t[2] = l /\ t[3] = s
    BY <2>3
  <2>5. QED
    BY <2>1, <2>2, <2>4 DEF Lanes, HasLanes
<1>4. QED
  BY <1>2, <1>3
-----------------------------------------------------------------------------
(* What is there stays.                                                    *)

Kept == \A f \in Files : There(f) => files'[f] = files[f]

\* Inputs that are sound stay what they are.
LEMMA SoundStays ==
  ASSUME Typed, compact' = compact, Kept, NEW u \in Units, Sound(u)
  PROVE  /\ Sound(u)' /\ Inputs(u)' = Inputs(u)
         /\ \A f \in Inputs(u) : files'[f] = files[f] /\ files[f].kind = "good"
<1>1. Inputs(u)' = Inputs(u)
  BY DEF Inputs
<1>2. \A f \in Inputs(u) : f \in Files /\ (f[1] = "eval" => <<"freeze">> \in Inputs(u))
  BY InputsAre DEF Typed
<1>3. \A f \in Inputs(u) : files'[f] = files[f] /\ files[f].kind = "good"
  BY <1>2 DEF Sound, Kept, There
<1>4. Sound(u)'
  BY <1>1, <1>2, <1>3 DEF Sound
<1>5. QED
  BY <1>1, <1>3, <1>4

\* A run that does not move fits on.
LEMMA RunStays ==
  ASSUME IInv, NEW u \in Units, NEW i \in DOMAIN runs[u], compact' = compact, Kept,
         runs'[u][i].pc = runs[u][i].pc, runs'[u][i].from = runs[u][i].from,
         harmed => harmed'
  PROVE  RunFits(u, i)'
<1>1. RunFits(u, i) /\ Sound(u) /\ Typed
  <2>1. runs[u] # <<>>
    OBVIOUS
  <2>2. QED
    BY <2>1 DEF IInv, UnitFits
<1>2. Inputs(u)' = Inputs(u) /\ \A f \in Inputs(u) : files'[f] = files[f]
  BY <1>1, SoundStays
<1>3. HasLanes(u)' = HasLanes(u) /\ Lanes(u)' = Lanes(u)
  BY DEF HasLanes, Lanes
<1>4. HasLanes(u) => Lanes(u) \in Files
  BY LanesAre DEF HasLanes
<1>5. There(u) => There(u)' /\ files'[u] = files[u]
  BY UnitsAre DEF Kept, There
<1>6. HasLanes(u) /\ There(Lanes(u)) =>
        There(Lanes(u))' /\ files'[Lanes(u)] = files[Lanes(u)]
  BY <1>3, <1>4 DEF Kept, There
<1>7. QED
  BY <1>1, <1>2, <1>3, <1>5, <1>6 DEF RunFits

\* Only runs and files of u change: everything else fits on.
LEMMA UnitStep ==
  ASSUME IInv, NEW u \in Units, runs[u] # <<>>,
         NEW s \in Seq(RunType(u)), s # <<>>, runs' = [runs EXCEPT ![u] = s],
         UNCHANGED <<compact, op>>, FilesTyped', Kept,
         \A f \in Files : f # u /\ (HasLanes(u) => f # Lanes(u)) => files'[f] = files[f],
         upsets' \in 0..MaxUpsets, repeats' \in 0..MaxRepeats,
         harmed' \in BOOLEAN, harmed => harmed',
         UnitFits(u)'
  PROVE  IInv'
<1>1. Typed /\ runs = [t \in Units |-> runs[t]]
  BY DEF IInv, Typed
<1>2. /\ runs'[u] = s /\ runs' = [t \in Units |-> runs'[t]]
      /\ \A t \in Units : t # u => runs'[t] = runs[t]
  BY <1>1
<1>3. \A t : RunType(t)' = RunType(t)
  BY DEF RunType, Origins, Inputs
<1>4. Typed'
  <2>1. \A t \in Units : runs'[t] \in Seq(RunType(t))
    BY <1>1, <1>2 DEF Typed
  <2>2. QED
    BY <1>1, <1>2, <1>3, <2>1 DEF Typed
<1>5. ASSUME NEW t \in Units, t # u
      PROVE  UnitFits(t)'
  <2>1. UnitFits(t) /\ runs'[t] = runs[t]
    BY <1>2, <1>5 DEF IInv
  <2>2. t \in Files /\ files'[t] = files[t]
    BY <1>5, UnitsAre, LanesAre DEF HasLanes
  <2>3. HasLanes(t)' = HasLanes(t) /\ Lanes(t)' = Lanes(t)
    BY DEF HasLanes, Lanes
  <2>4. HasLanes(t) => files'[Lanes(t)] = files[Lanes(t)]
    BY <1>5, LanesAre DEF HasLanes
  <2>5. runs[t] # <<>> => Sound(t)'
    BY <1>1, <2>1, SoundStays DEF UnitFits
  <2>6. \A i \in DOMAIN runs[t] : RunFits(t, i)'
    BY <2>1, RunStays
  <2>7. FilesFit(t)'
    <3>1. CASE runs[t] = <<>>
      <4>1. ~There(t) /\ (HasLanes(t) => ~There(Lanes(t)))
        BY <2>1, <3>1 DEF UnitFits, FilesFit
      <4>2. QED
        BY <2>2, <2>3, <2>4, <4>1 DEF FilesFit, There
    <3>2. CASE runs[t] # <<>>
      <4>1. Inputs(t)' = Inputs(t) /\ \A f \in Inputs(t) : files'[f] = files[f]
        BY <1>1, <2>1, <3>2, SoundStays DEF UnitFits
      <4>2. QED
        BY <2>1, <2>2, <2>3, <2>4, <4>1 DEF UnitFits, FilesFit, There, At
    <3>3. QED
      BY <3>1, <3>2
  <2>8. QED
    BY <2>1, <2>5, <2>6, <2>7 DEF UnitFits
<1>6. PhasesFit'
  <2>1. \A t \in Units : runs'[t] # <<>> <=> runs[t] # <<>>
    BY <1>2
  <2>2. QED
    BY <2>1 DEF IInv, PhasesFit
<1>7. OperatorsFit'
  <2>1. \A t \in Units : Sound(t) => Sound(t)'
    BY <1>1, SoundStays
  <2>2. QED
    BY <2>1 DEF IInv, OperatorsFit, Prepared
<1>8. QED
  BY <1>4, <1>5, <1>6, <1>7 DEF IInv
-----------------------------------------------------------------------------
(* A step of one run.                                                      *)

\* Run i of u, as it is.
LEMMA RunsAre ==
  ASSUME IInv, NEW u \in Units, NEW i \in DOMAIN runs[u]
  PROVE  /\ runs[u] \in Seq(RunType(u)) /\ runs[u] # <<>>
         /\ runs[u][i] \in RunType(u) /\ runs[u][i].from \in Origins(u)
         /\ i \in 1..Len(runs[u]) /\ i \in Nat
         /\ Sound(u) /\ RunFits(u, i) /\ FilesFit(u)
<1>1. runs[u] \in Seq(RunType(u)) /\ UnitFits(u) /\ runs[u] # <<>>
  BY DEF IInv, Typed
<1>2. runs[u][i] \in RunType(u)
  BY <1>1
<1>3. QED
  BY <1>1, <1>2 DEF UnitFits, RunType

RunMoves(u, i, pc, from) ==
  \/ runs' = [runs EXCEPT ![u][i].pc = pc, ![u][i].from = from]
  \/ runs' = [runs EXCEPT ![u][i].pc = pc] /\ from = runs[u][i].from

LEMMA MoveResult ==
  ASSUME IInv, NEW u \in Units, NEW i \in DOMAIN runs[u],
         NEW pc \in {"queued", "running", "half", "done", "failed", "dead"},
         NEW from \in Origins(u),
         RunMoves(u, i, pc, from)
  PROVE  /\ \E s \in Seq(RunType(u)) :
              /\ s # <<>> /\ runs' = [runs EXCEPT ![u] = s]
         /\ DOMAIN runs'[u] = DOMAIN runs[u] /\ Len(runs'[u]) = Len(runs[u])
         /\ runs'[u] # <<>>
         /\ runs'[u][i].pc = pc /\ runs'[u][i].from = from
         /\ runs'[u][i].tracked = runs[u][i].tracked
         /\ \A j \in DOMAIN runs[u] : j # i => runs'[u][j] = runs[u][j]
<1>1. /\ runs = [t \in Units |-> runs[t]] /\ runs[u] \in Seq(RunType(u))
      /\ runs[u] # <<>> /\ runs[u][i] \in RunType(u)
  BY RunsAre DEF IInv, Typed
<1>2. PICK x : x = [runs[u][i] EXCEPT !.pc = pc, !.from = from]
  OBVIOUS
<1>3. x \in RunType(u) /\ x.pc = pc /\ x.from = from /\ x.tracked = runs[u][i].tracked
  BY <1>1, <1>2 DEF RunType
<1>4. PICK s : s = [runs[u] EXCEPT ![i] = x]
  OBVIOUS
<1>5. /\ s \in Seq(RunType(u)) /\ s # <<>> /\ DOMAIN s = DOMAIN runs[u] /\ Len(s) = Len(runs[u])
      /\ s[i] = x /\ \A j \in DOMAIN runs[u] : j # i => s[j] = runs[u][j]
  BY <1>1, <1>3, <1>4
<1>6. runs' = [runs EXCEPT ![u] = s]
  <2>1. CASE runs' = [runs EXCEPT ![u][i].pc = pc, ![u][i].from = from]
    BY <1>1, <1>2, <1>4, <2>1
  <2>2. CASE runs' = [runs EXCEPT ![u][i].pc = pc] /\ from = runs[u][i].from
    <3>1. x = [runs[u][i] EXCEPT !.pc = pc]
      BY <1>1, <1>2, <2>2 DEF RunType
    <3>2. QED
      BY <1>1, <1>4, <2>2, <3>1
  <2>3. QED
    BY <2>1, <2>2 DEF RunMoves
<1>7. runs'[u] = s
  BY <1>1, <1>6
<1>8. QED
  BY <1>3, <1>5, <1>6, <1>7

\* Run i of u moves on.
LEMMA MoveStep ==
  ASSUME IInv, NEW u \in Units, NEW i \in DOMAIN runs[u],
         NEW pc \in {"queued", "running", "half", "done", "failed", "dead"},
         NEW from \in Origins(u),
         RunMoves(u, i, pc, from),
         UNCHANGED <<compact, op, repeats>>, FilesTyped', Kept,
         \A f \in Files : f # u /\ (HasLanes(u) => f # Lanes(u)) => files'[f] = files[f],
         upsets' \in 0..MaxUpsets, harmed' \in BOOLEAN, harmed => harmed',
         RunFits(u, i)', FilesFit(u)'
  PROVE  IInv'
<1>1. PICK s \in Seq(RunType(u)) : s # <<>> /\ runs' = [runs EXCEPT ![u] = s]
  BY MoveResult
<1>2. /\ DOMAIN runs'[u] = DOMAIN runs[u] /\ Len(runs'[u]) = Len(runs[u])
      /\ runs'[u][i].tracked = runs[u][i].tracked
      /\ \A j \in DOMAIN runs[u] : j # i => runs'[u][j] = runs[u][j]
  BY MoveResult
<1>3. runs[u] # <<>> /\ Sound(u) /\ runs[u][Len(runs[u])].tracked /\ Typed
  BY RunsAre DEF IInv, UnitFits
<1>4. Sound(u)'
  BY <1>3, SoundStays
<1>5. runs'[u][Len(runs'[u])].tracked
  <2>1. Len(runs[u]) \in DOMAIN runs[u]
    BY <1>3, RunsAre
  <2>2. QED
    BY <1>2, <1>3, <2>1
<1>6. \A j \in DOMAIN runs'[u] : RunFits(u, j)'
  <2>1. ASSUME NEW j \in DOMAIN runs[u]
        PROVE  RunFits(u, j)'
    <3>1. CASE j = i
      BY <3>1
    <3>2. CASE j # i
      BY <1>2, <3>2, RunStays
    <3>3. QED
      BY <3>1, <3>2
  <2>2. QED
    BY <1>2, <2>1
<1>7. UnitFits(u)'
  BY <1>4, <1>5, <1>6 DEF UnitFits
<1>8. repeats' \in 0..MaxRepeats
  BY <1>3 DEF Typed
<1>9. QED
  BY <1>1, <1>3, <1>7, <1>8, UnitStep

\* The files of u fit on when they stay, unless a run that is half done ends.
LEMMA FilesStay ==
  ASSUME IInv, NEW u \in Units, NEW i \in DOMAIN runs[u],
         UNCHANGED <<compact, files>>, runs'[u] # <<>>, harmed => harmed',
         \A j \in DOMAIN runs[u] : j # i => j \in DOMAIN runs'[u] /\ runs'[u][j].pc = runs[u][j].pc,
         runs[u][i].pc # "half" \/ At(u, i, "half")' \/ There(u) \/ harmed'
  PROVE  FilesFit(u)' /\ FilesTyped' /\ Kept
<1>1. FilesFit(u) /\ Sound(u) /\ Typed
  BY RunsAre DEF IInv
<1>2. Inputs(u)' = Inputs(u) /\ HasLanes(u)' = HasLanes(u) /\ Lanes(u)' = Lanes(u)
  BY DEF Inputs, HasLanes, Lanes
<1>3. HasLanes(u) /\ There(Lanes(u)) =>
        There(u) \/ harmed' \/ At(u, files[Lanes(u)].by, "half")'
  BY <1>1 DEF FilesFit, At
<1>4. FilesFit(u)'
  BY <1>1, <1>2, <1>3 DEF FilesFit, There
<1>5. QED
  BY <1>1, <1>4 DEF Typed, FilesTyped, Kept
\* What was queued can read its inputs whenever it starts.
LEMMA AlwaysReadable ==
  ASSUME IInv, NEW u \in Units, runs[u] # <<>>
  PROVE  Readable(u)
<1>1. Sound(u) /\ compact \in BOOLEAN
  BY DEF IInv, UnitFits, Typed
<1>2. ASSUME u[1] = "freeze", compact, NEW t \in Units, t[1] = "train"
      PROVE  files[Lanes(t)].by = files[t].by
  <2>1. t \in Inputs(u)
    BY <1>1, <1>2, InputsAre
  <2>2. There(t)
    BY <1>1, <2>1 DEF Sound, There
  <2>3. QED
    BY <1>2, <2>2 DEF IInv, UnitFits, FilesFit, HasLanes
<1>3. QED
  BY <1>1, <1>2 DEF Readable

LEMMA BeginKeepsIInv ==
  ASSUME IInv, NEW u \in Units, NEW i \in DOMAIN runs[u], Begin(u, i)
  PROVE  IInv'
<1> DEFINE read == [f \in Inputs(u) |-> files[f].by]
<1>1. Readable(u) /\ Typed /\ Sound(u)
  BY RunsAre, AlwaysReadable DEF IInv
<1>2. /\ runs[u][i].pc = "queued"
      /\ runs' = [runs EXCEPT ![u][i].pc = "running", ![u][i].from = read]
      /\ UNCHANGED <<compact, files, op, upsets, repeats, harmed>>
  BY <1>1 DEF Begin, At
<1>3. read \in [Inputs(u) -> Nat] /\ read \in Origins(u)
  <2>1. \A f \in Inputs(u) : f \in Files /\ files[f].by \in Nat
    BY <1>1, InputsAre DEF Typed, FilesTyped
  <2>2. QED
    BY <2>1 DEF Origins
<1> HIDE DEF read
<1>4. RunMoves(u, i, "running", read)
  BY <1>2 DEF RunMoves
<1>5. /\ DOMAIN runs'[u] = DOMAIN runs[u] /\ runs'[u] # <<>>
      /\ runs'[u][i].pc = "running" /\ runs'[u][i].from = read
      /\ \A j \in DOMAIN runs[u] : j # i => runs'[u][j] = runs[u][j]
  BY <1>3, <1>4, MoveResult
<1>6. FilesFit(u)' /\ FilesTyped' /\ Kept
  BY <1>2, <1>5, FilesStay
<1>7. RunFits(u, i)'
  <2>1. Inputs(u)' = Inputs(u)
    BY <1>2 DEF Inputs
  <2>2. \A f \in Inputs(u) : read[f] = files[f].by
    BY DEF read
  <2>3. QED
    BY <1>2, <1>3, <1>5, <2>1, <2>2 DEF RunFits
<1>8. upsets' \in 0..MaxUpsets /\ harmed' \in BOOLEAN
  BY <1>1, <1>2 DEF Typed
<1>9. QED
  BY <1>2, <1>3, <1>4, <1>6, <1>7, <1>8, MoveStep

\* What a run holds that has read its inputs.
LEMMA HoldsInputs ==
  ASSUME IInv, NEW u \in Units, NEW i \in DOMAIN runs[u],
         runs[u][i].pc \in {"running", "half"}
  PROVE  /\ runs[u][i].from \in [Inputs(u) -> Nat] /\ Inputs(u) \subseteq Files
         /\ \A f \in Inputs(u) : files[f].by = runs[u][i].from[f] /\ files[f].kind = "good"
BY RunsAre, InputsAre DEF RunFits, Sound, IInv, Typed

Results == {"good", "failed"}
Writes(g, u, i, kind) == files' = [files EXCEPT ![g] = Result(u, i, kind)]

\* What a run publishes under a free name.
LEMMA PublishResult ==
  ASSUME IInv, NEW u \in Units, NEW i \in DOMAIN runs[u],
         DOMAIN runs[u][i].from \subseteq Files,
         NEW g \in Files, ~There(g), NEW kind \in Results,
         Writes(g, u, i, kind)
  PROVE  /\ FilesTyped' /\ Kept
         /\ files'[g].kind = kind /\ files'[g].by = i /\ files'[g].from = runs[u][i].from
         /\ \A f \in Files : f # g => files'[f] = files[f]
<1>1. Typed /\ files = [f \in Files |-> files[f]] /\ i \in Nat
  BY RunsAre DEF IInv, Typed, FilesTyped
<1>2. /\ files'[g] = Result(u, i, kind) /\ files' = [f \in Files |-> files'[f]]
      /\ \A f \in Files : f # g => files'[f] = files[f]
  BY <1>1 DEF Writes
<1>3. files'[g].kind = kind /\ files'[g].by = i /\ files'[g].from = runs[u][i].from
  BY <1>2 DEF Result
<1>4. DOMAIN files'[g].from \subseteq Files
  BY <1>3
<1>5. FilesTyped'
  <2>1. ASSUME NEW f \in Files
        PROVE  /\ files'[f].kind \in {"absent", "good", "failed", "fatal"} /\ files'[f].by \in Nat
               /\ DOMAIN files'[f].from \subseteq Files
    <3>1. CASE f = g
      BY <1>1, <1>3, <1>4, <3>1 DEF Results
    <3>2. CASE f # g
      BY <1>1, <1>2, <3>2 DEF Typed, FilesTyped
    <3>3. QED
      BY <3>1, <3>2
  <2>2. QED
    BY <1>2, <2>1 DEF FilesTyped
<1>6. QED
  BY <1>2, <1>3, <1>5 DEF Kept, There, Results

LEMMA PublishLanesKeepsIInv ==
  ASSUME IInv, NEW u \in Units, NEW i \in DOMAIN runs[u], PublishLanes(u, i)
  PROVE  IInv'
<1> DEFINE from == runs[u][i].from
           g == Lanes(u)
<1>1. /\ HasLanes(u) /\ runs[u][i].pc = "running" /\ ~There(g)
      /\ files' = [files EXCEPT ![g] = Result(u, i, "good")]
      /\ runs' = [runs EXCEPT ![u][i].pc = "half"]
      /\ UNCHANGED <<compact, op, upsets, repeats, harmed>>
  BY DEF PublishLanes, MayPublish, LanesNext, At
<1>2. g \in Files /\ u \in Files /\ g # u
  BY <1>1, LanesAre, UnitsAre DEF HasLanes
<1>3. /\ from \in Origins(u) /\ Typed /\ FilesFit(u) /\ RunFits(u, i) /\ Sound(u)
      /\ runs[u] # <<>>
  BY RunsAre DEF IInv
<1>4. RunMoves(u, i, "half", from)
  BY <1>1 DEF RunMoves
<1>5. /\ DOMAIN runs'[u] = DOMAIN runs[u] /\ runs'[u] # <<>>
      /\ runs'[u][i].pc = "half" /\ runs'[u][i].from = from
  BY <1>3, <1>4, MoveResult
<1>6. /\ FilesTyped' /\ Kept
      /\ files'[g].kind = "good" /\ files'[g].by = i /\ files'[g].from = from
      /\ \A f \in Files : f # g => files'[f] = files[f]
  <2>1. DOMAIN from \subseteq Files
    BY <1>1, HoldsInputs
  <2>2. QED
    BY <1>1, <1>2, <2>1, PublishResult DEF Results, Writes
<1>7. /\ Inputs(u)' = Inputs(u) /\ HasLanes(u)' = HasLanes(u) /\ Lanes(u)' = g
      /\ \A f \in Inputs(u) : files'[f] = files[f]
  BY <1>1, <1>3, <1>6, SoundStays DEF HasLanes, Lanes
<1>8. ~There(u) /\ ~There(u)' /\ There(g)'
  BY <1>1, <1>2, <1>3, <1>6 DEF FilesFit, There
<1>9. RunFits(u, i)'
  BY <1>1, <1>3, <1>5, <1>6, <1>7, <1>8 DEF RunFits
<1>10. FilesFit(u)'
  BY <1>5, <1>6, <1>7, <1>8 DEF FilesFit, At, There
<1>11. upsets' \in 0..MaxUpsets /\ harmed' \in BOOLEAN
  BY <1>1, <1>3 DEF Typed
<1>12. QED
  BY <1>1, <1>3, <1>4, <1>6, <1>9, <1>10, <1>11, MoveStep

LEMMA PublishKeepsIInv ==
  ASSUME IInv, NEW u \in Units, NEW i \in DOMAIN runs[u], Publish(u, i)
  PROVE  IInv'
<1> DEFINE from == runs[u][i].from
<1>1. PICK kind \in {"good", "failed"} : files' = [files EXCEPT ![u] = Result(u, i, kind)]
  BY DEF Publish
<1>2. /\ runs[u][i].pc \in {"running", "half"} /\ ~There(u)
      /\ HasLanes(u) => runs[u][i].pc = "half"
      /\ runs' = [runs EXCEPT ![u][i].pc = "done", ![u][i].from = <<>>]
      /\ UNCHANGED <<compact, op, upsets, repeats, harmed>>
  BY DEF Publish, ResultNext, MayPublish, LanesNext, At
<1>3. /\ Typed /\ FilesFit(u) /\ RunFits(u, i) /\ Sound(u)
      /\ runs[u] # <<>> /\ u \in Files /\ <<>> \in Origins(u)
  BY RunsAre, UnitsAre DEF IInv, Origins
<1>4. RunMoves(u, i, "done", <<>>)
  BY <1>2 DEF RunMoves
<1>5. /\ DOMAIN runs'[u] = DOMAIN runs[u] /\ runs'[u] # <<>>
      /\ runs'[u][i].pc = "done"
  BY <1>3, <1>4, MoveResult
<1>6. /\ FilesTyped' /\ Kept
      /\ files'[u].kind = kind /\ files'[u].by = i /\ files'[u].from = from
      /\ \A f \in Files : f # u => files'[f] = files[f]
  <2>1. DOMAIN runs[u][i].from \subseteq Files /\ ~There(u) /\ u \in Files
    BY <1>2, <1>3, HoldsInputs
  <2>2. kind \in Results /\ Writes(u, u, i, kind)
    BY <1>1 DEF Results, Writes
  <2>3. QED
    BY <2>1, <2>2, PublishResult
<1>7. /\ Inputs(u)' = Inputs(u) /\ HasLanes(u)' = HasLanes(u) /\ Lanes(u)' = Lanes(u)
      /\ \A f \in Inputs(u) : files'[f] = files[f]
  BY <1>2, <1>3, <1>6, SoundStays DEF HasLanes, Lanes
<1>8. There(u)'
  BY <1>6, <1>1 DEF There
<1>9. RunFits(u, i)'
  BY <1>5, <1>8 DEF RunFits
<1>10. FilesFit(u)'
  <2>1. \A f \in Inputs(u) : files'[f].kind = "good" /\ files'[f].by = files'[u].from[f]
    BY <1>2, <1>6, <1>7, HoldsInputs
  <2>2. HasLanes(u) => There(Lanes(u))' /\ files'[Lanes(u)].by = i /\ files'[Lanes(u)].from = from
    <3>1. HasLanes(u) => Lanes(u) \in Files /\ Lanes(u) # u
      BY LanesAre DEF HasLanes
    <3>2. QED
      BY <1>2, <1>3, <1>6, <1>7, <3>1 DEF RunFits, There
  <2>3. QED
    BY <1>5, <1>6, <1>7, <1>8, <2>1, <2>2 DEF FilesFit
<1>11. upsets' \in 0..MaxUpsets /\ harmed' \in BOOLEAN
  BY <1>2, <1>3 DEF Typed
<1>12. QED
  BY <1>2, <1>3, <1>4, <1>6, <1>9, <1>10, <1>11, MoveStep
\* The file of an error takes a free name, in a full campaign that is harmed.
LEMMA FatalFits ==
  ASSUME IInv, NEW u \in Units, NEW i \in DOMAIN runs[u], ~compact, ~There(u),
         files' = Fatal(u, i), UNCHANGED compact, runs'[u] # <<>>, harmed' = TRUE
  PROVE  FilesFit(u)' /\ FilesTyped' /\ Kept
         /\ \A f \in Files : f # u => files'[f] = files[f]
<1>1. FilesTyped /\ files = [f \in Files |-> files[f]] /\ i \in Nat /\ u \in Files
  BY RunsAre, UnitsAre DEF IInv, Typed, FilesTyped
<1>2. /\ files'[u].kind = "fatal" /\ files'[u].by = i /\ files'[u].from = <<>>
      /\ files' = [f \in Files |-> files'[f]]
      /\ \A f \in Files : f # u => files'[f] = files[f]
  BY <1>1 DEF Fatal
<1>3. FilesTyped'
  <2>1. DOMAIN files'[u].from \subseteq Files
    BY <1>2
  <2>2. QED
    BY <1>1, <1>2, <2>1 DEF FilesTyped
<1>4. FilesFit(u)'
  BY <1>2 DEF FilesFit, HasLanes
<1>5. QED
  BY <1>2, <1>3, <1>4 DEF Kept, There

\* A run that fails finds the work of another in its way, or is harmed.
LEMMA FailKeepsIInv ==
  ASSUME IInv, NEW u \in Units, NEW i \in DOMAIN runs[u],
         runs[u][i].pc \in {"running", "half"},
         runs' = [runs EXCEPT ![u][i].pc = "failed", ![u][i].from = <<>>],
         UNCHANGED <<compact, op, repeats>>, upsets' \in 0..MaxUpsets,
         harmed' \in BOOLEAN, harmed => harmed',
         \/ files' = files
         \/ files' = Fatal(u, i) /\ ~compact /\ ~There(u) /\ harmed' = TRUE,
         harmed' \/ There(u) \/ (runs[u][i].pc = "running" /\ HasLanes(u) /\ There(Lanes(u)))
  PROVE  IInv'
<1>1. runs[u] # <<>> /\ <<>> \in Origins(u)
  BY RunsAre DEF Origins
<1>2. RunMoves(u, i, "failed", <<>>)
  BY DEF RunMoves
<1>3. /\ DOMAIN runs'[u] = DOMAIN runs[u] /\ runs'[u] # <<>> /\ runs'[u][i].pc = "failed"
      /\ \A j \in DOMAIN runs[u] : j # i => runs'[u][j] = runs[u][j]
  BY <1>1, <1>2, MoveResult
<1>4. /\ FilesFit(u)' /\ FilesTyped' /\ Kept
      /\ \A f \in Files : f # u /\ (HasLanes(u) => f # Lanes(u)) => files'[f] = files[f]
  <2>1. CASE files' = files
    BY <1>3, <2>1, FilesStay
  <2>2. CASE files' = Fatal(u, i) /\ ~compact /\ ~There(u) /\ harmed' = TRUE
    BY <1>3, <2>2, FatalFits
  <2>3. QED
    BY <2>1, <2>2
<1>5. RunFits(u, i)'
  <2>1. There(u) => There(u)'
    BY <1>4, UnitsAre DEF Kept, There
  <2>2. HasLanes(u) /\ There(Lanes(u)) => HasLanes(u)' /\ There(Lanes(u))'
    BY <1>4, LanesAre DEF Kept, There, HasLanes, Lanes
  <2>3. QED
    BY <1>3, <2>1, <2>2 DEF RunFits
<1>6. QED
  BY <1>1, <1>2, <1>4, <1>5, MoveStep

LEMMA RefuseKeepsIInv ==
  ASSUME IInv, NEW u \in Units, NEW i \in DOMAIN runs[u], Refuse(u, i)
  PROVE  IInv'
<1>1. /\ runs[u][i].pc \in {"running", "half"}
      /\ runs' = [runs EXCEPT ![u][i].pc = "failed", ![u][i].from = <<>>]
      /\ files' = IF compact \/ There(u) THEN files ELSE Fatal(u, i)
      /\ UNCHANGED <<compact, op, upsets, repeats, harmed>>
  BY DEF Refuse, Fail, LanesNext, ResultNext, At
<1>2. \/ There(u)
      \/ runs[u][i].pc = "running" /\ HasLanes(u) /\ There(Lanes(u))
  <2>1. CASE LanesNext(u, i)
    <3>1. runs[u][i].pc = "running" /\ HasLanes(u)
      BY <2>1 DEF LanesNext, At
    <3>2. \A f \in Inputs(u) : files[f].by = runs[u][i].from[f]
      BY <3>1, HoldsInputs
    <3>3. QED
      BY <2>1, <3>1, <3>2 DEF Refuse, MayPublish
  <2>2. CASE ~LanesNext(u, i)
    BY <2>2 DEF Refuse, MayPublish
  <2>3. QED
    BY <2>1, <2>2
<1>3. files' = files
  BY <1>1, <1>2 DEF HasLanes
<1>4. upsets' \in 0..MaxUpsets /\ harmed' \in BOOLEAN
  BY <1>1 DEF IInv, Typed
<1>5. QED
  BY <1>1, <1>2, <1>3, <1>4, FailKeepsIInv

LEMMA ErrKeepsIInv ==
  ASSUME IInv, NEW u \in Units, NEW i \in DOMAIN runs[u], Err(u, i)
  PROVE  IInv'
<1>1. /\ runs[u][i].pc \in {"running", "half"}
      /\ runs' = [runs EXCEPT ![u][i].pc = "failed", ![u][i].from = <<>>]
      /\ UNCHANGED <<compact, op, repeats>> /\ harmed' = TRUE
      /\ upsets > 0 /\ upsets' = upsets - 1
      /\ files' = files \/ (files' = Fatal(u, i) /\ ~compact /\ ~There(u))
  BY DEF Err, Fail, At
<1>2. upsets' \in 0..MaxUpsets
  <2>1. upsets \in 0..MaxUpsets /\ MaxUpsets \in Nat
    BY CampaignAssumption DEF IInv, Typed
  <2>2. QED
    BY <1>1, <2>1
<1>3. QED
  BY <1>1, <1>2, FailKeepsIInv

LEMMA KillKeepsIInv ==
  ASSUME IInv, NEW u \in Units, NEW i \in DOMAIN runs[u], Kill(u, i)
  PROVE  IInv'
<1>1. /\ runs[u][i].pc \in {"running", "half"}
      /\ runs' = [runs EXCEPT ![u][i].pc = "dead", ![u][i].from = <<>>]
      /\ UNCHANGED <<compact, files, op, repeats>>
      /\ harmed' = (harmed \/ At(u, i, "half"))
      /\ upsets > 0 /\ upsets' = upsets - 1
  BY DEF Kill, At
<1>2. upsets' \in 0..MaxUpsets /\ harmed' \in BOOLEAN
  <2>1. upsets \in 0..MaxUpsets /\ MaxUpsets \in Nat
    BY CampaignAssumption DEF IInv, Typed
  <2>2. QED
    BY <1>1, <2>1
<1>3. runs[u] # <<>> /\ <<>> \in Origins(u)
  BY RunsAre DEF Origins
<1>4. RunMoves(u, i, "dead", <<>>)
  BY <1>1 DEF RunMoves
<1>5. /\ DOMAIN runs'[u] = DOMAIN runs[u] /\ runs'[u] # <<>> /\ runs'[u][i].pc = "dead"
      /\ \A j \in DOMAIN runs[u] : j # i => runs'[u][j] = runs[u][j]
  BY <1>3, <1>4, MoveResult
<1>6. (harmed => harmed') /\ (runs[u][i].pc # "half" \/ harmed')
  BY <1>1 DEF At
<1>7. FilesFit(u)' /\ FilesTyped' /\ Kept
  BY <1>1, <1>5, <1>6, FilesStay
<1>8. RunFits(u, i)'
  BY <1>5 DEF RunFits
<1>9. QED
  BY <1>1, <1>2, <1>3, <1>4, <1>6, <1>7, <1>8, MoveStep

\* A task that is given to another node has a new run, which the scheduler knows.
LEMMA RerouteKeepsIInv ==
  ASSUME IInv, NEW u \in Units, NEW i \in DOMAIN runs[u],
         RerouteDead(u, i) \/ RerouteLive(u, i)
  PROVE  IInv'
<1>1. /\ runs' = [runs EXCEPT ![u] = Append([runs[u] EXCEPT ![i].tracked = FALSE], Queued)]
      /\ UNCHANGED <<compact, files, op, repeats, harmed>>
  BY DEF RerouteDead, RerouteLive, Reroute
<1>2. upsets' \in 0..MaxUpsets
  <2>1. upsets \in 0..MaxUpsets /\ MaxUpsets \in Nat
    BY CampaignAssumption DEF IInv, Typed
  <2>2. upsets' = upsets \/ (upsets > 0 /\ upsets' = upsets - 1)
    BY DEF RerouteDead, RerouteLive
  <2>3. QED
    BY <2>1, <2>2
<1>3. /\ runs[u] \in Seq(RunType(u)) /\ runs[u] # <<>> /\ runs[u][i] \in RunType(u)
      /\ i \in 1..Len(runs[u]) /\ Sound(u) /\ Typed
  BY RunsAre DEF IInv
<1>4. PICK x : x = [runs[u][i] EXCEPT !.tracked = FALSE]
  OBVIOUS
<1>5. x \in RunType(u) /\ x.pc = runs[u][i].pc /\ x.from = runs[u][i].from
  BY <1>3, <1>4 DEF RunType
<1>6. PICK r : r = [runs[u] EXCEPT ![i] = x]
  OBVIOUS
<1>7. /\ r \in Seq(RunType(u)) /\ Len(r) = Len(runs[u]) /\ r[i] = x
      /\ \A j \in DOMAIN runs[u] : j # i => r[j] = runs[u][j]
  BY <1>3, <1>5, <1>6
<1>8. Queued \in RunType(u) /\ Queued.pc = "queued" /\ Queued.tracked = TRUE
  BY DEF Queued, RunType, Origins
<1>9. PICK s : s = Append(r, Queued)
  OBVIOUS
<1>10. /\ s \in Seq(RunType(u)) /\ s # <<>> /\ Len(s) = Len(runs[u]) + 1
       /\ s[Len(s)] = Queued /\ DOMAIN s = 1..(Len(runs[u]) + 1)
       /\ \A j \in 1..Len(runs[u]) : s[j] = r[j]
  BY <1>3, <1>7, <1>8, <1>9
<1>11. runs' = [runs EXCEPT ![u] = s]
  <2>1. [runs[u] EXCEPT ![i].tracked = FALSE] = r
    BY <1>3, <1>4, <1>6
  <2>2. QED
    BY <1>1, <1>9, <2>1
<1>12. runs'[u] = s
  BY <1>3, <1>11 DEF Typed
<1>13. ASSUME NEW j \in DOMAIN runs[u]
       PROVE  /\ j \in 1..Len(runs[u]) /\ j \in DOMAIN runs'[u]
              /\ runs'[u][j].pc = runs[u][j].pc /\ runs'[u][j].from = runs[u][j].from
  <2>1. j \in 1..Len(runs[u]) /\ Len(runs[u]) \in Nat
    BY <1>3
  <2>2. j \in DOMAIN s /\ s[j] = r[j]
    BY <1>10, <2>1
  <2>3. CASE j = i
    BY <1>5, <1>7, <1>12, <2>1, <2>2, <2>3
  <2>4. CASE j # i
    BY <1>7, <1>12, <2>1, <2>2, <2>4
  <2>5. QED
    BY <2>3, <2>4
<1>14. FilesFit(u)' /\ FilesTyped' /\ Kept
  <2>1. runs[u][i].pc # "half" \/ At(u, i, "half")'
    BY <1>13 DEF At
  <2>2. runs'[u] # <<>>
    BY <1>10, <1>12
  <2>3. QED
    BY <1>1, <1>13, <2>1, <2>2, FilesStay
<1>15. \A j \in DOMAIN runs'[u] : RunFits(u, j)'
  <2>1. ASSUME NEW j \in DOMAIN runs[u]
        PROVE  RunFits(u, j)'
    BY <1>1, <1>13, <1>14, RunStays
  <2>2. ASSUME NEW k, k = Len(runs[u]) + 1
        PROVE  RunFits(u, k)'
    BY <2>2, <1>8, <1>10, <1>12 DEF RunFits
  <2>3. \A j \in DOMAIN runs'[u] : j \in DOMAIN runs[u] \/ j = Len(runs[u]) + 1
    BY <1>3, <1>10, <1>12
  <2>4. QED
    BY <2>1, <2>2, <2>3
<1>16. Sound(u)' /\ runs'[u][Len(runs'[u])].tracked
  BY <1>1, <1>3, <1>8, <1>10, <1>12, <1>14, SoundStays
<1>17. UnitFits(u)'
  BY <1>14, <1>15, <1>16 DEF UnitFits
<1>18. repeats' \in 0..MaxRepeats /\ harmed' \in BOOLEAN
  BY <1>1, <1>3 DEF Typed
<1>19. QED
  BY <1>1, <1>2, <1>3, <1>10, <1>11, <1>14, <1>17, <1>18, UnitStep
-----------------------------------------------------------------------------
(* The operators.                                                          *)

OpType == [pc : {"idle", "files", "queue"}, phase : Phases \union {"none"}]

LEMMA IdleOp ==
  Idle \in OpType /\ Idle.pc = "idle"
BY DEF Idle, OpType

\* Operator p moves on to x, and nothing else changes.
LEMMA OperatorStep ==
  ASSUME IInv, NEW p \in Operators, NEW x \in OpType, op' = [op EXCEPT ![p] = x],
         UNCHANGED <<compact, files, runs, upsets, repeats, harmed>>,
         x.pc = "queue" => Prepared(x.phase)
  PROVE  IInv'
<1>1. /\ op' \in [Operators -> OpType] /\ op'[p] = x
      /\ \A q \in Operators : q # p => op'[q] = op[q]
  BY DEF IInv, Typed, OpType
<1>2. \A u : Inputs(u)' = Inputs(u) /\ Sound(u)' = Sound(u)
  BY DEF Inputs, Sound
<1>3. Typed'
  BY <1>1 DEF IInv, Typed, FilesTyped, RunType, Origins, Inputs, OpType
<1>4. \A u \in Units : UnitFits(u)'
  <2>1. ASSUME NEW u \in Units
        PROVE  UnitFits(u)'
    <3>1. UnitFits(u)
      BY DEF IInv
    <3>2. FilesFit(u)'
      BY <1>2, <3>1 DEF UnitFits, FilesFit, There, HasLanes, Lanes, At
    <3>3. \A i \in DOMAIN runs[u] : RunFits(u, i)'
      BY <1>2, <3>1 DEF UnitFits, RunFits, There, HasLanes, Lanes
    <3>4. QED
      BY <1>2, <3>1, <3>2, <3>3 DEF UnitFits
  <2>2. QED
    BY <2>1
<1>5. OperatorsFit'
  <2>1. \A q \in Operators : op'[q].pc = "queue" => Prepared(op'[q].phase)
    BY <1>1 DEF IInv, OperatorsFit
  <2>2. QED
    BY <1>2, <2>1 DEF OperatorsFit, Prepared
<1>6. PhasesFit'
  BY DEF IInv, PhasesFit
<1>7. QED
  BY <1>3, <1>4, <1>5, <1>6 DEF IInv

LEMMA OperatorKeepsIInv ==
  ASSUME IInv, NEW p \in Operators,
         \/ \E phase \in Phases : Plan(p, phase)
         \/ LookAtFiles(p)
         \/ SubmitFails(p)
  PROVE  IInv'
<1>1. CASE \E phase \in Phases : Plan(p, phase)
  <2>1. PICK phase \in Phases : Plan(p, phase)
    BY <1>1
  <2>2. PICK x : x = [pc |-> "files", phase |-> phase]
    OBVIOUS
  <2>3. x \in OpType /\ x.pc = "files"
    BY <2>2 DEF OpType
  <2>4. QED
    BY <2>1, <2>2, <2>3, OperatorStep DEF Plan
<1>2. CASE LookAtFiles(p)
  <2>1. op[p] \in OpType
    BY DEF IInv, Typed, OpType
  <2>2. PICK x : x = [op[p] EXCEPT !.pc = "queue"]
    OBVIOUS
  <2>3. x \in OpType /\ x.phase = op[p].phase
    BY <2>1, <2>2 DEF OpType
  <2>4. CASE Prepared(op[p].phase) /\ Vacant(op[p].phase)
    <3>1. op' = [op EXCEPT ![p] = x]
      BY <1>2, <2>2, <2>4 DEF LookAtFiles
    <3>2. QED
      BY <1>2, <2>3, <2>4, <3>1, OperatorStep DEF LookAtFiles
  <2>5. CASE ~(Prepared(op[p].phase) /\ Vacant(op[p].phase))
    <3>1. op' = [op EXCEPT ![p] = Idle]
      BY <1>2, <2>5 DEF LookAtFiles
    <3>2. QED
      BY <1>2, <3>1, IdleOp, OperatorStep DEF LookAtFiles
  <2>6. QED
    BY <2>4, <2>5
<1>3. CASE SubmitFails(p)
  BY <1>3, IdleOp, OperatorStep DEF SubmitFails
<1>4. QED
  BY <1>1, <1>2, <1>3

\* What a submission makes of one unit.
LEMMA SubmittedUnit ==
  ASSUME IInv, NEW u \in Units, UNCHANGED <<compact, files, harmed>>,
         runs'[u] = runs[u] \/ (runs'[u] = Append(runs[u], Queued) /\ Sound(u))
  PROVE  runs'[u] \in Seq(RunType(u)) /\ UnitFits(u)'
<1>1. runs[u] \in Seq(RunType(u)) /\ UnitFits(u) /\ Typed
  BY DEF IInv, Typed
<1>2. Queued \in RunType(u) /\ Queued.pc = "queued" /\ Queued.tracked = TRUE
  BY DEF Queued, RunType, Origins
<1>3. Inputs(u)' = Inputs(u) /\ Sound(u)' = Sound(u) /\ Kept
  BY DEF Inputs, Sound, Kept
<1>4. CASE runs'[u] = runs[u]
  <2>1. FilesFit(u)'
    BY <1>1, <1>3, <1>4 DEF UnitFits, FilesFit, There, HasLanes, Lanes, At
  <2>2. \A j \in DOMAIN runs[u] : RunFits(u, j)'
    BY <1>3, <1>4, RunStays
  <2>3. QED
    BY <1>1, <1>3, <1>4, <2>1, <2>2 DEF UnitFits
<1>5. CASE runs'[u] = Append(runs[u], Queued) /\ Sound(u)
  <2>1. /\ runs'[u] \in Seq(RunType(u)) /\ runs'[u] # <<>>
        /\ Len(runs'[u]) = Len(runs[u]) + 1 /\ Len(runs[u]) \in Nat
        /\ runs'[u][Len(runs[u]) + 1] = Queued
        /\ DOMAIN runs'[u] = 1..(Len(runs[u]) + 1) /\ DOMAIN runs[u] = 1..Len(runs[u])
        /\ \A j \in 1..Len(runs[u]) : runs'[u][j] = runs[u][j]
    BY <1>1, <1>2, <1>5
  <2>2. FilesFit(u)'
    BY <1>1, <1>3, <2>1 DEF UnitFits, FilesFit, There, HasLanes, Lanes, At
  <2>3. ASSUME NEW j \in DOMAIN runs[u]
        PROVE  RunFits(u, j)'
    BY <1>3, <2>1, RunStays
  <2>4. ASSUME NEW k, k = Len(runs[u]) + 1
        PROVE  RunFits(u, k)'
    BY <1>2, <2>1, <2>4 DEF RunFits
  <2>5. \A j \in DOMAIN runs'[u] : j \in DOMAIN runs[u] \/ j = Len(runs[u]) + 1
    BY <2>1
  <2>6. runs'[u][Len(runs'[u])].tracked
    BY <1>2, <2>1
  <2>7. QED
    BY <1>3, <1>5, <2>1, <2>2, <2>3, <2>4, <2>5, <2>6 DEF UnitFits
<1>6. QED
  BY <1>4, <1>5

LEMMA SubmitKeepsIInv ==
  ASSUME IInv, NEW p \in Operators, Submit(p)
  PROVE  IInv'
<1> DEFINE phase == op[p].phase
<1>1. /\ op[p].pc = "queue" /\ op' = [op EXCEPT ![p] = Idle]
      /\ runs' = [u \in Units |-> IF u[1] = phase THEN Append(runs[u], Queued) ELSE runs[u]]
      /\ UNCHANGED <<compact, files, upsets, harmed>>
  BY DEF Submit
<1>2. Prepared(phase) /\ Typed
  BY <1>1 DEF IInv, OperatorsFit
<1>3. \A u \in Units :
        runs'[u] = runs[u] \/ (runs'[u] = Append(runs[u], Queued) /\ Sound(u))
  BY <1>1, <1>2 DEF Prepared
<1>4. \A u \in Units : runs'[u] \in Seq(RunType(u)) /\ UnitFits(u)'
  BY <1>1, <1>3, SubmittedUnit
<1>5. repeats' \in 0..MaxRepeats
  <2>1. repeats \in 0..MaxRepeats /\ MaxRepeats \in Nat
    BY <1>2, CampaignAssumption DEF Typed
  <2>2. repeats' = repeats \/ (repeats > 0 /\ repeats' = repeats - 1)
    BY DEF Submit
  <2>3. QED
    BY <2>1, <2>2
<1>6. op' \in [Operators -> OpType] /\ \A q \in Operators : op'[q] = op[q] \/ op'[q] = Idle
  BY <1>1, <1>2, IdleOp DEF Typed, OpType
<1>7. Typed'
  <2>1. runs' = [u \in Units |-> runs'[u]]
    BY <1>1
  <2>2. \A u : RunType(u)' = RunType(u)
    BY <1>1 DEF RunType, Origins, Inputs
  <2>3. QED
    BY <1>1, <1>2, <1>4, <1>5, <1>6, <2>1, <2>2 DEF Typed, FilesTyped, OpType
<1>8. PhasesFit'
  <2>1. \A u \in Units : runs'[u] # <<>> <=> u[1] = phase \/ runs[u] # <<>>
    <3>1. ASSUME NEW u \in Units
          PROVE  runs'[u] # <<>> <=> u[1] = phase \/ runs[u] # <<>>
      <4>1. runs[u] \in Seq(RunType(u))
        BY <1>2 DEF Typed
      <4>2. Queued \in RunType(u)
        BY DEF Queued, RunType, Origins
      <4> HIDE DEF phase
      <4>3. Append(runs[u], Queued) # <<>>
        BY <4>1, <4>2
      <4>4. QED
        BY <1>1, <4>3 DEF phase
    <3>2. QED
      BY <3>1
  <2>2. QED
    BY <2>1 DEF IInv, PhasesFit
<1>9. OperatorsFit'
  <2>1. \A u : Sound(u)' = Sound(u)
    BY <1>1 DEF Sound, Inputs
  <2>2. \A q \in Operators : op'[q].pc = "queue" => Prepared(op'[q].phase)
    BY <1>6, IdleOp DEF IInv, OperatorsFit
  <2>3. QED
    BY <2>1, <2>2 DEF OperatorsFit, Prepared
<1>10. QED
  BY <1>4, <1>7, <1>8, <1>9 DEF IInv

-----------------------------------------------------------------------------
(* Every step.                                                             *)

LEMMA EmptySequence == \A S : <<>> \in Seq(S)
OBVIOUS

LEMMA InitIInv ==
  Init => IInv
<1> SUFFICES ASSUME Init
             PROVE  IInv
  OBVIOUS
<1>1. FilesTyped /\ \A f \in Files : ~There(f)
  BY DEF Init, Absent, FilesTyped, There
<1>2. /\ compact \in Variants /\ compact \in BOOLEAN
      /\ upsets \in 0..MaxUpsets /\ repeats \in 0..MaxRepeats /\ harmed \in BOOLEAN
  <2>1. compact \in BOOLEAN
    BY CampaignAssumption DEF Init
  <2>2. MaxUpsets \in Nat /\ MaxRepeats \in Nat
    BY CampaignAssumption
  <2>3. upsets = MaxUpsets /\ repeats = MaxRepeats
    BY DEF Init
  <2>4. upsets \in 0..MaxUpsets /\ repeats \in 0..MaxRepeats
    BY <2>2, <2>3
  <2>5. compact \in Variants /\ harmed \in BOOLEAN
    BY DEF Init
  <2>6. QED
    BY <2>1, <2>4, <2>5
<1>3. op \in [Operators -> OpType] /\ \A p \in Operators : op[p].pc = "idle"
  BY IdleOp DEF Init
<1>4. \A u \in Units : runs[u] = <<>>
  BY DEF Init
<1>5. Typed
  <2>1. runs = [u \in Units |-> runs[u]]
    BY DEF Init
  <2>2. \A u \in Units : runs[u] \in Seq(RunType(u))
    BY <1>4, EmptySequence
  <2>3. QED
    BY <1>1, <1>2, <1>3, <2>1, <2>2 DEF Typed, OpType
<1>6. ASSUME NEW u \in Units
      PROVE  UnitFits(u)
  <2>1. ~There(u) /\ (HasLanes(u) => ~There(Lanes(u)))
    BY <1>1, UnitsAre, LanesAre DEF HasLanes
  <2>2. FilesFit(u)
    BY <2>1 DEF FilesFit, There
  <2>3. QED
    BY <1>4, <2>2 DEF UnitFits
<1>7. QED
  BY <1>3, <1>4, <1>5, <1>6 DEF IInv, PhasesFit, OperatorsFit

LEMMA StutterKeepsIInv ==
  ASSUME IInv, UNCHANGED vars
  PROVE  IInv'
<1>1. UNCHANGED <<compact, files, runs, op, upsets, repeats, harmed>>
  BY DEF vars
<1>2. Typed'
  BY <1>1 DEF IInv, Typed, FilesTyped, RunType, Origins, Inputs
<1>3. \A u \in Units : UnitFits(u)'
  BY <1>1, SubmittedUnit
<1>4. PhasesFit' /\ OperatorsFit'
  BY <1>1 DEF IInv, PhasesFit, OperatorsFit, Prepared, Sound, Inputs
<1>5. QED
  BY <1>2, <1>3, <1>4 DEF IInv

LEMMA NextIInv ==
  IInv /\ [Next]_vars => IInv'
<1> SUFFICES ASSUME IInv, [Next]_vars
             PROVE  IInv'
  OBVIOUS
<1>1. ASSUME NEW p \in Operators, (\E phase \in Phases : Plan(p, phase)) \/ Operate(p)
      PROVE  IInv'
  <2>1. CASE Submit(p)
    BY <2>1, SubmitKeepsIInv
  <2>2. CASE \/ \E phase \in Phases : Plan(p, phase)
             \/ LookAtFiles(p) \/ SubmitFails(p)
    BY <2>2, OperatorKeepsIInv
  <2>3. QED
    BY <1>1, <2>1, <2>2 DEF Operate
<1>2. ASSUME NEW u \in Units, NEW i \in DOMAIN runs[u],
             Work(u, i) \/ Err(u, i) \/ Kill(u, i) \/ RerouteLive(u, i)
      PROVE  IInv'
  <2>1. CASE Begin(u, i)
    BY <2>1, BeginKeepsIInv
  <2>2. CASE PublishLanes(u, i)
    BY <2>2, PublishLanesKeepsIInv
  <2>3. CASE Publish(u, i)
    BY <2>3, PublishKeepsIInv
  <2>4. CASE Refuse(u, i)
    BY <2>4, RefuseKeepsIInv
  <2>5. CASE Err(u, i)
    BY <2>5, ErrKeepsIInv
  <2>6. CASE Kill(u, i)
    BY <2>6, KillKeepsIInv
  <2>7. CASE RerouteDead(u, i) \/ RerouteLive(u, i)
    BY <2>7, RerouteKeepsIInv
  <2>8. QED
    BY <1>2, <2>1, <2>2, <2>3, <2>4, <2>5, <2>6, <2>7 DEF Work
<1>3. CASE UNCHANGED vars
  BY <1>3, StutterKeepsIInv
<1>4. QED
  BY <1>1, <1>2, <1>3 DEF Next, Runs

\* The invariant holds in every state.
THEOREM Invariance == Spec => []IInv
<1>1. QED
  BY InitIInv, NextIInv, PTL DEF Spec

-----------------------------------------------------------------------------
(* What it is for.                                                         *)

\* Every variable always has its type.
THEOREM TypeCorrect == Spec => []TypeOK
<1>1. ASSUME IInv
      PROVE  TypeOK
  <2>1. ASSUME NEW u \in Units, NEW i \in DOMAIN runs[u]
        PROVE  /\ runs[u][i].pc \in {"queued", "running", "half", "done", "failed", "dead"}
               /\ runs[u][i].tracked \in BOOLEAN
               /\ DOMAIN runs[u][i].from \subseteq Files
    <3>1. runs[u][i] \in RunType(u) /\ runs[u][i].from \in Origins(u)
      BY <1>1, RunsAre
    <3>2. Inputs(u) \subseteq Files
      BY <1>1, InputsAre DEF IInv, Typed
    <3>3. DOMAIN runs[u][i].from \subseteq Files
      BY <3>1, <3>2 DEF Origins
    <3>4. QED
      BY <3>1, <3>3 DEF RunType
  <2>2. QED
    BY <1>1, <2>1 DEF TypeOK, IInv, Typed, FilesTyped, Runs
<1>2. QED
  BY <1>1, Invariance, PTL

\* A commit and the lanes beside it are always of one run, although any number
\* of runs of the shard may write them at once.
THEOREM BundlesAlwaysMatch == Spec => []BundlesMatch
<1>1. IInv => BundlesMatch
  BY DEF IInv, UnitFits, FilesFit, BundlesMatch, HasLanes
<1>2. QED
  BY <1>1, Invariance, PTL

\* What a result was computed from is always still there and what it was,
\* whichever tasks are queued twice, killed, or run by two nodes at once.
THEOREM ResultsRestOnInputs == Spec => []RestsOnInputs
<1>1. IInv => RestsOnInputs
  BY DEF IInv, UnitFits, FilesFit, RestsOnInputs
<1>2. QED
  BY <1>1, Invariance, PTL

\* Only a run that ends with an error, or dies between its two files, blocks a
\* campaign: the last run of a unit that the scheduler knows still works, or
\* has published, or has left the unit to another run that still works.
THEOREM NothingElseBlocks == Spec => []OnlyHarmBlocks
<1>1. ASSUME IInv, ~harmed, NEW u \in Units
      PROVE  /\ files[u].kind # "fatal"
             /\ There(u) \/ Live(u) \/ Vacant(u[1])
  <2>1. files[u].kind # "fatal"
    BY <1>1 DEF IInv, UnitFits, FilesFit
  <2>2. ASSUME ~There(u), ~Vacant(u[1])
        PROVE  Live(u)
    <3>1. PICK f \in Outputs(u[1]) : There(f)
      BY <2>2 DEF Vacant
    <3>2. \/ f \in Units /\ f[1] = u[1]
          \/ \E t \in Units : t[1] = u[1] /\ HasLanes(t) /\ f = Lanes(t)
      BY <1>1, UnitsAre, OutputsAre DEF IInv, Typed
    <3>3. \E t \in Units : t[1] = u[1] /\ runs[t] # <<>>
      BY <1>1, <3>1, <3>2 DEF IInv, UnitFits, FilesFit
    <3>4. runs[u] # <<>>
      BY <1>1, <3>3 DEF IInv, PhasesFit
    <3>5. PICK l : l = Len(runs[u])
      OBVIOUS
    <3>6. l \in DOMAIN runs[u] /\ runs[u][l].tracked
      <4>1. runs[u] \in Seq(RunType(u)) /\ UnitFits(u)
        BY <1>1 DEF IInv, Typed
      <4>2. QED
        BY <3>4, <3>5, <4>1 DEF UnitFits
    <3>7. runs[u][l] \in RunType(u) /\ RunFits(u, l) /\ FilesFit(u)
      BY <1>1, <3>6, RunsAre
    <3>8. CASE runs[u][l].pc \in {"queued", "running", "half", "dead"}
      BY <3>6, <3>8 DEF Live, Runs
    <3>9. CASE runs[u][l].pc = "failed"
      <4>1. At(u, files[Lanes(u)].by, "half")
        BY <1>1, <2>2, <3>7, <3>9 DEF RunFits, FilesFit
      <4>2. QED
        BY <4>1 DEF Live, Runs, At
    <3>10. CASE runs[u][l].pc = "done"
      BY <2>2, <3>7, <3>10 DEF RunFits
    <3>11. QED
      BY <3>7, <3>8, <3>9, <3>10 DEF RunType
  <2>3. QED
    BY <2>1, <2>2
<1>2. IInv => OnlyHarmBlocks
  BY <1>1 DEF OnlyHarmBlocks, Blocked
<1>3. QED
  BY <1>2, Invariance, PTL

=============================================================================
