--------------------------- MODULE WaveReplayProofs ---------------------------
(***************************************************************************)
(* Proofs about WaveReplay, for any programs, actions, targets, times and  *)
(* number of decisions.                                                    *)
(***************************************************************************)
EXTENDS WaveReplay, SequenceTheorems, WellFoundedInduction, TLAPS

-----------------------------------------------------------------------------
(* The inductive invariant.                                                *)

Resources == {ResourceOf[a] : a \in Actions}
Decision ==
  [kind : Lanes \cup {"wait"}, act : Actions \cup {None}, ticks : Nat \ {0}]
Pending == [decision : Decision, ordinal : Nat, step : Nat]
Session ==
  [committed : SUBSET Nat, skipped : SUBSET Nat, used : SUBSET Resources,
   started : Nat \cup {-1}, pending : Pending \cup {NoPending},
   proposals : Nat, fallbacks : Nat]
Ops == Lanes \cup {"wait", "SET_TARGET", "START_ATTACK"}
Replay ==
  [at : {"advance", "choose", "execute", "complete", "invalid"},
   index : 0 .. MaxDecisions, todo : Seq(Ops), accepted : SUBSET Ops]
Entry ==
  [step : Nat, kind : Lanes \cup {"wait"}, act : Actions \cup {None}, elapsed : Int]

Typed ==
  /\ program \in Programs
  /\ sim \in [time : Nat, wake : Nat, finished : BOOLEAN] /\ sim.wake >= sim.time
  /\ session \in Session /\ session.started <= sim.time
  /\ session.committed \subseteq Steps /\ session.skipped \subseteq Steps
  /\ latch \in Decisions \cup {None}
  /\ replay \in Replay
  /\ executed \in Seq(Entry)
  /\ asleep \in Steps \cup {0}

\* The steps that are done or dropped come before the others.
Closed == session.committed \cup session.skipped
ClosedFits == \A i \in Closed, j \in Steps : j <= i => j \in Closed

Idle == replay.at \in {"advance", "choose", "complete"}
Acting == replay.at = "execute"

\* What the session has proposed for this decision is what is carried out.
PendingFits(p) ==
  /\ p.decision = latch
  /\ p.ordinal = replay.index /\ session.proposals = replay.index + 1
  /\ session.fallbacks = 0
  /\ p.step # 0 =>
       /\ p.step \in Steps \ Closed
       /\ \A j \in Steps : j < p.step => j \in Closed
       /\ latch.kind = Step(p.step).kind /\ latch.act = Step(p.step).act
       /\ Elapsed \in Step(p.step).from .. Deadline(p.step)
  /\ p.step = 0 /\ latch.kind = "offgcd" => ResourceOf[latch.act] \notin session.used
  /\ p.step = 0 /\ latch.kind = "wait" => latch.ticks <= Quiet

\* The operations left are of the decision, whose own one comes once.
TodoFits ==
  /\ \A n \in DOMAIN replay.todo :
       replay.todo[n] \in {"SET_TARGET", "START_ATTACK", latch.kind, "wait"}
  /\ \A m, n \in DOMAIN replay.todo :
       replay.todo[m] = latch.kind /\ replay.todo[n] = latch.kind => m = n
  /\ latch.kind \in replay.accepted =>
       \A n \in DOMAIN replay.todo : replay.todo[n] # latch.kind

DecisionFits ==
  /\ ~Acting => session.pending = NoPending
  /\ Idle =>
       /\ latch = None
       /\ session.proposals = replay.index /\ session.fallbacks = 0
  /\ Acting =>
       /\ latch # None /\ TodoFits /\ replay.index < MaxDecisions
       /\ session.pending = NoPending \/ PendingFits(session.pending)

\* Of the decision under way: its step and its resource, once it was accepted.
Running == Acting /\ session.pending # NoPending /\ latch.kind \in replay.accepted
RunningStep == IF Running THEN {session.pending.step} \ {0} ELSE {}
RunningUse ==
  IF Running /\ (session.pending.step # 0 \/ latch.kind = "offgcd") /\ latch.act # None
  THEN {ResourceOf[latch.act]} ELSE {}

Taken == {n \in DOMAIN executed : executed[n].step # 0}

\* What was carried out is what the session counts, apart from the decision
\* under way; a replay that went wrong may have carried out one step more.
Counted ==
  /\ session.committed \subseteq {executed[n].step : n \in Taken}
  /\ replay.at # "invalid" =>
       /\ \A n \in Taken : executed[n].step \in session.committed \cup RunningStep
       /\ \A n \in DOMAIN executed :
            executed[n].act # None =>
              ResourceOf[executed[n].act] \in session.used \cup RunningUse

RunningCounts == RunningStep \subseteq {executed[n].step : n \in Taken}

StepFits(n) ==
  /\ executed[n].step \in Steps /\ executed[n].step \notin session.skipped
  /\ executed[n].kind = Step(executed[n].step).kind
  /\ executed[n].act = Step(executed[n].step).act
  /\ executed[n].elapsed \in Step(executed[n].step).from .. Deadline(executed[n].step)

StepsFit ==
  /\ \A n \in Taken : StepFits(n)
  /\ \A m, n \in Taken : m < n => executed[m].step < executed[n].step

\* A wait for a step is over before the window of the step is.
AsleepFits ==
  /\ replay.at = "choose" => sim.wake = sim.time
  /\ asleep # 0 /\ (Idle \/ Acting) => session.started # -1
  /\ asleep # 0 /\ Acting =>
       /\ latch.kind = "wait" /\ Elapsed + latch.ticks <= Deadline(asleep)
       /\ sim.wake <= sim.time + latch.ticks
  /\ asleep # 0 /\ Idle => sim.wake - session.started <= Deadline(asleep)

IInv ==
  /\ Typed /\ ClosedFits /\ DecisionFits /\ Counted /\ RunningCounts /\ StepsFit
  /\ TailOnce /\ AsleepFits

-----------------------------------------------------------------------------
(* Least and greatest numbers.                                             *)

LEMMA MinIsLeast ==
  ASSUME NEW T \in SUBSET Nat, T # {}
  PROVE  Min(T) \in T /\ \A y \in T : Min(T) <= y
<1> DEFINE R == OpToRel(<, Nat)
<1>1. IsWellFoundedOn(R, Nat)
  BY NatLessThanWellFounded, Zenon
<1>2. \A x, y \in Nat : x < y => <<x, y>> \in R
  BY Zenon DEF OpToRel
<1> HIDE DEF R
<1>3. PICK x \in T : \A y \in T : ~(<<y, x>> \in R)
  BY <1>1, WFMin
<1>4. ASSUME NEW y \in T PROVE x <= y
  <2>1. ~(y < x)
    BY <1>2, <1>3
  <2>2. QED
    BY <2>1
<1>5. QED
  BY <1>4 DEF Min

LEMMA OfTwo ==
  ASSUME NEW a \in Int, NEW b \in Int
  PROVE  /\ Min({a, b}) = IF a <= b THEN a ELSE b
         /\ Max({a, b}) = IF a <= b THEN b ELSE a
<1>1. \E x \in {a, b} : \A y \in {a, b} : x <= y
  OBVIOUS
<1>2. Min({a, b}) \in {a, b} /\ \A y \in {a, b} : Min({a, b}) <= y
  BY <1>1 DEF Min
<1>3. \E x \in {a, b} : \A y \in {a, b} : x >= y
  OBVIOUS
<1>4. Max({a, b}) \in {a, b} /\ \A y \in {a, b} : Max({a, b}) >= y
  BY <1>3 DEF Max
<1>5. QED
  BY <1>2, <1>4

-----------------------------------------------------------------------------
(* Programs and decisions.                                                 *)

LEMMA BoundsAreNumbers ==
  /\ Quiet \in Nat /\ Quiet > 0 /\ Poll \in Nat /\ Poll > 0
  /\ GcdTicks \in Nat /\ MaxDue \in Nat /\ MaxDecisions \in Nat
BY WaveAssumption

LEMMA StepsAre ==
  ASSUME program \in Programs
  PROVE  /\ Steps \subseteq Nat \ {0} /\ program.fills \in BOOLEAN
         /\ \A i \in Steps : Step(i) \in ActionSteps \cup WaitSteps
<1>1. program \in [fills : BOOLEAN, steps : Seq(ActionSteps \cup WaitSteps)]
  BY WaveAssumption
<1>2. QED
  BY <1>1 DEF Steps, Step

LEMMA StepIs ==
  ASSUME program \in Programs, NEW i \in Steps
  PROVE  /\ Step(i).kind \in Lanes \cup {"wait"} /\ Step(i).act \in Actions \cup {None}
         /\ Step(i).kind = "wait" <=> Step(i).act = None
         /\ Step(i).from \in Nat /\ Step(i).late \in Nat /\ Deadline(i) \in Nat
         /\ Step(i).ticks \in Nat
         /\ Step(i).kind = "wait" => Step(i).ticks > 0 /\ i \notin Guarded
         /\ i \in Guarded => /\ Step(i).guard.timeout \in Nat /\ Step(i).guard.every \in Nat
                             /\ GuardDeadline(i) \in Nat /\ GuardDeadline(i) <= Deadline(i)
<1>1. Step(i) \in ActionSteps \cup WaitSteps
  BY StepsAre
<1>2. Step(i).kind \in Lanes \cup {"wait"} /\ Step(i).act \in Actions \cup {None}
  BY <1>1 DEF ActionSteps, WaitSteps
<1>3. Step(i).kind = "wait" <=> Step(i).act = None
  <2>1. CASE Step(i) \in ActionSteps
    BY <2>1, WaveAssumption DEF ActionSteps, Lanes
  <2>2. CASE Step(i) \in WaitSteps
    BY <2>2 DEF WaitSteps
  <2>3. QED
    BY <1>1, <2>1, <2>2
<1>4. Step(i).from \in Nat /\ Step(i).late \in Nat /\ Step(i).ticks \in Nat
  BY <1>1 DEF ActionSteps, WaitSteps
<1>5. Deadline(i) \in Nat
  BY <1>4 DEF Deadline
<1>6. Step(i).kind = "wait" => Step(i).ticks > 0 /\ i \notin Guarded
  BY <1>1 DEF ActionSteps, WaitSteps, Lanes, Guarded
<1>7. ASSUME i \in Guarded
      PROVE  /\ Step(i).guard.timeout \in Nat /\ Step(i).guard.every \in Nat
             /\ GuardDeadline(i) \in Nat /\ GuardDeadline(i) <= Deadline(i)
  <2>1. Step(i).guard \in [skips : BOOLEAN, timeout : Nat, every : Nat]
    BY <1>1, <1>7 DEF Guarded, ActionSteps, WaitSteps
  <2>2. Step(i).from + Step(i).guard.timeout \in Nat
    BY <1>4, <2>1
  <2>3. QED
    BY <1>5, <2>1, <2>2, OfTwo DEF GuardDeadline
<1>8. QED
  BY <1>2, <1>3, <1>4, <1>5, <1>6, <1>7

\* An upper bound of the ticks of steps that is one of them, or the greater of
\* the session's own waits.
LEMMA LongestWait ==
  ASSUME program \in Programs
  PROVE  Longest \in Nat /\ Quiet <= Longest /\ \A i \in Steps : Step(i).ticks <= Longest
<1> DEFINE S == {Quiet, Poll} \cup {Step(i).ticks : i \in Steps}
           Upto(n) == {Quiet, Poll} \cup {Step(i).ticks : i \in {j \in Steps : j <= n}}
           Bad == {n \in Nat : ~ \E x \in Upto(n) : \A y \in Upto(n) : x >= y}
<1>1. \A i \in Steps : Step(i).ticks \in Nat /\ i \in Nat \ {0}
  BY StepIs, StepsAre
<1>2. PICK l \in Nat : Steps = 1 .. l
  <2>1. program \in [fills : BOOLEAN, steps : Seq(ActionSteps \cup WaitSteps)]
    BY WaveAssumption
  <2>2. QED
    BY <2>1 DEF Steps
<1>3. Bad = {}
  <2>1. SUFFICES ASSUME Bad # {} PROVE FALSE
    OBVIOUS
  <2>2. PICK n \in Bad : \A y \in Bad : n <= y
    <3>1. Bad \in SUBSET Nat
      OBVIOUS
    <3> HIDE DEF Bad
    <3>2. QED
      BY <2>1, <3>1, MinIsLeast
  <2>3. n # 0
    <3>1. Upto(0) = {Quiet, Poll}
      BY <1>1
    <3>2. \E x \in {Quiet, Poll} : \A y \in {Quiet, Poll} : x >= y
      BY BoundsAreNumbers
    <3>3. QED
      BY <3>1, <3>2
  <2>4. n - 1 \in Nat /\ n - 1 \notin Bad
    <3>1. n \in Nat
      OBVIOUS
    <3> HIDE DEF Bad
    <3>2. QED
      BY <3>1, <2>2, <2>3
  <2>5. PICK x \in Upto(n - 1) : \A y \in Upto(n - 1) : x >= y
    BY <2>4
  <2>6. x \in Nat
    BY <1>1, BoundsAreNumbers
  <2>7. CASE n \notin Steps
    <3>1. Upto(n) = Upto(n - 1)
      BY <1>1, <2>7
    <3>2. QED
      BY <2>2, <2>5, <3>1
  <2>8. CASE n \in Steps
    <3>1. Upto(n) = Upto(n - 1) \cup {Step(n).ticks}
      BY <1>1, <2>8
    <3>2. Step(n).ticks \in Nat
      BY <1>1, <2>8
    <3> HIDE DEF Upto
    <3>3. \E z \in Upto(n) : \A y \in Upto(n) : z >= y
      <4>1. CASE x >= Step(n).ticks
        BY <4>1, <2>5, <3>1
      <4>2. CASE ~(x >= Step(n).ticks)
        <5>1. \A y \in Upto(n - 1) : y \in Nat
          BY <1>1, BoundsAreNumbers DEF Upto
        <5>2. \A y \in Upto(n) : Step(n).ticks >= y
          BY <4>2, <2>5, <2>6, <3>1, <3>2, <5>1
        <5>3. QED
          BY <3>1, <5>2
      <4>3. QED
        BY <4>1, <4>2
    <3>4. QED
      BY <2>2, <3>3
  <2>9. QED
    BY <2>7, <2>8
<1>4. Upto(l) = S
  BY <1>1, <1>2
<1>5. PICK x \in S : \A y \in S : x >= y
  <2>1. l \notin Bad
    BY <1>3
  <2>2. QED
    BY <2>1, <1>4
<1>6. \A y \in S : y \in Nat
  BY <1>1, BoundsAreNumbers
<1> HIDE DEF S
<1>7. Max(S) \in S /\ \A y \in S : Max(S) >= y
  BY <1>5 DEF Max
<1>8. Max(S) \in Nat /\ \A t \in S : t <= Max(S)
  BY <1>6, <1>7
<1>9. Longest = Max(S)
  BY DEF Longest, S
<1>10. Quiet \in S /\ \A i \in Steps : Step(i).ticks \in S
  BY DEF S
<1>11. QED
  BY <1>8, <1>9, <1>10

\* Decisions, made by their constructors.
LEMMA ActDecides ==
  ASSUME NEW lane \in Lanes, NEW a \in Actions
  PROVE  /\ Act(lane, a) \in Decisions /\ Act(lane, a) \in Decision
         /\ Act(lane, a).kind = lane /\ Act(lane, a).act = a /\ Act(lane, a).ticks = 1
BY DEF Act, Decisions, Decision

LEMMA WaitDecides ==
  ASSUME NEW t \in Nat \ {0}
  PROVE  /\ Wait(t) \in Decision
         /\ Wait(t).kind = "wait" /\ Wait(t).act = None /\ Wait(t).ticks = t
BY DEF Wait, Decision

LEMMA ShortWaitDecides ==
  ASSUME program \in Programs,
         NEW t \in Nat \ {0}, t <= Quiet \/ \E i \in Steps : t = Step(i).ticks
  PROVE  Wait(t) \in Decisions
<1>1. Longest \in Nat /\ Quiet <= Longest /\ \A i \in Steps : Step(i).ticks <= Longest
  BY LongestWait
<1>2. Quiet \in Nat
  BY BoundsAreNumbers
<1>3. t \in 1 .. Longest
  BY <1>1, <1>2
<1>4. QED
  BY <1>3 DEF Decisions

\* The waits of the session itself.
LEMMA PauseIs ==
  ASSUME program \in Programs, NEW ticks \in Int
  PROVE  /\ Pause(ticks) \in Decisions /\ Pause(ticks) \in Decision
         /\ Pause(ticks).kind = "wait" /\ Pause(ticks).act = None
         /\ Pause(ticks).ticks \in Nat /\ Pause(ticks).ticks <= Quiet
         /\ ticks >= 1 => Pause(ticks).ticks <= ticks
<1> DEFINE t == Max({1, Min({Quiet, ticks})})
<1>1. Quiet \in Nat /\ Quiet > 0
  BY BoundsAreNumbers
<1>2. Min({Quiet, ticks}) = IF Quiet <= ticks THEN Quiet ELSE ticks
  BY <1>1, OfTwo
<1>3. Min({Quiet, ticks}) \in Int
  BY <1>1, <1>2
<1>4. t = IF 1 <= Min({Quiet, ticks}) THEN Min({Quiet, ticks}) ELSE 1
  <2>1. PICK low \in Int : low = Min({Quiet, ticks})
    BY <1>3
  <2>2. Max({1, low}) = IF 1 <= low THEN low ELSE 1
    BY OfTwo
  <2>3. QED
    BY <2>1, <2>2
<1>5. t \in Nat \ {0} /\ t <= Quiet /\ (ticks >= 1 => t <= ticks)
  BY <1>1, <1>2, <1>3, <1>4
<1>6. Pause(ticks) = Wait(t)
  BY DEF Pause
<1> HIDE DEF t
<1>7. Wait(t) \in Decisions
  BY <1>5, ShortWaitDecides
<1>8. QED
  BY <1>5, <1>6, <1>7, WaitDecides

\* A decision that has no action is a wait.
LEMMA DecisionIs ==
  ASSUME NEW d \in Decisions, program \in Programs
  PROVE  /\ d \in Decision
         /\ d.kind = "wait" <=> d.act = None
<1>1. Longest \in Nat
  BY LongestWait
<1>2. CASE \E lane \in Lanes, a \in Actions : d = Act(lane, a)
  BY <1>2, ActDecides, WaveAssumption DEF Lanes
<1>3. CASE \E t \in 1 .. Longest : d = Wait(t)
  BY <1>1, <1>3, WaitDecides
<1>4. QED
  BY <1>2, <1>3 DEF Decisions

-----------------------------------------------------------------------------
(* Proposals.                                                              *)

\* The tail takes a once-only action only if its resource is unused.
LEMMA TailIs ==
  ASSUME program \in Programs, NEW o \in Observations
  PROVE  /\ TailDecision(o) \in Decisions
         /\ TailDecision(o).kind = "offgcd" =>
              ResourceOf[TailDecision(o).act] \notin session.used
         /\ TailDecision(o).kind = "wait" => TailDecision(o).ticks <= Quiet
<1> DEFINE ready(keys) == {n \in DOMAIN keys : Ready(keys[n], o)}
           fresh == {n \in ready(TailOffGcd) : ResourceOf[TailOffGcd[n]] \notin session.used}
           first(lane, keys, places) == Act(lane, keys[Min(places)])
           waits == {o.due[a] : a \in ToSet(TailGcd) \cap Listed} \cap 1 .. MaxDue
           pause == Pause(IF waits = {} THEN Poll ELSE Min(waits))
<1> DEFINE Good(d) ==
      /\ d \in Decisions
      /\ d.kind = "offgcd" => ResourceOf[d.act] \notin session.used
      /\ d.kind = "wait" => d.ticks <= Quiet
<1>1. ASSUME NEW keys \in Seq(Actions), NEW places \in SUBSET DOMAIN keys, places # {}
      PROVE  Min(places) \in places /\ keys[Min(places)] \in Actions
  <2>1. places \in SUBSET Nat
    BY <1>1
  <2>2. Min(places) \in places
    BY <1>1, <2>1, MinIsLeast
  <2>3. QED
    BY <1>1, <2>2
<1>2. TailGcd \in Seq(Actions) /\ TailQueue \in Seq(Actions) /\ TailOffGcd \in Seq(Actions)
  BY WaveAssumption
<1>3. ASSUME fresh # {} PROVE Good(first("offgcd", TailOffGcd, fresh))
  <2>1. Min(fresh) \in fresh /\ TailOffGcd[Min(fresh)] \in Actions
    BY <1>1, <1>2, <1>3
  <2>2. ResourceOf[TailOffGcd[Min(fresh)]] \notin session.used
    BY <2>1
  <2> HIDE DEF fresh
  <2>3. QED
    BY <2>1, <2>2, ActDecides DEF Lanes
<1>4. ASSUME ready(TailGcd) # {} PROVE Good(first("gcd", TailGcd, ready(TailGcd)))
  <2>1. TailGcd[Min(ready(TailGcd))] \in Actions
    BY <1>1, <1>2, <1>4
  <2> HIDE DEF ready
  <2>2. QED
    BY <2>1, ActDecides DEF Lanes
<1>5. ASSUME ready(TailQueue) # {} PROVE Good(first("queue", TailQueue, ready(TailQueue)))
  <2>1. TailQueue[Min(ready(TailQueue))] \in Actions
    BY <1>1, <1>2, <1>5
  <2> HIDE DEF ready
  <2>2. QED
    BY <2>1, ActDecides DEF Lanes
<1>6. Good(pause)
  <2>1. waits \in SUBSET Nat
    BY BoundsAreNumbers
  <2>2. waits # {} => Min(waits) \in Nat
    BY <2>1, MinIsLeast
  <2> HIDE DEF waits
  <2>3. (IF waits = {} THEN Poll ELSE Min(waits)) \in Int
    BY <2>2, BoundsAreNumbers
  <2>4. QED
    BY <2>3, PauseIs
<1>7. \/ fresh # {} /\ TailDecision(o) = first("offgcd", TailOffGcd, fresh)
      \/ ready(TailGcd) # {} /\ TailDecision(o) = first("gcd", TailGcd, ready(TailGcd))
      \/ ready(TailQueue) # {} /\ TailDecision(o) = first("queue", TailQueue, ready(TailQueue))
      \/ TailDecision(o) = pause
  BY DEF TailDecision
<1> HIDE DEF ready, fresh, first, waits, pause, Good
<1>8. Good(TailDecision(o))
  BY <1>3, <1>4, <1>5, <1>6, <1>7
<1>9. QED
  BY <1>8 DEF Good

\* What the session proposes when i is the first step that is not dropped: the
\* step in its window, or something meanwhile, which if the program waits for
\* its steps is over before the window is.
LEMMA ProposalIs ==
  ASSUME program \in Programs, NEW i \in Steps, NEW o \in Observations, ~Skips(i, o),
         Elapsed \in Nat
  PROVE  LET p == Proposal(i, o)
         IN  /\ p.step \in {0, i} /\ p.decision \in Decisions
             /\ p.step = i =>
                  /\ p.decision.kind = Step(i).kind /\ p.decision.act = Step(i).act
                  /\ Elapsed \in Step(i).from .. Deadline(i)
             /\ p.step = 0 =>
                  /\ p.decision.kind = "offgcd" => ResourceOf[p.decision.act] \notin session.used
                  /\ p.decision.kind = "wait" => p.decision.ticks <= Quiet
                  /\ ~program.fills => /\ p.decision.kind = "wait"
                                       /\ Elapsed + p.decision.ticks <= Deadline(i)
<1> DEFINE Self(d) ==
      /\ d \in Decisions /\ d.kind = Step(i).kind /\ d.act = Step(i).act
      /\ Elapsed \in Step(i).from .. Deadline(i)
<1> DEFINE Meanwhile(d) ==
      /\ d \in Decisions
      /\ d.kind = "offgcd" => ResourceOf[d.act] \notin session.used
      /\ d.kind = "wait" => d.ticks <= Quiet
      /\ ~program.fills => d.kind = "wait" /\ Elapsed + d.ticks <= Deadline(i)
<1>1. i # 0
  BY StepsAre
<1>2. ASSUME NEW ticks \in Int, ticks >= 1, Elapsed + ticks <= Deadline(i)
      PROVE  Meanwhile(Pause(ticks))
  <2>1. Pause(ticks).ticks <= ticks /\ Pause(ticks).ticks \in Nat
    BY <1>2, PauseIs
  <2>2. Deadline(i) \in Nat
    BY StepIs
  <2>3. Elapsed + Pause(ticks).ticks <= Deadline(i)
    BY <1>2, <2>1, <2>2
  <2>4. QED
    BY <2>3, PauseIs
<1>3. ASSUME NEW ticks \in Int, ticks >= 1, Elapsed + ticks <= Deadline(i)
      PROVE  Meanwhile(GapDecision(ticks, o))
  <2>1. CASE program.fills
    BY <2>1, TailIs DEF GapDecision
  <2>2. CASE ~program.fills
    BY <1>2, <1>3, <2>2 DEF GapDecision
  <2>3. QED
    BY <2>1, <2>2
<1> HIDE DEF Self, Meanwhile
<1>4. CASE Elapsed < Step(i).from
  <2>1. Step(i).from - Elapsed \in Int /\ Step(i).from - Elapsed >= 1
        /\ Elapsed + (Step(i).from - Elapsed) <= Deadline(i)
    BY <1>4, StepIs DEF Deadline
  <2>2. Proposal(i, o) = [step |-> 0, decision |-> GapDecision(Step(i).from - Elapsed, o)]
    BY <1>4, StepIs DEF Proposal
  <2>3. QED
    BY <1>1, <1>3, <2>1, <2>2 DEF Meanwhile
<1>5. CASE ~(Elapsed < Step(i).from)
  <2>1. Elapsed >= Step(i).from /\ Elapsed <= Deadline(i)
    BY <1>5, StepIs DEF Skips
  <2>2. Elapsed \in Step(i).from .. Deadline(i)
    BY <2>1, StepIs
  <2>3. CASE Step(i).kind = "wait"
    <3>1. Proposal(i, o) = [step |-> i, decision |-> Wait(Step(i).ticks)]
      BY <1>5, <2>1, <2>3, StepIs DEF Proposal, GuardFails
    <3>2. Step(i).ticks \in Nat \ {0} /\ Step(i).act = None
      BY <2>3, StepIs
    <3>3. Self(Wait(Step(i).ticks))
      BY <2>2, <2>3, <3>2, WaitDecides, ShortWaitDecides DEF Self
    <3>4. QED
      BY <1>1, <3>1, <3>3 DEF Self
  <2>4. CASE Step(i).kind # "wait" /\ GuardFails(i, o)
    <3> DEFINE ticks == Min({Step(i).guard.every, GuardDeadline(i) - Elapsed})
    <3>1. Proposal(i, o) = [step |-> 0, decision |-> Pause(ticks)]
      BY <1>5, <2>1, <2>4 DEF Proposal
    <3>2. Elapsed < GuardDeadline(i) /\ i \in Guarded
      <4>1. ~(Elapsed >= GuardDeadline(i)) /\ i \in Guarded
        BY <2>1, <2>4 DEF Skips, GuardFails
      <4>2. QED
        BY <4>1, StepIs
    <3>3. Step(i).guard.every \in Nat /\ GuardDeadline(i) \in Nat
          /\ GuardDeadline(i) <= Deadline(i) /\ Deadline(i) \in Nat
      BY <3>2, StepIs
    <3>4. ticks \in Int /\ ticks <= GuardDeadline(i) - Elapsed
      BY <3>3, OfTwo
    <3>5. Elapsed + 1 <= Deadline(i) /\ Elapsed + ticks <= Deadline(i)
      BY <3>2, <3>3, <3>4
    <3> HIDE DEF ticks
    <3>6. CASE ticks >= 1
      BY <1>1, <1>2, <3>1, <3>4, <3>5, <3>6 DEF Meanwhile
    <3>7. CASE ~(ticks >= 1)
      <4>1. Pause(ticks) = Pause(1)
        <5>1. Quiet \in Nat /\ Quiet > 0
          BY BoundsAreNumbers
        <5>2. Min({Quiet, ticks}) = ticks /\ Min({Quiet, 1}) = 1
          BY <3>4, <3>7, <5>1, OfTwo
        <5>3. Max({1, ticks}) = 1 /\ Max({1, 1}) = 1
          <6>1. Max({1, ticks}) = IF 1 <= ticks THEN ticks ELSE 1
            BY <3>4, OfTwo
          <6>2. Max({1, 1}) = IF 1 <= 1 THEN 1 ELSE 1
            BY OfTwo
          <6>3. QED
            BY <3>4, <3>7, <6>1, <6>2
        <5>4. QED
          BY <5>2, <5>3 DEF Pause
      <4>2. Meanwhile(Pause(1))
        BY <1>2, <3>5
      <4>3. QED
        BY <1>1, <3>1, <4>1, <4>2 DEF Meanwhile
    <3>8. QED
      BY <3>6, <3>7
  <2>5. CASE Step(i).kind # "wait" /\ ~GuardFails(i, o) /\ Ready(Step(i).act, o)
    <3>1. Proposal(i, o) = [step |-> i, decision |-> Act(Step(i).kind, Step(i).act)]
      BY <1>5, <2>1, <2>5 DEF Proposal
    <3>2. Step(i).kind \in Lanes /\ Step(i).act \in Actions
      BY <2>5, StepIs
    <3>3. Self(Act(Step(i).kind, Step(i).act))
      BY <2>2, <3>2, ActDecides DEF Self
    <3>4. QED
      BY <1>1, <3>1, <3>3 DEF Self
  <2>6. CASE Step(i).kind # "wait" /\ ~GuardFails(i, o) /\ ~Ready(Step(i).act, o)
    <3> DEFINE due == o.due[Step(i).act]
               longer == Max({1, IF due <= 0 THEN Poll ELSE due})
               shorter == Max({1, Deadline(i) - Elapsed})
    <3>1. Proposal(i, o) = [step |-> 0, decision |-> GapDecision(UntilReady(i, o), o)]
      BY <1>5, <2>1, <2>6 DEF Proposal
    <3>2. Step(i).act \in Listed /\ ~(Elapsed >= Deadline(i))
      BY <2>1, <2>6 DEF Skips
    <3>3. Deadline(i) \in Nat /\ Deadline(i) - Elapsed \in Int /\ Elapsed < Deadline(i)
      BY <3>2, StepIs
    <3>4. due \in Int
      BY <3>2, BoundsAreNumbers DEF Observations
    <3>5. longer \in Int /\ longer >= 1
      <4>1. (IF due <= 0 THEN Poll ELSE due) \in Int
        BY <3>4, BoundsAreNumbers
      <4>2. PICK x \in Int : x = IF due <= 0 THEN Poll ELSE due
        BY <4>1
      <4>3. Max({1, x}) = IF 1 <= x THEN x ELSE 1
        BY OfTwo
      <4>4. QED
        BY <4>2, <4>3
    <3>6. shorter = Deadline(i) - Elapsed
      <4>1. PICK x \in Int : x = Deadline(i) - Elapsed /\ x >= 1
        BY <3>3
      <4>2. Max({1, x}) = IF 1 <= x THEN x ELSE 1
        BY OfTwo
      <4>3. QED
        BY <4>1, <4>2
    <3>7. UntilReady(i, o) = Min({longer, shorter})
      BY DEF UntilReady
    <3> HIDE DEF due, longer, shorter
    <3>8. UntilReady(i, o) \in Int /\ UntilReady(i, o) >= 1
          /\ Elapsed + UntilReady(i, o) <= Deadline(i)
      <4>1. Min({longer, shorter}) = IF longer <= shorter THEN longer ELSE shorter
        BY <3>3, <3>5, <3>6, OfTwo
      <4>2. QED
        BY <3>3, <3>5, <3>6, <3>7, <4>1
    <3>9. Meanwhile(GapDecision(UntilReady(i, o), o))
      BY <1>3, <3>8
    <3>10. QED
      BY <1>1, <3>1, <3>9 DEF Meanwhile
  <2>7. QED
    BY <2>3, <2>4, <2>5, <2>6
<1>6. QED
  BY <1>4, <1>5

-----------------------------------------------------------------------------
(* What the steps that choose and execute do.                              *)

LEMMA Joined ==
  ASSUME NEW S, NEW a \in S, NEW b \in S, NEW t \in Seq(S)
  PROVE  LET s == <<a, b>> \o t
         IN  /\ s \in Seq(S) /\ Len(s) = 2 + Len(t) /\ s[1] = a /\ s[2] = b
             /\ \A n \in 3 .. Len(s) : s[n] = t[n - 2]
<1>1. <<a, b>> \in Seq(S) /\ Len(<<a, b>>) = 2 /\ <<a, b>>[1] = a /\ <<a, b>>[2] = b
  OBVIOUS
<1>2. PICK x : x = <<a, b>>
  OBVIOUS
<1>3. x \o t \in Seq(S) /\ Len(x \o t) = 2 + Len(t)
  BY <1>1, <1>2, ConcatProperties
<1>4. /\ (x \o t)[1] = a /\ (x \o t)[2] = b
      /\ \A n \in 3 .. Len(x \o t) : (x \o t)[n] = t[n - 2]
  BY <1>1, <1>2, <1>3, ConcatProperties
<1>5. QED
  BY <1>2, <1>3, <1>4

\* Operations are begun with the target and the attack; the decision's own one
\* comes once.
LEMMA OperationsAre ==
  ASSUME NEW d \in Decision
  PROVE  /\ Operations(d) \in Seq(Ops)
         /\ \A n \in DOMAIN Operations(d) :
              Operations(d)[n] \in {"SET_TARGET", "START_ATTACK", d.kind, "wait"}
         /\ \A m, n \in DOMAIN Operations(d) :
              Operations(d)[m] = d.kind /\ Operations(d)[n] = d.kind => m = n
<1>1. d.kind \in {"gcd", "queue", "offgcd", "wait"}
  BY DEF Decision, Lanes
<1>2. PICK t \in Seq(Ops) :
        /\ Operations(d) = <<"SET_TARGET", "START_ATTACK">> \o t
        /\ t = <<d.kind>> \/ (t = <<d.kind, "wait">> /\ d.kind # "wait")
  <2>1. <<d.kind>> \in Seq(Ops) /\ <<d.kind, "wait">> \in Seq(Ops)
    BY <1>1 DEF Ops, Lanes
  <2>2. CASE d.kind = "gcd"
    BY <2>1, <2>2 DEF Operations
  <2>3. CASE d.kind = "wait"
    BY <2>1, <2>3 DEF Operations
  <2>4. CASE d.kind \in {"queue", "offgcd"}
    BY <2>1, <2>4 DEF Operations
  <2>5. QED
    BY <1>1, <2>2, <2>3, <2>4
<1>3. "SET_TARGET" \in Ops /\ "START_ATTACK" \in Ops
  BY DEF Ops
<1>4. PICK s : s = Operations(d)
  OBVIOUS
<1>5. /\ s \in Seq(Ops) /\ Len(s) = 2 + Len(t)
      /\ s[1] = "SET_TARGET" /\ s[2] = "START_ATTACK"
      /\ \A n \in 3 .. Len(s) : s[n] = t[n - 2]
  BY <1>2, <1>3, <1>4, Joined
<1>6. DOMAIN s = 1 .. Len(s)
  <2>1. s \in Seq(Ops)
    BY <1>5
  <2>2. QED
    BY <2>1
<1>7. CASE t = <<d.kind>>
  <2>1. Len(s) = 3 /\ s[3] = d.kind
    <3>1. Len(t) = 1 /\ t[1] = d.kind
      BY <1>7
    <3>2. Len(s) = 3
      BY <1>5, <3>1
    <3>3. 3 \in 3 .. Len(s) /\ 3 - 2 = 1
      BY <3>2
    <3>4. s[3] = t[3 - 2]
      BY <1>5, <3>3
    <3>5. QED
      BY <3>1, <3>2, <3>3, <3>4
  <2>2. DOMAIN s = {1, 2, 3}
    <3>1. DOMAIN s = 1 .. 3
      BY <1>6, <2>1
    <3>2. QED
      BY <3>1
  <2>3. d.kind # "SET_TARGET" /\ d.kind # "START_ATTACK"
    BY <1>1
  <2>4. \A n \in DOMAIN s : s[n] \in {"SET_TARGET", "START_ATTACK", d.kind, "wait"}
    BY <1>5, <2>1, <2>2
  <2>5. \A n \in DOMAIN s : s[n] = d.kind => n = 3
    BY <1>5, <2>1, <2>2, <2>3
  <2>6. \A m, n \in DOMAIN s : s[m] = d.kind /\ s[n] = d.kind => m = n
    BY <2>5
  <2>7. QED
    BY <1>4, <1>5, <2>4, <2>6
<1>8. CASE t = <<d.kind, "wait">> /\ d.kind # "wait"
  <2>1. Len(s) = 4 /\ s[3] = d.kind /\ s[4] = "wait"
    <3>1. Len(t) = 2 /\ t[1] = d.kind /\ t[2] = "wait"
      BY <1>8
    <3>2. Len(s) = 4
      BY <1>5, <3>1
    <3>3. 3 \in 3 .. Len(s) /\ 4 \in 3 .. Len(s) /\ 3 - 2 = 1 /\ 4 - 2 = 2
      BY <3>2
    <3>4. s[3] = t[3 - 2] /\ s[4] = t[4 - 2]
      BY <1>5, <3>3
    <3>5. QED
      BY <3>1, <3>2, <3>3, <3>4
  <2>2. DOMAIN s = {1, 2, 3, 4}
    <3>1. DOMAIN s = 1 .. 4
      BY <1>6, <2>1
    <3>2. QED
      BY <3>1
  <2>3. d.kind # "SET_TARGET" /\ d.kind # "START_ATTACK"
    BY <1>1
  <2>4. \A n \in DOMAIN s : s[n] \in {"SET_TARGET", "START_ATTACK", d.kind, "wait"}
    BY <1>5, <2>1, <2>2
  <2>5. \A n \in DOMAIN s : s[n] = d.kind => n = 3
    BY <1>5, <1>8, <2>1, <2>2, <2>3
  <2>6. \A m, n \in DOMAIN s : s[m] = d.kind /\ s[n] = d.kind => m = n
    BY <2>5
  <2>7. QED
    BY <1>4, <1>5, <2>4, <2>6
<1>9. QED
  BY <1>2, <1>7, <1>8

\* What is done to a session leaves it one.
LEMMA SessionUpdates ==
  ASSUME NEW s \in Session
  PROVE  /\ [s EXCEPT !.pending = NoPending] \in Session
         /\ \A k \in Nat : [s EXCEPT !.fallbacks = k] \in Session
         /\ \A k \in Nat : [s EXCEPT !.fallbacks = k, !.pending = NoPending] \in Session
         /\ \A used \in SUBSET Resources, done \in SUBSET Nat :
              [s EXCEPT !.pending = NoPending, !.used = used, !.committed = done] \in Session
<1>1. PICK x \in Pending \cup {NoPending} : x = NoPending
  OBVIOUS
<1>2. [s EXCEPT !.pending = x] \in Session
  BY Zenon DEF Session
<1>3. ASSUME NEW k \in Nat
      PROVE  [s EXCEPT !.fallbacks = k] \in Session
  BY Zenon DEF Session
<1>4. ASSUME NEW k \in Nat
      PROVE  [s EXCEPT !.fallbacks = k, !.pending = x] \in Session
  BY Zenon DEF Session
<1>5. ASSUME NEW used \in SUBSET Resources, NEW done \in SUBSET Nat
      PROVE  [s EXCEPT !.pending = x, !.used = used, !.committed = done] \in Session
  BY Zenon DEF Session
<1>6. QED
  BY <1>1, <1>2, <1>3, <1>4, <1>5

\* One more fallback, and no proposal.
LEMMA FallenBack ==
  ASSUME session \in Session,
         session' = [session EXCEPT !.fallbacks = @ + 1, !.pending = NoPending]
  PROVE  /\ session' \in Session
         /\ session'.committed = session.committed /\ session'.skipped = session.skipped
         /\ session'.used = session.used /\ session'.started = session.started
         /\ session'.pending = NoPending
<1>1. PICK k \in Nat : k = session.fallbacks + 1
  BY DEF Session
<1>2. session' = [session EXCEPT !.fallbacks = k, !.pending = NoPending]
  BY <1>1
<1>3. \A q \in Nat : [session EXCEPT !.fallbacks = q, !.pending = NoPending] \in Session
  BY SessionUpdates, Zenon
<1>4. [session EXCEPT !.fallbacks = k, !.pending = NoPending] \in Session
  BY <1>3, Zenon
<1>5. session' \in Session
  BY <1>2, <1>4, Zenon
<1>6. QED
  BY <1>2, <1>5 DEF Session

\* A decision is taken up, and a proposal for it recorded or not.
Takes(d, passed, started) ==
  /\ session' \in Session
  /\ session'.committed = session.committed
  /\ session'.skipped = session.skipped \cup passed
  /\ session'.used = session.used /\ session'.started = started
  /\ latch' = d
  /\ replay' \in Replay
  /\ replay'.at = "execute" /\ replay'.index = replay.index
  /\ replay'.todo = Operations(d) /\ replay'.accepted = {}
  /\ replay.at = "choose" /\ replay.index < MaxDecisions
  /\ program' = program /\ sim' = sim /\ executed' = executed

Proposed(d, step) ==
  /\ session'.pending = [decision |-> d, ordinal |-> session.proposals, step |-> step]
  /\ session'.proposals = session.proposals + 1
  /\ session'.fallbacks = session.fallbacks

LEMMA DecideResult ==
  ASSUME Typed, Choosing, NEW d \in Decision, Decide(d)
  PROVE  /\ latch' = d
         /\ replay' \in Replay
         /\ replay'.at = "execute" /\ replay'.index = replay.index
         /\ replay'.todo = Operations(d) /\ replay'.accepted = {}
         /\ replay.at = "choose" /\ replay.index < MaxDecisions
         /\ program' = program /\ sim' = sim /\ executed' = executed
BY OperationsAre DEF Typed, Choosing, Decide, Replay

LEMMA ProposeResult ==
  ASSUME Typed, Choosing, NEW d \in Decision, NEW step \in Nat, NEW s \in Session,
         s.committed = session.committed, s.used = session.used,
         s.proposals = session.proposals, s.fallbacks = session.fallbacks,
         NEW passed, s.skipped = session.skipped \cup passed,
         Propose(s, d, step)
  PROVE  Takes(d, passed, s.started) /\ Proposed(d, step)
<1>1. PICK x : x = [decision |-> d, ordinal |-> s.proposals, step |-> step]
  OBVIOUS
<1>2. x \in Pending
  <2>1. s.proposals \in Nat
    BY DEF Session
  <2>2. QED
    BY <1>1, <2>1 DEF Pending
<1>3. session' = [s EXCEPT !.pending = x, !.proposals = @ + 1] /\ Decide(d)
  BY <1>1 DEF Propose
<1>4. /\ session' \in Session
      /\ session'.committed = s.committed /\ session'.skipped = s.skipped
      /\ session'.used = s.used /\ session'.started = s.started
      /\ session'.pending = x /\ session'.proposals = s.proposals + 1
      /\ session'.fallbacks = s.fallbacks
  <2>1. PICK k \in Nat : k = s.proposals + 1
    BY DEF Session
  <2>2. session' = [s EXCEPT !.pending = x, !.proposals = k]
    BY <1>3, <2>1 DEF Session
  <2>3. QED
    BY <1>2, <2>1, <2>2 DEF Session
<1>5. QED
  BY <1>1, <1>3, <1>4, DecideResult DEF Takes, Proposed

\* The session chooses: the steps before the first that is not dropped are
\* closed, and what is proposed fits that step.
LEMMA ChooseResult ==
  ASSUME Typed, ClosedFits, Choose
  PROVE  \E passed \in SUBSET (Steps \ Closed), i \in Steps \cup {0}, d \in Decisions :
           /\ Takes(d, passed, IF session.started = -1 THEN sim.time ELSE session.started)
           /\ Proposed(d, i)
           /\ \A k \in Closed \cup passed, j \in Steps : j <= k => j \in Closed \cup passed
           /\ i # 0 =>
                /\ i \in Steps \ (Closed \cup passed)
                /\ \A j \in Steps : j < i => j \in Closed \cup passed
                /\ d.kind = Step(i).kind /\ d.act = Step(i).act
                /\ Elapsed \in Step(i).from .. Deadline(i)
           /\ i = 0 =>
                /\ d.kind = "offgcd" => ResourceOf[d.act] \notin session.used
                /\ d.kind = "wait" => d.ticks <= Quiet
           /\ asleep' \in Steps \cup {0}
           /\ asleep' # 0 => d.kind = "wait" /\ Elapsed + d.ticks <= Deadline(asleep')
<1> DEFINE open == Steps \ (session.committed \cup session.skipped)
           passed(o) == {i \in open : \A k \in open : k <= i => Skips(k, o)}
           now(o) == IF passed(o) = open THEN 0 ELSE Min(open \ passed(o))
           p(o) == IF now(o) = 0 THEN [step |-> 0, decision |-> TailDecision(o)]
                   ELSE Proposal(now(o), o)
           started == IF session.started = -1 THEN sim.time ELSE session.started
<1>1. Choosing /\ program \in Programs /\ Steps \subseteq Nat \ {0} /\ Elapsed \in Nat
  <2>1. sim.time \in Nat /\ session.started \in Nat \cup {-1} /\ session.started <= sim.time
    BY DEF Typed, Session
  <2>2. Elapsed \in Nat
    BY <2>1 DEF Elapsed
  <2>3. QED
    BY <2>2, StepsAre DEF Choose, Typed
<1>2. PICK o \in Observations :
        /\ Propose([session EXCEPT !.skipped = @ \cup passed(o),
                                   !.started = IF @ = -1 THEN sim.time ELSE @],
                   p(o).decision, p(o).step)
        /\ asleep' = IF p(o).step = 0 /\ p(o).decision.kind = "wait" /\ ~program.fills
                     THEN now(o) ELSE 0
  BY DEF Choose
<1>3. open = Steps \ Closed
  BY DEF Closed
<1>4. PICK P, n, i, d : P = passed(o) /\ n = now(o) /\ i = p(o).step /\ d = p(o).decision
  OBVIOUS
<1>5. P \subseteq Steps \ Closed /\ \A k \in P, j \in open : j <= k => j \in P
  <2>1. ASSUME NEW k \in P, NEW j \in open, j <= k
        PROVE  j \in P
    <3>1. \A l \in open : l <= j => l <= k
      BY <1>1, <1>4, <2>1
    <3>2. QED
      BY <1>4, <2>1, <3>1
  <2>2. QED
    BY <1>3, <1>4, <2>1
<1>6. ASSUME NEW k \in Closed \cup P, NEW j \in Steps, j <= k
      PROVE  j \in Closed \cup P
  BY <1>3, <1>5, <1>6 DEF ClosedFits
<1>7. ASSUME n # 0
      PROVE  /\ n \in Steps \ (Closed \cup P) /\ ~Skips(n, o)
             /\ \A j \in Steps : j < n => j \in Closed \cup P
  <2>1. n = Min(open \ P) /\ open \ P # {}
    <3>1. P # open
      BY <1>4, <1>7
    <3>2. n = Min(open \ P)
      BY <1>4, <3>1
    <3>3. QED
      BY <1>3, <1>5, <3>1, <3>2
  <2>2. n \in open \ P /\ \A y \in open \ P : n <= y
    BY <1>1, <2>1, MinIsLeast
  <2>3. \A j \in Steps : j < n => j \in Closed \cup P
    <3>1. SUFFICES ASSUME NEW j \in Steps, j < n, j \notin Closed \cup P PROVE FALSE
      OBVIOUS
    <3>2. n <= j /\ j \in Nat /\ n \in Nat
      BY <1>1, <1>3, <2>2, <3>1
    <3>3. QED
      BY <3>1, <3>2
  <2>4. \A k \in open : k < n => Skips(k, o)
    <3>1. \A k \in open : k < n => k \in P
      BY <1>1, <2>2
    <3>2. QED
      BY <1>1, <1>4, <3>1
  <2>5. ~Skips(n, o)
    <3>1. PICK k \in open : k <= n /\ ~Skips(k, o)
      BY <1>4, <2>2
    <3>2. k = n
      BY <1>1, <2>2, <2>4, <3>1
    <3>3. QED
      BY <3>1, <3>2
  <2>6. QED
    BY <1>3, <2>2, <2>3, <2>5
<1>8. /\ i \in {0, n} /\ d \in Decisions
      /\ i # 0 =>
           /\ d.kind = Step(i).kind /\ d.act = Step(i).act
           /\ Elapsed \in Step(i).from .. Deadline(i)
      /\ i = 0 =>
           /\ d.kind = "offgcd" => ResourceOf[d.act] \notin session.used
           /\ d.kind = "wait" => d.ticks <= Quiet
           /\ n # 0 /\ ~program.fills => Elapsed + d.ticks <= Deadline(n)
  <2>1. CASE n = 0
    <3>1. i = 0 /\ d = TailDecision(o)
      BY <1>4, <2>1
    <3>2. QED
      BY <1>1, <2>1, <3>1, TailIs
  <2>2. CASE n # 0
    <3>1. i = Proposal(n, o).step /\ d = Proposal(n, o).decision
      BY <1>4, <2>2
    <3>2. QED
      BY <1>1, <1>7, <2>2, <3>1, ProposalIs
  <2>3. QED
    BY <2>1, <2>2
<1>9. started \in Nat \cup {-1}
  BY DEF Typed, Session
<1>10. Propose([session EXCEPT !.skipped = @ \cup P, !.started = started], d, i)
  <2>1. session \in Session
    BY DEF Typed
  <2>2. [session EXCEPT !.skipped = @ \cup P, !.started = IF @ = -1 THEN sim.time ELSE @]
        = [session EXCEPT !.skipped = @ \cup P, !.started = started]
    BY <2>1 DEF Session
  <2>3. QED
    BY <1>2, <1>4, <2>2
<1>11. i \in Steps \cup {0} /\ n \in Steps \cup {0}
  BY <1>7, <1>8
<1> HIDE DEF started
<1>12. Takes(d, P, started) /\ Proposed(d, i)
  <2>1. d \in Decision
    BY <1>1, <1>8, DecisionIs
  <2>2. PICK s : s = [session EXCEPT !.skipped = @ \cup P, !.started = started]
    OBVIOUS
  <2>3. /\ s \in Session
        /\ s.committed = session.committed /\ s.skipped = session.skipped \cup P
        /\ s.used = session.used /\ s.started = started
        /\ s.proposals = session.proposals /\ s.fallbacks = session.fallbacks
    <3>1. session \in Session /\ session.skipped \cup P \in SUBSET Nat
      BY <1>1, <1>5 DEF Typed, Session
    <3>2. QED
      BY <1>9, <2>2, <3>1 DEF Session
  <2>4. Propose(s, d, i) /\ i \in Nat
    BY <1>1, <1>10, <1>11, <2>2
  <2>5. QED
    BY <1>1, <2>1, <2>3, <2>4, ProposeResult
<1>13. asleep' = IF i = 0 /\ d.kind = "wait" /\ ~program.fills THEN n ELSE 0
  BY <1>2, <1>4
<1>14. asleep' \in Steps \cup {0}
       /\ (asleep' # 0 => d.kind = "wait" /\ Elapsed + d.ticks <= Deadline(asleep'))
  BY <1>8, <1>11, <1>13
<1>15. i # 0 => i \in Steps \ (Closed \cup P) /\ \A j \in Steps : j < i => j \in Closed \cup P
  BY <1>7, <1>8
<1>16. QED
  BY <1>5, <1>6, <1>8, <1>11, <1>12, <1>14, <1>15 DEF started

\* Nobody to fight: a short wait for no step.
LEMMA ChooseIdleResult ==
  ASSUME Typed, ChooseIdle
  PROVE  \E d \in Decisions :
           /\ Takes(d, {}, session.started) /\ Proposed(d, 0)
           /\ d.kind = "wait" /\ d.ticks <= Quiet
           /\ asleep' = 0
<1>1. Choosing /\ program \in Programs /\ session \in Session /\ asleep' = 0
  BY DEF ChooseIdle, Typed
<1>2. PICK ticks \in {Poll, 1} : Propose(session, Pause(ticks), 0)
  BY DEF ChooseIdle
<1>3. ticks \in Int
  BY BoundsAreNumbers
<1>4. PICK d : d = Pause(ticks)
  OBVIOUS
<1>5. d \in Decisions /\ d \in Decision /\ d.kind = "wait" /\ d.ticks <= Quiet
  BY <1>1, <1>3, <1>4, PauseIs
<1>6. Takes(d, {}, session.started) /\ Proposed(d, 0)
  <2>1. session.skipped = session.skipped \cup {}
    OBVIOUS
  <2>2. Propose(session, d, 0)
    BY <1>2, <1>4
  <2>3. QED
    BY <1>1, <1>5, <2>1, <2>2, ProposeResult
<1>7. QED
  BY <1>1, <1>5, <1>6

\* A decision of the fallback is no proposal of the session.
LEMMA FallbackResult ==
  ASSUME Typed, Fallback
  PROVE  \E d \in Decisions :
           /\ Takes(d, {}, session.started)
           /\ session'.pending = NoPending
           /\ asleep' = 0
<1>1. Choosing /\ program \in Programs /\ session \in Session /\ asleep' = 0
  BY DEF Fallback, Typed
<1>2. PICK d \in {Act(lane, a) : lane \in Lanes, a \in Listed} \cup {Wait(1)} : Decide(d)
  BY DEF Fallback
<1>3. d \in Decisions
  <2>1. CASE d = Wait(1)
    <3>1. 1 \in Nat \ {0} /\ 1 <= Quiet
      BY BoundsAreNumbers
    <3>2. QED
      BY <1>1, <2>1, <3>1, ShortWaitDecides
  <2>2. CASE d # Wait(1)
    <3>1. PICK lane \in Lanes, a \in Listed : d = Act(lane, a)
      BY <1>2, <2>2
    <3>2. a \in Actions
      BY WaveAssumption
    <3>3. QED
      BY <3>1, <3>2, ActDecides
  <2>3. QED
    BY <2>1, <2>2
<1>4. d \in Decision
  BY <1>1, <1>3, DecisionIs
<1>5. /\ session' \in Session
      /\ session'.committed = session.committed
      /\ session'.skipped = session.skipped \cup {}
      /\ session'.used = session.used /\ session'.started = session.started
      /\ session'.pending = NoPending
  BY <1>1, FallenBack DEF Fallback
<1>6. QED
  BY <1>1, <1>2, <1>3, <1>4, <1>5, DecideResult DEF Takes

\* An operation of the decision is over, accepted or passed over.
LEMMA CarriesOn ==
  ASSUME Typed, Executing, NEW taken \in SUBSET {Operation},
         replay' = [replay EXCEPT !.todo = Tail(@), !.accepted = @ \cup taken]
  PROVE  /\ replay' \in Replay /\ replay'.at = "execute" /\ replay.at = "execute"
         /\ replay'.index = replay.index /\ replay'.accepted = replay.accepted \cup taken
         /\ Operation \in Ops /\ 1 \in DOMAIN replay.todo /\ Operation = replay.todo[1]
         /\ \A n \in DOMAIN replay'.todo :
              n + 1 \in DOMAIN replay.todo /\ n \in Nat \ {0}
              /\ replay'.todo[n] = replay.todo[n + 1]
<1>1. replay \in Replay /\ replay.at = "execute" /\ replay.todo # <<>>
  BY DEF Typed, Executing
<1>2. PICK s \in Seq(Ops) : s = replay.todo /\ s # <<>>
  BY <1>1 DEF Replay
<1>3. /\ Tail(s) \in Seq(Ops) /\ Head(s) \in Ops /\ Head(s) = s[1] /\ 1 \in DOMAIN s
      /\ \A n \in DOMAIN Tail(s) :
           n + 1 \in DOMAIN s /\ n \in Nat \ {0} /\ Tail(s)[n] = s[n + 1]
  BY <1>2
<1>4. Operation = s[1] /\ Operation \in Ops
  BY <1>2, <1>3 DEF Operation
<1>5. PICK t \in Seq(Ops), u \in SUBSET Ops : t = Tail(s) /\ u = replay.accepted \cup taken
  BY <1>1, <1>3, <1>4 DEF Replay
<1>6. replay' = [replay EXCEPT !.todo = t, !.accepted = u]
  BY <1>1, <1>2, <1>5 DEF Replay
<1>7. replay' \in Replay
  BY <1>1, <1>5, <1>6 DEF Replay
<1>8. /\ replay'.at = "execute" /\ replay'.index = replay.index
      /\ replay'.todo = t /\ replay'.accepted = u
  BY <1>1, <1>6 DEF Replay
<1>9. QED
  BY <1>1, <1>2, <1>3, <1>4, <1>5, <1>7, <1>8

\* The decision under way is left, whole or in part.
LEMMA TodoCarriesOn ==
  ASSUME Typed, Executing, TodoFits, latch' = latch, NEW taken \in SUBSET {Operation},
         replay' = [replay EXCEPT !.todo = Tail(@), !.accepted = @ \cup taken]
  PROVE  TodoFits'
<1>1. /\ replay'.accepted = replay.accepted \cup taken
      /\ 1 \in DOMAIN replay.todo /\ Operation = replay.todo[1]
      /\ \A n \in DOMAIN replay'.todo :
           n + 1 \in DOMAIN replay.todo /\ n \in Nat \ {0}
           /\ replay'.todo[n] = replay.todo[n + 1]
  BY CarriesOn
<1>2. \A n \in DOMAIN replay'.todo :
        replay'.todo[n] \in {"SET_TARGET", "START_ATTACK", latch.kind, "wait"}
  BY <1>1 DEF TodoFits
<1>3. ASSUME NEW m \in DOMAIN replay'.todo, NEW n \in DOMAIN replay'.todo,
             replay'.todo[m] = latch.kind, replay'.todo[n] = latch.kind
      PROVE  m = n
  <2>1. m + 1 = n + 1
    BY <1>1, <1>3 DEF TodoFits
  <2>2. QED
    BY <1>1, <2>1
<1>4. ASSUME latch.kind \in replay'.accepted, NEW n \in DOMAIN replay'.todo
      PROVE  replay'.todo[n] # latch.kind
  <2>1. CASE latch.kind \in replay.accepted
    BY <1>1, <2>1 DEF TodoFits
  <2>2. CASE latch.kind = Operation
    <3>1. n + 1 # 1
      BY <1>1
    <3>2. QED
      BY <1>1, <2>2, <3>1 DEF TodoFits
  <2>3. QED
    BY <1>1, <1>4, <2>1, <2>2
<1>5. QED
  BY <1>2, <1>3, <1>4 DEF TodoFits

-----------------------------------------------------------------------------
(* Every step preserves the invariant.                                     *)

\* The program stays what it is.
DecisionsOf(p) ==
  {Act(lane, a) : lane \in Lanes, a \in Actions} \cup
  {Wait(t) : t \in 1 .. Max({Quiet, Poll} \cup {p.steps[i].ticks : i \in DOMAIN p.steps})}

LEMMA SameDecisions ==
  ASSUME program' = program
  PROVE  Decisions' = Decisions /\ Steps' = Steps
<1>1. Decisions = DecisionsOf(program)
  BY DEF Decisions, DecisionsOf, Longest, Steps, Step
<1>2. Decisions' = DecisionsOf(program')
  BY DEF Decisions, DecisionsOf, Longest, Steps, Step
<1>3. Steps' = Steps
  BY DEF Steps
<1>4. QED
  BY <1>1, <1>2, <1>3

LEMMA LatchIs ==
  ASSUME Typed, latch # None
  PROVE  /\ latch \in Decisions /\ latch \in Decision
         /\ latch.kind \in Lanes \cup {"wait"} /\ latch.act \in Actions \cup {None}
         /\ latch.ticks \in Nat \ {0}
         /\ latch.kind = "wait" <=> latch.act = None
<1>1. latch \in Decisions /\ program \in Programs
  BY DEF Typed
<1>2. latch \in Decision /\ (latch.kind = "wait" <=> latch.act = None)
  BY <1>1, DecisionIs
<1>3. QED
  BY <1>1, <1>2 DEF Decision

LEMMA ElapsedIs ==
  ASSUME Typed
  PROVE  /\ Elapsed \in Nat /\ sim.time \in Nat /\ sim.wake \in Nat
         /\ session.started \in Int
         /\ session.started # -1 => Elapsed = sim.time - session.started
<1>1. sim.time \in Nat /\ sim.wake \in Nat
      /\ session.started \in Nat \cup {-1} /\ session.started <= sim.time
  BY DEF Typed, Session
<1>2. QED
  BY <1>1 DEF Elapsed

LEMMA InitFits ==
  ASSUME Init
  PROVE  IInv
<1>1. Typed
  <2>1. NoPending \in Pending \cup {NoPending}
    OBVIOUS
  <2>2. PICK x \in Pending \cup {NoPending} : x = NoPending
    BY <2>1
  <2>3. session \in Session /\ session.committed = {} /\ session.skipped = {}
        /\ session.started = -1
    BY <2>2 DEF Init, Session
  <2>4. replay \in Replay
    BY BoundsAreNumbers DEF Init, Replay
  <2>5. QED
    BY <2>3, <2>4 DEF Init, Typed
<1>2. ClosedFits /\ TailOnce /\ Taken = {}
  BY DEF Init, ClosedFits, Closed, TailOnce, Taken
<1>3. DecisionFits /\ ~Running
  BY DEF Init, DecisionFits, Idle, Acting, Running
<1>4. Counted /\ RunningCounts
  BY <1>2, <1>3 DEF Init, Counted, RunningCounts, RunningStep
<1>5. StepsFit
  BY <1>2 DEF StepsFit
<1>6. AsleepFits
  BY DEF Init, AsleepFits
<1>7. QED
  BY <1>1, <1>2, <1>3, <1>4, <1>5, <1>6 DEF IInv

\* The replay stops as invalid: nothing that was done changes.
Stops ==
  /\ session' \in Session /\ session'.pending = NoPending
  /\ session'.committed = session.committed /\ session'.skipped = session.skipped
  /\ session'.used = session.used /\ session'.started = session.started
  /\ latch' \in {latch, None}
  /\ replay' \in Replay /\ replay'.at = "invalid"
  /\ program' = program /\ sim' = sim /\ executed' = executed /\ asleep' = asleep

LEMMA StopKeeps ==
  ASSUME IInv, Stops
  PROVE  IInv'
<1>1. program' = program /\ executed' = executed /\ sim' = sim /\ asleep' = asleep
  BY DEF Stops
<1>2. Typed'
  <2>1. Decisions' = Decisions /\ Steps' = Steps
    BY <1>1, SameDecisions
  <2>2. QED
    BY <2>1 DEF IInv, Typed, Stops
<1>3. ClosedFits'
  BY DEF IInv, ClosedFits, Closed, Stops, Steps
<1>4. ~Idle' /\ ~Acting' /\ session'.pending = NoPending
  BY DEF Stops, Idle, Acting
<1>5. DecisionFits'
  BY <1>4 DEF DecisionFits
<1>6. RunningStep' = {} /\ Taken' = Taken
  BY <1>1, <1>4 DEF Running, RunningStep, Taken
<1>7. Counted' /\ RunningCounts'
  BY <1>1, <1>6 DEF IInv, Counted, RunningCounts, Stops
<1>8. StepsFit'
  BY <1>1, <1>6 DEF IInv, StepsFit, StepFits, Steps, Step, Deadline, Stops
<1>9. TailOnce'
  BY <1>1 DEF IInv, TailOnce
<1>10. AsleepFits'
  BY <1>4 DEF AsleepFits, Stops
<1>11. QED
  BY <1>2, <1>3, <1>5, <1>7, <1>8, <1>9, <1>10 DEF IInv

\* Every step that stops the replay does no more than that.
LEMMA FailuresStop ==
  ASSUME IInv, NoFallback \/ TooManyDecisions \/ Refuse \/ RefuseFeedback \/ BridgeFails
  PROVE  Stops
<1>1. /\ session \in Session /\ replay \in Replay
      /\ replay.at # "execute" => session.pending = NoPending
  BY DEF IInv, Typed, DecisionFits, Acting
<1>2. [replay EXCEPT !.at = "invalid"] \in Replay
      /\ [replay EXCEPT !.at = "invalid"].at = "invalid"
  BY <1>1 DEF Replay
<1>3. ASSUME session' = session \/ session' = [session EXCEPT !.pending = NoPending]
      PROVE  /\ session' \in Session
             /\ session'.committed = session.committed /\ session'.skipped = session.skipped
             /\ session'.used = session.used /\ session'.started = session.started
             /\ session'.pending \in {session.pending, NoPending}
             /\ session' = session \/ session'.pending = NoPending
  <2>1. [session EXCEPT !.pending = NoPending] \in Session
    BY <1>1, SessionUpdates
  <2>2. QED
    BY <1>1, <1>3, <2>1 DEF Session
<1>4. CASE NoFallback
  <2>1. PICK k \in Nat : k = session.fallbacks + 1
    BY <1>1 DEF Session
  <2>2. session' = [session EXCEPT !.fallbacks = k]
    BY <1>4, <2>1 DEF NoFallback
  <2>3. [session EXCEPT !.fallbacks = k] \in Session
    BY <1>1, SessionUpdates
  <2>4. session' \in Session /\ session'.committed = session.committed
        /\ session'.skipped = session.skipped /\ session'.used = session.used
        /\ session'.started = session.started /\ session'.pending = session.pending
    BY <1>1, <2>2, <2>3 DEF Session
  <2>5. QED
    BY <1>1, <1>2, <1>4, <2>4 DEF NoFallback, Choosing, Stops
<1>5. CASE TooManyDecisions \/ BridgeFails
  BY <1>1, <1>2, <1>3, <1>5 DEF TooManyDecisions, BridgeFails, Stops
<1>6. CASE Refuse \/ RefuseFeedback
  <2>1. session' = [session EXCEPT !.pending = NoPending]
    BY <1>6 DEF Refuse, RefuseFeedback
  <2>2. session'.pending = NoPending
    BY <1>1, <2>1 DEF Session
  <2>3. QED
    BY <1>2, <1>3, <1>6, <2>1, <2>2 DEF Refuse, RefuseFeedback, Stops
<1>7. QED
  BY <1>4, <1>5, <1>6

LEMMA AdvanceKeeps ==
  ASSUME IInv, Advance \/ Complete
  PROVE  IInv'
<1>1. /\ program' = program /\ session' = session /\ latch' = latch
      /\ executed' = executed /\ asleep' = asleep /\ Idle
  BY DEF Advance, Complete, Idle
<1>2. sim' \in [time : Nat, wake : Nat, finished : BOOLEAN]
      /\ sim.time <= sim'.time /\ sim'.time <= sim'.wake /\ sim'.wake <= sim.wake
      /\ (sim'.wake = sim'.time \/ replay'.at = "complete")
  <2>1. sim \in [time : Nat, wake : Nat, finished : BOOLEAN] /\ sim.wake >= sim.time
    BY DEF IInv, Typed
  <2>2. CASE Advance
    <3>1. PICK t \in sim.time .. sim.wake, finished \in BOOLEAN :
            sim' = [sim EXCEPT !.time = t, !.wake = t, !.finished = finished]
      BY <2>2 DEF Advance
    <3>2. t \in Nat /\ sim.time <= t /\ t <= sim.wake
      BY <2>1
    <3>3. sim' = [time |-> t, wake |-> t, finished |-> finished]
      BY <2>1, <3>1
    <3>4. t \in Nat /\ finished \in BOOLEAN
      BY <3>2
    <3>5. sim' \in [time : Nat, wake : Nat, finished : BOOLEAN]
      BY <3>3, <3>4
    <3>6. sim'.time = t /\ sim'.wake = t
      BY <3>3
    <3>7. QED
      BY <3>2, <3>5, <3>6
  <2>3. CASE Complete
    BY <2>1, <2>3 DEF Complete, IInv, Typed, Replay
  <2>4. QED
    BY <2>2, <2>3
<1>3. replay' \in Replay /\ replay'.at \in {"advance", "choose", "complete"}
      /\ replay'.index = replay.index /\ replay'.accepted = replay.accepted
  BY DEF IInv, Typed, Replay, Advance, Complete
<1>4. Idle' /\ ~Acting' /\ ~Acting
  BY <1>1, <1>3 DEF Idle, Acting
<1>5. Typed'
  <2>1. Decisions' = Decisions /\ Steps' = Steps
    BY <1>1, SameDecisions
  <2>2. session.started <= sim'.time
    <3>1. session.started \in Int /\ session.started <= sim.time /\ sim.time \in Nat
      BY ElapsedIs DEF IInv, Typed
    <3>2. QED
      BY <1>2, <3>1
  <2>3. QED
    BY <1>1, <1>2, <1>3, <2>1, <2>2 DEF IInv, Typed
<1>6. ClosedFits'
  BY <1>1 DEF IInv, ClosedFits, Closed, Steps
<1>7. DecisionFits'
  BY <1>1, <1>3, <1>4 DEF IInv, DecisionFits
<1>8. RunningStep = {} /\ RunningStep' = {} /\ RunningUse = {} /\ RunningUse' = {}
      /\ Taken' = Taken
  BY <1>1, <1>4 DEF Running, RunningStep, RunningUse, Taken
<1>9. Counted' /\ RunningCounts'
  BY <1>1, <1>8 DEF IInv, Counted, RunningCounts, Idle
<1>10. StepsFit'
  BY <1>1, <1>8 DEF IInv, StepsFit, StepFits, Steps, Step, Deadline
<1>11. TailOnce'
  BY <1>1 DEF IInv, TailOnce
<1>12. AsleepFits'
  <2>1. sim'.wake \in Nat /\ sim.wake \in Nat /\ session.started \in Int
    BY <1>2, ElapsedIs DEF IInv
  <2>2. ASSUME asleep # 0
        PROVE  session.started # -1 /\ sim'.wake - session.started <= Deadline(asleep)
    <3>1. session.started # -1 /\ sim.wake - session.started <= Deadline(asleep)
      BY <1>1, <2>2 DEF IInv, AsleepFits
    <3>2. Deadline(asleep) \in Nat
      BY <2>2, StepIs DEF IInv, Typed
    <3>3. QED
      BY <1>2, <2>1, <3>1, <3>2
  <2>3. QED
    BY <1>1, <1>2, <1>4, <2>2 DEF AsleepFits, Deadline, Step
<1>13. QED
  BY <1>5, <1>6, <1>7, <1>9, <1>10, <1>11, <1>12 DEF IInv

LEMMA StutterKeeps ==
  ASSUME IInv, UNCHANGED vars
  PROVE  IInv'
<1>1. /\ program' = program /\ sim' = sim /\ session' = session /\ latch' = latch
      /\ replay' = replay /\ executed' = executed /\ asleep' = asleep
  BY DEF vars
<1>2. Decisions' = Decisions /\ Steps' = Steps
  BY <1>1, SameDecisions
<1>3. Typed' /\ ClosedFits' /\ TailOnce'
  BY <1>1, <1>2 DEF IInv, Typed, ClosedFits, Closed, TailOnce
<1>4. Elapsed' = Elapsed /\ Closed' = Closed /\ Taken' = Taken
      /\ RunningStep' = RunningStep /\ RunningUse' = RunningUse
  BY <1>1 DEF Elapsed, Closed, Taken, Running, RunningStep, RunningUse, Acting
<1>5. DecisionFits'
  BY <1>1, <1>2, <1>4
     DEF IInv, DecisionFits, PendingFits, TodoFits, Idle, Acting, Step, Deadline
<1>6. Counted' /\ RunningCounts'
  BY <1>1, <1>4 DEF IInv, Counted, RunningCounts
<1>7. StepsFit'
  BY <1>1, <1>2, <1>4 DEF IInv, StepsFit, StepFits, Step, Deadline
<1>8. AsleepFits'
  BY <1>1, <1>4 DEF IInv, AsleepFits, Idle, Acting, Step, Deadline
<1>9. QED
  BY <1>3, <1>5, <1>6, <1>7, <1>8 DEF IInv

\* A decision that is taken up fits the session, if what the session proposed
\* of it does.
LEMMA TakingKeeps ==
  ASSUME IInv, NEW d \in Decisions, NEW passed \in SUBSET (Steps \ Closed), NEW started,
         Takes(d, passed, started),
         started = session.started \/ (session.started = -1 /\ started = sim.time),
         \A k \in Closed \cup passed, j \in Steps : j <= k => j \in Closed \cup passed,
         \/ session'.pending = NoPending
         \/ /\ Proposed(d, session'.pending.step)
            /\ session'.pending.step # 0 =>
                 /\ session'.pending.step \in Steps \ (Closed \cup passed)
                 /\ \A j \in Steps : j < session'.pending.step => j \in Closed \cup passed
                 /\ d.kind = Step(session'.pending.step).kind
                 /\ d.act = Step(session'.pending.step).act
                 /\ Elapsed \in Step(session'.pending.step).from
                                .. Deadline(session'.pending.step)
            /\ session'.pending.step = 0 =>
                 /\ d.kind = "offgcd" => ResourceOf[d.act] \notin session.used
                 /\ d.kind = "wait" => d.ticks <= Quiet,
         asleep' \in Steps \cup {0},
         asleep' # 0 =>
           started # -1 /\ d.kind = "wait" /\ Elapsed + d.ticks <= Deadline(asleep')
  PROVE  IInv'
<1>1. /\ program' = program /\ sim' = sim /\ executed' = executed /\ latch' = d
      /\ session' \in Session /\ session'.committed = session.committed
      /\ session'.skipped = session.skipped \cup passed
      /\ session'.used = session.used /\ session'.started = started
      /\ replay' \in Replay /\ replay'.at = "execute" /\ replay'.index = replay.index
      /\ replay'.todo = Operations(d) /\ replay'.accepted = {}
      /\ replay.at = "choose" /\ replay.index < MaxDecisions
  BY DEF Takes
<1>2. Decisions' = Decisions /\ Steps' = Steps
  BY <1>1, SameDecisions
<1>3. /\ session.pending = NoPending /\ session.proposals = replay.index
      /\ session.fallbacks = 0 /\ sim.wake = sim.time /\ Idle /\ ~Acting
  BY <1>1 DEF IInv, DecisionFits, AsleepFits, Idle, Acting
<1>4. Closed' = Closed \cup passed /\ Acting' /\ ~Idle' /\ Elapsed' = Elapsed
  <2>1. Closed' = Closed \cup passed /\ Acting' /\ ~Idle'
    BY <1>1 DEF Closed, Acting, Idle
  <2>2. sim.time \in Nat /\ sim.time # -1 /\ sim.time - sim.time = 0
    BY ElapsedIs DEF IInv
  <2>3. Elapsed' = Elapsed
    BY <1>1, <2>2 DEF Elapsed
  <2>4. QED
    BY <2>1, <2>3
<1>5. Typed'
  <2>1. session'.started <= sim.time
    BY <1>1, ElapsedIs DEF IInv, Typed
  <2>2. session'.committed \subseteq Steps /\ session'.skipped \subseteq Steps
    BY <1>1 DEF IInv, Typed
  <2>3. latch' \in Decisions
    BY <1>1
  <2>4. QED
    BY <1>1, <1>2, <2>1, <2>2, <2>3 DEF IInv, Typed
<1>6. ClosedFits'
  BY <1>1, <1>2, <1>4 DEF ClosedFits
<1>7. d \in Decision /\ d # None
  <2>1. d \in Decision
    BY DecisionIs DEF IInv, Typed
  <2>2. QED
    BY <2>1, WaveAssumption DEF Decision
<1>8. TodoFits'
  BY <1>1, <1>7, OperationsAre DEF TodoFits
<1>9. session'.pending = NoPending \/ PendingFits(session.pending)'
  <2>1. SUFFICES ASSUME session'.pending # NoPending PROVE PendingFits(session.pending)'
    OBVIOUS
  <2>2. PICK i : i = session'.pending.step
    OBVIOUS
  <2>3. /\ session'.pending.decision = d /\ session'.pending.ordinal = replay.index
        /\ session'.proposals = replay.index + 1 /\ session'.fallbacks = 0
    BY <1>3, <2>1 DEF Proposed
  <2>4. i # 0 =>
          /\ i \in Steps' \ Closed' /\ \A j \in Steps' : j < i => j \in Closed'
          /\ d.kind = program.steps[i].kind /\ d.act = program.steps[i].act
          /\ Elapsed' \in program.steps[i].from .. (program.steps[i].from + program.steps[i].late)
    BY <1>2, <1>4, <2>1, <2>2 DEF Step, Deadline
  <2>5. i = 0 => (d.kind = "offgcd" => ResourceOf[d.act] \notin session'.used)
                 /\ (d.kind = "wait" => d.ticks <= Quiet)
    BY <1>1, <2>1, <2>2
  <2>6. QED
    BY <1>1, <2>2, <2>3, <2>4, <2>5 DEF PendingFits, Step, Deadline
<1>10. DecisionFits'
  BY <1>1, <1>4, <1>7, <1>8, <1>9 DEF DecisionFits
<1>11. /\ RunningStep = {} /\ RunningStep' = {} /\ RunningUse = {} /\ RunningUse' = {}
       /\ Taken' = Taken
  BY <1>1, <1>3 DEF Running, RunningStep, RunningUse, Taken
<1>12. Counted' /\ RunningCounts'
  BY <1>1, <1>11 DEF IInv, Counted, RunningCounts
<1>13. StepsFit'
  <2>1. ASSUME NEW n \in Taken PROVE executed[n].step \in session.committed
    BY <1>1, <1>11 DEF IInv, Counted
  <2>2. ASSUME NEW n \in Taken PROVE executed[n].step \notin session'.skipped
    BY <1>1, <2>1 DEF Closed, IInv, StepsFit, StepFits
  <2>3. QED
    BY <1>1, <1>2, <1>11, <2>2 DEF IInv, StepsFit, StepFits, Step, Deadline
<1>14. TailOnce'
  BY <1>1 DEF IInv, TailOnce
<1>15. AsleepFits'
  <2>1. d.ticks \in Nat /\ sim.time \in Nat
    BY <1>7, ElapsedIs DEF Decision, IInv
  <2>2. sim.wake <= sim.time + d.ticks
    BY <1>3, <2>1
  <2>3. asleep' # 0 => Elapsed' + d.ticks <=
          program.steps[asleep'].from + program.steps[asleep'].late
    BY <1>4 DEF Deadline, Step
  <2>4. QED
    BY <1>1, <1>4, <2>2, <2>3 DEF AsleepFits, Deadline, Step
<1>16. QED
  BY <1>5, <1>6, <1>10, <1>12, <1>13, <1>14, <1>15 DEF IInv

LEMMA ChoosingKeeps ==
  ASSUME IInv, Choose \/ ChooseIdle \/ Fallback
  PROVE  IInv'
<1>1. Typed /\ ClosedFits
  BY DEF IInv
<1>2. CASE Choose
  <2> DEFINE started == IF session.started = -1 THEN sim.time ELSE session.started
  <2>1. PICK passed \in SUBSET (Steps \ Closed), i \in Steps \cup {0}, d \in Decisions :
          /\ Takes(d, passed, started)
          /\ Proposed(d, i)
          /\ \A k \in Closed \cup passed, j \in Steps : j <= k => j \in Closed \cup passed
          /\ i # 0 =>
               /\ i \in Steps \ (Closed \cup passed)
               /\ \A j \in Steps : j < i => j \in Closed \cup passed
               /\ d.kind = Step(i).kind /\ d.act = Step(i).act
               /\ Elapsed \in Step(i).from .. Deadline(i)
          /\ i = 0 =>
               /\ d.kind = "offgcd" => ResourceOf[d.act] \notin session.used
               /\ d.kind = "wait" => d.ticks <= Quiet
          /\ asleep' \in Steps \cup {0}
          /\ asleep' # 0 => d.kind = "wait" /\ Elapsed + d.ticks <= Deadline(asleep')
    BY <1>1, <1>2, ChooseResult
  <2>2. session'.pending.step = i
    BY <2>1 DEF Proposed
  <2>3. started # -1 /\ (started = session.started \/ (session.started = -1 /\ started = sim.time))
    BY <1>1, ElapsedIs
  <2> HIDE DEF started
  <2>4. Proposed(d, session'.pending.step)
    BY <2>1, <2>2
  <2>5. QED
    BY <2>1, <2>2, <2>3, <2>4, TakingKeeps
<1>3. CASE ChooseIdle
  <2>1. PICK d \in Decisions :
          /\ Takes(d, {}, session.started) /\ Proposed(d, 0)
          /\ d.kind = "wait" /\ d.ticks <= Quiet
          /\ asleep' = 0
    BY <1>1, <1>3, ChooseIdleResult
  <2>2. session'.pending.step = 0
    BY <2>1 DEF Proposed
  <2>3. QED
    BY <1>1, <2>1, <2>2, TakingKeeps DEF ClosedFits
<1>4. CASE Fallback
  <2>1. PICK d \in Decisions :
          /\ Takes(d, {}, session.started)
          /\ session'.pending = NoPending
          /\ asleep' = 0
    BY <1>1, <1>4, FallbackResult
  <2>2. QED
    BY <1>1, <2>1, TakingKeeps DEF ClosedFits
<1>5. QED
  BY <1>2, <1>3, <1>4

\* A decision that was executed is confirmed: its step is done if it was
\* accepted.
LEMMA ConfirmKeeps ==
  ASSUME IInv, Confirm
  PROVE  IInv'
<1> DEFINE p == session.pending
           done == IF p.step # 0 /\ p.decision.kind \in replay.accepted
                   THEN session.committed \cup {p.step} ELSE session.committed
           used == session.used \cup Marked(p)
<1>1. /\ Acting /\ ~Idle /\ p # NoPending /\ latch # None /\ replay.at = "execute"
      /\ PendingFits(p) /\ replay.index < MaxDecisions /\ Typed /\ session \in Session
      /\ session.committed \subseteq Steps /\ program \in Programs /\ replay \in Replay
  BY DEF IInv, Typed, Confirm, Executed, Matches, Acting, Idle, DecisionFits
<1>2. /\ p.decision = latch /\ session.proposals = replay.index + 1 /\ session.fallbacks = 0
      /\ p.step # 0 => p.step \in Steps /\ \A j \in Steps : j < p.step => j \in Closed
  BY <1>1 DEF PendingFits
<1>3. /\ program' = program /\ sim' = sim /\ executed' = executed /\ asleep' = asleep
      /\ latch' = None
      /\ session' = [session EXCEPT !.pending = NoPending, !.used = used, !.committed = done]
      /\ replay' = [replay EXCEPT !.at = "advance", !.index = @ + 1]
  <2>1. session' = [session EXCEPT
           !.pending = NoPending,
           !.used = @ \cup Marked(p),
           !.committed = IF p.step # 0 /\ p.decision.kind \in replay.accepted
                         THEN @ \cup {p.step} ELSE @]
    BY DEF Confirm
  <2>2. session' = [session EXCEPT !.pending = NoPending, !.used = used, !.committed = done]
    BY <1>1, <2>1 DEF Session
  <2>3. QED
    BY <2>2 DEF Confirm
<1>4. done \subseteq Steps /\ done = session.committed \cup RunningStep
  BY <1>1, <1>2 DEF RunningStep, Running
<1>5. RunningUse \subseteq Marked(p) /\ Marked(p) \subseteq Resources
  <2>1. latch.act \in Actions \cup {None}
    BY <1>1, LatchIs
  <2>2. QED
    BY <1>2, <2>1 DEF RunningUse, Running, Marked, Resources
<1>6. PICK d, u : d = done /\ u = used
  OBVIOUS
<1>7. d \in SUBSET Nat /\ u \in SUBSET Resources
  BY <1>1, <1>4, <1>5, <1>6, StepsAre DEF Session
<1> HIDE DEF done, used, p
<1>8. session' = [session EXCEPT !.pending = NoPending, !.used = u, !.committed = d]
  BY <1>3, <1>6
<1>9. session' \in Session
  <2>1. [session EXCEPT !.pending = NoPending, !.used = u, !.committed = d] \in Session
    BY <1>1, <1>7, SessionUpdates
  <2>2. QED
    BY <1>8, <2>1, Zenon
<1>10. /\ session'.pending = NoPending /\ session'.used = u /\ session'.committed = d
       /\ session'.skipped = session.skipped /\ session'.started = session.started
       /\ session'.proposals = session.proposals /\ session'.fallbacks = session.fallbacks
  BY <1>1, <1>8 DEF Session
<1>11. replay' \in Replay /\ replay'.at = "advance" /\ replay'.index = replay.index + 1
  <2>1. PICK k \in 0 .. MaxDecisions : k = replay.index + 1
    BY <1>1, BoundsAreNumbers DEF Replay
  <2>2. replay' = [replay EXCEPT !.at = "advance", !.index = k]
    BY <1>1, <1>3, <2>1 DEF Replay
  <2>3. QED
    BY <1>1, <2>1, <2>2 DEF Replay
<1>12. ~Acting' /\ Idle' /\ Closed' = Closed \cup RunningStep
  BY <1>4, <1>6, <1>10, <1>11 DEF Acting, Idle, Closed
<1>13. Decisions' = Decisions /\ Steps' = Steps
  BY <1>3, SameDecisions
<1>14. Typed'
  BY <1>1, <1>3, <1>4, <1>6, <1>9, <1>10, <1>11, <1>13 DEF Typed
<1>15. ClosedFits'
  <2>1. ASSUME NEW i \in RunningStep, NEW j \in Steps, j <= i
        PROVE  j \in Closed \cup RunningStep
    <3>1. i = p.step /\ p.step \in Steps /\ i \in Nat /\ j \in Nat
      BY <1>1, <1>2, <2>1, StepsAre DEF RunningStep, p
    <3>2. CASE j = i
      BY <2>1, <3>2
    <3>3. CASE j # i
      BY <1>2, <2>1, <3>1, <3>3, StepsAre
    <3>4. QED
      BY <3>2, <3>3
  <2>2. QED
    BY <1>12, <1>13, <2>1 DEF IInv, ClosedFits
<1>16. DecisionFits'
  BY <1>2, <1>3, <1>10, <1>11, <1>12 DEF DecisionFits
<1>17. RunningStep' = {} /\ RunningUse' = {} /\ Taken' = Taken
  BY <1>3, <1>12 DEF Running, RunningStep, RunningUse, Taken
<1>18. Counted' /\ RunningCounts'
  <2>1. session'.committed = session.committed \cup RunningStep
    BY <1>4, <1>6, <1>10
  <2>2. session.used \cup RunningUse \subseteq session'.used
    BY <1>5, <1>6, <1>10 DEF used
  <2>3. QED
    BY <1>1, <1>3, <1>17, <2>1, <2>2 DEF IInv, Counted, RunningCounts
<1>19. StepsFit'
  BY <1>3, <1>10, <1>13, <1>17 DEF IInv, StepsFit, StepFits, Step, Deadline
<1>20. TailOnce'
  BY <1>3 DEF IInv, TailOnce
<1>21. AsleepFits'
  <2>1. /\ sim.time \in Nat /\ sim.wake \in Nat /\ session.started \in Int
        /\ session.started # -1 => Elapsed = sim.time - session.started
        /\ latch.ticks \in Nat
    BY <1>1, ElapsedIs, LatchIs
  <2>2. ASSUME asleep # 0
        PROVE  session.started # -1 /\ sim.wake - session.started <= Deadline(asleep)
    <3>1. /\ session.started # -1 /\ Elapsed + latch.ticks <= Deadline(asleep)
          /\ sim.wake <= sim.time + latch.ticks
      BY <1>1, <2>2 DEF IInv, AsleepFits
    <3>2. Deadline(asleep) \in Nat
      BY <1>1, <2>2, StepIs DEF Typed
    <3>3. QED
      BY <2>1, <3>1, <3>2
  <2>3. QED
    BY <1>3, <1>10, <1>11, <1>12, <2>2 DEF AsleepFits, Deadline, Step
<1>22. QED
  BY <1>14, <1>15, <1>16, <1>18, <1>19, <1>20, <1>21 DEF IInv

LEMMA PassOverKeeps ==
  ASSUME IInv, PassOver
  PROVE  IInv'
<1>1. /\ program' = program /\ sim' = sim /\ session' = session /\ latch' = latch
      /\ executed' = executed /\ asleep' = asleep /\ Executing /\ Typed
  BY DEF PassOver, IInv
<1>2. PICK taken \in SUBSET {Operation} :
        /\ replay' = [replay EXCEPT !.todo = Tail(@), !.accepted = @ \cup taken]
        /\ taken = {}
  BY DEF PassOver, IInv, Typed, Replay
<1>3. /\ replay' \in Replay /\ replay'.at = "execute" /\ replay.at = "execute"
      /\ replay'.index = replay.index /\ replay'.accepted = replay.accepted
  BY <1>1, <1>2, CarriesOn
<1>4. TodoFits'
  <2>1. TodoFits
    BY <1>3 DEF IInv, DecisionFits, Acting
  <2>2. QED
    BY <1>1, <1>2, <2>1, TodoCarriesOn
<1>5. Decisions' = Decisions /\ Steps' = Steps
  BY <1>1, SameDecisions
<1>6. Typed' /\ ClosedFits' /\ TailOnce'
  BY <1>1, <1>3, <1>5 DEF IInv, Typed, ClosedFits, Closed, TailOnce
<1>7. /\ Elapsed' = Elapsed /\ Closed' = Closed /\ Taken' = Taken
      /\ RunningStep' = RunningStep /\ RunningUse' = RunningUse
      /\ Acting /\ Acting' /\ ~Idle'
  BY <1>1, <1>3 DEF Elapsed, Closed, Taken, Running, RunningStep, RunningUse, Acting, Idle
<1>8. DecisionFits'
  BY <1>1, <1>3, <1>4, <1>5, <1>7 DEF IInv, DecisionFits, PendingFits, Step, Deadline
<1>9. Counted' /\ RunningCounts'
  BY <1>1, <1>3, <1>7 DEF IInv, Counted, RunningCounts
<1>10. StepsFit'
  BY <1>1, <1>5, <1>7 DEF IInv, StepsFit, StepFits, Step, Deadline
<1>11. AsleepFits'
  BY <1>1, <1>3, <1>7 DEF IInv, AsleepFits, Step, Deadline
<1>12. QED
  BY <1>4, <1>6, <1>8, <1>9, <1>10, <1>11 DEF IInv

\* What the simulator carries out of a step or of the tail is recorded, and
\* becomes part of what the session is to hear.
LEMMA AcceptKeeps ==
  ASSUME IInv, Accept
  PROVE  IInv'
<1> DEFINE p == session.pending
           counts == Counts(Operation)
           entry == [step |-> p.step, kind |-> latch.kind, act |-> latch.act,
                     elapsed |-> Elapsed]
<1>1. /\ program' = program /\ session' = session /\ latch' = latch /\ asleep' = asleep
      /\ Executing /\ Typed /\ replay.at = "execute" /\ Acting /\ latch # None
      /\ TodoFits /\ replay.index < MaxDecisions
      /\ p = NoPending \/ PendingFits(p)
      /\ session \in Session /\ executed \in Seq(Entry) /\ program \in Programs
  BY DEF Accept, Executing, IInv, Typed, Acting, DecisionFits
<1>2. replay' = [replay EXCEPT !.todo = Tail(@), !.accepted = @ \cup {Operation}]
  BY DEF Accept
<1>3. /\ replay' \in Replay /\ replay'.at = "execute"
      /\ replay'.index = replay.index
      /\ replay'.accepted = replay.accepted \cup {Operation}
      /\ 1 \in DOMAIN replay.todo /\ Operation = replay.todo[1]
  BY <1>1, <1>2, CarriesOn
<1>4. TodoFits'
  BY <1>1, <1>2, TodoCarriesOn
<1>5. /\ latch.kind \in Lanes \cup {"wait"} /\ latch.act \in Actions \cup {None}
      /\ latch.ticks \in Nat \ {0} /\ Elapsed \in Nat
      /\ sim.time \in Nat /\ sim.wake \in Nat /\ session.started \in Int
      /\ session.started # -1 => Elapsed = sim.time - session.started
  BY <1>1, LatchIs, ElapsedIs
<1>6. /\ sim' \in [time : Nat, wake : Nat, finished : BOOLEAN]
      /\ sim'.time = sim.time /\ sim'.wake = sim.time + Length(Operation)
      /\ Length(Operation) \in Nat
  <2>1. Length(Operation) \in Nat
    BY <1>5, BoundsAreNumbers DEF Length
  <2>2. PICK finished \in BOOLEAN :
          sim' = [sim EXCEPT !.wake = sim.time + Length(Operation), !.finished = finished]
    BY DEF Accept
  <2>3. PICK w \in Nat : w = sim.time + Length(Operation)
    BY <1>5, <2>1
  <2>4. sim' = [time |-> sim.time, wake |-> w, finished |-> finished]
    BY <1>1, <2>2, <2>3 DEF Typed
  <2>5. QED
    BY <1>5, <2>1, <2>3, <2>4
<1>7. Decisions' = Decisions /\ Steps' = Steps
  BY <1>1, SameDecisions
<1>8. /\ Elapsed' = Elapsed /\ Closed' = Closed /\ Acting' /\ ~Idle'
  BY <1>1, <1>3, <1>6 DEF Elapsed, Closed, Acting, Idle
<1>9. executed' = IF counts THEN Append(executed, entry) ELSE executed
  BY DEF Accept
<1>10. counts => PendingFits(p) /\ Operation = latch.kind /\ p # NoPending
                 /\ (p.step # 0 \/ latch.kind = "offgcd")
  BY <1>1 DEF Counts
<1>11. p \in Pending \cup {NoPending}
  BY <1>1 DEF Session
<1>12. entry \in Entry
  <2>1. p.step \in Nat
    BY <1>11 DEF Pending, NoPending
  <2>2. QED
    BY <1>5, <2>1 DEF Entry
<1>13. /\ executed' \in Seq(Entry)
       /\ \A n \in DOMAIN executed : n \in DOMAIN executed' /\ executed'[n] = executed[n]
       /\ ~counts => DOMAIN executed' = DOMAIN executed
       /\ counts => /\ DOMAIN executed' = DOMAIN executed \cup {Len(executed) + 1}
                    /\ executed'[Len(executed) + 1] = entry
       /\ Len(executed) \in Nat
       /\ \A n \in DOMAIN executed : n \in Nat /\ n < Len(executed) + 1
  <2>1. PICK s \in Seq(Entry), e \in Entry : s = executed /\ e = entry
    BY <1>1, <1>12
  <2>2. /\ Append(s, e) \in Seq(Entry) /\ Len(s) \in Nat
        /\ DOMAIN s = 1 .. Len(s)
        /\ DOMAIN Append(s, e) = DOMAIN s \cup {Len(s) + 1}
        /\ Append(s, e)[Len(s) + 1] = e
        /\ \A n \in DOMAIN s : Append(s, e)[n] = s[n]
    BY <1>1, <2>1
  <2>3. \A n \in DOMAIN s : n \in Nat /\ n < Len(s) + 1
    BY <2>2
  <2> HIDE DEF counts, entry
  <2>4. CASE counts
    BY <1>9, <2>1, <2>2, <2>3, <2>4
  <2>5. CASE ~counts
    BY <1>1, <1>9, <2>1, <2>2, <2>3, <2>5
  <2>6. QED
    BY <2>4, <2>5
<1>14. Typed'
  <2>1. sim'.wake >= sim'.time
    BY <1>5, <1>6
  <2>2. QED
    BY <1>1, <1>3, <1>6, <1>7, <1>13, <2>1 DEF Typed
<1>15. ClosedFits'
  BY <1>7, <1>8 DEF IInv, ClosedFits
<1>16. DecisionFits'
  <2>1. p = NoPending \/ PendingFits(session.pending)'
    BY <1>1, <1>3, <1>7, <1>8 DEF PendingFits, Step, Deadline
  <2>2. QED
    BY <1>1, <1>3, <1>4, <1>8, <2>1 DEF DecisionFits
<1> DEFINE last == Len(executed) + 1
<1>17. Operation = latch.kind => latch.kind \notin replay.accepted
  BY <1>1, <1>3 DEF TodoFits
<1>18. counts => RunningStep = {} /\ RunningUse = {}
  BY <1>10, <1>17 DEF RunningStep, RunningUse, Running
<1>19. RunningStep' = IF p # NoPending /\ latch.kind \in replay'.accepted
                      THEN {p.step} \ {0} ELSE {}
  BY <1>1, <1>8 DEF RunningStep, Running
<1>20. RunningStep \subseteq RunningStep' /\ RunningUse \subseteq RunningUse'
  BY <1>1, <1>3, <1>8 DEF RunningStep, RunningUse, Running
<1>21. counts => RunningStep' = {p.step} \ {0}
  BY <1>3, <1>10, <1>19
<1>22. counts /\ latch.act # None => ResourceOf[latch.act] \in RunningUse'
  BY <1>1, <1>3, <1>8, <1>10 DEF RunningUse, Running
<1> HIDE DEF p, counts
<1>23. Taken' = Taken \cup (IF counts /\ p.step # 0 THEN {last} ELSE {})
  BY <1>13 DEF Taken
<1>24. Counted'
  <2>1. session'.committed \subseteq {executed'[n].step : n \in Taken'}
    BY <1>1, <1>13, <1>23 DEF IInv, Counted, Taken
  <2>2. ASSUME NEW n \in Taken' PROVE executed'[n].step \in session.committed \cup RunningStep'
    <3>1. CASE n \in Taken
      BY <1>1, <1>13, <1>20, <3>1 DEF IInv, Counted, Taken
    <3>2. CASE n \notin Taken
      BY <1>13, <1>21, <1>23, <2>2, <3>2
    <3>3. QED
      BY <3>1, <3>2
  <2>3. ASSUME NEW n \in DOMAIN executed', executed'[n].act # None
        PROVE  ResourceOf[executed'[n].act] \in session.used \cup RunningUse'
    <3>1. CASE n \in DOMAIN executed
      BY <1>1, <1>13, <1>20, <2>3, <3>1 DEF IInv, Counted
    <3>2. CASE n \notin DOMAIN executed
      BY <1>13, <1>22, <2>3, <3>2
    <3>3. QED
      BY <3>1, <3>2
  <2>4. QED
    BY <1>1, <2>1, <2>2, <2>3 DEF Counted
<1>25. RunningCounts'
  <2>1. CASE counts
    BY <1>13, <1>21, <1>23, <2>1 DEF RunningCounts
  <2>2. CASE ~counts
    <3>1. RunningStep' = RunningStep
      BY <1>1, <1>3, <1>8, <2>2 DEF RunningStep, Running, Counts, counts, p
    <3>2. QED
      BY <1>13, <1>23, <2>2, <3>1 DEF IInv, RunningCounts, Taken
  <2>3. QED
    BY <2>1, <2>2
<1>26. StepsFit'
  <2>1. ASSUME NEW n \in Taken' PROVE StepFits(n)'
    <3>1. CASE n \in Taken
      BY <1>1, <1>7, <1>13, <3>1 DEF IInv, StepsFit, StepFits, Step, Deadline, Taken
    <3>2. CASE n \notin Taken
      <4>1. n = last /\ counts /\ p.step # 0
        BY <1>23, <2>1, <3>2
      <4>2. /\ executed'[n].step = p.step /\ executed'[n].kind = latch.kind
            /\ executed'[n].act = latch.act /\ executed'[n].elapsed = Elapsed
        BY <1>13, <4>1
      <4>3. /\ p.step \in Steps /\ p.step \notin session.skipped
            /\ latch.kind = Step(p.step).kind /\ latch.act = Step(p.step).act
            /\ Elapsed \in Step(p.step).from .. Deadline(p.step)
        BY <1>10, <4>1 DEF PendingFits, Closed
      <4>4. QED
        BY <1>1, <1>7, <4>2, <4>3 DEF StepFits, Step, Deadline
    <3>3. QED
      BY <3>1, <3>2
  <2>2. ASSUME NEW m \in Taken', NEW n \in Taken', m < n
        PROVE  executed'[m].step < executed'[n].step
    <3>1. CASE n \in Taken
      <4>1. m \in Taken
        BY <1>13, <1>23, <2>2, <3>1 DEF Taken
      <4>2. QED
        BY <1>13, <2>2, <3>1, <4>1 DEF IInv, StepsFit, Taken
    <3>2. CASE n \notin Taken
      <4>1. n = last /\ counts /\ p.step # 0 /\ executed'[n].step = p.step
        BY <1>13, <1>23, <2>2, <3>2
      <4>2. m \in Taken
        BY <1>13, <1>23, <2>2, <4>1
      <4>3. executed[m].step \in session.committed
        BY <1>1, <1>18, <4>1, <4>2 DEF IInv, Counted
      <4>4. p.step \in Steps \ Closed /\ executed[m].step \in Closed
        BY <1>10, <4>1, <4>3 DEF PendingFits, Closed
      <4>5. executed[m].step \in Steps
        BY <1>1, <4>3 DEF Typed
      <4>6. ~(p.step <= executed[m].step)
        BY <4>4 DEF IInv, ClosedFits
      <4>7. p.step \in Nat /\ executed[m].step \in Nat
        BY <1>1, <4>4, <4>5, StepsAre
      <4>8. executed'[m].step = executed[m].step
        BY <1>13, <4>2 DEF Taken
      <4>9. QED
        BY <4>1, <4>6, <4>7, <4>8
    <3>3. QED
      BY <3>1, <3>2
  <2>3. QED
    BY <2>1, <2>2 DEF StepsFit
<1>27. TailOnce'
  <2>1. SUFFICES ASSUME NEW n \in DOMAIN executed', executed'[n].step = 0,
                        NEW m \in 1 .. n - 1, executed'[m].act # None
                 PROVE  ResourceOf[executed'[m].act] # ResourceOf[executed'[n].act]
    BY DEF TailOnce
  <2>2. CASE n \in DOMAIN executed
    <3>1. m \in DOMAIN executed
      BY <1>1, <2>1, <2>2
    <3>2. QED
      BY <1>13, <2>1, <2>2, <3>1 DEF IInv, TailOnce
  <2>3. CASE n \notin DOMAIN executed
    <3>1. n = last /\ counts /\ p.step = 0 /\ executed'[n].act = latch.act
      BY <1>13, <2>1, <2>3
    <3>2. m \in DOMAIN executed
      BY <1>1, <2>1, <3>1
    <3>3. ResourceOf[executed[m].act] \in session.used
      BY <1>1, <1>13, <1>18, <2>1, <3>1, <3>2 DEF IInv, Counted
    <3>4. ResourceOf[latch.act] \notin session.used
      BY <1>10, <3>1 DEF PendingFits
    <3>5. QED
      BY <1>13, <3>1, <3>2, <3>3, <3>4
  <2>4. QED
    BY <2>2, <2>3
<1>28. AsleepFits'
  <2>1. ASSUME asleep # 0
        PROVE  /\ session.started # -1
               /\ latch.kind = "wait" /\ Elapsed + latch.ticks <= Deadline(asleep)
               /\ sim'.wake <= sim.time + latch.ticks
    <3>1. /\ session.started # -1
          /\ latch.kind = "wait" /\ Elapsed + latch.ticks <= Deadline(asleep)
      BY <1>1, <2>1 DEF IInv, AsleepFits
    <3>2. Operation \in {"SET_TARGET", "START_ATTACK", "wait"}
      BY <1>1, <1>3, <3>1 DEF TodoFits
    <3>3. Length(Operation) <= latch.ticks
      BY <1>5, <3>2 DEF Length
    <3>4. QED
      BY <1>5, <1>6, <3>1, <3>3
  <2>2. QED
    BY <1>1, <1>3, <1>6, <1>8, <2>1 DEF AsleepFits, Deadline, Step
<1>29. QED
  BY <1>14, <1>15, <1>16, <1>24, <1>25, <1>26, <1>27, <1>28 DEF IInv

LEMMA NextKeeps ==
  ASSUME IInv, [Next]_vars
  PROVE  IInv'
<1>1. CASE Choose \/ ChooseIdle \/ Fallback
  BY <1>1, ChoosingKeeps
<1>2. CASE NoFallback \/ TooManyDecisions \/ Refuse \/ RefuseFeedback \/ BridgeFails
  BY <1>2, FailuresStop, StopKeeps
<1>3. CASE Accept
  BY <1>3, AcceptKeeps
<1>4. CASE PassOver
  BY <1>4, PassOverKeeps
<1>5. CASE Confirm
  BY <1>5, ConfirmKeeps
<1>6. CASE Advance \/ Complete
  BY <1>6, AdvanceKeeps
<1>7. CASE UNCHANGED vars
  BY <1>7, StutterKeeps
<1>8. QED
  BY <1>1, <1>2, <1>3, <1>4, <1>5, <1>6, <1>7 DEF Next

-----------------------------------------------------------------------------
(* The theorems.                                                           *)

\* Every state of a replay fits: the closed steps come first, the decision
\* under way is the session's own, and what was executed is what counts.
THEOREM Invariance == Spec => []IInv
<1>1. Init => IInv
  BY InitFits
<1>2. IInv /\ [Next]_vars => IInv'
  BY NextKeeps
<1>3. QED
  BY <1>1, <1>2, PTL DEF Spec

\* The variables have their types, and no wait of the session itself is longer
\* than _wait_decision allows.
THEOREM TypeCorrect == Spec => []TypeOK
<1>1. ASSUME IInv PROVE TypeOK
  <2>1. Typed /\ program \in Programs /\ session \in Session
    BY <1>1 DEF IInv, Typed
  <2>2. sim.time \in Nat /\ sim.wake >= sim.time /\ sim.finished \in BOOLEAN
    BY <2>1 DEF Typed
  <2>3. session.used \subseteq {ResourceOf[a] : a \in Actions}
    BY <2>1 DEF Session, Resources
  <2>4. session.started \in -1 .. sim.time
    BY <2>1, <2>2 DEF Session, Typed
  <2>5. session.pending = NoPending \/
          /\ session.pending.decision \in Decisions
          /\ session.pending.step \in Steps \cup {0}
          /\ session.pending.decision.kind = "wait" /\ session.pending.step = 0
               => session.pending.decision.ticks <= Quiet
    BY <1>1, <2>1 DEF IInv, Typed, DecisionFits, PendingFits
  <2>6. /\ replay.at \in {"advance", "choose", "execute", "complete", "invalid"}
        /\ replay.index \in 0 .. MaxDecisions
    BY <2>1 DEF Typed, Replay
  <2>7. QED
    BY <2>1, <2>2, <2>3, <2>4, <2>5, <2>6 DEF TypeOK, Typed
<1>2. QED
  BY <1>1, Invariance, PTL

LEMMA DoneIs ==
  /\ DOMAIN Done = Taken /\ \A n \in Taken : Done[n] = executed[n].step
  /\ Range(Done) = {executed[n].step : n \in Taken}
BY DEF Done, Taken, Range

\* A step counts as done if and only if its own action or wait was carried out:
\* at most once, in the order of the program, and never after it was dropped.
THEOREM StepsCountIfExecuted == Spec => []StepsAsExecuted
<1>1. ASSUME IInv PROVE StepsAsExecuted
  <2>1. \A n \in Taken : StepFits(n)
    BY <1>1 DEF IInv, StepsFit
  <2>2. \A m, n \in DOMAIN Done : m < n => Done[m] < Done[n]
    BY <1>1, DoneIs DEF IInv, StepsFit
  <2>3. \A n \in DOMAIN Done :
          /\ Done[n] \notin session.skipped
          /\ executed[n].kind = Step(Done[n]).kind /\ executed[n].act = Step(Done[n]).act
    BY <2>1, DoneIs DEF StepFits
  <2>4. session.committed \subseteq Range(Done)
    BY <1>1, DoneIs DEF IInv, Counted
  <2>5. ASSUME replay.at \in {"advance", "choose", "complete"}
        PROVE  session.committed = Range(Done)
    <3>1. RunningStep = {}
      BY <2>5 DEF RunningStep, Running, Acting
    <3>2. \A n \in Taken : executed[n].step \in session.committed
      BY <1>1, <2>5, <3>1 DEF IInv, Counted
    <3>3. QED
      BY <2>4, <3>2, DoneIs
  <2>6. QED
    BY <2>2, <2>3, <2>4, <2>5 DEF StepsAsExecuted
<1>2. QED
  BY <1>1, Invariance, PTL

\* What is carried out of a step begins within its window.
THEOREM StepsKeepTheirWindows == Spec => []StepsInWindows
<1>1. ASSUME IInv PROVE StepsInWindows
  BY <1>1, DoneIs DEF IInv, StepsFit, StepFits, StepsInWindows
<1>2. QED
  BY <1>1, Invariance, PTL

\* No once-only action of the tail is taken again, nor one that shares its
\* resource with what was taken before (_used_resources).
THEOREM TailTakesOnce == Spec => []TailOnce
<1>1. IInv => TailOnce
  BY DEF IInv
<1>2. QED
  BY <1>1, Invariance, PTL

\* Session and replay agree about each decision, and a replay that is complete
\* never used the fallback.
THEOREM SessionAndReplayAgree == Spec => []FeedbackMatches
<1>1. IInv => FeedbackMatches
  BY DEF IInv, DecisionFits, Idle, Acting, FeedbackMatches
<1>2. QED
  BY <1>1, Invariance, PTL

\* No wait of the session for a step lasts beyond the window of the step.
THEOREM NoWindowIsSleptThrough == Spec => []WaitsEndInWindow
<1>1. ASSUME IInv, replay.at = "choose", asleep # 0
      PROVE  Elapsed <= Deadline(asleep)
  <2>1. sim.wake = sim.time /\ session.started # -1
        /\ sim.wake - session.started <= Deadline(asleep)
    BY <1>1 DEF IInv, AsleepFits, Idle
  <2>2. Elapsed = sim.time - session.started
    BY <1>1, <2>1, ElapsedIs DEF IInv
  <2>3. QED
    BY <2>1, <2>2
<1>2. IInv => WaitsEndInWindow
  BY <1>1 DEF WaitsEndInWindow
<1>3. QED
  BY <1>2, Invariance, PTL
=============================================================================
