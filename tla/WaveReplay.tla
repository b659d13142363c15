------------------------------ MODULE WaveReplay ------------------------------
(***************************************************************************)
(* One replay of a searched wave program in the simulator:                 *)
(* NativeDynamicV3ActionProgramReplayV1.replay with its latch around the   *)
(* imported session (o2o_dps/causal_action_program_v1.py), and that        *)
(* session, SearchedWaveProgramSessionV1                                   *)
(* (o2o_dps/offline_wave_searched_runtime_v1.py).                          *)
(*                                                                         *)
(* The session proposes a decision for what it observes.  The replay       *)
(* carries the decision out, operation by operation, in a simulator that   *)
(* may refuse any of them, and tells the session which were accepted.      *)
(* Only then does a step of the program count as done.                     *)
(*                                                                         *)
(* The simulator is external: what it shows is an input of Choose, what it *)
(* answers a choice in the actions of the execution.  Time is in ticks.    *)
(* The session may be bound with a fallback, which is external too.        *)
(* Overlay selectors and the external press clock are left out, as no      *)
(* caller combines them with searched programs.                            *)
(***************************************************************************)
EXTENDS Integers, Sequences, SequencesExt, FiniteSetsExt

CONSTANTS
  None,
  Actions, ResourceOf,              \* actions and what _resource_id makes of them
  Targets, AnyTarget,               \* targets; the target CURRENT or SELF of a step
  Programs,                         \* searched programs
  TailGcd, TailQueue, TailOffGcd,   \* tail priorities, sequences of actions
  Listed,                           \* actions on the simulator's action surface
  Quiet, Poll,                      \* 500 ms and 100 ms, in ticks
  GcdTicks,                         \* how long an action on the GCD takes at most
  MaxDue,                           \* bound: ready_in_ms
  MaxDecisions                      \* max_decisions

Lanes == {"gcd", "queue", "offgcd"}

\* What the constructors of steps and guards let through.
ActionSteps ==
  [kind : Lanes, act : Actions, target : Targets \cup {AnyTarget},
   guard : [skips : BOOLEAN, timeout : Nat, every : Nat] \cup {None},
   from : Nat, late : Nat, ticks : Nat]
WaitSteps ==
  [kind : {"wait"}, act : {None}, target : {AnyTarget}, guard : {None},
   from : Nat, late : Nat, ticks : Nat \ {0}]

ASSUME WaveAssumption ==
  /\ None \notin Actions
  /\ None \notin [kind : Lanes \cup {"wait"}, act : Actions \cup {None}, ticks : Nat]
  /\ Listed \subseteq Actions
  /\ {TailGcd, TailQueue, TailOffGcd} \subseteq Seq(Actions)
  /\ Programs \subseteq [fills : BOOLEAN, steps : Seq(ActionSteps \cup WaitSteps)]
  /\ {Quiet, Poll} \subseteq Nat \ {0}
  /\ {GcdTicks, MaxDue, MaxDecisions} \subseteq Nat

VARIABLES
  program,   \* the searched program: gap behaviour and steps
  sim,       \* time, the time of the next input at the latest, finished
  session,   \* SearchedWaveProgramSessionV1
  latch,     \* _pending_decision of the replay's session
  replay,    \* where the replay is: decision_index, operations left, receipts
  executed,  \* history: actions and waits of steps, and once-only tail actions,
             \* that the simulator accepted, in their order
  asleep     \* history: the step that a wait of the session is for, or 0

vars == <<program, sim, session, latch, replay, executed, asleep>>

Steps == DOMAIN program.steps
Step(i) == program.steps[i]
Deadline(i) == Step(i).from + Step(i).late
GuardDeadline(i) == Min({Deadline(i), Step(i).from + Step(i).guard.timeout})

\* Decisions, and the operations that _execute_decision makes of them.
Act(lane, a) == [kind |-> lane, act |-> a, ticks |-> 1]
Wait(ticks) == [kind |-> "wait", act |-> None, ticks |-> ticks]
Operations(d) ==
  <<"SET_TARGET", "START_ATTACK">> \o
    (CASE d.kind = "gcd" -> <<"gcd">>
       [] d.kind = "wait" -> <<"wait">>
       [] OTHER -> <<d.kind, "wait">>)

NoPending == [decision |-> None, ordinal |-> 0, step |-> 0]

Init ==
  /\ program \in Programs
  /\ sim = [time |-> 0, wake |-> 0, finished |-> FALSE]
  /\ session = [committed |-> {}, skipped |-> {}, used |-> {}, started |-> -1,
                pending |-> NoPending, proposals |-> 0, fallbacks |-> 0]
  /\ latch = None
  /\ replay = [at |-> "advance", index |-> 0, todo |-> <<>>, accepted |-> {}]
  /\ executed = <<>>
  /\ asleep = 0

(***************************************************************************)
(* What the session observes: the active targets, the guards that hold,    *)
(* and ready_in_ms for each listed action, where -1 stands for an action   *)
(* that is illegal although its ready_in_ms is 0.                          *)
(***************************************************************************)
Guarded == {i \in Steps : Step(i).guard # None}
Observations ==
  [active : SUBSET Targets \ {{}}, holds : SUBSET Guarded,
   due : [Listed -> -1 .. MaxDue]]
Elapsed == IF session.started = -1 THEN 0 ELSE sim.time - session.started

TargetGone(i, o) == Step(i).target \notin o.active \cup {AnyTarget}
GuardFails(i, o) == i \in Guarded \ o.holds
Ready(a, o) == a \in Listed /\ o.due[a] = 0

\* Mutant: a missed window is noticed one tick late.
SkipsLate(i, o) ==
  /\ Elapsed >= Step(i).from
  /\ \/ Elapsed > Deadline(i) + 1
     \/ /\ Step(i).kind # "wait"
        /\ \/ TargetGone(i, o)
           \/ /\ GuardFails(i, o)
              /\ Step(i).guard.skips \/ Elapsed >= GuardDeadline(i)
           \/ /\ ~GuardFails(i, o)
              /\ \/ Step(i).act \notin Listed
                 \/ ~Ready(Step(i).act, o) /\ Elapsed >= Deadline(i)

\* The loop of __call__ drops this step and goes on to the next one.
Skips(i, o) ==
  /\ Elapsed >= Step(i).from
  /\ \/ Elapsed > Deadline(i)
     \/ /\ Step(i).kind # "wait"
        /\ \/ TargetGone(i, o)
           \/ /\ GuardFails(i, o)
              /\ Step(i).guard.skips \/ Elapsed >= GuardDeadline(i)
           \/ /\ ~GuardFails(i, o)
              /\ \/ Step(i).act \notin Listed
                 \/ ~Ready(Step(i).act, o) /\ Elapsed >= Deadline(i)

\* _wait_decision, for the waits of the session itself.
Pause(ticks) == Wait(Max({1, Min({Quiet, ticks})}))

\* _tail_decision: the first ready action, of each lane alone and once-only
\* actions first.
TailDecision(o) ==
  LET ready(keys) == {n \in DOMAIN keys : Ready(keys[n], o)}
      fresh == {n \in ready(TailOffGcd) : ResourceOf[TailOffGcd[n]] \notin session.used}
      first(lane, keys, places) == Act(lane, keys[Min(places)])
      waits == {o.due[a] : a \in ToSet(TailGcd) \cap Listed} \cap 1 .. MaxDue
  IN  CASE fresh # {} -> first("offgcd", TailOffGcd, fresh)
        [] fresh = {} /\ ready(TailGcd) # {} -> first("gcd", TailGcd, ready(TailGcd))
        [] fresh = {} /\ ready(TailGcd) = {} /\ ready(TailQueue) # {} ->
             first("queue", TailQueue, ready(TailQueue))
        [] OTHER -> Pause(IF waits = {} THEN Poll ELSE Min(waits))

GapDecision(ticks, o) == IF program.fills THEN TailDecision(o) ELSE Pause(ticks)

\* Mutant: the wait for an action ignores the end of the window.
UntilReadyOnly(i, o) ==
  Max({1, IF o.due[Step(i).act] <= 0 THEN Poll ELSE o.due[Step(i).act]})

\* How long the session waits for an action that is not ready.
UntilReady(i, o) ==
  Min({Max({1, IF o.due[Step(i).act] <= 0 THEN Poll ELSE o.due[Step(i).act]}),
       Max({1, Deadline(i) - Elapsed})})

\* What the session proposes when step i is the first that it does not drop:
\* the step itself, or something to do meanwhile.
Proposal(i, o) ==
  LET self(d) == [step |-> i, decision |-> d]
      meanwhile(d) == [step |-> 0, decision |-> d]
  IN  CASE Elapsed < Step(i).from -> meanwhile(GapDecision(Step(i).from - Elapsed, o))
        [] Elapsed >= Step(i).from /\ Step(i).kind = "wait" -> self(Wait(Step(i).ticks))
        [] Elapsed >= Step(i).from /\ GuardFails(i, o) ->
             meanwhile(Pause(Min({Step(i).guard.every, GuardDeadline(i) - Elapsed})))
        [] OTHER -> IF Ready(Step(i).act, o)
                    THEN self(Act(Step(i).kind, Step(i).act))
                    ELSE meanwhile(GapDecision(UntilReady(i, o), o))

-----------------------------------------------------------------------------
(* Selecting a decision. *)

Choosing ==
  /\ replay.at = "choose"
  /\ replay.index < MaxDecisions
  /\ latch = None   \* decide raises otherwise

Decide(d) ==
  /\ latch' = d
  /\ replay' = [replay EXCEPT !.at = "execute", !.todo = Operations(d), !.accepted = {}]
  /\ UNCHANGED <<program, sim, executed>>

\* _pending = ..., after a leftover proposal was rejected.
Propose(s, d, step) ==
  /\ session' = [s EXCEPT
       !.pending = [decision |-> d, ordinal |-> s.proposals, step |-> step],
       !.proposals = @ + 1]
  /\ Decide(d)

\* There are active targets: the first open step that is not dropped decides,
\* or the tail when no step is left.
Choose ==
  /\ Choosing
  /\ \E o \in Observations :
       LET open == Steps \ (session.committed \cup session.skipped)
           passed == {i \in open : \A k \in open : k <= i => Skips(k, o)}
           now == IF passed = open THEN 0 ELSE Min(open \ passed)
           p == IF now = 0 THEN [step |-> 0, decision |-> TailDecision(o)]
                           ELSE Proposal(now, o)
       IN  /\ Propose([session EXCEPT !.skipped = @ \cup passed,
                                      !.started = IF @ = -1 THEN sim.time ELSE @],
                      p.decision, p.step)
           /\ asleep' = IF p.step = 0 /\ p.decision.kind = "wait" /\ ~program.fills
                        THEN now ELSE 0

\* No active target before the fight, or all of them dead.
ChooseIdle ==
  /\ Choosing
  /\ \E ticks \in {Poll, 1} : Propose(session, Pause(ticks), 0)
  /\ asleep' = 0

\* No active target for another reason: the fallback decides, and the session
\* has no pending proposal.
Fallback ==
  /\ Choosing
  /\ session' = [session EXCEPT !.fallbacks = @ + 1, !.pending = NoPending]
  /\ \E d \in {Act(lane, a) : lane \in Lanes, a \in Listed} \cup {Wait(1)} : Decide(d)
  /\ asleep' = 0

\* A session without fallback raises: the sessions are rejected.
NoFallback ==
  /\ Choosing
  /\ session' = [session EXCEPT !.fallbacks = @ + 1]
  /\ replay' = [replay EXCEPT !.at = "invalid"]
  /\ UNCHANGED <<program, sim, latch, executed, asleep>>

TooManyDecisions ==
  /\ replay.at = "choose"
  /\ replay.index >= MaxDecisions
  /\ replay' = [replay EXCEPT !.at = "invalid"]
  /\ UNCHANGED <<program, sim, session, latch, executed, asleep>>

-----------------------------------------------------------------------------
(* Executing it. *)

Executing == replay.at = "execute" /\ replay.todo # <<>> /\ ~sim.finished
Operation == Head(replay.todo)
Length(op) == CASE op = "wait" -> latch.ticks [] op = "gcd" -> GcdTicks [] OTHER -> 0

\* Of the operations of a decision, the one that is for its pending proposal.
Counts(op) ==
  /\ session.pending # NoPending
  /\ op = latch.kind
  /\ session.pending.step # 0 \/ op = "offgcd"

\* The simulator carries the operation out.  The fight may end by it.
Accept ==
  /\ Executing
  /\ replay' = [replay EXCEPT !.todo = Tail(@), !.accepted = @ \cup {Operation}]
  /\ \E finished \in BOOLEAN :
       sim' = [sim EXCEPT !.wake = sim.time + Length(Operation), !.finished = finished]
  /\ executed' = IF Counts(Operation)
                 THEN Append(executed, [step |-> session.pending.step, kind |-> latch.kind,
                                        act |-> latch.act, elapsed |-> Elapsed])
                 ELSE executed
  /\ UNCHANGED <<program, session, latch, asleep>>

\* OPTIONAL_OFF_GCD_SKIPPED: its guard, evaluated again, does not hold.
PassOver ==
  /\ Executing
  /\ Operation = "offgcd"
  /\ replay' = [replay EXCEPT !.todo = Tail(@)]
  /\ UNCHANGED <<program, sim, session, latch, executed, asleep>>

\* The operation is not legal any more, is rejected, or consumes the decision
\* when it should not: the sessions are rejected, the replay is invalid.
Refuse ==
  /\ Executing
  /\ latch' = None
  /\ session' = [session EXCEPT !.pending = NoPending]
  /\ replay' = [replay EXCEPT !.at = "invalid"]
  /\ UNCHANGED <<program, sim, executed, asleep>>

-----------------------------------------------------------------------------
(* Feedback. *)

Executed == replay.at = "execute" /\ (replay.todo = <<>> \/ sim.finished)
Matches == session.pending # NoPending /\ session.pending.ordinal = replay.index

\* Mutant: only the tail's actions use up their resource.
MarkedTail(p) ==
  IF p.decision.kind \in replay.accepted /\ p.step = 0 /\ p.decision.kind = "offgcd"
  THEN {ResourceOf[p.decision.act]} ELSE {}

\* _used_resources: what this proposal has used, for steps of any lane and for
\* the tail's once-only actions.
Marked(p) ==
  IF p.decision.kind \in replay.accepted /\ p.decision.act # None
     /\ (p.step # 0 \/ p.decision.kind = "offgcd")
  THEN {ResourceOf[p.decision.act]} ELSE {}

\* Mutant: the step is committed whether its action was accepted or not.
ConfirmUnchecked ==
  /\ Executed
  /\ Matches
  /\ LET p == session.pending
     IN  session' = [session EXCEPT
           !.pending = NoPending,
           !.used = @ \cup Marked(p),
           !.committed = IF p.step # 0 THEN @ \cup {p.step} ELSE @]
  /\ latch' = None
  /\ replay' = [replay EXCEPT !.at = "advance", !.index = @ + 1]
  /\ UNCHANGED <<program, sim, executed, asleep>>

Confirm ==
  /\ Executed
  /\ Matches
  /\ LET p == session.pending
     IN  session' = [session EXCEPT
           !.pending = NoPending,
           !.used = @ \cup Marked(p),
           !.committed = IF p.step # 0 /\ p.decision.kind \in replay.accepted
                         THEN @ \cup {p.step} ELSE @]
  /\ latch' = None
  /\ replay' = [replay EXCEPT !.at = "advance", !.index = @ + 1]
  /\ UNCHANGED <<program, sim, executed, asleep>>

\* Mutant: feedback without a proposal is ignored.
RefuseFeedbackQuietly ==
  /\ Executed
  /\ ~Matches
  /\ session' = [session EXCEPT !.pending = NoPending]
  /\ latch' = None
  /\ replay' = [replay EXCEPT !.at = "advance", !.index = @ + 1]
  /\ UNCHANGED <<program, sim, executed, asleep>>

\* record_last_execution_receipt_v1 raises, outside of the handler that rejects
\* the sessions: there is no proposal, or it is not the one of this decision.
RefuseFeedback ==
  /\ Executed
  /\ ~Matches
  /\ session' = [session EXCEPT !.pending = NoPending]
  /\ replay' = [replay EXCEPT !.at = "invalid"]
  /\ UNCHANGED <<program, sim, latch, executed, asleep>>

-----------------------------------------------------------------------------
(* The simulator goes on to the next input, or to the end of the fight. *)

Advance ==
  /\ replay.at = "advance"
  /\ ~sim.finished
  /\ \E t \in sim.time .. sim.wake, finished \in BOOLEAN :
       /\ t > sim.time \/ sim.wake = sim.time
       /\ sim' = [sim EXCEPT !.time = t, !.wake = t, !.finished = finished]
       /\ replay' = [replay EXCEPT !.at = IF finished THEN @ ELSE "choose"]
  /\ UNCHANGED <<program, session, latch, executed, asleep>>

Complete ==
  /\ replay.at = "advance"
  /\ sim.finished
  /\ replay' = [replay EXCEPT !.at = "complete"]
  /\ UNCHANGED <<program, sim, session, latch, executed, asleep>>

\* A request to the simulator fails while no decision is under way.
BridgeFails ==
  /\ replay.at \in {"advance", "choose"}
  /\ replay' = [replay EXCEPT !.at = "invalid"]
  /\ UNCHANGED <<program, sim, session, latch, executed, asleep>>

Next ==
  \/ Choose \/ ChooseIdle \/ Fallback \/ NoFallback \/ TooManyDecisions
  \/ Accept \/ PassOver \/ Refuse
  \/ Confirm \/ RefuseFeedback
  \/ Advance \/ Complete \/ BridgeFails

Spec == Init /\ [][Next]_vars

-----------------------------------------------------------------------------
(* Properties. *)

Longest == Max({Quiet, Poll} \cup {Step(i).ticks : i \in Steps})
Decisions ==
  {Act(lane, a) : lane \in Lanes, a \in Actions} \cup {Wait(t) : t \in 1 .. Longest}

\* The variables have their types, and the session's own waits stay below its
\* cap for quiet time (_wait_decision).
TypeOK ==
  /\ program \in Programs
  /\ sim.time \in Nat /\ sim.wake >= sim.time /\ sim.finished \in BOOLEAN
  /\ session.committed \subseteq Steps /\ session.skipped \subseteq Steps
  /\ session.used \subseteq {ResourceOf[a] : a \in Actions}
  /\ session.started \in -1 .. sim.time
  /\ latch \in Decisions \cup {None}
  /\ session.pending = NoPending \/
       /\ session.pending.decision \in Decisions
       /\ session.pending.step \in Steps \cup {0}
       /\ session.pending.decision.kind = "wait" /\ session.pending.step = 0
            => session.pending.decision.ticks <= Quiet
  /\ replay.at \in {"advance", "choose", "execute", "complete", "invalid"}
  /\ replay.index \in 0 .. MaxDecisions
  /\ asleep \in Steps \cup {0}

Done == [n \in {m \in DOMAIN executed : executed[m].step # 0} |-> executed[n].step]

\* A step counts as done exactly if the simulator has carried its own action
\* or wait out, which happens at most once; steps are carried out in the order
\* of the program, and a dropped step never is.  Of the decision under way the
\* session hears at its end (_committed, _skipped and the receipts).
StepsAsExecuted ==
  /\ \A m, n \in DOMAIN Done : m < n => Done[m] < Done[n]
  /\ \A n \in DOMAIN Done :
       /\ Done[n] \notin session.skipped
       /\ executed[n].kind = Step(Done[n]).kind /\ executed[n].act = Step(Done[n]).act
  /\ session.committed \subseteq Range(Done)
  /\ replay.at \in {"advance", "choose", "complete"} => session.committed = Range(Done)

\* What is carried out of a step begins within its window, although the
\* session proposes it before the operations that precede it are executed.
StepsInWindows ==
  \A n \in DOMAIN Done :
    executed[n].elapsed \in Step(Done[n]).from .. Deadline(Done[n])

\* The tail never takes a once-only action whose resource a step or the tail
\* has used before, also if several actions share it (tail_off_gcd_once,
\* _used_resources).
TailOnce ==
  \A n \in DOMAIN executed : executed[n].step = 0 =>
    \A m \in 1 .. n - 1 :
      executed[m].act = None \/ ResourceOf[executed[m].act] # ResourceOf[executed[n].act]

\* The session and the replay agree on which decision they talk about: when the
\* next one is due, neither has one pending, and the session has proposed as
\* many as were executed.  A fallback breaks that, and makes the replay
\* invalid, so a complete replay never used one.
FeedbackMatches ==
  replay.at \in {"advance", "choose", "complete"} =>
    /\ latch = None /\ session.pending = NoPending
    /\ session.proposals = replay.index
    /\ replay.at = "choose" \/ session.fallbacks = 0

\* A program that waits for its steps does not sleep through a window: when a
\* wait for a step is over, the window of that step is not.
WaitsEndInWindow ==
  replay.at = "choose" /\ asleep # 0 => Elapsed <= Deadline(asleep)
=============================================================================
