----------------------------- MODULE MCWaveReplay -----------------------------
(* Programs that wait for their steps and one that fills the gaps; two      *)
(* actions that share a resource, and one that the simulator does not list. *)
EXTENDS WaveReplay
CONSTANTS strike, potion, elixir, slam, shout, combat, t1

MCActions == {strike, potion, elixir, slam, shout}
MCResourceOf == (potion :> combat @@ elixir :> combat @@ strike :> strike @@ slam :> slam @@ shout :> shout)
MCListed == {strike, potion, elixir, slam}
MCTailGcd == <<strike>>
MCTailQueue == <<slam>>
MCTailOffGcd == <<elixir>>

NoGuard == None
WithGuard == [skips |-> FALSE, timeout |-> 2, every |-> 1]
StepOf(kind, act, target, guard, from, late) ==
  [kind |-> kind, act |-> act, target |-> target, guard |-> guard,
   from |-> from, late |-> late, ticks |-> 1]

MCPrograms == {
  [fills |-> FALSE, steps |-> <<
     StepOf("offgcd", potion, AnyTarget, NoGuard, 0, 2),
     StepOf("gcd", strike, t1, WithGuard, 2, 2),
     StepOf("wait", None, AnyTarget, NoGuard, 3, 2)>>],
  [fills |-> TRUE, steps |-> <<
     StepOf("gcd", strike, AnyTarget, NoGuard, 1, 1),
     StepOf("offgcd", potion, t1, [WithGuard EXCEPT !.skips = TRUE], 1, 3)>>],
  [fills |-> FALSE, steps |-> <<
     StepOf("gcd", shout, AnyTarget, NoGuard, 0, 3),
     StepOf("queue", slam, AnyTarget, NoGuard, 5, 0)>>]}
=============================================================================
