--------------------------- MODULE MCRemoteAttempt ---------------------------
(* Instances of RemoteAttempt for TLC.                                     *)
EXTENDS RemoteAttempt, TLC

OneOfEach == [call |-> 1, command |-> 1, node |-> 1]
LostAndKilled == [call |-> 1, command |-> 1, node |-> 0]

Permute == Permutations(Operators) \cup Permutations(Nodes) \cup Permutations(Arms)
=============================================================================
