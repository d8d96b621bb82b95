-------------------------- MODULE MCEventProcessor --------------------------
(* Instances of EventProcessor for TLC. *)
EXTENDS EventProcessor, TLC

CONSTANTS t1, t2, o1, o2

OneThread  == {t1}
TwoObjects == {o1, o2}
One        == {1}
Two        == {1, 2}

(* Instance id 1 may go from agent 1 to agent 2. *)
Passed     == {<<1, 1>>, <<1, 2>>, <<2, 1>>}

ObjectSymmetry == Permutations(Objects) \cup Permutations(Threads)

=============================================================================
