-------------------------- MODULE MCEventSequencer --------------------------
(* Instances of EventSequencer for TLC. An event is its id. *)
EXTENDS EventSequencer, TLC

CONSTANTS t1, t2, t3

TwoThreads   == {t1, t2}
ThreeThreads == {t1, t2, t3}
ThreadSymmetry == Permutations(Threads)

OneToFive   == 1..5
Mixed       == {0, 1, 2, 3, 5}      \* 0 has no id, and id 4 never comes

SameId == [e \in Events |-> e]

=============================================================================
