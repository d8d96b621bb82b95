---------------------------- MODULE MCRpcServer ----------------------------
(* Instances of RpcServer for TLC. *)
EXTENDS RpcServer, TLC

CONSTANTS c1, c2, c3, e1, e2, e3

TwoConns    == {c1, c2}
ThreeConns  == {c1, c2, c3}
NoEvents    == {}
TwoEvents   == {e1, e2}
TwoIds      == {1, 2}
TwoAccounts == {1, 2}

(* c1 plays account 1, c2 plays account 2; c3 is c2's client once more,    *)
(* connecting again before the server has noticed that c2 is gone.         *)
Reconnecting == [c \in Conns |-> IF c = c1 THEN 1 ELSE 2]

(* Every client keeps its instance id; c2's and c3's moves to another map. *)
FixedIds  == [c \in Conns |-> {1}]
MovingIds == [c \in Conns |-> IF c = c1 THEN {1} ELSE {1, 2}]

(* Nobody has peers; c1 adds account 2 under its first id.                 *)
Alone   == [c \in Conns |-> {}]
OneWay  == [c \in Conns |-> IF c = c1 THEN {<<2, 1>>} ELSE {}]

Symmetry      == Permutations(Conns \ {c1}) \cup Permutations(Events)

=============================================================================
