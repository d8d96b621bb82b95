---------------------------- MODULE MCRpcClient ----------------------------
(* Instances of RpcClient for TLC. *)
EXTENDS RpcClient, TLC

CONSTANTS c1, c2

OneConn  == {c1}
TwoConns == {c1, c2}
Nobody   == {}
One      == {1}
Two      == {1, 2}

(* Peers with every id and account; one peer that never changes.           *)
AnyPeer  == [id : Ids, account : Accounts]
OnePeer  == {[id |-> 2, account |-> 1]}

=============================================================================
