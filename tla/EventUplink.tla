----------------------------- MODULE EventUplink -----------------------------
(***************************************************************************)
(* What evtc_rpc_client promises for the player's combat events, without   *)
(* threads, gRPC or registration. Events are accepted in the order in      *)
(* which they happen while the queue is not full; they go out in that      *)
(* order, each over one stream at most; streams are used one after         *)
(* another; an event that is on its way is lost only with its stream.      *)
(*                                                                         *)
(* RpcClient implements this specification (see its Uplink instance).      *)
(***************************************************************************)
EXTENDS Integers, Sequences

CONSTANTS
  Conns,        (* the streams                                              *)
  MaxEvents,    (* events happen as 1, 2, ..., MaxEvents                    *)
  QueueLimit,   (* an event is not accepted behind more than that           *)
  NoConn, NoEvent

VARIABLES
  happened,     (* the number of events that have happened                  *)
  waiting,      (* events accepted and not sent                             *)
  current,      (* the stream in use                                        *)
  fresh,        (* streams not used yet                                     *)
  broken,       (* streams that have ended                                  *)
  onTheWay,     (* the event on its way over each stream, or NoEvent        *)
  arrived       (* events that have come out of each stream                 *)

vars == <<happened, waiting, current, fresh, broken, onTheWay, arrived>>

Init ==
  /\ happened = 0
  /\ waiting = <<>>
  /\ current = NoConn
  /\ fresh = Conns
  /\ broken = {}
  /\ onTheWay = [c \in Conns |-> NoEvent]
  /\ arrived = [c \in Conns |-> <<>>]

Happen ==
  /\ happened < MaxEvents
  /\ happened' = happened + 1
  /\ waiting' = IF Len(waiting) > QueueLimit THEN waiting
                ELSE Append(waiting, happened + 1)
  /\ UNCHANGED <<current, fresh, broken, onTheWay, arrived>>

Ignore ==
  /\ happened < MaxEvents
  /\ happened' = happened + 1
  /\ UNCHANGED <<waiting, current, fresh, broken, onTheWay, arrived>>

Open(c) ==
  /\ current = NoConn
  /\ c \in fresh
  /\ current' = c
  /\ fresh' = fresh \ {c}
  /\ UNCHANGED <<happened, waiting, broken, onTheWay, arrived>>

Abandon ==
  /\ current' = NoConn
  /\ UNCHANGED <<happened, waiting, fresh, broken, onTheWay, arrived>>

Break(c) ==
  /\ c \notin fresh
  /\ broken' = broken \cup {c}
  /\ UNCHANGED <<happened, waiting, current, fresh, onTheWay, arrived>>

Send ==
  /\ current # NoConn
  /\ waiting # <<>>
  /\ onTheWay[current] = NoEvent
  /\ onTheWay' = [onTheWay EXCEPT ![current] = Head(waiting)]
  /\ waiting' = Tail(waiting)
  /\ UNCHANGED <<happened, current, fresh, broken, arrived>>

Arrive(c) ==
  /\ onTheWay[c] # NoEvent
  /\ arrived' = [arrived EXCEPT ![c] = Append(@, onTheWay[c])]
  /\ onTheWay' = [onTheWay EXCEPT ![c] = NoEvent]
  /\ UNCHANGED <<happened, waiting, current, fresh, broken>>

Lose(c) ==
  /\ onTheWay[c] # NoEvent
  /\ c \in broken
  /\ onTheWay' = [onTheWay EXCEPT ![c] = NoEvent]
  /\ UNCHANGED <<happened, waiting, current, fresh, broken, arrived>>

Next ==
  \/ Happen \/ Ignore \/ Abandon \/ Send
  \/ \E c \in Conns : Open(c) \/ Break(c) \/ Arrive(c) \/ Lose(c)

Spec == Init /\ [][Next]_vars

=============================================================================
