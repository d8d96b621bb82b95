----------------------------- MODULE EventRelay -----------------------------
(***************************************************************************)
(* What evtc_rpc_server promises its clients, without gRPC, locks or       *)
(* queues of operations. A connection may hold one account; an account is  *)
(* held by one connection. A connection that has ended never holds an      *)
(* account again. A combat event of a holder goes to connections that hold *)
(* an account; a connection receives its events in the order in which they *)
(* were relayed, each once, and loses some only when it has hung up, was   *)
(* disconnected or the relay is closing.                                   *)
(*                                                                         *)
(* RpcServer implements this specification (see its Relay instance).       *)
(***************************************************************************)
EXTENDS Sequences

CONSTANTS Conns, Accounts, Events, NoConn

VARIABLES
  holder,      (* the connection that holds each account, or NoConn         *)
  ended,       (* connections the relay has disconnected                    *)
  hungUp,      (* connections whose client is gone                          *)
  closing,     (* whether the relay is going down                           *)
  inbox,       (* events relayed to a connection and not received yet       *)
  received     (* events each connection has received                       *)

vars == <<holder, ended, hungUp, closing, inbox, received>>

Holders == {holder[a] : a \in Accounts} \ {NoConn}

Init ==
  /\ holder = [a \in Accounts |-> NoConn]
  /\ ended = {}
  /\ hungUp = {}
  /\ closing = FALSE
  /\ inbox = [c \in Conns |-> <<>>]
  /\ received = [c \in Conns |-> <<>>]

Join(c, a) ==
  /\ c \notin Holders \cup ended
  /\ holder[a] = NoConn
  /\ holder' = [holder EXCEPT ![a] = c]
  /\ UNCHANGED <<ended, hungUp, closing, inbox, received>>

(* The account moves to a new connection and the old one ends with it. *)
TakeOver(c, a) ==
  /\ c \notin Holders \cup ended
  /\ holder[a] # NoConn
  /\ holder' = [holder EXCEPT ![a] = c]
  /\ ended' = ended \cup {holder[a]}
  /\ UNCHANGED <<hungUp, closing, inbox, received>>

Leave(c) ==
  /\ holder' = [a \in Accounts |-> IF holder[a] = c THEN NoConn ELSE holder[a]]
  /\ ended' = ended \cup {c}
  /\ UNCHANGED <<hungUp, closing, inbox, received>>

HangUp(c) ==
  /\ hungUp' = hungUp \cup {c}
  /\ UNCHANGED <<holder, ended, closing, inbox, received>>

Close ==
  /\ closing' = TRUE
  /\ UNCHANGED <<holder, ended, hungUp, inbox, received>>

Relay(c, e) ==
  /\ c \in Holders
  /\ \E audience \in SUBSET Holders :
       inbox' = [d \in Conns |-> IF d \in audience THEN Append(inbox[d], e)
                                                   ELSE inbox[d]]
  /\ UNCHANGED <<holder, ended, hungUp, closing, received>>

Receive(c) ==
  /\ inbox[c] # <<>>
  /\ received' = [received EXCEPT ![c] = Append(@, Head(inbox[c]))]
  /\ inbox' = [inbox EXCEPT ![c] = Tail(@)]
  /\ UNCHANGED <<holder, ended, hungUp, closing>>

(* While the relay is closing a connection may get one more event and lose *)
(* the rest.                                                               *)
ReceiveLast(c) ==
  /\ closing
  /\ inbox[c] # <<>>
  /\ received' = [received EXCEPT ![c] = Append(@, Head(inbox[c]))]
  /\ inbox' = [inbox EXCEPT ![c] = <<>>]
  /\ UNCHANGED <<holder, ended, hungUp, closing>>

Lose(c) ==
  /\ closing \/ c \in hungUp \cup ended
  /\ inbox' = [inbox EXCEPT ![c] = <<>>]
  /\ UNCHANGED <<holder, ended, hungUp, closing, received>>

Next ==
  \/ \E c \in Conns :
       \/ \E a \in Accounts : Join(c, a) \/ TakeOver(c, a)
       \/ Leave(c) \/ HangUp(c) \/ Receive(c) \/ ReceiveLast(c) \/ Lose(c)
       \/ \E e \in Events : Relay(c, e)
  \/ Close

Spec == Init /\ [][Next]_vars

=============================================================================
