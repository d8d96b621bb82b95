-------------------------- MODULE OrderedDelivery --------------------------
(***************************************************************************)
(* What arcdps_healing_stats expects of its event sequencer, without       *)
(* threads, locks or a queue: events carry an id; the first id seen fixes  *)
(* where the sequence starts; from there on the callback runs for one      *)
(* event at a time, in the order of the ids and without skipping one.      *)
(* Events that carry no id (0), or an id at or below the sequence, are     *)
(* "loose": they are passed on whenever they come.                         *)
(*                                                                         *)
(* EventSequencer implements this specification (see its Ordered           *)
(* instance).                                                              *)
(***************************************************************************)
EXTENDS Integers

CONSTANTS
  Events,       (* the events arcdps hands to the addon                     *)
  IdOf,         (* the id of each event; 0 is "no id"                       *)
  NotStarted,   (* the value of last before the sequence starts             *)
  NoEvent       (* not an event                                             *)

VARIABLES
  last,         (* id of the last event passed on in sequence               *)
  submitted,    (* events handed over whose callback has not started        *)
  running,      (* the event whose sequenced callback is running, if any    *)
  loose,        (* loose events whose callback is running                   *)
  delivered     (* events whose callback has returned                       *)

vars == <<last, submitted, running, loose, delivered>>

Init ==
  /\ last = NotStarted
  /\ submitted = {}
  /\ running = NoEvent
  /\ loose = {}
  /\ delivered = {}

Submit(e) ==
  /\ e \notin submitted \cup loose \cup delivered \cup {running}
  /\ submitted' = submitted \cup {e}
  /\ UNCHANGED <<last, running, loose, delivered>>

(* The first event to arrive starts the sequence just below its own id. *)
StartSequence(e) ==
  /\ e \in submitted
  /\ IdOf[e] # 0
  /\ last = NotStarted
  /\ last' = IdOf[e] - 1
  /\ UNCHANGED <<submitted, running, loose, delivered>>

IsNext(e) ==
  /\ IdOf[e] # 0
  /\ last # NotStarted
  /\ IdOf[e] = last + 1

BeginNext(e) ==
  /\ e \in submitted
  /\ running = NoEvent
  /\ IsNext(e)
  /\ running' = e
  /\ submitted' = submitted \ {e}
  /\ UNCHANGED <<last, loose, delivered>>

EndNext ==
  /\ running # NoEvent
  /\ delivered' = delivered \cup {running}
  /\ last' = IdOf[running]
  /\ running' = NoEvent
  /\ UNCHANGED <<submitted, loose>>

BeginLoose(e) ==
  /\ e \in submitted
  /\ IdOf[e] = 0 \/ (last # NotStarted /\ IdOf[e] <= last)
  /\ loose' = loose \cup {e}
  /\ submitted' = submitted \ {e}
  /\ UNCHANGED <<last, running, delivered>>

EndLoose(e) ==
  /\ e \in loose
  /\ loose' = loose \ {e}
  /\ delivered' = delivered \cup {e}
  /\ UNCHANGED <<last, submitted, running>>

Next ==
  \/ \E e \in Events : Submit(e) \/ StartSequence(e) \/ BeginNext(e)
                         \/ BeginLoose(e) \/ EndLoose(e)
  \/ EndNext

(* Everything but the arrival of events is the sequencer's own work. *)
Fairness ==
  /\ WF_vars(EndNext)
  /\ \A e \in Events : /\ WF_vars(StartSequence(e))
                       /\ WF_vars(BeginNext(e))
                       /\ WF_vars(BeginLoose(e))
                       /\ WF_vars(EndLoose(e))

Spec == Init /\ [][Next]_vars /\ Fairness

=============================================================================
