---------------------------- MODULE PlayerStats ----------------------------
(***************************************************************************)
(* The statistics of one player (src/PlayerStats.h and .cpp). Each method  *)
(* holds myLock from its first to its last access of myStats, so a method  *)
(* is an operator from a value of myStats to the next one.                 *)
(*                                                                         *)
(* Of an event only the agent it went to is kept, and of the events only   *)
(* whom they went to: size, skill and flags decide nothing here (they do   *)
(* in AggregatedStats). Time 0 means "not yet".                            *)
(***************************************************************************)
EXTENDS Integers

(* A new PlayerStats, and one whose events were dropped for the next fight. *)
Fresh == [entered |-> 0, exited |-> 0, lastDamage |-> 0, events |-> {}]

StatsOf(T, A) ==
  [entered : T \cup {0}, exited : T \cup {0}, lastDamage : T \cup {0},
   events : SUBSET A]

IsOutOfCombat(s) == s.entered = 0 \/ s.exited # 0

(* Entering combat drops the events of the last one; entering it again     *)
(* before leaving it does nothing.                                         *)
EnteredCombat(s, t) ==
  IF IsOutOfCombat(s) THEN [Fresh EXCEPT !.entered = t] ELSE s

Later(a, b) == IF a > b THEN a ELSE b

(* Leaving combat, refused when its time is not after the entry's. *)
ExitedCombat(s, t, last) ==
  IF IsOutOfCombat(s) \/ t <= s.entered
  THEN s
  ELSE [s EXCEPT !.exited = t, !.lastDamage = Later(@, last)]

(* Variant for the mutation checks: players in combat are reset as well.   *)
ResetIfNotInCombat_Always(s) == Fresh

ResetIfNotInCombat(s) == IF IsOutOfCombat(s) THEN Fresh ELSE s

DamageEvent(s, t) ==
  IF IsOutOfCombat(s) THEN s ELSE [s EXCEPT !.lastDamage = Later(@, t)]

(* HealingEvent and BarrierGenerationEvent. *)
HealingEvent(s, agent) ==
  IF IsOutOfCombat(s) THEN s ELSE [s EXCEPT !.events = @ \cup {agent}]

=============================================================================
