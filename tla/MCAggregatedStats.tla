-------------------------- MODULE MCAggregatedStats --------------------------
(* Instances of AggregatedStatsCollection for TLC. *)
EXTENDS AggregatedStatsCollection, Sequences, TLC

CONSTANT Rubbish

Heal(time, size, agent, skill) ==
  [Time |-> time, Size |-> size, AgentId |-> agent, SkillId |-> skill,
   IsBarrierGeneration |-> FALSE, IsAgainstDowned |-> FALSE]
Barrier(time, size, agent, skill) ==
  [Heal(time, size, agent, skill) EXCEPT !.IsBarrierGeneration = TRUE]
OnDowned(e) == [e EXCEPT !.IsAgainstDowned = TRUE]

(* In subgroup 1, its minion, in subgroup 2, in none; agent 5 is unknown.  *)
Known ==
  <<[Subgroup |-> 1, IsMinion |-> FALSE],
    [Subgroup |-> 1, IsMinion |-> TRUE],
    [Subgroup |-> 2, IsMinion |-> FALSE],
    [Subgroup |-> 0, IsMinion |-> FALSE]>>

Fight(entered, exited, damage, collected, group, events) ==
  [EnteredCombatTime |-> entered, ExitedCombatTime |-> exited,
   LastDamageEvent |-> damage, CollectionTime |-> collected,
   SubGroup |-> group, Events |-> events, Agents |-> Known]

Everybody ==
  <<Heal(2, 5, 1, 1), Barrier(3, 3, 3, 2), OnDowned(Heal(3, 2, 2, 1)),
    Heal(4, 7, 4, 3), Heal(6, 1, 5, 1)>>

(* A fight that is over; one whose damage, and whose collection, were seen *)
(* before it began; one without a heal.                                    *)
Over    == Fight(2, 5, 4, 7, 1, Everybody)
Early   == Fight(5, 0, 3, 4, 0, <<Heal(5, 2, 1, 2), Barrier(6, 4, 4, 1)>>)
Nothing == Fight(3, 0, 0, 2, 2, <<>>)

Snapshots == {<<Over, Early>>, <<Nothing, Over>>}

Conditions ==
  {"CombatExit", "LastHealEvent", "LastDamageEvent", "LastDamageOrHealEvent"}

(* The agents that windows exclude: those of the groups, or others.        *)
AgentOptions ==
  {FakeOptions(f) : f \in GroupFilters}
  \cup {[FakeOptions("All") EXCEPT !.ExcludeUnmapped = FALSE],
        [FakeOptions("All") EXCEPT !.ExcludeGroup = TRUE]}

NoEvents ==
  [ExcludeAgainstDowned |-> FALSE, ExcludeAgainstNonDowned |-> FALSE,
   ExcludeBarrierGeneration |-> FALSE, ExcludeHealing |-> FALSE]

(* No event excluded, or those of one kind. *)
EventOptions ==
  {NoEvents} \cup {[NoEvents EXCEPT ![k] = TRUE] : k \in DOMAIN NoEvents}

SkillOptions == {{}, {Rubbish}, {1, Rubbish}}

(* Two kinds of options vary, the others stay.                             *)
Window(c, s, a, e) ==
  [CombatEndConditionChoice |-> c, IncludedSkills |-> s] @@ a @@ e

Options ==
  {Window(c, {}, a, NoEvents) : c \in Conditions, a \in AgentOptions}
  \cup {Window("LastHealEvent", {}, a, e) :
          a \in AgentOptions, e \in EventOptions}
  \cup {Window("LastHealEvent", s, FakeOptions("All"), NoEvents) :
          s \in SkillOptions}

SomeSkills == {1, 2}
Hybrid     == {3}

=============================================================================
