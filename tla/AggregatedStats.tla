--------------------------- MODULE AggregatedStats ---------------------------
(***************************************************************************)
(* What a window shows of one player's fight (src/AggregatedStats.h and    *)
(* .cpp), computed when it is first asked for and kept. The fight itself   *)
(* is a copy and does not change; the table of damaging skills             *)
(* (src/Skills.cpp) is shared with the threads that record events, and     *)
(* does.                                                                   *)
(*                                                                         *)
(*   source   a HealingStats: EnteredCombatTime, ExitedCombatTime,         *)
(*            LastDamageEvent, CollectionTime (0 for "never"), SubGroup,   *)
(*            Events, and Agents, of those that are known by name          *)
(*   options  a HealWindowOptions                                          *)
(*   a list   of lines, by the id of an agent or a skill; the order and    *)
(*            the names in it are left out                                 *)
(***************************************************************************)
EXTENDS Integers, FiniteSets, FiniteSetsExt, Functions, Sequences

CONSTANTS
  HybridSkills, (* skills that heal and do damage: their healing is direct  *)
  Unset         (* a value that has not been computed yet                   *)

IndirectHealingSkillId == 0
GroupFilters == {"Group", "Squad", "AllExcludingMinions", "All"}

(* RegisterDamagingSkill sets a bit and never clears it; hybrid skills are *)
(* never indirect.                                                         *)
RegisterDamagingSkill(damaging, s) == damaging \cup {s}
IsSkillIndirectHealing(s, damaging) == s \in damaging \ HybridSkills

-----------------------------------------------------------------------------
(* What cannot be read as a number is left out of the list. *)
ParseUInt32String(tokens) == tokens \cap Nat

(* An empty list includes every skill. *)
FilterSkill(s, options) ==
  LET included == ParseUInt32String(options.IncludedSkills) IN
  included # {} /\ s \notin included

(* Agents without a name are only subject to ExcludeUnmapped. *)
FilterInternal(source, agent, options) ==
  IF agent \notin DOMAIN source.Agents
    THEN options.ExcludeUnmapped
    ELSE LET a == source.Agents[agent] IN
      \/ a.IsMinion /\ options.ExcludeMinions
      \/ a.Subgroup = 0 /\ source.SubGroup # 0 /\ options.ExcludeOffSquad
      \/ /\ a.Subgroup # 0 /\ a.Subgroup # source.SubGroup
         /\ options.ExcludeOffGroup
      \/ a.Subgroup = source.SubGroup /\ options.ExcludeGroup

(* Variant for the mutation checks: the squad's total keeps its minions.   *)
FakeOptions_SquadMinions(filter) ==
  [ExcludeGroup    |-> FALSE,
   ExcludeOffGroup |-> filter = "Group",
   ExcludeOffSquad |-> filter \in {"Group", "Squad"},
   ExcludeMinions  |-> filter \in {"Group", "AllExcludingMinions"},
   ExcludeUnmapped |-> TRUE]

(* The options that GetGroupFilterTotals puts in the place of the window's. *)
FakeOptions(filter) ==
  [ExcludeGroup    |-> FALSE,
   ExcludeOffGroup |-> filter = "Group",
   ExcludeOffSquad |-> filter \in {"Group", "Squad"},
   ExcludeMinions  |-> filter # "All",
   ExcludeUnmapped |-> TRUE]

-----------------------------------------------------------------------------
LastHeal(source) ==
  IF source.Events = <<>> THEN 0 ELSE source.Events[Len(source.Events)].Time

LastDamage(source) == source.LastDamageEvent

(* The end that the window asks for; 0 when there was no such thing yet.   *)
ChosenEnd(source, options) ==
  CASE options.CombatEndConditionChoice = "CombatExit" ->
         source.ExitedCombatTime
    [] options.CombatEndConditionChoice = "LastHealEvent" -> LastHeal(source)
    [] options.CombatEndConditionChoice = "LastDamageEvent" ->
         LastDamage(source)
    [] OTHER -> Max({LastDamage(source), LastHeal(source)})

(* Variant for the mutation checks: the end is taken as it comes. *)
GetCombatEnd_Unclamped(source, options) ==
  LET end == ChosenEnd(source, options) IN
  IF end # 0 THEN end
  ELSE IF source.ExitedCombatTime # 0 THEN source.ExitedCombatTime
  ELSE source.CollectionTime

GetCombatEnd(source, options) ==
  LET end == ChosenEnd(source, options) IN
  Max({source.EnteredCombatTime,
       IF end # 0 THEN end
       ELSE IF source.ExitedCombatTime # 0 THEN source.ExitedCombatTime
       ELSE source.CollectionTime})

GetCombatTime(source, options) ==
  IF source.EnteredCombatTime = 0 THEN 0
  ELSE GetCombatEnd(source, options) - source.EnteredCombatTime

-----------------------------------------------------------------------------
(* The events that are left when those are skipped that no line counts.    *)
Remaining(source, options) ==
  {i \in DOMAIN source.Events :
     LET e == source.Events[i] IN
       /\ e.Time <= GetCombatEnd(source, options)
       /\ ~ (IF e.IsAgainstDowned THEN options.ExcludeAgainstDowned
                                  ELSE options.ExcludeAgainstNonDowned)
       /\ ~ (IF e.IsBarrierGeneration THEN options.ExcludeBarrierGeneration
                                      ELSE options.ExcludeHealing)
       /\ ~ FilterSkill(e.SkillId, options)}

Entry(healing, hits, barrier) ==
  [Healing |-> healing, Hits |-> hits, BarrierGeneration |-> barrier]

(* Healing contains the barrier that was generated. *)
EntryOf(source, indices) ==
  LET barrier == {i \in indices : source.Events[i].IsBarrierGeneration}
  IN Entry(SumFunction([i \in indices |-> source.Events[i].Size]),
           Cardinality(indices),
           SumFunction([i \in barrier |-> source.Events[i].Size]))

SumOf(list) ==
  Entry(SumFunction([k \in DOMAIN list |-> list[k].Healing]),
        SumFunction([k \in DOMAIN list |-> list[k].Hits]),
        SumFunction([k \in DOMAIN list |-> list[k].BarrierGeneration]))

(* A line for every agent, or every skill, that the given events name. *)
ListBy(source, indices, key) ==
  [k \in {source.Events[i][key] : i \in indices} |->
     EntryOf(source, {i \in indices : source.Events[i][key] = k})]

Mapped(source, options) ==
  {i \in Remaining(source, options) :
     ~ FilterInternal(source, source.Events[i].AgentId, options)}

(* The agents, all of them or those a skill healed. *)
AgentList(source, options) == ListBy(source, Mapped(source, options), "AgentId")

(* Variant for the mutation checks: the agents of a skill's line are not   *)
(* filtered.                                                               *)
AgentListOf_Unfiltered(source, options, skill) ==
  ListBy(source, {i \in Remaining(source, options) :
                    source.Events[i].SkillId = skill}, "AgentId")

AgentListOf(source, options, skill) ==
  ListBy(source, {i \in Mapped(source, options) :
                    source.Events[i].SkillId = skill}, "AgentId")

(* Variant for the mutation checks: the skills that are translated to      *)
(* indirect healing are not added up.                                      *)
Translated_Dropped(list, damaging, debug) ==
  LET indirect == {s \in DOMAIN list : IsSkillIndirectHealing(s, damaging)}
  IN [s \in (IF debug THEN DOMAIN list ELSE DOMAIN list \ indirect) |->
        list[s]]

(* The lines of indirect healing are taken together in one; in debug mode  *)
(* they are shown as well.                                                 *)
Translated(list, damaging, debug) ==
  LET indirect == {s \in DOMAIN list : IsSkillIndirectHealing(s, damaging)}
      total    == SumOf([s \in indirect |-> list[s]])
      shown    == IF debug THEN DOMAIN list ELSE DOMAIN list \ indirect
  IN [s \in shown \cup (IF indirect = {} THEN {}
                                         ELSE {IndirectHealingSkillId}) |->
        IF s = IndirectHealingSkillId THEN total ELSE list[s]]

(* The skills, all of them or those that healed an agent, whom the filter  *)
(* for agents is not applied to again.                                     *)
SkillList(source, options, damaging, debug) ==
  Translated(ListBy(source, Mapped(source, options), "SkillId"), damaging, debug)

SkillListOf(source, options, agent, damaging, debug) ==
  Translated(ListBy(source, {i \in Remaining(source, options) :
                               source.Events[i].AgentId = agent}, "SkillId"),
             damaging, debug)

GroupFilterTotals(source, options) ==
  [f \in GroupFilters |->
     EntryOf(source,
       {i \in Remaining(source, options) :
          ~ FilterInternal(source, source.Events[i].AgentId,
                           FakeOptions(f))})]

-----------------------------------------------------------------------------
(* The object: what has been computed so far. The callers take care that   *)
(* what is there already is returned as it is.                             *)
NewStats(source) ==
  [mySourceData |-> source, myTotal |-> Unset, myFilteredAgents |-> Unset,
   mySkills |-> Unset, myGroupFilterTotals |-> Unset,
   myAgentsDetailed |-> <<>>, mySkillsDetailed |-> <<>>]

With(map, k, v) == [x \in DOMAIN map \cup {k} |->
                      IF x \in DOMAIN map THEN map[x] ELSE v]

GetSkills(s, options, damaging, debug) ==
  IF s.mySkills # Unset THEN s
  ELSE [s EXCEPT !.mySkills =
          SkillList(s.mySourceData, options, damaging, debug)]

GetTotal(s, options, damaging, debug) ==
  LET t == GetSkills(s, options, damaging, debug) IN
  IF t.myTotal # Unset THEN t ELSE [t EXCEPT !.myTotal = SumOf(t.mySkills)]

GetAgents(s, options) ==
  IF s.myFilteredAgents # Unset THEN s
  ELSE [s EXCEPT !.myFilteredAgents = AgentList(s.mySourceData, options)]

GetGroupFilterTotals(s, options) ==
  IF s.myGroupFilterTotals # Unset THEN s
  ELSE [s EXCEPT !.myGroupFilterTotals =
          GroupFilterTotals(s.mySourceData, options)]

GetStats(s, dataSource, options, damaging, debug) ==
  CASE dataSource = "Skills" -> GetSkills(s, options, damaging, debug)
    [] dataSource = "Agents" -> GetAgents(s, options)
    [] OTHER -> GetGroupFilterTotals(s, options)

GetDetails(s, dataSource, id, options, damaging, debug) ==
  IF dataSource = "Skills"
    THEN [s EXCEPT !.mySkillsDetailed =
            With(@, id, AgentListOf(s.mySourceData, options, id))]
    ELSE [s EXCEPT !.myAgentsDetailed =
            With(@, id, SkillListOf(s.mySourceData, options, id, damaging,
                                    debug))]

=============================================================================
