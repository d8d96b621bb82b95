---------------------- MODULE AggregatedStatsCollection ----------------------
(***************************************************************************)
(* One collection of statistics (src/AggregatedStatsCollection.h and       *)
(* .cpp): the snapshot of all players that the aggregation thread took for *)
(* one window. From then on the render thread alone asks it, in any order, *)
(* for the lists of the window and of its detail windows, while other      *)
(* threads find out which skills do damage.                                *)
(***************************************************************************)
EXTENDS AggregatedStats

CONSTANTS
  Sources,      (* the snapshots: by player, a HealingStats                 *)
  WindowOptions,(* options of windows                                       *)
  Skills,       (* skills that may turn out to do damage                    *)
  MaxCalls      (* bound on the calls and on the skills registered          *)

Entries == [Healing : Nat, Hits : Nat, BarrierGeneration : Nat]

(* Events as they are recorded. No skill has the id that stands for        *)
(* indirect healing.                                                       *)
HealEvents ==
  [Time : Nat, Size : Nat, AgentId : Nat,
   SkillId : Nat \ {IndirectHealingSkillId},
   IsBarrierGeneration : BOOLEAN, IsAgainstDowned : BOOLEAN]

IsFight(src) ==
  /\ src.EnteredCombatTime \in Nat /\ src.ExitedCombatTime \in Nat
  /\ src.LastDamageEvent \in Nat /\ src.CollectionTime \in Nat
  /\ src.SubGroup \in Nat
  /\ src.Events \in Seq(HealEvents)
  /\ \A a \in DOMAIN src.Agents :
       src.Agents[a] \in [Subgroup : Nat, IsMinion : BOOLEAN]

(* The switches of a window. *)
IsWindow(options) ==
  /\ options.ExcludeGroup \in BOOLEAN /\ options.ExcludeOffGroup \in BOOLEAN
  /\ options.ExcludeOffSquad \in BOOLEAN /\ options.ExcludeMinions \in BOOLEAN
  /\ options.ExcludeUnmapped \in BOOLEAN
  /\ options.ExcludeAgainstDowned \in BOOLEAN
  /\ options.ExcludeAgainstNonDowned \in BOOLEAN
  /\ options.ExcludeBarrierGeneration \in BOOLEAN
  /\ options.ExcludeHealing \in BOOLEAN

ASSUME SourcesAssumption ==
  \A players \in Sources : \A p \in DOMAIN players : IsFight(players[p])
ASSUME WindowsAssumption == \A o \in WindowOptions : IsWindow(o)
ASSUME UnsetAssumption == Unset \notin Entries

VARIABLES
  mSourceData,  (* the statistics of each player                            *)
  mLocalState,  (* the local player                                         *)
  mOptions,     (* the options of the window                                *)
  mDebugMode,   (* whether debug mode was on                                *)
  mPeersOutgoingStats, (* the total of every player                         *)
  mPeersOutgoingTotal, (* the total of those                                *)
  myDamagingSkills,    (* the SkillTable's                                 *)
  calls         (* calls so far (history, for the bound)                    *)

peersVars == <<mPeersOutgoingStats, mPeersOutgoingTotal>>
fixedVars == <<mLocalState, mOptions, mDebugMode>>
vars == <<mSourceData, fixedVars, peersVars, myDamagingSkills, calls>>

Players == DOMAIN mSourceData
DataSources == {"Agents", "Skills", "Totals"}

Init ==
  /\ \E players \in Sources :
       /\ mSourceData = [p \in DOMAIN players |-> NewStats(players[p])]
       /\ mLocalState \in DOMAIN players
  /\ mOptions \in WindowOptions
  /\ mDebugMode \in BOOLEAN
  /\ mPeersOutgoingStats = Unset /\ mPeersOutgoingTotal = Unset
  /\ myDamagingSkills = {}
  /\ calls = 0

Totalled(s) == GetTotal(s, mOptions, myDamagingSkills, mDebugMode)

(* The data sources that only the local player is asked for. *)
AskLocal(s) ==
  /\ mSourceData' = [mSourceData EXCEPT ![mLocalState] = s]
  /\ UNCHANGED peersVars

CollectionGetTotal == AskLocal(Totalled(mSourceData[mLocalState]))

CollectionGetStats(d) ==
  AskLocal(GetStats(mSourceData[mLocalState], d, mOptions, myDamagingSkills,
                    mDebugMode))

CollectionGetDetails(d, id) ==
  AskLocal(GetDetails(mSourceData[mLocalState], d, id, mOptions,
                      myDamagingSkills, mDebugMode))

(* The totals of all players, the local one among them. *)
PeersOutgoing ==
  IF mPeersOutgoingStats # Unset
    THEN UNCHANGED <<mSourceData, mPeersOutgoingStats>>
    ELSE /\ mSourceData' = [p \in Players |-> Totalled(mSourceData[p])]
         /\ mPeersOutgoingStats' = [p \in Players |-> mSourceData'[p].myTotal]

PeersGetStats == PeersOutgoing /\ UNCHANGED mPeersOutgoingTotal

PeersGetTotal ==
  IF mPeersOutgoingTotal # Unset
    THEN UNCHANGED <<mSourceData, peersVars>>
    ELSE /\ PeersOutgoing
         /\ mPeersOutgoingTotal' = SumOf(mPeersOutgoingStats')

PeersGetDetails(p) ==
  /\ mSourceData' = [mSourceData EXCEPT ![p] =
       GetSkills(@, mOptions, myDamagingSkills, mDebugMode)]
  /\ UNCHANGED peersVars

(* The lines that detail windows may be open for. *)
LocalEvents ==
  LET src == mSourceData[mLocalState].mySourceData IN
  {src.Events[i] : i \in DOMAIN src.Events}
SkillLines == {e.SkillId : e \in LocalEvents} \cup {IndirectHealingSkillId}

(* The render thread asks for something. *)
Ask ==
  /\ \/ CollectionGetTotal
     \/ \E d \in DataSources : CollectionGetStats(d)
     \/ \E e \in LocalEvents : CollectionGetDetails("Agents", e.AgentId)
     \/ \E s \in SkillLines : CollectionGetDetails("Skills", s)
     \/ PeersGetStats \/ PeersGetTotal
     \/ \E p \in Players : PeersGetDetails(p)
  /\ UNCHANGED myDamagingSkills

(* Another thread has seen a skill do damage. It may also do so while a    *)
(* list is being made, in which every skill is looked up once: this is as  *)
(* if the skills that are found in the table had been registered before    *)
(* the call and the others after it (or, of the totals of all players,     *)
(* after PeersGetDetails of those that come first).                        *)
SkillDoesDamage ==
  \E s \in Skills \ myDamagingSkills :
    /\ myDamagingSkills' = RegisterDamagingSkill(myDamagingSkills, s)
    /\ UNCHANGED <<mSourceData, peersVars>>

Next ==
  /\ calls < MaxCalls /\ calls' = calls + 1
  /\ Ask \/ SkillDoesDamage
  /\ UNCHANGED fixedVars

Spec == Init /\ [][Next]_vars

-----------------------------------------------------------------------------
(* What counts, said once for all lists: heals up to the end of the fight  *)
(* of a kind, with a skill and on an agent that the window does not        *)
(* exclude. An agent without a name is in no group.                        *)
GroupExcluded(src, a) ==
  CASE a.Subgroup = src.SubGroup -> mOptions.ExcludeGroup
    [] a.Subgroup # src.SubGroup /\ a.Subgroup # 0 -> mOptions.ExcludeOffGroup
    [] OTHER -> mOptions.ExcludeOffSquad

Counts(src, e) ==
  /\ e.Time <= GetCombatEnd(src, mOptions)
  /\ mOptions.ExcludeAgainstDowned => ~ e.IsAgainstDowned
  /\ mOptions.ExcludeAgainstNonDowned => e.IsAgainstDowned
  /\ mOptions.ExcludeBarrierGeneration => ~ e.IsBarrierGeneration
  /\ mOptions.ExcludeHealing => e.IsBarrierGeneration
  /\ mOptions.IncludedSkills \cap Nat # {}
       => e.SkillId \in mOptions.IncludedSkills
  /\ IF e.AgentId \in DOMAIN src.Agents
       THEN LET a == src.Agents[e.AgentId] IN
              /\ a.IsMinion => ~ mOptions.ExcludeMinions
              /\ ~ GroupExcluded(src, a)
       ELSE ~ mOptions.ExcludeUnmapped

Counted(src) ==
  EntryOf(src, {i \in DOMAIN src.Events : Counts(src, src.Events[i])})

(* The total, the list of skills and the list of agents of a player add up *)
(* to the same: to the heals that count, each once, whatever is asked for  *)
(* first and whichever skills turn out to do damage in between. (In debug  *)
(* mode the skills that were translated to indirect healing are counted    *)
(* twice in the total.)                                                    *)
TotalsMatch ==
  \A p \in Players :
    LET s == mSourceData[p]
        counted == Counted(s.mySourceData)
    IN /\ s.myTotal # Unset /\ ~ mDebugMode => s.myTotal = counted
       /\ s.mySkills # Unset /\ ~ mDebugMode => SumOf(s.mySkills) = counted
       /\ s.myFilteredAgents # Unset => SumOf(s.myFilteredAgents) = counted

(* What a detail window says adds up to the line it was opened from, also  *)
(* when the two were computed before and after a skill was found to do     *)
(* damage (the line of indirect healing stands for several skills and has  *)
(* no details); and the line of each player in the list of all is that     *)
(* player's total, the local one included.                                 *)
DetailsAddUp ==
  /\ \A p \in Players :
       LET s == mSourceData[p] IN
         /\ s.myFilteredAgents # Unset /\ ~ mDebugMode =>
              \A a \in DOMAIN s.myFilteredAgents
                       \cap DOMAIN s.myAgentsDetailed :
                SumOf(s.myAgentsDetailed[a]) = s.myFilteredAgents[a]
         /\ s.mySkills # Unset =>
              \A k \in (DOMAIN s.mySkills \cap DOMAIN s.mySkillsDetailed)
                       \ {IndirectHealingSkillId} :
                SumOf(s.mySkillsDetailed[k]) = s.mySkills[k]
  /\ mPeersOutgoingStats # Unset =>
       mPeersOutgoingStats = [p \in Players |-> mSourceData[p].myTotal]
  /\ mPeersOutgoingTotal # Unset =>
       mPeersOutgoingTotal = SumOf(mPeersOutgoingStats)

AtMost(x, y) ==
  /\ x.Healing <= y.Healing /\ x.Hits <= y.Hits
  /\ x.BarrierGeneration <= y.BarrierGeneration

AgentKeys == DOMAIN FakeOptions("All")
SameAgents(f) == \A k \in AgentKeys : mOptions[k] = FakeOptions(f)[k]

(* The totals by group are nested, no window that leaves out agents        *)
(* without a name shows more than the last of them, and one whose own      *)
(* options are those of a group shows that group's total.                  *)
GroupsNest ==
  \A p \in Players :
    LET s == mSourceData[p]
        g == s.myGroupFilterTotals
        counted == Counted(s.mySourceData)
    IN g # Unset =>
         /\ AtMost(g["Group"], g["Squad"])
         /\ AtMost(g["Squad"], g["AllExcludingMinions"])
         /\ AtMost(g["AllExcludingMinions"], g["All"])
         /\ mOptions.ExcludeUnmapped => AtMost(counted, g["All"])
         /\ \A f \in GroupFilters : SameAgents(f) => counted = g[f]

(* The fight of a player never ends before it begins (assert at line 231   *)
(* of AggregatedStats.cpp), although the times it may end at come from     *)
(* different clocks or from before the fight; the differences are          *)
(* unsigned.                                                               *)
EndNotBeforeStart ==
  \A p \in Players :
    LET src == mSourceData[p].mySourceData IN
      GetCombatTime(src, mOptions) >= 0

=============================================================================
