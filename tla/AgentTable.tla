----------------------------- MODULE AgentTable -----------------------------
(***************************************************************************)
(* The table of the agents seen so far (src/AgentTable.h and .cpp). Agents *)
(* are known by a unique id, which arcdps gives out for the local machine, *)
(* and by an instance id, which all players on a map share and the game    *)
(* gives to somebody else when its owner leaves. Each operation holds      *)
(* mLock throughout.                                                       *)
(*                                                                         *)
(* Of an agent only what the event processor asks for is kept: whether it  *)
(* is a player. Nothing is ever removed from either map.                   *)
(***************************************************************************)
CONSTANTS
  Ids,          (* unique ids                                               *)
  InstIds,      (* instance ids                                             *)
  NoId          (* not an id                                                *)

VARIABLES
  mAgents,      (* what is known of each unique id                          *)
  mInstanceIds  (* the agent each instance id leads to                      *)

tableVars == <<mAgents, mInstanceIds>>

Kinds == {"player", "other"}

(* The std::optional<bool> pIsPlayer: said, or left as it is. *)
Said == Kinds \cup {"unsaid"}

TableTypeOK ==
  /\ mAgents \in [Ids -> Kinds \cup {"unknown"}]
  /\ mInstanceIds \in [InstIds -> Ids \cup {NoId}]

TableInit ==
  /\ mAgents = [u \in Ids |-> "unknown"]
  /\ mInstanceIds = [i \in InstIds |-> NoId]

Known == {u \in Ids : mAgents[u] # "unknown"}

(* What is known of an agent after kind was said of it. *)
Updated(old, kind) ==
  IF kind # "unsaid" THEN kind ELSE IF old = "unknown" THEN "other" ELSE old

(* The instance id leads to its latest owner; an instance id that the      *)
(* agent had before goes on leading to it.                                 *)
AddAgent(u, i, kind) ==
  /\ mAgents' = [mAgents EXCEPT ![u] = Updated(@, kind)]
  /\ mInstanceIds' = [mInstanceIds EXCEPT ![i] = u]

GetUniqueId(i, allowNonPlayer) ==
  LET u == mInstanceIds[i] IN
  IF u = NoId \/ (~ allowNonPlayer /\ mAgents[u] # "player") THEN NoId ELSE u

=============================================================================
