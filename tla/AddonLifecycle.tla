--------------------------- MODULE AddonLifecycle ---------------------------
(***************************************************************************)
(* The addon as arcdps sees it (src/dllmain.cpp), with the thread that     *)
(* computes the statistics off the render thread                           *)
(* (src/OffloadedStatsAggregation.cpp), the windows that show them         *)
(* (src/GUI.cpp) and the settings (src/Options.cpp).                       *)
(*                                                                         *)
(*   loader       arcdps calling mod_init and mod_release                  *)
(*   combat       arcdps calling mod_combat and mod_combat_local           *)
(*   ui           arcdps calling mod_imgui, mod_options_end and mod_wnd    *)
(*   client       the thread of the client: delivers the peers' events and *)
(*                asks for the endpoint when it connects                   *)
(*   aggregation  the thread of OffloadedStatsAggregation                  *)
(*   update       the task of the update check that is under way           *)
(*                                                                         *)
(* What is modelled of the objects is whether they exist; what they do is  *)
(* in EventSequencer, EventProcessor, RpcClient and AggregatedStats. The   *)
(* collections of statistics are addresses that somebody must own.         *)
(***************************************************************************)
EXTENDS Options, FiniteSets, Naturals

CONSTANTS
  None,         (* a null pointer                                           *)
  Starts        (* the json file and the ini file there may be when the     *)
                (* addon is first loaded, and how often it will be loaded   *)

ASSUME ConstantsAssumption ==
  /\ IsFiniteSet(Windows)
  /\ None \notin Nat /\ None \notin Windows \X (Nat \cup {None})
  /\ Starts \subseteq ({NoFile, Truncated} \cup Contents)
                      \X ({NoFile, OldVersion} \cup Contents) \X Nat

VARIABLES
  pc,           (* where each thread is                                     *)
  IS_SHUTDOWN,  (* the flag of that name                                    *)
  writer,       (* SHUTDOWN_LOCK is held exclusively,                       *)
  readers,      (* or shared, by these                                      *)
  optionsMutex, (* who holds HEAL_TABLE_OPTIONS_MUTEX                       *)
  exported,     (* arcdps has the addresses of the callbacks                *)
  alive,        (* the global objects that exist                            *)
  clientShutdown, (* the client has been told to shut down                  *)
  mIsShutdown,  (* the aggregation has been told to shut down               *)
  timer,        (* mTimer, set or not: that it goes off later makes no      *)
                (* difference to the thread that waits for it               *)
  heap,         (* the collections that are allocated                       *)
  mAggregatedWindows,     (* the collection that waits for each window      *)
  CurrentAggregatedStats, (* the collection each window shows               *)
  drawn,        (* ui: the window it draws                                  *)
  sources,      (* aggregation: the windows shown when the pass began       *)
  todo,         (* aggregation: the windows the pass has still to visit     *)
  collection,   (* aggregation: the window and collection it is about to    *)
                (* hand over                                                *)
  unread,       (* this process goes on with other settings than those of   *)
                (* the files, because it could not read them (history)      *)
  saved,        (* the settings the user should find again (history)        *)
  overwritten,  (* the last save was one of an unread process (history)     *)
  loads         (* calls of mod_init that are left (for the bound)          *)

lockVars == <<IS_SHUTDOWN, writer, readers, exported>>
objectVars == <<alive, clientShutdown, mIsShutdown>>
statsVars == <<heap, mAggregatedWindows, CurrentAggregatedStats>>
passVars == <<drawn, sources, todo, collection>>
savedVars == <<saved, overwritten>>
historyVars == <<unread, savedVars, loads>>
vars == <<pc, lockVars, optionsMutex, objectVars, timer, statsVars, passVars,
          options, filesVars, historyVars>>

Threads == {"loader", "combat", "ui", "client", "aggregation", "update"}
Objects == {"sequencer", "processor", "offloaded", "client",
            "update_checker", "update_state"}

-----------------------------------------------------------------------------
(* Where the threads of a process are that has just been started. *)
Idle == [t \in Threads |-> CASE t = "loader" -> "unloaded"
                             [] t \in {"combat", "ui"} -> "out"
                             [] OTHER -> "ended"]
NoStats == [w \in Windows |-> None]

Init ==
  /\ pc = Idle
  /\ IS_SHUTDOWN = TRUE /\ writer = FALSE /\ readers = {} /\ exported = FALSE
  /\ optionsMutex = None
  /\ alive = {} /\ clientShutdown = FALSE /\ mIsShutdown = FALSE
  /\ timer = "off"
  /\ heap = {}
  /\ mAggregatedWindows = NoStats /\ CurrentAggregatedStats = NoStats
  /\ drawn = None /\ sources = {} /\ todo = {} /\ collection = None
  /\ options = defaults
  /\ \E s \in Starts : json = s[1] /\ ini = s[2] /\ loads = s[3]
  /\ unread = FALSE /\ saved = Loaded(defaults) /\ overwritten = FALSE

Goto(t, next) == pc' = [pc EXCEPT ![t] = next]
At(t, here) == pc[t] = here

(* A free address. *)
New == CHOOSE a \in 1..(2 * Cardinality(Windows) + 1) : a \notin heap

-----------------------------------------------------------------------------
(* mod_init: holds the shutdown lock exclusively until it returns.         *)

InitBegins ==
  /\ At("loader", "unloaded") /\ loads > 0
  /\ readers = {}
  /\ writer' = TRUE /\ IS_SHUTDOWN' = FALSE
  /\ alive' = {"update_checker"}
  /\ loads' = loads - 1
  /\ Goto("loader", "init_checks")
  /\ UNCHANGED <<readers, exported, optionsMutex, clientShutdown,
                 mIsShutdown, timer, statsVars, passVars, options, filesVars,
                 unread, savedVars>>

(* The version or the certificates cannot be read: arcdps gets a table     *)
(* without a signature and leaves the addon alone.                         *)
InitFails ==
  /\ At("loader", "init_checks")
  /\ writer' = FALSE /\ exported' = FALSE
  /\ Goto("loader", "failed")
  /\ UNCHANGED <<IS_SHUTDOWN, readers, optionsMutex, objectVars, timer,
                 statsVars, passVars, options, filesVars, historyVars>>

InitLoads ==
  /\ At("loader", "init_checks") /\ optionsMutex = None
  /\ optionsMutex' = "loader"
  /\ \/ (LoadsJson \/ LoadsNothing) /\ Goto("loader", "init_create")
     \/ LoadsIni /\ Goto("loader", "init_save")
  /\ unread' = (options' # Loaded(options))
  /\ UNCHANGED <<lockVars, objectVars, timer, statsVars, passVars,
                 filesVars, savedVars, loads>>

(* Save, on behalf of mod_init or of mod_release: after is where that goes *)
(* on when the settings are saved, and failed where when they are not.     *)
SaveStep(here, writing, after, failed) ==
  /\ \/ /\ At("loader", here)
        /\ SaveOpens /\ Goto("loader", writing)
        /\ UNCHANGED savedVars
     \/ /\ At("loader", here)
        /\ UNCHANGED <<filesVars, savedVars>> /\ Goto("loader", failed)
     \/ /\ At("loader", writing)
        /\ SaveCloses /\ Goto("loader", after)
        /\ saved' = IF unread THEN saved ELSE options
        /\ overwritten' = unread
     \/ /\ At("loader", writing)
        /\ UNCHANGED <<filesVars, savedVars>> /\ Goto("loader", failed)
  /\ UNCHANGED <<lockVars, objectVars, timer, statsVars, passVars, options,
                 unread, loads>>

(* Variant for the mutation checks: the ini file is removed whether or not *)
(* its settings have been saved.                                           *)
InitSaves_Regardless ==
  /\ SaveStep("init_save", "init_write", "init_remove", "init_remove")
  /\ UNCHANGED optionsMutex

InitSaves ==
  /\ SaveStep("init_save", "init_write", "init_remove", "init_create")
  /\ UNCHANGED optionsMutex

InitRemovesIni ==
  /\ At("loader", "init_remove")
  /\ RemoveIni \/ UNCHANGED filesVars
  /\ Goto("loader", "init_create")
  /\ UNCHANGED <<lockVars, optionsMutex, objectVars, timer, statsVars,
                 passVars, options, historyVars>>

(* With AutoUpdateSetting the update check begins, in a task of its own.   *)
InitCreates ==
  /\ At("loader", "init_create")
  /\ \/ /\ alive' = Objects \ {"update_state"}
        /\ Goto("loader", "init_start")
     \/ /\ alive' = Objects
        /\ pc' = [pc EXCEPT !["loader"] = "init_start", !["update"] = "task"]
  /\ clientShutdown' = FALSE /\ mIsShutdown' = FALSE /\ timer' = "off"
  /\ optionsMutex' = None
  /\ UNCHANGED <<lockVars, statsVars, passVars, options, filesVars,
                 historyVars>>

InitStarts ==
  /\ At("loader", "init_start")
  /\ pc' = [pc EXCEPT !["client"] = "serve", !["aggregation"] = "top",
                      !["loader"] = "loaded"]
  /\ writer' = FALSE /\ exported' = TRUE
  /\ UNCHANGED <<IS_SHUTDOWN, readers, optionsMutex, objectVars, timer,
                 statsVars, passVars, options, filesVars, historyVars>>

-----------------------------------------------------------------------------
(* mod_release: takes the shutdown lock only to set the flag.              *)

(* Variant for the mutation checks: the flag is set without the lock.      *)
ReleaseBegins_NoLock ==
  /\ At("loader", "loaded")
  /\ IS_SHUTDOWN' = TRUE
  /\ Goto("loader", "shut_client")
  /\ UNCHANGED <<writer, readers, exported, optionsMutex, objectVars, timer,
                 statsVars, passVars, options, filesVars, historyVars>>

ReleaseBegins ==
  /\ At("loader", "loaded")
  /\ readers = {}
  /\ IS_SHUTDOWN' = TRUE
  /\ Goto("loader", "shut_client")
  /\ UNCHANGED <<writer, readers, exported, optionsMutex, objectVars, timer,
                 statsVars, passVars, options, filesVars, historyVars>>

ReleaseShutsClient ==
  /\ At("loader", "shut_client")
  /\ clientShutdown' = TRUE
  /\ Goto("loader", "shut_offloaded")
  /\ UNCHANGED <<lockVars, optionsMutex, alive, mIsShutdown, timer,
                 statsVars, passVars, options, filesVars, historyVars>>

ReleaseShutsOffloaded ==
  /\ At("loader", "shut_offloaded")
  /\ mIsShutdown' = TRUE
  /\ Goto("loader", "wake_offloaded")
  /\ UNCHANGED <<lockVars, optionsMutex, alive, clientShutdown, timer,
                 statsVars, passVars, options, filesVars, historyVars>>

ReleaseWakesOffloaded ==
  /\ At("loader", "wake_offloaded")
  /\ timer' = "set"
  /\ Goto("loader", "release_lock")
  /\ UNCHANGED <<lockVars, optionsMutex, objectVars, statsVars, passVars,
                 options, filesVars, historyVars>>

ReleaseLocksOptions ==
  /\ At("loader", "release_lock") /\ optionsMutex = None
  /\ optionsMutex' = "loader"
  /\ Goto("loader", "release_save")
  /\ UNCHANGED <<lockVars, objectVars, timer, statsVars, passVars, options,
                 filesVars, historyVars>>

(* Variant for the mutation checks: the mutex is kept during the joins.    *)
ReleaseSaves_KeepsMutex ==
  /\ SaveStep("release_save", "release_write", "finish_tasks", "finish_tasks")
  /\ UNCHANGED optionsMutex

ReleaseSaves ==
  /\ SaveStep("release_save", "release_write", "finish_tasks", "finish_tasks")
  /\ optionsMutex' = IF pc'["loader"] = "finish_tasks" THEN None
                                                       ELSE optionsMutex

(* FinishPendingTasks waits for the update check's task, whatever that     *)
(* waits for.                                                              *)
ReleaseFinishesTasks ==
  /\ At("loader", "finish_tasks") /\ At("update", "ended")
  /\ alive' = alive \ {"update_state", "update_checker"}
  /\ Goto("loader", "join_client")
  /\ UNCHANGED <<lockVars, optionsMutex, clientShutdown, mIsShutdown, timer,
                 statsVars, passVars, options, filesVars, historyVars>>

(* The thread is joined, then the object it ran on is destroyed.           *)
ReleaseDestroysClient ==
  /\ At("loader", "join_client") /\ At("client", "ended")
  /\ alive' = alive \ {"client"}
  /\ Goto("loader", "join_offloaded")
  /\ UNCHANGED <<lockVars, optionsMutex, clientShutdown, mIsShutdown, timer,
                 statsVars, passVars, options, filesVars, historyVars>>

(* The destructor deletes the collections that nobody fetched.             *)
ReleaseDestroysOffloaded ==
  /\ At("loader", "join_offloaded") /\ At("aggregation", "ended")
  /\ alive' = alive \ {"offloaded"} /\ timer' = "off"
  /\ heap' = heap \ {mAggregatedWindows[w] : w \in Windows}
  /\ mAggregatedWindows' = [w \in Windows |-> None]
  /\ Goto("loader", "destroy")
  /\ UNCHANGED <<lockVars, optionsMutex, clientShutdown, mIsShutdown,
                 CurrentAggregatedStats, passVars, options, filesVars,
                 historyVars>>

ReleaseEnds ==
  /\ At("loader", "destroy")
  /\ alive' = {}
  /\ Goto("loader", "unloaded")
  /\ UNCHANGED <<lockVars, optionsMutex, clientShutdown, mIsShutdown, timer,
                 statsVars, passVars, options, filesVars, historyVars>>

-----------------------------------------------------------------------------
(* The callbacks: each holds the shutdown lock shared from the look at the *)
(* flag to its return.                                                     *)

(* A callback that returns at once because of the flag changes nothing. *)
Enter(t, next) ==
  /\ exported /\ At(t, "out")
  /\ ~ writer /\ ~ IS_SHUTDOWN
  /\ readers' = readers \cup {t}
  /\ Goto(t, next)
  /\ UNCHANGED <<IS_SHUTDOWN, writer, exported, optionsMutex, objectVars,
                 timer, statsVars, passVars, options, filesVars, historyVars>>

Leave(t) == readers' = readers \ {t} /\ Goto(t, "out")

(* mod_combat_local hands its event to the sequencer, which calls          *)
(* ProcessLocalEvent for it: that and mod_combat call the processor and    *)
(* the client.                                                             *)
CombatEnters == Enter("combat", "in")

CombatReturns ==
  /\ At("combat", "in") /\ Leave("combat")
  /\ UNCHANGED <<IS_SHUTDOWN, writer, exported, optionsMutex, objectVars,
                 timer, statsVars, passVars, options, filesVars, historyVars>>

(* mod_imgui draws; mod_options_end and mod_wnd change settings. *)
UiEnters == Enter("ui", "in")

(* The settings change under the mutex, and the callback returns.          *)
Change(w, shown) == options' = [options EXCEPT ![w] = shown]

Forget(ws) ==
  /\ heap' = heap \ {CurrentAggregatedStats[w] : w \in ws}
  /\ CurrentAggregatedStats' =
       [w \in Windows |-> IF w \in ws THEN None
                                      ELSE CurrentAggregatedStats[w]]

(* The hot key or the check box of a window. *)
ToggleWindow(w) ==
  /\ Change(w, ~ options[w])
  /\ IF options'[w] THEN timer' = "set" /\ UNCHANGED statsVars
                    ELSE Forget({w}) /\ UNCHANGED <<timer, mAggregatedWindows>>

(* The button that resets all settings. *)
ResetSettings ==
  /\ options' = defaults
  /\ Forget(Windows)
  /\ UNCHANGED <<timer, mAggregatedWindows>>

UiChangesSettings ==
  /\ At("ui", "in") /\ optionsMutex = None
  /\ (\E w \in Windows : ToggleWindow(w)) \/ ResetSettings
  /\ Leave("ui")
  /\ UNCHANGED <<IS_SHUTDOWN, writer, exported, optionsMutex, objectVars,
                 passVars, filesVars, historyVars>>

(* A frame, under the mutex: first the window of the update check, if it   *)
(* has a state, then the model draws one window of statistics.             *)
UiFrame ==
  /\ At("ui", "in") /\ optionsMutex = None
  /\ optionsMutex' = "ui"
  /\ Goto("ui", IF "update_state" \in alive THEN "update" ELSE "draw")
  /\ UNCHANGED <<lockVars, objectVars, timer, statsVars, passVars, options,
                 filesVars, historyVars>>

(* An update that is offered is installed: PerformInstallOrUpdate begins a *)
(* task. One is offered only when the check has come to its end; what the  *)
(* check has found is left open.                                           *)
Display_UpdateWindow ==
  /\ At("ui", "update")
  /\ \/ Goto("ui", "draw")
     \/ /\ At("update", "ended")
        /\ pc' = [pc EXCEPT !["ui"] = "draw", !["update"] = "task"]
  /\ UNCHANGED <<lockVars, optionsMutex, objectVars, timer, statsVars,
                 passVars, options, filesVars, historyVars>>

UiLooks ==
  /\ At("ui", "draw")
  /\ \E w \in Windows :
       /\ options[w]
       /\ drawn' = w
       /\ Goto("ui", IF mAggregatedWindows[w] = None THEN "show" ELSE "take")
  /\ UNCHANGED <<lockVars, optionsMutex, objectVars, timer, statsVars,
                 sources, todo, collection, options, filesVars, historyVars>>

(* Nothing to do: the interface is hidden or the key is no hot key, which  *)
(* is seen before the mutex is taken; or every window is hidden.           *)
UiSkips ==
  /\ \/ At("ui", "in") /\ UNCHANGED optionsMutex
     \/ /\ At("ui", "draw") /\ \A w \in Windows : ~ options[w]
        /\ optionsMutex' = None
  /\ Leave("ui")
  /\ UNCHANGED <<IS_SHUTDOWN, writer, exported, objectVars, timer, statsVars,
                 passVars, options, filesVars, historyVars>>

(* Variant for the mutation checks: the collection is read, not exchanged. *)
UiTakes_Load ==
  /\ At("ui", "take")
  /\ LET new == mAggregatedWindows[drawn] IN
     IF new = None
       THEN UNCHANGED <<heap, CurrentAggregatedStats>>
       ELSE /\ CurrentAggregatedStats' =
                 [CurrentAggregatedStats EXCEPT ![drawn] = new]
            /\ heap' = heap \ {CurrentAggregatedStats[drawn]}
  /\ Goto("ui", "show")
  /\ UNCHANGED <<lockVars, optionsMutex, objectVars, timer, passVars, options,
                 mAggregatedWindows, filesVars, historyVars>>

(* TryGetAggregatedStats has seen a collection; the one that the window    *)
(* showed goes when there is one to replace it.                            *)
UiTakes ==
  /\ At("ui", "take")
  /\ mAggregatedWindows' = [mAggregatedWindows EXCEPT ![drawn] = None]
  /\ LET new == mAggregatedWindows[drawn] IN
     IF new = None
       THEN UNCHANGED <<heap, CurrentAggregatedStats>>
       ELSE /\ CurrentAggregatedStats' =
                 [CurrentAggregatedStats EXCEPT ![drawn] = new]
            /\ heap' = heap \ {CurrentAggregatedStats[drawn]}
  /\ Goto("ui", "show")
  /\ UNCHANGED <<lockVars, optionsMutex, objectVars, timer, passVars, options,
                 filesVars, historyVars>>

(* The window is drawn, if it has something to show; its close button only *)
(* hides it.                                                               *)
UiShows ==
  /\ At("ui", "show")
  /\ \/ UNCHANGED options
     \/ CurrentAggregatedStats[drawn] # None /\ Change(drawn, FALSE)
  /\ optionsMutex' = None /\ drawn' = None
  /\ Leave("ui")
  /\ UNCHANGED <<IS_SHUTDOWN, writer, exported, objectVars, timer, statsVars,
                 sources, todo, collection, filesVars, historyVars>>

-----------------------------------------------------------------------------
(* The client's thread, as far as the addon sees it: it delivers what the  *)
(* peers send, looks at its flag at the end of a round, and after that     *)
(* drains its queue, where one Read may still complete (see RpcClient).    *)

(* A round: what has completed is dealt with, ProcessPeerEvent called for  *)
(* a message; then the flag is looked at before anything else, and a       *)
(* client that has no connection may open one.                             *)
ClientServes ==
  /\ At("client", "serve")
  /\ Goto("client", IF clientShutdown THEN "drain" ELSE "connect")
  /\ UNCHANGED <<lockVars, optionsMutex, objectVars, timer, statsVars,
                 passVars, options, filesVars, historyVars>>

(* The endpoint is asked for: getEndpoint copies it under the mutex.       *)
ClientConnects ==
  /\ At("client", "connect") /\ optionsMutex = None
  /\ Goto("client", "serve")
  /\ UNCHANGED <<lockVars, optionsMutex, objectVars, timer, statsVars,
                 passVars, options, filesVars, historyVars>>

ClientEnds ==
  /\ At("client", "drain")
  /\ Goto("client", "ended")
  /\ UNCHANGED <<lockVars, optionsMutex, objectVars, timer, statsVars,
                 passVars, options, filesVars, historyVars>>

-----------------------------------------------------------------------------
(* OffloadedStatsAggregation::Serve.                                       *)

ServeLooks ==
  /\ At("aggregation", "top")
  /\ Goto("aggregation", IF mIsShutdown THEN "ended" ELSE "options")
  /\ UNCHANGED <<lockVars, optionsMutex, objectVars, timer, statsVars,
                 passVars, options, filesVars, historyVars>>

ServeReadsOptions ==
  /\ At("aggregation", "options") /\ optionsMutex = None
  /\ sources' = {w \in Windows : options[w]} /\ todo' = Windows
  /\ Goto("aggregation", "make")
  /\ UNCHANGED <<lockVars, optionsMutex, objectVars, timer, statsVars, drawn,
                 collection, options, filesVars, historyVars>>

(* A new collection for a window that was shown when the pass began, none  *)
(* for another.                                                            *)
ServeMakes ==
  /\ At("aggregation", "make")
  /\ \E w \in todo :
       IF w \in sources
         THEN collection' = <<w, New>> /\ heap' = heap \cup {New}
         ELSE collection' = <<w, None>> /\ UNCHANGED heap
  /\ Goto("aggregation", "exchange")
  /\ UNCHANGED <<lockVars, optionsMutex, objectVars, timer,
                 mAggregatedWindows, CurrentAggregatedStats, drawn, sources,
                 todo, options, filesVars, historyVars>>

(* What was still in the slot is deleted. *)
ServeExchanges ==
  /\ At("aggregation", "exchange")
  /\ LET w == collection[1] IN
       /\ mAggregatedWindows' =
            [mAggregatedWindows EXCEPT ![w] = collection[2]]
       /\ heap' = heap \ {mAggregatedWindows[w]}
       /\ todo' = todo \ {w}
       /\ sources' = IF todo = {w} THEN {} ELSE sources
       /\ Goto("aggregation", IF todo = {w} THEN "arm" ELSE "make")
  /\ collection' = None
  /\ UNCHANGED <<lockVars, optionsMutex, objectVars, timer,
                 CurrentAggregatedStats, drawn, options, filesVars,
                 historyVars>>

(* Setting the timer takes back a wake up that nobody has waited for. *)
ServeArms ==
  /\ At("aggregation", "arm")
  /\ timer' = "set"
  /\ Goto("aggregation", "wait")
  /\ UNCHANGED <<lockVars, optionsMutex, objectVars, statsVars, passVars,
                 options, filesVars, historyVars>>

ServeWakes ==
  /\ At("aggregation", "wait") /\ timer = "set"
  /\ timer' = "off"
  /\ Goto("aggregation", "top")
  /\ UNCHANGED <<lockVars, optionsMutex, objectVars, statsVars, passVars,
                 options, filesVars, historyVars>>

-----------------------------------------------------------------------------
(* The tasks of the update check (in a library): one asks the web for the  *)
(* newest version, one downloads it. The last thing a task does with the   *)
(* state is to set its status.                                             *)
UpdateEnds ==
  /\ At("update", "task") /\ Goto("update", "ended")
  /\ UNCHANGED <<lockVars, optionsMutex, objectVars, timer, statsVars,
                 passVars, options, filesVars, historyVars>>

-----------------------------------------------------------------------------
(* The process dies, or ends when the addon is unloaded; what is left are  *)
(* the files.                                                              *)
Crash ==
  /\ pc' = Idle
  /\ IS_SHUTDOWN' = TRUE /\ writer' = FALSE /\ readers' = {}
  /\ exported' = FALSE /\ optionsMutex' = None
  /\ alive' = {} /\ clientShutdown' = FALSE /\ mIsShutdown' = FALSE
  /\ timer' = "off"
  /\ heap' = {}
  /\ mAggregatedWindows' = NoStats /\ CurrentAggregatedStats' = NoStats
  /\ drawn' = None /\ sources' = {} /\ todo' = {} /\ collection' = None
  /\ options' = defaults /\ unread' = FALSE
  /\ UNCHANGED <<filesVars, savedVars, loads>>

Loader ==
  \/ InitBegins \/ InitFails \/ InitLoads \/ InitSaves \/ InitRemovesIni
  \/ InitCreates \/ InitStarts
  \/ ReleaseBegins

Releasing ==
  \/ ReleaseShutsClient \/ ReleaseShutsOffloaded \/ ReleaseWakesOffloaded
  \/ ReleaseLocksOptions \/ ReleaseSaves \/ ReleaseFinishesTasks
  \/ ReleaseDestroysClient \/ ReleaseDestroysOffloaded \/ ReleaseEnds

Combat == CombatEnters \/ CombatReturns
UiReturns ==
  \/ UiChangesSettings \/ UiFrame \/ Display_UpdateWindow \/ UiLooks
  \/ UiSkips \/ UiTakes \/ UiShows
Ui == UiEnters \/ UiReturns
Client == ClientServes \/ ClientConnects \/ ClientEnds
Aggregation ==
  \/ ServeLooks \/ ServeReadsOptions \/ ServeMakes \/ ServeExchanges
  \/ ServeArms \/ ServeWakes

Next ==
  \/ Loader \/ Releasing \/ Combat \/ Ui \/ Client \/ Aggregation
  \/ UpdateEnds \/ Crash

Spec == Init /\ [][Next]_vars

(* The threads run, a callback that is in returns, and a timer that was    *)
(* set goes off. Nothing makes arcdps call anything, and nothing makes a   *)
(* request of the update check come back.                                  *)
FairSpec ==
  /\ Spec
  /\ WF_vars(Releasing) /\ WF_vars(Client) /\ WF_vars(Aggregation)
  /\ WF_vars(UiReturns)

-----------------------------------------------------------------------------
(* Where the loader is inside mod_init, and in mod_release as long as all  *)
(* objects exist.                                                          *)
Initializing == {"init_checks", "init_save", "init_write", "init_remove",
                 "init_create", "init_start"}
Releases == {"shut_client", "shut_offloaded", "wake_offloaded", "release_lock",
             "release_save", "release_write", "finish_tasks"}

PcValues ==
       {"unloaded", "failed", "loaded", "join_client", "join_offloaded",
        "destroy"}
  \cup Initializing \cup Releases
  \cup {"out", "in", "update", "draw", "take", "show"}
  \cup {"serve", "connect", "drain", "ended"}
  \cup {"top", "options", "make", "exchange", "arm", "wait"}
  \cup {"task"}

TypeOK ==
  /\ pc \in [Threads -> PcValues]
  /\ {IS_SHUTDOWN, writer, exported, clientShutdown, mIsShutdown,
      unread, overwritten} \subseteq BOOLEAN
  /\ readers \subseteq {"combat", "ui"}
  /\ optionsMutex \in {None, "loader", "ui"}
  /\ alive \subseteq Objects
  /\ timer \in {"off", "set"}
  /\ options \in Settings /\ saved \in Settings
  /\ sources \subseteq Windows /\ todo \subseteq Windows

(* The objects that a thread uses in its next step. *)
Uses(t) ==
  IF At(t, "out") \/ At(t, "ended") THEN {}
  ELSE CASE t = "combat" -> {"sequencer", "processor", "client"}
         [] t = "ui" ->
              CASE At(t, "in") -> {"processor", "offloaded", "client"}
                [] At(t, "update") -> {"update_state", "update_checker"}
                [] At(t, "show") -> {"client"}
                [] OTHER -> {"offloaded"}
         [] t = "client" -> {"client", "processor"}
         [] t = "aggregation" -> IF At(t, "make") THEN {"offloaded", "processor"}
                                                  ELSE {"offloaded"}
         [] t = "update" -> {"update_state", "update_checker"}
         [] t = "loader" ->
              CASE pc[t] \in {"init_checks", "init_create"} -> {"update_checker"}
                [] At(t, "init_start") -> {"client", "offloaded"}
                [] At(t, "shut_client") -> {"client"}
                [] pc[t] \in {"shut_offloaded", "wake_offloaded"} -> {"offloaded"}
                [] OTHER -> {}

(* No thread uses a global object that mod_release has destroyed, or that  *)
(* mod_init has not created yet: neither a callback, which may have been   *)
(* in when mod_release was called, nor the threads of the client and of    *)
(* the aggregation, which go on for a while after IS_SHUTDOWN is set, nor  *)
(* a task of the update check that a callback began just before.           *)
ObjectsAlive == \A t \in Threads : Uses(t) \subseteq alive

(* The holders of collections, and the collection each of them holds. *)
Holders == ({"slot", "window"} \X Windows) \cup {<<"aggregation", None>>}

Held(h) ==
  CASE h[1] = "slot" -> mAggregatedWindows[h[2]]
    [] h[1] = "window" -> CurrentAggregatedStats[h[2]]
    [] OTHER -> IF collection = None THEN None ELSE collection[2]

(* Every collection of statistics that is allocated has exactly one owner, *)
(* whatever aggregation, drawing, hiding, resetting and unloading do at    *)
(* the same time: none is used or deleted when it is gone, none leaks.     *)
OneOwner ==
  /\ \A g, h \in Holders : g # h /\ Held(g) # None => Held(g) # Held(h)
  /\ heap = {Held(h) : h \in Holders} \ {None}

(* The settings that were last saved, or were there to begin with, are     *)
(* what a new process will load if it can read the files: neither          *)
(* converting the legacy file, nor leaving out what equals the default,    *)
(* nor a crash between any two steps loses them. Two things do: a save     *)
(* that is cut short, and the save of a process that could not read what   *)
(* was in the files and puts its own settings in their place.              *)
SettingsKept == json # Truncated /\ ~ overwritten => Loaded(defaults) = saved

(* What lies behind these. Outside of "loaded" a callback does not get in: *)
(* mod_init holds the lock, mod_release has set the flag, and a mod_init   *)
(* that has failed exports nothing.                                        *)
LoaderInv ==
  /\ pc["loader"] \in {"unloaded", "failed", "loaded", "join_client",
                       "join_offloaded", "destroy"} \cup Initializing \cup Releases
  /\ At("loader", "failed") => ~ exported
  /\ pc["loader"] \in Initializing => writer
  /\ pc["loader"] \in {"unloaded", "join_client", "join_offloaded", "destroy"}
                       \cup Releases => IS_SHUTDOWN

CallbacksInv ==
  /\ pc["combat"] \in {"out", "in"}
  /\ pc["ui"] \in {"out", "in", "update", "draw", "take", "show"}
  /\ readers = {t \in {"combat", "ui"} : ~ At(t, "out")}
  /\ readers # {} => At("loader", "loaded")

(* The objects that exist follow from where the loader is, but for the     *)
(* state of the update check, which need not have been made.               *)
Existing ==
  CASE At("loader", "unloaded") -> {}
    [] pc["loader"] \in {"init_start", "loaded"} \cup Releases ->
         Objects \ {"update_state"}
    [] At("loader", "join_client") ->
         {"sequencer", "processor", "offloaded", "client"}
    [] At("loader", "join_offloaded") -> {"sequencer", "processor", "offloaded"}
    [] At("loader", "destroy") -> {"sequencer", "processor"}
    [] OTHER -> {"update_checker"}

(* The threads run until they are joined; only who found the state of the  *)
(* update check there, or was begun with it, uses it.                      *)
ThreadsInv ==
  /\ alive \ {"update_state"} = Existing
  /\ "update_state" \in alive =>
       pc["loader"] \in {"init_start", "loaded"} \cup Releases
  /\ At("ui", "update") \/ ~ At("update", "ended") => "update_state" \in alive
  /\ pc["update"] \in {"ended", "task"}
  /\ pc["client"] \in {"serve", "connect", "drain", "ended"}
  /\ ~ At("client", "ended") =>
       pc["loader"] \in {"loaded", "join_client"} \cup Releases
  /\ ~ At("aggregation", "ended") =>
       pc["loader"] \in {"loaded", "join_client", "join_offloaded"}
                          \cup Releases

(* Only the pass itself holds a collection back, between two of its steps. *)
StatsInv ==
  /\ mAggregatedWindows \in [Windows -> Nat \cup {None}]
  /\ CurrentAggregatedStats \in [Windows -> Nat \cup {None}]
  /\ IF At("aggregation", "exchange")
       THEN collection \in Windows \X (Nat \cup {None})
       ELSE collection = None
  /\ pc["ui"] \in {"take", "show"} => drawn \in Windows

FilesInv ==
  /\ json \in {NoFile, Truncated} \cup Contents
  /\ ini \in {NoFile, OldVersion} \cup Contents
  /\ At("loader", "init_remove") => json # NoFile

IInv ==
  /\ TypeOK /\ LoaderInv /\ CallbacksInv /\ ThreadsInv /\ StatsInv /\ FilesInv
  /\ ObjectsAlive /\ OneOwner /\ SettingsKept

(* mod_release, once it has set IS_SHUTDOWN, comes to its end, provided    *)
(* that requests of the update check come back (they have no timeout): no  *)
(* thread that it joins keeps waiting, for the mutex of the settings or    *)
(* for a wake up, whenever that comes.                                     *)
RequestsEnd == []<> At("update", "ended")

ReleaseCompletes ==
  RequestsEnd => (At("loader", "shut_client") ~> At("loader", "unloaded"))

=============================================================================
