------------------------ MODULE AddonLifecycleProofs ------------------------
(* Theorems about AddonLifecycle, for any number of windows and of loads   *)
(* and crashes, and for any files there may be to begin with.              *)
EXTENDS AddonLifecycle, FiniteSetTheorems, TLAPS

USE DEF lockVars, objectVars, statsVars, passVars, savedVars, historyVars,
        filesVars, Goto, At

-----------------------------------------------------------------------------
(* What a file gives are settings. *)
LEMMA ContentsType ==
  ASSUME NEW j \in Contents, NEW o \in Settings
  PROVE  FromJson(o, j) \in Settings
<1>1. PICK W \in SUBSET Windows : j \in [W -> BOOLEAN \cup {WrongType}]
  BY DEF Contents
<1>2. ASSUME NEW k \in Windows
      PROVE  (IF k \in DOMAIN j /\ j[k] # WrongType THEN j[k] ELSE o[k])
               \in BOOLEAN
  BY <1>1 DEF Settings
<1> QED
  BY <1>2 DEF FromJson, Settings

LEMMA LoadedType ==
  ASSUME FilesInv, NEW o \in Settings
  PROVE  Loaded(o) \in Settings
BY ContentsType DEF FilesInv, Loaded, ReadIni, ReadJson

LEMMA LoadsType ==
  ASSUME FilesInv, options \in Settings, LoadsJson \/ LoadsIni \/ LoadsNothing
  PROVE  options' \in Settings
BY ContentsType
DEF FilesInv, LoadsJson, LoadsIni, LoadsNothing, ReadIni, ReadJson

LEMMA DefaultsType == defaults \in Settings
BY DEF defaults, Settings

(* What Save writes is a file that Load reads. *)
LEMMA ToJsonContents ==
  ASSUME NEW o \in Settings
  PROVE  ToJson(o) \in Contents
<1> DEFINE W == {x \in Windows : o[x] # defaults[x]}
<1>1. W \in SUBSET Windows
  OBVIOUS
<1>2. ToJson(o) \in [W -> BOOLEAN \cup {WrongType}]
  BY DEF ToJson, Settings
<1> HIDE DEF W
<1> QED
  BY <1>1, <1>2 DEF Contents

(* Nothing is lost by leaving out what equals the default.                 *)
LEMMA RoundTrip ==
  ASSUME NEW o \in Settings
  PROVE  FromJson(defaults, ToJson(o)) = o
<1> DEFINE j == ToJson(o)
<1>1. ASSUME NEW k \in Windows
      PROVE  (IF k \in DOMAIN j /\ j[k] # WrongType THEN j[k] ELSE defaults[k])
               = o[k]
  <2>1. o[k] \in BOOLEAN /\ defaults[k] = FALSE
    BY DEF Settings, defaults
  <2>2. k \in DOMAIN j <=> o[k] # FALSE
    BY <2>1 DEF ToJson
  <2>3. k \in DOMAIN j => j[k] = o[k] /\ j[k] # WrongType
    BY <2>1, FilesAssumption DEF ToJson
  <2> QED
    BY <2>1, <2>2, <2>3
<1> QED
  BY <1>1 DEF FromJson, Settings

-----------------------------------------------------------------------------
(* Every step keeps the types and the kinds of the files. *)
LEMMA TypeNext ==
  ASSUME TypeOK, FilesInv, [Next]_vars
  PROVE  TypeOK' /\ FilesInv'
<1> USE DEF TypeOK, FilesInv, PcValues, Initializing, Releases, Threads,
            Objects
<1>1. CASE Loader
  <2>1. CASE InitBegins
    BY <2>1 DEF InitBegins
  <2>2. CASE InitFails
    BY <2>2 DEF InitFails
  <2>3. CASE InitLoads
    BY <2>3, LoadsType DEF InitLoads
  <2>4. CASE InitSaves
    BY <2>4, ToJsonContents, FilesAssumption
    DEF InitSaves, SaveStep, SaveOpens, SaveCloses
  <2>5. CASE InitRemovesIni
    BY <2>5 DEF InitRemovesIni, RemoveIni
  <2>6. CASE InitCreates
    <3>1. pc' \in [Threads -> PcValues]
      <4>1. \/ pc' = [pc EXCEPT !["loader"] = "init_start"]
            \/ pc' = [pc EXCEPT !["loader"] = "init_start", !["update"] = "task"]
        BY <2>6 DEF InitCreates
      <4> QED
        BY <4>1
    <3>2. alive' \subseteq Objects
      BY <2>6 DEF InitCreates
    <3>3. {clientShutdown', mIsShutdown'} \subseteq BOOLEAN
      BY <2>6 DEF InitCreates
    <3> QED
      BY <2>6, <3>1, <3>2, <3>3 DEF InitCreates
  <2>7. CASE InitStarts
    BY <2>7 DEF InitStarts
  <2>8. CASE ReleaseBegins
    BY <2>8 DEF ReleaseBegins
  <2> QED
    BY <1>1, <2>1, <2>2, <2>3, <2>4, <2>5, <2>6, <2>7, <2>8 DEF Loader
<1>2. CASE Releasing
  <2>1. CASE ReleaseShutsClient
    BY <2>1 DEF ReleaseShutsClient
  <2>2. CASE ReleaseShutsOffloaded
    BY <2>2 DEF ReleaseShutsOffloaded
  <2>3. CASE ReleaseWakesOffloaded
    BY <2>3 DEF ReleaseWakesOffloaded
  <2>4. CASE ReleaseLocksOptions
    BY <2>4 DEF ReleaseLocksOptions
  <2>5. CASE ReleaseSaves
    BY <2>5, ToJsonContents, FilesAssumption
    DEF ReleaseSaves, SaveStep, SaveOpens, SaveCloses
  <2>9. CASE ReleaseFinishesTasks
    BY <2>9 DEF ReleaseFinishesTasks
  <2>6. CASE ReleaseDestroysClient
    BY <2>6 DEF ReleaseDestroysClient
  <2>7. CASE ReleaseDestroysOffloaded
    BY <2>7 DEF ReleaseDestroysOffloaded
  <2>8. CASE ReleaseEnds
    BY <2>8 DEF ReleaseEnds
  <2> QED
    BY <1>2, <2>1, <2>2, <2>3, <2>4, <2>5, <2>6, <2>7, <2>8, <2>9
    DEF Releasing
<1>3. CASE Combat
  <2>1. CASE CombatEnters
    BY <2>1 DEF CombatEnters, Enter
  <2>2. CASE CombatReturns
    BY <2>2 DEF CombatReturns, Leave
  <2> QED
    BY <1>3, <2>1, <2>2 DEF Combat
<1>4. CASE Ui
  <2>1. CASE UiEnters
    BY <2>1 DEF UiEnters, Enter
  <2>2. CASE UiChangesSettings
    <3>1. options' \in Settings
      BY <2>2, DefaultsType
      DEF UiChangesSettings, ToggleWindow, ResetSettings, Change, Settings
    <3>2. timer' \in {"off", "set"}
      BY <2>2 DEF UiChangesSettings, ToggleWindow, ResetSettings
    <3> QED
      BY <2>2, <3>1, <3>2 DEF UiChangesSettings, Leave
  <2>7. CASE UiFrame
    BY <2>7 DEF UiFrame
  <2>8. CASE Display_UpdateWindow
    BY <2>8 DEF Display_UpdateWindow
  <2>3. CASE UiLooks
    BY <2>3 DEF UiLooks
  <2>4. CASE UiSkips
    BY <2>4 DEF UiSkips, Leave
  <2>5. CASE UiTakes
    BY <2>5 DEF UiTakes
  <2>6. CASE UiShows
    <3>1. options' \in Settings
      BY <2>6 DEF UiShows, Change, Settings
    <3> QED
      BY <2>6, <3>1 DEF UiShows, Leave
  <2> QED
    BY <1>4, <2>1, <2>2, <2>3, <2>4, <2>5, <2>6, <2>7, <2>8
    DEF Ui, UiReturns
<1>5. CASE Client
  <2>1. CASE ClientServes
    BY <2>1 DEF ClientServes
  <2>2. CASE ClientConnects
    BY <2>2 DEF ClientConnects
  <2>3. CASE ClientEnds
    BY <2>3 DEF ClientEnds
  <2> QED
    BY <1>5, <2>1, <2>2, <2>3 DEF Client
<1>6. CASE Aggregation
  <2>1. CASE ServeLooks
    BY <2>1 DEF ServeLooks
  <2>2. CASE ServeReadsOptions
    BY <2>2 DEF ServeReadsOptions
  <2>3. CASE ServeMakes
    BY <2>3 DEF ServeMakes
  <2>4. CASE ServeExchanges
    BY <2>4 DEF ServeExchanges
  <2>5. CASE ServeArms
    BY <2>5 DEF ServeArms
  <2>6. CASE ServeWakes
    BY <2>6 DEF ServeWakes
  <2> QED
    BY <1>6, <2>1, <2>2, <2>3, <2>4, <2>5, <2>6 DEF Aggregation
<1>7. CASE UpdateEnds
  BY <1>7 DEF UpdateEnds
<1>8. CASE Crash
  BY <1>8, DefaultsType DEF Crash, Idle
<1>9. CASE UNCHANGED vars
  BY <1>9 DEF vars
<1> QED
  BY <1>1, <1>2, <1>3, <1>4, <1>5, <1>6, <1>7, <1>8, <1>9 DEF Next

-----------------------------------------------------------------------------
(* Every step keeps the loader, the callbacks and the threads in line.     *)
Control == LoaderInv /\ CallbacksInv /\ ThreadsInv

LEMMA ControlNext ==
  ASSUME TypeOK, Control, [Next]_vars
  PROVE  Control'
<1> USE DEF TypeOK, PcValues, Initializing, Releases, Threads, Control,
            LoaderInv, CallbacksInv, ThreadsInv, Existing, Objects
<1>1. CASE Loader
  <2>1. CASE InitBegins
    BY <2>1 DEF InitBegins
  <2>2. CASE InitFails
    BY <2>2 DEF InitFails
  <2>3. CASE InitLoads
    BY <2>3 DEF InitLoads
  <2>4. CASE InitSaves
    BY <2>4 DEF InitSaves, SaveStep, SaveOpens, SaveCloses
  <2>5. CASE InitRemovesIni
    BY <2>5 DEF InitRemovesIni, RemoveIni
  <2>6. CASE InitCreates
    BY <2>6 DEF InitCreates
  <2>7. CASE InitStarts
    BY <2>7 DEF InitStarts
  <2>8. CASE ReleaseBegins
    BY <2>8 DEF ReleaseBegins
  <2> QED
    BY <1>1, <2>1, <2>2, <2>3, <2>4, <2>5, <2>6, <2>7, <2>8 DEF Loader
<1>2. CASE Releasing
  <2>1. CASE ReleaseShutsClient
    BY <2>1 DEF ReleaseShutsClient
  <2>2. CASE ReleaseShutsOffloaded
    BY <2>2 DEF ReleaseShutsOffloaded
  <2>3. CASE ReleaseWakesOffloaded
    BY <2>3 DEF ReleaseWakesOffloaded
  <2>4. CASE ReleaseLocksOptions
    BY <2>4 DEF ReleaseLocksOptions
  <2>5. CASE ReleaseSaves
    BY <2>5 DEF ReleaseSaves, SaveStep, SaveOpens, SaveCloses
  <2>9. CASE ReleaseFinishesTasks
    BY <2>9 DEF ReleaseFinishesTasks
  <2>6. CASE ReleaseDestroysClient
    BY <2>6 DEF ReleaseDestroysClient
  <2>7. CASE ReleaseDestroysOffloaded
    BY <2>7 DEF ReleaseDestroysOffloaded
  <2>8. CASE ReleaseEnds
    BY <2>8 DEF ReleaseEnds
  <2> QED
    BY <1>2, <2>1, <2>2, <2>3, <2>4, <2>5, <2>6, <2>7, <2>8, <2>9
    DEF Releasing
<1>3. CASE Combat
  <2>1. CASE CombatEnters
    BY <2>1 DEF CombatEnters, Enter
  <2>2. CASE CombatReturns
    BY <2>2 DEF CombatReturns, Leave
  <2> QED
    BY <1>3, <2>1, <2>2 DEF Combat
<1>4. CASE Ui
  <2>1. CASE UiEnters
    BY <2>1 DEF UiEnters, Enter
  <2>2. CASE UiChangesSettings
    BY <2>2 DEF UiChangesSettings, Leave
  <2>7. CASE UiFrame
    BY <2>7 DEF UiFrame
  <2>8. CASE Display_UpdateWindow
    BY <2>8 DEF Display_UpdateWindow
  <2>3. CASE UiLooks
    BY <2>3 DEF UiLooks
  <2>4. CASE UiSkips
    BY <2>4 DEF UiSkips, Leave
  <2>5. CASE UiTakes
    BY <2>5 DEF UiTakes
  <2>6. CASE UiShows
    BY <2>6 DEF UiShows, Leave
  <2> QED
    BY <1>4, <2>1, <2>2, <2>3, <2>4, <2>5, <2>6, <2>7, <2>8
    DEF Ui, UiReturns
<1>5. CASE Client
  <2>1. CASE ClientServes
    BY <2>1 DEF ClientServes
  <2>2. CASE ClientConnects
    BY <2>2 DEF ClientConnects
  <2>3. CASE ClientEnds
    BY <2>3 DEF ClientEnds
  <2> QED
    BY <1>5, <2>1, <2>2, <2>3 DEF Client
<1>6. CASE Aggregation
  <2>1. CASE ServeLooks
    BY <2>1 DEF ServeLooks
  <2>2. CASE ServeReadsOptions
    BY <2>2 DEF ServeReadsOptions
  <2>3. CASE ServeMakes
    BY <2>3 DEF ServeMakes
  <2>4. CASE ServeExchanges
    BY <2>4 DEF ServeExchanges
  <2>5. CASE ServeArms
    BY <2>5 DEF ServeArms
  <2>6. CASE ServeWakes
    BY <2>6 DEF ServeWakes
  <2> QED
    BY <1>6, <2>1, <2>2, <2>3, <2>4, <2>5, <2>6 DEF Aggregation
<1>7. CASE UpdateEnds
  BY <1>7 DEF UpdateEnds
<1>8. CASE Crash
  BY <1>8 DEF Crash, Idle
<1>9. CASE UNCHANGED vars
  BY <1>9 DEF vars
<1> QED
  BY <1>1, <1>2, <1>3, <1>4, <1>5, <1>6, <1>7, <1>8, <1>9 DEF Next

(* Who may run tells which objects there are. *)
LEMMA ControlAlive ==
  ASSUME TypeOK, Control
  PROVE  ObjectsAlive
<1> DEFINE L == pc["loader"]
<1>0. Existing \subseteq alive
  BY DEF Control, ThreadsInv
<1>1. /\ L \in {"loaded"} \cup Releases =>
           {"sequencer", "processor", "offloaded", "client", "update_checker"}
             \subseteq alive
      /\ L = "join_client" =>
           {"sequencer", "processor", "offloaded", "client"} \subseteq alive
      /\ L = "join_offloaded" =>
           {"sequencer", "processor", "offloaded"} \subseteq alive
  BY <1>0 DEF Existing, Objects, Releases
<1>2. /\ L \in {"init_checks", "init_create"} => "update_checker" \in alive
      /\ L = "init_start" => {"client", "offloaded"} \subseteq alive
  BY <1>0 DEF Existing, Objects, Releases
<1>3. At("ui", "update") \/ ~ At("update", "ended") =>
        {"update_state", "update_checker"} \subseteq alive
  <2>1. "update_state" \in alive => "update_checker" \in alive
    BY <1>0 DEF Existing, Objects, Releases, Control, ThreadsInv
  <2> QED
    BY <2>1 DEF Control, ThreadsInv
<1> SUFFICES ASSUME NEW t \in Threads
             PROVE  Uses(t) \subseteq alive
  BY DEF ObjectsAlive
<1> HIDE DEF L
<1>4. CASE t \in {"combat", "ui"}
  <2>1. ~ At(t, "out") => L = "loaded"
    BY <1>4 DEF L, Control, CallbacksInv
  <2>2. CASE At(t, "out") \/ At(t, "ended")
    BY <2>2 DEF Uses
  <2>3. CASE t = "combat" /\ ~ (At(t, "out") \/ At(t, "ended"))
    <3>1. Uses(t) = {"sequencer", "processor", "client"}
      BY <2>3 DEF Uses
    <3> QED
      BY <1>1, <2>1, <2>3, <3>1
  <2>4. CASE t = "ui" /\ At(t, "update")
    <3>1. Uses(t) = {"update_state", "update_checker"}
      BY <2>4 DEF Uses
    <3> QED
      BY <1>3, <2>4, <3>1
  <2>5. CASE t = "ui" /\ ~ (At(t, "out") \/ At(t, "ended") \/ At(t, "update"))
    <3>1. Uses(t) \subseteq {"processor", "offloaded", "client"}
      BY <2>5 DEF Uses
    <3> QED
      BY <1>1, <2>1, <2>5, <3>1
  <2> QED
    BY <1>4, <2>2, <2>3, <2>4, <2>5
<1>5. CASE t = "client"
  <2>1. CASE At(t, "out") \/ At(t, "ended")
    BY <2>1 DEF Uses
  <2>2. CASE ~ (At(t, "out") \/ At(t, "ended"))
    <3>1. Uses(t) = {"client", "processor"}
      BY <1>5, <2>2 DEF Uses
    <3>2. L \in {"loaded", "join_client"} \cup Releases
      BY <1>5, <2>2 DEF L, Control, ThreadsInv
    <3> QED
      BY <1>1, <3>1, <3>2
  <2> QED
    BY <2>1, <2>2
<1>6. CASE t = "aggregation"
  <2>1. CASE At(t, "out") \/ At(t, "ended")
    BY <2>1 DEF Uses
  <2>2. CASE ~ (At(t, "out") \/ At(t, "ended"))
    <3>1. Uses(t) \subseteq {"offloaded", "processor"}
      BY <1>6, <2>2 DEF Uses
    <3>2. L \in {"loaded", "join_client", "join_offloaded"} \cup Releases
      BY <1>6, <2>2 DEF L, Control, ThreadsInv
    <3> QED
      BY <1>1, <3>1, <3>2
  <2> QED
    BY <2>1, <2>2
<1>7. CASE t = "update"
  <2>1. CASE At(t, "out") \/ At(t, "ended")
    BY <2>1 DEF Uses
  <2>2. CASE ~ (At(t, "out") \/ At(t, "ended"))
    <3>1. Uses(t) = {"update_state", "update_checker"}
      BY <1>7, <2>2 DEF Uses
    <3> QED
      BY <1>3, <1>7, <2>2, <3>1
  <2> QED
    BY <2>1, <2>2
<1>8. CASE t = "loader"
  <2>1. /\ L \in {"init_checks", "init_create"} => Uses(t) \subseteq {"update_checker"}
        /\ L = "init_start" => Uses(t) \subseteq {"client", "offloaded"}
        /\ L = "shut_client" => Uses(t) \subseteq {"client"}
        /\ L \in {"shut_offloaded", "wake_offloaded"} =>
             Uses(t) \subseteq {"offloaded"}
        /\ L \notin {"init_checks", "init_create", "init_start", "shut_client",
                     "shut_offloaded", "wake_offloaded"} => Uses(t) = {}
    BY <1>8 DEF L, Uses
  <2> QED
    BY <1>1, <1>2, <2>1 DEF Releases
<1> QED
  BY <1>4, <1>5, <1>6, <1>7, <1>8 DEF Threads

-----------------------------------------------------------------------------
(* What a new process would load changes with the files only. *)
LEMMA LoadedSame ==
  ASSUME UNCHANGED filesVars
  PROVE  Loaded(defaults)' = Loaded(defaults)
BY DEF Loaded, ReadIni, ReadJson, defaults

(* A save that is completed is what will be loaded. *)
LEMMA SaveKeeps ==
  ASSUME TypeOK, FilesInv, SettingsKept,
         NEW here, NEW writing, NEW after, NEW failed,
         SaveStep(here, writing, after, failed)
  PROVE  SettingsKept'
<1>1. CASE UNCHANGED <<filesVars, savedVars>>
  BY <1>1, LoadedSame DEF SettingsKept
<1>2. CASE SaveOpens
  BY <1>2 DEF SaveOpens, SettingsKept
<1>3. CASE SaveCloses /\ saved' = options /\ ~ overwritten'
  <2>1. json' = ToJson(options) /\ options \in Settings
    BY <1>3 DEF SaveCloses, TypeOK
  <2>2. json' # NoFile /\ json' # Truncated
    BY <2>1, ToJsonContents, FilesAssumption
  <2>3. Loaded(defaults)' = FromJson(defaults, json')
    BY <2>2 DEF Loaded, ReadJson, FromJson, defaults
  <2>4. FromJson(defaults, json') = options
    BY <2>1, RoundTrip
  <2> QED
    BY <1>3, <2>3, <2>4 DEF SettingsKept
<1>4. CASE overwritten'
  BY <1>4 DEF SettingsKept
<1> QED
  BY <1>1, <1>2, <1>3, <1>4 DEF SaveStep, TypeOK

LEMMA SettingsNext ==
  ASSUME TypeOK, FilesInv, SettingsKept, [Next]_vars
  PROVE  SettingsKept'
<1>1. CASE UNCHANGED <<filesVars, savedVars>>
  BY <1>1, LoadedSame DEF SettingsKept
<1>2. CASE InitSaves
  BY <1>2, SaveKeeps DEF InitSaves
<1>3. CASE ReleaseSaves
  BY <1>3, SaveKeeps DEF ReleaseSaves
<1>4. CASE InitRemovesIni
  <2>1. json # NoFile /\ json' = json /\ UNCHANGED savedVars
    BY <1>4 DEF InitRemovesIni, RemoveIni, FilesInv
  <2>2. Loaded(defaults)' = Loaded(defaults)
    BY <2>1 DEF Loaded, ReadJson, FromJson, defaults
  <2> QED
    BY <2>1, <2>2 DEF SettingsKept
<1>5. CASE \/ InitBegins \/ InitFails \/ InitLoads \/ InitCreates \/ InitStarts
           \/ ReleaseBegins
  BY <1>1, <1>5
  DEF InitBegins, InitFails, InitLoads, InitCreates, InitStarts, ReleaseBegins
<1>6. CASE Releasing /\ ~ ReleaseSaves
  BY <1>1, <1>6
  DEF Releasing, ReleaseShutsClient, ReleaseShutsOffloaded,
      ReleaseWakesOffloaded, ReleaseLocksOptions, ReleaseFinishesTasks,
      ReleaseDestroysClient, ReleaseDestroysOffloaded, ReleaseEnds
<1>7. CASE Combat \/ Ui \/ Client
  BY <1>1, <1>7
  DEF Combat, CombatEnters, CombatReturns, Enter, Ui, UiEnters, UiReturns,
      UiChangesSettings, UiFrame, Display_UpdateWindow, UiLooks, UiSkips,
      UiTakes, UiShows, Client, ClientServes, ClientConnects, ClientEnds
<1>8. CASE Aggregation \/ UpdateEnds \/ Crash \/ UNCHANGED vars
  BY <1>1, <1>8
  DEF Aggregation, ServeLooks, ServeReadsOptions, ServeMakes, ServeExchanges,
      ServeArms, ServeWakes, UpdateEnds, Crash, vars
<1> QED
  BY <1>2, <1>3, <1>4, <1>5, <1>6, <1>7, <1>8 DEF Next, Loader

-----------------------------------------------------------------------------
(* There is a free address while no collection is held back: at most one   *)
(* collection waits for each window, and each window shows at most one.    *)
LEMMA ImageBound ==
  ASSUME NEW S, IsFiniteSet(S), NEW T, NEW f \in [S -> T]
  PROVE  /\ IsFiniteSet({f[x] : x \in S})
         /\ Cardinality({f[x] : x \in S}) <= Cardinality(S)
<1>1. f \in Surjection(S, {f[x] : x \in S})
  BY DEF Surjection
<1> QED
  BY <1>1, FS_Surjection

LEMMA FreeAddress ==
  ASSUME StatsInv, OneOwner, collection = None
  PROVE  New \in Nat /\ New \notin heap
<1> DEFINE slots == {mAggregatedWindows[w] : w \in Windows}
           shown == {CurrentAggregatedStats[w] : w \in Windows}
           n == Cardinality(Windows)
           addresses == 1..(2 * n + 1)
<1>1. n \in Nat /\ IsFiniteSet(Windows)
  BY FS_CardinalityType, ConstantsAssumption
<1>2. /\ IsFiniteSet(slots) /\ Cardinality(slots) <= n
      /\ IsFiniteSet(shown) /\ Cardinality(shown) <= n
  BY <1>1, ImageBound, ZenonT(60) DEF StatsInv
<1>3. heap \subseteq slots \cup shown
  BY DEF OneOwner, Holders, Held
<1> HIDE DEF slots, shown
<1>4. /\ IsFiniteSet(slots \cup shown)
      /\ Cardinality(slots \cup shown) <= 2 * n
  <2>1. /\ IsFiniteSet(slots \cup shown)
        /\ Cardinality(slots \cup shown)
             = Cardinality(slots) + Cardinality(shown)
                 - Cardinality(slots \cap shown)
    BY <1>2, FS_Union
  <2>2. /\ Cardinality(slots \cap shown) \in Nat
        /\ Cardinality(slots) \in Nat /\ Cardinality(shown) \in Nat
    BY <1>2, FS_CardinalityType, FS_Intersection
  <2> QED
    BY <1>1, <1>2, <2>1, <2>2
<1>5. IsFiniteSet(addresses) /\ Cardinality(addresses) = 2 * n + 1
  BY <1>1, FS_Interval, SMTT(30)
<1> HIDE DEF n
<1>6. ~ (addresses \subseteq heap)
  <2> SUFFICES ASSUME addresses \subseteq slots \cup shown
               PROVE  FALSE
    BY <1>3
  <2> HIDE DEF addresses
  <2>1. Cardinality(addresses) <= Cardinality(slots \cup shown)
    BY <1>4, FS_Subset
  <2>2. Cardinality(slots \cup shown) \in Nat
    BY <1>4, FS_CardinalityType
  <2> QED
    BY <1>1, <1>4, <1>5, <2>1, <2>2
<1>7. New \in addresses /\ New \notin heap
  BY <1>6 DEF New, n
<1> QED
  BY <1>1, <1>7

-----------------------------------------------------------------------------
(* Every step keeps the places where collections are. *)
LEMMA StatsNext ==
  ASSUME TypeOK, Control, StatsInv, OneOwner, [Next]_vars
  PROVE  StatsInv'
<1> USE ConstantsAssumption
    DEF TypeOK, PcValues, Initializing, Releases, Threads, StatsInv
<1>1. CASE Loader
  <2>1. CASE InitBegins
    BY <2>1 DEF InitBegins
  <2>2. CASE InitFails
    BY <2>2 DEF InitFails
  <2>3. CASE InitLoads
    BY <2>3 DEF InitLoads
  <2>4. CASE InitSaves
    BY <2>4 DEF InitSaves, SaveStep, SaveOpens, SaveCloses
  <2>5. CASE InitRemovesIni
    BY <2>5 DEF InitRemovesIni, RemoveIni
  <2>6. CASE InitCreates
    BY <2>6 DEF InitCreates
  <2>7. CASE InitStarts
    <3>1. At("aggregation", "ended") /\ pc["ui"] = "out"
      BY <2>7 DEF InitStarts, Control, CallbacksInv, ThreadsInv
    <3>2. collection = None
      BY <3>1
    <3>3. pc'["aggregation"] = "top" /\ pc'["ui"] = "out"
      BY <2>7, <3>1 DEF InitStarts
    <3> QED
      BY <2>7, <3>2, <3>3 DEF InitStarts
  <2>8. CASE ReleaseBegins
    BY <2>8 DEF ReleaseBegins
  <2> QED
    BY <1>1, <2>1, <2>2, <2>3, <2>4, <2>5, <2>6, <2>7, <2>8 DEF Loader
<1>2. CASE Releasing
  <2>1. CASE ReleaseShutsClient
    BY <2>1 DEF ReleaseShutsClient
  <2>2. CASE ReleaseShutsOffloaded
    BY <2>2 DEF ReleaseShutsOffloaded
  <2>3. CASE ReleaseWakesOffloaded
    BY <2>3 DEF ReleaseWakesOffloaded
  <2>4. CASE ReleaseLocksOptions
    BY <2>4 DEF ReleaseLocksOptions
  <2>5. CASE ReleaseSaves
    BY <2>5 DEF ReleaseSaves, SaveStep, SaveOpens, SaveCloses
  <2>9. CASE ReleaseFinishesTasks
    BY <2>9 DEF ReleaseFinishesTasks
  <2>6. CASE ReleaseDestroysClient
    BY <2>6 DEF ReleaseDestroysClient
  <2>7. CASE ReleaseDestroysOffloaded
    BY <2>7 DEF ReleaseDestroysOffloaded
  <2>8. CASE ReleaseEnds
    BY <2>8 DEF ReleaseEnds
  <2> QED
    BY <1>2, <2>1, <2>2, <2>3, <2>4, <2>5, <2>6, <2>7, <2>8, <2>9
    DEF Releasing
<1>3. CASE Combat
  <2>1. CASE CombatEnters
    BY <2>1 DEF CombatEnters, Enter
  <2>2. CASE CombatReturns
    BY <2>2 DEF CombatReturns, Leave
  <2> QED
    BY <1>3, <2>1, <2>2 DEF Combat
<1>4. CASE Ui
  <2>1. CASE UiEnters
    BY <2>1 DEF UiEnters, Enter
  <2>2. CASE UiChangesSettings
    BY <2>2 DEF UiChangesSettings, Leave, ToggleWindow, ResetSettings, Forget
  <2>7. CASE UiFrame
    BY <2>7 DEF UiFrame
  <2>8. CASE Display_UpdateWindow
    BY <2>8 DEF Display_UpdateWindow
  <2>3. CASE UiLooks
    BY <2>3 DEF UiLooks
  <2>4. CASE UiSkips
    BY <2>4 DEF UiSkips, Leave
  <2>5. CASE UiTakes
    BY <2>5 DEF UiTakes
  <2>6. CASE UiShows
    BY <2>6 DEF UiShows, Leave
  <2> QED
    BY <1>4, <2>1, <2>2, <2>3, <2>4, <2>5, <2>6, <2>7, <2>8
    DEF Ui, UiReturns
<1>5. CASE Client
  <2>1. CASE ClientServes
    BY <2>1 DEF ClientServes
  <2>2. CASE ClientConnects
    BY <2>2 DEF ClientConnects
  <2>3. CASE ClientEnds
    BY <2>3 DEF ClientEnds
  <2> QED
    BY <1>5, <2>1, <2>2, <2>3 DEF Client
<1>6. CASE Aggregation
  <2>1. CASE ServeLooks
    BY <2>1 DEF ServeLooks
  <2>2. CASE ServeReadsOptions
    BY <2>2 DEF ServeReadsOptions
  <2>3. CASE ServeMakes
    <3>1. New \in Nat /\ collection = None
      BY <2>3, FreeAddress DEF ServeMakes
    <3>2. collection' \in Windows \X (Nat \cup {None})
      BY <2>3, <3>1 DEF ServeMakes
    <3> QED
      BY <2>3, <3>2 DEF ServeMakes
  <2>4. CASE ServeExchanges
    BY <2>4 DEF ServeExchanges
  <2>5. CASE ServeArms
    BY <2>5 DEF ServeArms
  <2>6. CASE ServeWakes
    BY <2>6 DEF ServeWakes
  <2> QED
    BY <1>6, <2>1, <2>2, <2>3, <2>4, <2>5, <2>6 DEF Aggregation
<1>7. CASE UpdateEnds
  BY <1>7 DEF UpdateEnds
<1>8. CASE Crash
  BY <1>8 DEF Crash, NoStats, Idle
<1>9. CASE UNCHANGED vars
  BY <1>9 DEF vars
<1> QED
  BY <1>1, <1>2, <1>3, <1>4, <1>5, <1>6, <1>7, <1>8, <1>9 DEF Next

(* OneOwner without the holders: the collections that wait, those that are *)
(* shown and the one the pass holds back are different ones, and they are  *)
(* all there are.                                                          *)
HeldBack == IF collection = None THEN None ELSE collection[2]

Placed(a) ==
  \/ \E w \in Windows : a = mAggregatedWindows[w]
  \/ \E w \in Windows : a = CurrentAggregatedStats[w]
  \/ a = HeldBack

Apart ==
  /\ \A v, w \in Windows : v # w /\ mAggregatedWindows[v] # None =>
                            mAggregatedWindows[v] # mAggregatedWindows[w]
  /\ \A v, w \in Windows :
       v # w /\ CurrentAggregatedStats[v] # None =>
         CurrentAggregatedStats[v] # CurrentAggregatedStats[w]
  /\ \A v, w \in Windows : mAggregatedWindows[v] # None =>
                            mAggregatedWindows[v] # CurrentAggregatedStats[w]
  /\ \A w \in Windows : HeldBack # None =>
                         /\ HeldBack # mAggregatedWindows[w]
                         /\ HeldBack # CurrentAggregatedStats[w]
  /\ \A a : a \in heap <=> a # None /\ Placed(a)

LEMMA HolderKinds ==
  /\ \A h \in Holders : \/ \E w \in Windows : h = <<"slot", w>>
                        \/ \E w \in Windows : h = <<"window", w>>
                        \/ h = <<"aggregation", None>>
  /\ \A w \in Windows : /\ <<"slot", w>> \in Holders
                         /\ Held(<<"slot", w>>) = mAggregatedWindows[w]
                         /\ <<"window", w>> \in Holders
                         /\ Held(<<"window", w>>) = CurrentAggregatedStats[w]
  /\ <<"aggregation", None>> \in Holders
  /\ Held(<<"aggregation", None>>) = HeldBack
BY DEF Holders, Held, HeldBack

LEMMA HeldKinds ==
  ASSUME NEW a
  PROVE  (\E h \in Holders : a = Held(h)) <=> Placed(a)
<1>1. ASSUME NEW h \in Holders, a = Held(h)
      PROVE  Placed(a)
  <2>1. CASE \E w \in Windows : h = <<"slot", w>>
    BY <1>1, <2>1, HolderKinds DEF Placed
  <2>2. CASE \E w \in Windows : h = <<"window", w>>
    BY <1>1, <2>2, HolderKinds DEF Placed
  <2>3. CASE h = <<"aggregation", None>>
    BY <1>1, <2>3, HolderKinds DEF Placed
  <2> QED
    BY <2>1, <2>2, <2>3, HolderKinds
<1>2. ASSUME NEW w \in Windows, a = mAggregatedWindows[w]
      PROVE  \E h \in Holders : a = Held(h)
  BY <1>2, HolderKinds DEF Placed
<1>3. ASSUME NEW w \in Windows, a = CurrentAggregatedStats[w]
      PROVE  \E h \in Holders : a = Held(h)
  BY <1>3, HolderKinds DEF Placed
<1>4. ASSUME a = HeldBack
      PROVE  \E h \in Holders : a = Held(h)
  BY <1>4, HolderKinds DEF Placed
<1> QED
  BY <1>1, <1>2, <1>3, <1>4 DEF Placed

LEMMA OwnersAreApart == OneOwner <=> Apart
<1>1. ASSUME OneOwner
      PROVE  Apart
  <2>1. \A g, h \in Holders : g # h /\ Held(g) # None => Held(g) # Held(h)
    BY <1>1 DEF OneOwner
  <2>2. ASSUME NEW v \in Windows, NEW w \in Windows
        PROVE  /\ v # w => <<"slot", v>> # <<"slot", w>>
               /\ v # w => <<"window", v>> # <<"window", w>>
               /\ <<"slot", v>> # <<"window", w>>
               /\ <<"aggregation", None>> # <<"slot", w>>
               /\ <<"aggregation", None>> # <<"window", w>>
    OBVIOUS
  <2>3. ASSUME NEW v \in Windows, NEW w \in Windows
        PROVE  /\ v # w /\ mAggregatedWindows[v] # None =>
                    mAggregatedWindows[v] # mAggregatedWindows[w]
               /\ v # w /\ CurrentAggregatedStats[v] # None =>
                    CurrentAggregatedStats[v] # CurrentAggregatedStats[w]
               /\ mAggregatedWindows[v] # None =>
                    mAggregatedWindows[v] # CurrentAggregatedStats[w]
               /\ HeldBack # None => /\ HeldBack # mAggregatedWindows[w]
                                     /\ HeldBack # CurrentAggregatedStats[w]
    <3>1. /\ <<"slot", v>> \in Holders /\ <<"window", v>> \in Holders
          /\ <<"slot", w>> \in Holders /\ <<"window", w>> \in Holders
          /\ <<"aggregation", None>> \in Holders
      BY HolderKinds
    <3>2. /\ Held(<<"slot", v>>) = mAggregatedWindows[v]
          /\ Held(<<"slot", w>>) = mAggregatedWindows[w]
          /\ Held(<<"window", v>>) = CurrentAggregatedStats[v]
          /\ Held(<<"window", w>>) = CurrentAggregatedStats[w]
          /\ Held(<<"aggregation", None>>) = HeldBack
      BY HolderKinds
    <3>3. v # w /\ mAggregatedWindows[v] # None =>
            mAggregatedWindows[v] # mAggregatedWindows[w]
      BY <2>1, <2>2, <3>1, <3>2
    <3>4. v # w /\ CurrentAggregatedStats[v] # None =>
            CurrentAggregatedStats[v] # CurrentAggregatedStats[w]
      BY <2>1, <2>2, <3>1, <3>2
    <3>5. mAggregatedWindows[v] # None =>
            mAggregatedWindows[v] # CurrentAggregatedStats[w]
      BY <2>1, <2>2, <3>1, <3>2
    <3>6. HeldBack # None => HeldBack # mAggregatedWindows[w]
      BY <2>1, <2>2, <3>1, <3>2
    <3>7. HeldBack # None => HeldBack # CurrentAggregatedStats[w]
      BY <2>1, <2>2, <3>1, <3>2
    <3> QED
      BY <3>3, <3>4, <3>5, <3>6, <3>7
  <2>4. \A a : a \in heap <=> a # None /\ \E h \in Holders : a = Held(h)
    BY <1>1 DEF OneOwner
  <2>5. ASSUME NEW a
        PROVE  (\E h \in Holders : a = Held(h)) <=> Placed(a)
    BY HeldKinds
  <2> QED
    BY <2>3, <2>4, <2>5 DEF Apart
<1>2. ASSUME Apart
      PROVE  OneOwner
  <2>1. ASSUME NEW g \in Holders, NEW h \in Holders, g # h, Held(g) # None
        PROVE  Held(g) # Held(h)
    <3>1. CASE \E v \in Windows : g = <<"slot", v>>
      <4>1. PICK v \in Windows : g = <<"slot", v>>
        BY <3>1
      <4>2. Held(g) = mAggregatedWindows[v]
        BY <4>1, HolderKinds
      <4>3. CASE \E w \in Windows : h = <<"slot", w>>
        <5>1. PICK w \in Windows : h = <<"slot", w>>
          BY <4>3
        <5>2. v # w /\ Held(h) = mAggregatedWindows[w]
          BY <2>1, <4>1, <5>1, HolderKinds
        <5> QED
          BY <1>2, <2>1, <4>2, <5>2 DEF Apart
      <4>4. CASE \E w \in Windows : h = <<"window", w>>
        <5>1. PICK w \in Windows : Held(h) = CurrentAggregatedStats[w]
          BY <4>4, HolderKinds
        <5> QED
          BY <1>2, <2>1, <4>2, <5>1 DEF Apart
      <4>5. CASE h = <<"aggregation", None>>
        BY <1>2, <2>1, <4>2, <4>5, HolderKinds DEF Apart
      <4> QED
        BY <4>3, <4>4, <4>5, HolderKinds
    <3>2. CASE \E v \in Windows : g = <<"window", v>>
      <4>1. PICK v \in Windows : g = <<"window", v>>
        BY <3>2
      <4>2. Held(g) = CurrentAggregatedStats[v]
        BY <4>1, HolderKinds
      <4>3. CASE \E w \in Windows : h = <<"window", w>>
        <5>1. PICK w \in Windows : h = <<"window", w>>
          BY <4>3
        <5>2. v # w /\ Held(h) = CurrentAggregatedStats[w]
          BY <2>1, <4>1, <5>1, HolderKinds
        <5> QED
          BY <1>2, <2>1, <4>2, <5>2 DEF Apart
      <4>4. CASE \E w \in Windows : h = <<"slot", w>>
        <5>1. PICK w \in Windows : Held(h) = mAggregatedWindows[w]
          BY <4>4, HolderKinds
        <5> QED
          BY <1>2, <2>1, <4>2, <5>1 DEF Apart
      <4>5. CASE h = <<"aggregation", None>>
        BY <1>2, <2>1, <4>2, <4>5, HolderKinds DEF Apart
      <4> QED
        BY <4>3, <4>4, <4>5, HolderKinds
    <3>3. CASE g = <<"aggregation", None>>
      <4>1. Held(g) = HeldBack /\ h # <<"aggregation", None>>
        BY <2>1, <3>3, HolderKinds
      <4>2. CASE \E w \in Windows : h = <<"slot", w>>
        <5>1. PICK w \in Windows : Held(h) = mAggregatedWindows[w]
          BY <4>2, HolderKinds
        <5> QED
          BY <1>2, <2>1, <4>1, <5>1 DEF Apart
      <4>3. CASE \E w \in Windows : h = <<"window", w>>
        <5>1. PICK w \in Windows : Held(h) = CurrentAggregatedStats[w]
          BY <4>3, HolderKinds
        <5> QED
          BY <1>2, <2>1, <4>1, <5>1 DEF Apart
      <4> QED
        BY <4>1, <4>2, <4>3, HolderKinds
    <3> QED
      BY <3>1, <3>2, <3>3, HolderKinds
  <2>2. heap = {Held(h) : h \in Holders} \ {None}
    <3>1. ASSUME NEW a
          PROVE  a \in heap <=> a # None /\ \E h \in Holders : a = Held(h)
      <4>1. (\E h \in Holders : a = Held(h)) <=> Placed(a)
        BY HeldKinds
      <4>2. a \in heap <=> a # None /\ Placed(a)
        BY <1>2 DEF Apart
      <4> QED
        BY <4>1, <4>2
    <3> QED
      BY <3>1
  <2> QED
    BY <2>1, <2>2 DEF OneOwner
<1> QED
  BY <1>1, <1>2

(* A step that moves no collection. *)
LEMMA ApartSame ==
  ASSUME Apart, UNCHANGED <<heap, mAggregatedWindows, CurrentAggregatedStats,
                            collection>>
  PROVE  Apart'
BY DEF Apart, Placed, HeldBack

(* The windows that forget what they show delete it. *)
LEMMA ApartForget ==
  ASSUME Apart, StatsInv, NEW W \in SUBSET Windows, Forget(W),
         UNCHANGED <<mAggregatedWindows, collection>>
  PROVE  Apart'
<1>1. /\ CurrentAggregatedStats' =
            [w \in Windows |-> IF w \in W THEN None
                               ELSE CurrentAggregatedStats[w]]
      /\ heap' = heap \ {CurrentAggregatedStats[w] : w \in W}
      /\ HeldBack' = HeldBack
  BY DEF Forget, StatsInv, HeldBack
<1>2. ASSUME NEW a
      PROVE  a \in heap' <=> a # None /\ Placed(a)'
  BY <1>1 DEF Apart, Placed
<1>3. ASSUME NEW v \in Windows, NEW w \in Windows
      PROVE  /\ v # w /\ CurrentAggregatedStats'[v] # None =>
                  CurrentAggregatedStats'[v] # CurrentAggregatedStats'[w]
             /\ mAggregatedWindows'[v] # None =>
                  mAggregatedWindows'[v] # CurrentAggregatedStats'[w]
             /\ HeldBack' # None => HeldBack' # CurrentAggregatedStats'[w]
  BY <1>1 DEF Apart, Placed
<1> QED
  BY <1>1, <1>2, <1>3 DEF Apart, Placed

(* A window takes what waits for it, and deletes what it showed. *)
LEMMA ApartTakes ==
  ASSUME Apart, StatsInv, UiTakes
  PROVE  Apart'
<1> DEFINE w0 == drawn
           new == mAggregatedWindows[w0]
<1>1. /\ w0 \in Windows /\ HeldBack' = HeldBack
      /\ mAggregatedWindows' = [mAggregatedWindows EXCEPT ![w0] = None]
      /\ IF new = None
           THEN UNCHANGED <<heap, CurrentAggregatedStats>>
           ELSE /\ CurrentAggregatedStats' =
                     [CurrentAggregatedStats EXCEPT ![w0] = new]
                /\ heap' = heap \ {CurrentAggregatedStats[w0]}
  BY DEF UiTakes, StatsInv, HeldBack
<1> USE DEF StatsInv
<1> HIDE DEF w0
<1>2. CASE new = None
  <2>1. mAggregatedWindows' = mAggregatedWindows
    BY <1>1, <1>2
  <2> QED
    BY <1>1, <1>2, <2>1 DEF Apart, Placed
<1>3. CASE new # None
  <2>1. ASSUME NEW v \in Windows
        PROVE  /\ mAggregatedWindows'[v] =
                    IF v = w0 THEN None ELSE mAggregatedWindows[v]
               /\ CurrentAggregatedStats'[v] =
                    IF v = w0 THEN new ELSE CurrentAggregatedStats[v]
    BY <1>1, <1>3
  <2>2. ASSUME NEW v \in Windows, NEW w \in Windows
        PROVE  /\ v # w /\ mAggregatedWindows'[v] # None =>
                    mAggregatedWindows'[v] # mAggregatedWindows'[w]
               /\ v # w /\ CurrentAggregatedStats'[v] # None =>
                    CurrentAggregatedStats'[v] # CurrentAggregatedStats'[w]
               /\ mAggregatedWindows'[v] # None =>
                    mAggregatedWindows'[v] # CurrentAggregatedStats'[w]
               /\ HeldBack' # None => /\ HeldBack' # mAggregatedWindows'[w]
                                      /\ HeldBack' # CurrentAggregatedStats'[w]
    BY <1>1, <1>3, <2>1 DEF Apart, Placed
  <2>3. ASSUME NEW a
        PROVE  a \in heap' <=> a # None /\ Placed(a)'
    BY <1>1, <1>3, <2>1 DEF Apart, Placed
  <2> QED
    BY <2>2, <2>3 DEF Apart, Placed
<1> QED
  BY <1>2, <1>3

(* The pass makes a collection nobody has. *)
LEMMA ApartMakes ==
  ASSUME TypeOK, Apart, StatsInv, OneOwner, ServeMakes
  PROVE  Apart'
<1>1. HeldBack = None /\ New \in Nat /\ New \notin heap
  BY FreeAddress DEF HeldBack, ServeMakes, StatsInv, At
<1>2. UNCHANGED <<mAggregatedWindows, CurrentAggregatedStats>>
  BY DEF ServeMakes
<1>3. PICK w \in todo :
        IF w \in sources
          THEN collection' = <<w, New>> /\ heap' = heap \cup {New}
          ELSE collection' = <<w, None>> /\ UNCHANGED heap
  BY DEF ServeMakes
<1>4. CASE w \in sources
  <2>0. New # None /\ <<w, New>> # None
    BY <1>1, ConstantsAssumption DEF TypeOK
  <2>1. HeldBack' = New /\ heap' = heap \cup {New}
    BY <1>3, <1>4, <2>0 DEF HeldBack
  <2>2. ASSUME NEW v \in Windows
        PROVE  New # mAggregatedWindows[v] /\ New # CurrentAggregatedStats[v]
    BY <1>1, <2>0 DEF Apart, Placed
  <2> QED
    BY <1>1, <1>2, <2>0, <2>1, <2>2 DEF Apart, Placed
<1>5. CASE w \notin sources
  <2>1. HeldBack' = None /\ heap' = heap
    BY <1>3, <1>5 DEF HeldBack
  <2> QED
    BY <1>1, <1>2, <2>1 DEF Apart, Placed
<1> QED
  BY <1>4, <1>5

(* It hands over what it has made, and deletes what still waited. *)
LEMMA ApartExchanges ==
  ASSUME Apart, StatsInv, ServeExchanges
  PROVE  Apart'
<1> DEFINE w0 == collection[1]
           old == mAggregatedWindows[w0]
<1>1. /\ w0 \in Windows /\ HeldBack = collection[2]
      /\ collection \in Windows \X (Nat \cup {None})
  BY ConstantsAssumption DEF ServeExchanges, StatsInv, HeldBack
<1>2. /\ mAggregatedWindows' = [mAggregatedWindows EXCEPT ![w0] = HeldBack]
      /\ heap' = heap \ {old} /\ HeldBack' = None
      /\ CurrentAggregatedStats' = CurrentAggregatedStats
  BY <1>1 DEF ServeExchanges, HeldBack
<1> HIDE DEF w0
<1>3. ASSUME NEW v \in Windows
      PROVE  mAggregatedWindows'[v] =
               IF v = w0 THEN HeldBack ELSE mAggregatedWindows[v]
  BY <1>1, <1>2 DEF StatsInv
<1>4. ASSUME NEW v \in Windows, NEW w \in Windows
      PROVE  /\ v # w /\ mAggregatedWindows'[v] # None =>
                  mAggregatedWindows'[v] # mAggregatedWindows'[w]
             /\ mAggregatedWindows'[v] # None =>
                  mAggregatedWindows'[v] # CurrentAggregatedStats'[w]
  BY <1>1, <1>2, <1>3 DEF Apart, Placed
<1>5. ASSUME NEW a
      PROVE  a \in heap' <=> a # None /\ Placed(a)'
  BY <1>1, <1>2, <1>3 DEF Apart, Placed
<1> QED
  BY <1>2, <1>4, <1>5 DEF Apart, Placed

(* The destructor deletes what waits. *)
LEMMA ApartDestroys ==
  ASSUME Apart, StatsInv, ReleaseDestroysOffloaded
  PROVE  Apart'
<1>1. /\ mAggregatedWindows' = [w \in Windows |-> None]
      /\ heap' = heap \ {mAggregatedWindows[w] : w \in Windows}
      /\ HeldBack' = HeldBack
      /\ CurrentAggregatedStats' = CurrentAggregatedStats
  BY DEF ReleaseDestroysOffloaded, HeldBack
<1>2. ASSUME NEW a
      PROVE  a \in heap' <=> a # None /\ Placed(a)'
  BY <1>1 DEF Apart, Placed
<1> QED
  BY <1>1, <1>2 DEF Apart, Placed

LEMMA ApartNext ==
  ASSUME TypeOK, StatsInv, OneOwner, [Next]_vars
  PROVE  OneOwner'
<1> SUFFICES Apart'
  BY OwnersAreApart, PTL
<1>0. Apart
  BY OwnersAreApart
<1>1. CASE Loader
  <2>1. CASE InitBegins
    BY <2>1, <1>0, ApartSame DEF InitBegins
  <2>2. CASE InitFails
    BY <2>2, <1>0, ApartSame DEF InitFails
  <2>3. CASE InitLoads
    BY <2>3, <1>0, ApartSame DEF InitLoads
  <2>4. CASE InitSaves
    BY <2>4, <1>0, ApartSame DEF InitSaves, SaveStep, SaveOpens, SaveCloses
  <2>5. CASE InitRemovesIni
    BY <2>5, <1>0, ApartSame DEF InitRemovesIni, RemoveIni
  <2>6. CASE InitCreates
    BY <2>6, <1>0, ApartSame DEF InitCreates
  <2>7. CASE InitStarts
    BY <2>7, <1>0, ApartSame DEF InitStarts
  <2>8. CASE ReleaseBegins
    BY <2>8, <1>0, ApartSame DEF ReleaseBegins
  <2> QED
    BY <1>1, <2>1, <2>2, <2>3, <2>4, <2>5, <2>6, <2>7, <2>8 DEF Loader
<1>2. CASE Releasing
  <2>1. CASE ReleaseShutsClient
    BY <2>1, <1>0, ApartSame DEF ReleaseShutsClient
  <2>2. CASE ReleaseShutsOffloaded
    BY <2>2, <1>0, ApartSame DEF ReleaseShutsOffloaded
  <2>3. CASE ReleaseWakesOffloaded
    BY <2>3, <1>0, ApartSame DEF ReleaseWakesOffloaded
  <2>4. CASE ReleaseLocksOptions
    BY <2>4, <1>0, ApartSame DEF ReleaseLocksOptions
  <2>5. CASE ReleaseSaves
    BY <2>5, <1>0, ApartSame DEF ReleaseSaves, SaveStep, SaveOpens, SaveCloses
  <2>9. CASE ReleaseFinishesTasks
    BY <2>9, <1>0, ApartSame DEF ReleaseFinishesTasks
  <2>6. CASE ReleaseDestroysClient
    BY <2>6, <1>0, ApartSame DEF ReleaseDestroysClient
  <2>7. CASE ReleaseDestroysOffloaded
    BY <1>0, <2>7, ApartDestroys
  <2>8. CASE ReleaseEnds
    BY <2>8, <1>0, ApartSame DEF ReleaseEnds
  <2> QED
    BY <1>2, <2>1, <2>2, <2>3, <2>4, <2>5, <2>6, <2>7, <2>8, <2>9
    DEF Releasing
<1>3. CASE Combat
  <2>1. CASE CombatEnters
    BY <2>1, <1>0, ApartSame DEF CombatEnters, Enter
  <2>2. CASE CombatReturns
    BY <2>2, <1>0, ApartSame DEF CombatReturns, Leave
  <2> QED
    BY <1>3, <2>1, <2>2 DEF Combat
<1>4. CASE Ui
  <2>1. CASE UiEnters
    BY <2>1, <1>0, ApartSame DEF UiEnters, Enter
  <2>2. CASE UiChangesSettings
    <3>1. UNCHANGED collection
      BY <2>2 DEF UiChangesSettings
    <3>2. CASE UNCHANGED statsVars
      BY <1>0, <3>1, <3>2, ApartSame
    <3>3. ASSUME NEW W \in SUBSET Windows, Forget(W),
                 UNCHANGED mAggregatedWindows
          PROVE  Apart'
      BY <1>0, <3>1, <3>3, ApartForget
    <3>4. ASSUME NEW w \in Windows, ToggleWindow(w)
          PROVE  Apart'
      BY <3>2, <3>3, <3>4 DEF ToggleWindow
    <3>5. ASSUME ResetSettings
          PROVE  Apart'
      BY <3>3, <3>5 DEF ResetSettings
    <3> QED
      BY <2>2, <3>4, <3>5 DEF UiChangesSettings
  <2>7. CASE UiFrame
    BY <2>7, <1>0, ApartSame DEF UiFrame
  <2>8. CASE Display_UpdateWindow
    BY <2>8, <1>0, ApartSame DEF Display_UpdateWindow
  <2>3. CASE UiLooks
    BY <2>3, <1>0, ApartSame DEF UiLooks
  <2>4. CASE UiSkips
    BY <2>4, <1>0, ApartSame DEF UiSkips, Leave
  <2>5. CASE UiTakes
    BY <1>0, <2>5, ApartTakes
  <2>6. CASE UiShows
    BY <2>6, <1>0, ApartSame DEF UiShows, Leave
  <2> QED
    BY <1>4, <2>1, <2>2, <2>3, <2>4, <2>5, <2>6, <2>7, <2>8
    DEF Ui, UiReturns
<1>5. CASE Client
  <2>1. CASE ClientServes
    BY <2>1, <1>0, ApartSame DEF ClientServes
  <2>2. CASE ClientConnects
    BY <2>2, <1>0, ApartSame DEF ClientConnects
  <2>3. CASE ClientEnds
    BY <2>3, <1>0, ApartSame DEF ClientEnds
  <2> QED
    BY <1>5, <2>1, <2>2, <2>3 DEF Client
<1>6. CASE Aggregation
  <2>1. CASE ServeLooks
    BY <2>1, <1>0, ApartSame DEF ServeLooks
  <2>2. CASE ServeReadsOptions
    BY <2>2, <1>0, ApartSame DEF ServeReadsOptions
  <2>3. CASE ServeMakes
    BY <1>0, <2>3, ApartMakes
  <2>4. CASE ServeExchanges
    BY <1>0, <2>4, ApartExchanges
  <2>5. CASE ServeArms
    BY <2>5, <1>0, ApartSame DEF ServeArms
  <2>6. CASE ServeWakes
    BY <2>6, <1>0, ApartSame DEF ServeWakes
  <2> QED
    BY <1>6, <2>1, <2>2, <2>3, <2>4, <2>5, <2>6 DEF Aggregation
<1>7. CASE UpdateEnds
  BY <1>7, <1>0, ApartSame DEF UpdateEnds
<1>8. CASE Crash
  BY <1>8 DEF Crash, NoStats, Apart, Placed, HeldBack
<1>9. CASE UNCHANGED vars
  BY <1>0, <1>9, ApartSame DEF vars
<1> QED
  BY <1>1, <1>2, <1>3, <1>4, <1>5, <1>6, <1>7, <1>8, <1>9 DEF Next

-----------------------------------------------------------------------------
(* Whatever files there may be are of the kinds there are. *)
LEMMA FilesInvInit ==
  ASSUME Init
  PROVE  FilesInv
BY ConstantsAssumption DEF Init, Idle, Threads, FilesInv

(* The invariant holds to begin with, and every step keeps it. *)
LEMMA InvInit ==
  ASSUME Init
  PROVE  IInv
<1>1. TypeOK
  BY DefaultsType, FilesInvInit, LoadedType
  DEF TypeOK, Init, Idle, Threads, PcValues
<1>2. LoaderInv /\ CallbacksInv /\ ThreadsInv
  BY DEF Init, Idle, Threads, LoaderInv, CallbacksInv, ThreadsInv, Existing,
         Initializing, Releases
<1>3. StatsInv /\ FilesInv
  BY FilesInvInit DEF Init, Idle, Threads, NoStats, StatsInv
<1>4. ObjectsAlive
  BY <1>1, <1>2, ControlAlive DEF Control
<1>5. Apart
  BY DEF Init, NoStats, Apart, Placed, HeldBack
<1>6. SettingsKept
  BY DEF Init, SettingsKept
<1> QED
  BY <1>1, <1>2, <1>3, <1>4, <1>5, <1>6, OwnersAreApart DEF IInv

LEMMA InvNext ==
  ASSUME IInv, [Next]_vars
  PROVE  IInv'
<1>1. TypeOK' /\ FilesInv'
  BY TypeNext DEF IInv
<1>2. Control'
  BY ControlNext DEF IInv, Control
<1>3. StatsInv' /\ OneOwner'
  BY StatsNext, ApartNext DEF IInv, Control
<1>4. SettingsKept'
  BY SettingsNext DEF IInv
<1>5. ObjectsAlive'
  BY <1>1, <1>2, ControlAlive, PTL
<1> QED
  BY <1>1, <1>2, <1>3, <1>4, <1>5 DEF IInv, Control

LEMMA Inductive == Spec => []IInv
<1>1. Init => IInv
  BY InvInit
<1>2. IInv /\ [Next]_vars => IInv'
  BY InvNext
<1> QED
  BY <1>1, <1>2, PTL DEF Spec

(* Every variable keeps its type. *)
THEOREM TypeCorrect == Spec => []TypeOK
<1>1. IInv => TypeOK
  BY DEF IInv
<1> QED
  BY <1>1, Inductive, PTL

(* No callback, no thread and no task of the update check uses a global    *)
(* object that does not exist, however loading, failing to load, unloading *)
(* and dying fall between their steps.                                     *)
THEOREM NothingUsedDead == Spec => []ObjectsAlive
<1>1. IInv => ObjectsAlive
  BY DEF IInv
<1> QED
  BY <1>1, Inductive, PTL

(* Every collection of statistics that is allocated has one owner, however *)
(* many windows there are.                                                 *)
THEOREM EveryCollectionOwned == Spec => []OneOwner
<1>1. IInv => OneOwner
  BY DEF IInv
<1> QED
  BY <1>1, Inductive, PTL

(* The settings that were last saved are what a new process loads if it    *)
(* can read the files, for any files there were to begin with, unless a    *)
(* save was cut short or a process that could not read them has saved.     *)
THEOREM NothingUnsaved == Spec => []SettingsKept
<1>1. IInv => SettingsKept
  BY DEF IInv
<1> QED
  BY <1>1, Inductive, PTL
=============================================================================
