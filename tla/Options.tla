------------------------------ MODULE Options ------------------------------
(***************************************************************************)
(* The settings of the addon and their files (src/Options.h and .cpp): a   *)
(* json file, written when the addon is unloaded, and the ini file of      *)
(* older versions, which is read once, when there is no json file, and     *)
(* removed when its settings have been saved as json.                      *)
(*                                                                         *)
(* Of the settings the model keeps the one that other threads act on:      *)
(* which windows are shown. All the others are saved and loaded like it.   *)
(***************************************************************************)
CONSTANTS
  Windows,      (* the windows, each with its setting Shown                 *)
  WrongType,    (* a json value of a type that the setting does not have    *)
  NoFile,       (* there is no such file                                    *)
  Truncated,    (* a json file that does not parse                          *)
  OldVersion    (* an ini file of a version that is not read any more       *)

(* What a settings file may hold: values of some of the settings. *)
Contents == UNION {[W -> BOOLEAN \cup {WrongType}] : W \in SUBSET Windows}

ASSUME FilesAssumption ==
  /\ WrongType \notin BOOLEAN
  /\ NoFile # Truncated
  /\ NoFile \notin Contents /\ Truncated \notin Contents

VARIABLES
  options,      (* HEAL_TABLE_OPTIONS, the settings in memory               *)
  json,         (* the json file                                            *)
  ini           (* the legacy ini file                                      *)

filesVars == <<json, ini>>

Settings == [Windows -> BOOLEAN]

defaults == [k \in Windows |-> FALSE]

(* Only what differs from the defaults is written. *)
ToJson(o) == [k \in {x \in Windows : o[x] # defaults[x]} |-> o[k]]

(* Variant for the mutation checks: the type of a value is not looked at. *)
FromJson_Unchecked(o, j) ==
  [k \in Windows |-> IF k \in DOMAIN j THEN j[k] ELSE o[k]]

(* A key that is missing or of the wrong type leaves the setting alone.    *)
FromJson(o, j) ==
  [k \in Windows |-> IF k \in DOMAIN j /\ j[k] # WrongType THEN j[k] ELSE o[k]]

(* An old ini file counts as read, though nothing is taken from it. *)
ReadIni(o) == IF ini = OldVersion THEN o ELSE FromJson(o, ini)

(* A json file that does not parse is read, but leaves the settings alone. *)
ReadJson(o) == IF json = Truncated THEN o ELSE FromJson(o, json)

(* What Load gives when nothing goes wrong. *)
Loaded(o) ==
  IF json # NoFile THEN ReadJson(o)
  ELSE IF ini # NoFile THEN ReadIni(o)
  ELSE o

(* The ways through Load. Any failure of fopen, not only the absence of    *)
(* the json file, leads to the ini file. A json file that is too large, or *)
(* whose reading or closing fails, gives nothing, and nor does an ini file *)
(* that cannot be loaded. What came from the ini file Load then saves.     *)
LoadsJson == json # NoFile /\ options' = ReadJson(options)
LoadsIni == ini # NoFile /\ options' = ReadIni(options)
LoadsNothing == UNCHANGED options

(* Save: fopen with "w" empties the file, what fwrite writes reaches it    *)
(* when fclose succeeds at the latest.                                     *)
SaveOpens == json' = Truncated /\ UNCHANGED ini
SaveCloses == json' = ToJson(options) /\ UNCHANGED ini
RemoveIni == ini' = NoFile /\ UNCHANGED json

=============================================================================
