------------------------------- MODULE Saves -------------------------------
(***************************************************************************)
(* Settings and the two learned caches (core/control/settings_file.go,     *)
(* lastgood_file.go, netstrategy_file.go and persistSettings).  All three  *)
(* snapshot memory under a lock and replace their file after the lock is   *)
(* gone, so the saves of two callers may reach the disk in either order.   *)
(*                                                                         *)
(* Settings are reduced to what the code treats differently: a connection  *)
(* mode changed together with its port, the last connect, and the games    *)
(* preset, which the file may leave unset and which version 1 of the file  *)
(* carries without the user having been asked.                             *)
(***************************************************************************)
EXTENDS Integers, Sequences, FiniteSets

CONSTANTS Callers,      \* goroutines that change and save
          Keys, Values, \* profiles or networks of a cache, and what is learned
          MaxEdits      \* changes per behaviour

ASSUME SavesAssumption ==
  Callers # {} /\ Keys # {} /\ Values # {} /\ MaxEdits \in Nat

settingsVersion == 2
Modes == {"tun", "system_proxy"}
Unlearned == "none"

VARIABLES prefs,     \* the daemon's live settings
          file,      \* settings.json as decoded, or the zero value
          cache,     \* a cache in memory
          cacheFile, \* the same cache on disk
          saving,    \* per caller: nothing, or the save it is about to make
          had,       \* ghost: every settings value and cache the daemon held
          asked,     \* ghost: the user has switched the games preset on
          behind,    \* ghost: files whose last save failed or was not alone
          edits
savesVars == <<prefs, file, cache, cacheFile, saving, had, asked, behind, edits>>
disk == <<file, cacheFile>>

NoSettings == [version |-> 0, mode |-> "unset", port |-> 0, last |-> "none", games |-> "unset"]
Quiet == [what |-> "nothing", alone |-> TRUE]

migrate(ps) ==
  CASE ps.version = settingsVersion -> ps
    [] ps.version = 1 -> [ps EXCEPT !.games = "off", !.version = settingsVersion]
    [] OTHER -> NoSettings

\* Load and SetSettings: a value the program does not know keeps its default.
Load(ps) ==
  LET m == migrate(ps)
  IN  [mode |-> IF m.mode \in Modes THEN m.mode ELSE "tun",
       port |-> IF m.port \in {1, 2} THEN m.port ELSE 1,
       last |-> m.last,
       games |-> m.games = "on"]

settingsLocked(p) == [version |-> settingsVersion, mode |-> p.mode, port |-> p.port,
                      last |-> p.last, games |-> IF p.games THEN "on" ELSE "off"]

\* What 0.5.0, an older or a newer build, or a stray editor left behind.
Found == {NoSettings,
          [version |-> 1, mode |-> "tun", port |-> 1, last |-> "node", games |-> "on"],
          [version |-> 1, mode |-> "odd", port |-> 0, last |-> "none", games |-> "unset"],
          [version |-> 2, mode |-> "tun", port |-> 1, last |-> "none", games |-> "on"],
          [version |-> 3, mode |-> "tun", port |-> 2, last |-> "node", games |-> "on"]}

SavesInit ==
  /\ file \in Found
  /\ prefs = Load(file)
  /\ cache = [k \in Keys |-> Unlearned] /\ cacheFile = cache
  /\ saving = [c \in Callers |-> Quiet]
  /\ had = [settings |-> {prefs}, cache |-> {cache}]
  /\ asked = (file.version = settingsVersion /\ file.games = "on")
  /\ behind = {} /\ edits = 0

-----------------------------------------------------------------------------
InFlight == {c \in Callers : saving[c].what # "nothing"}

\* Caller c starts a change; from now on no save in flight is alone.
Edit(c, what, data) ==
  /\ saving[c] = Quiet /\ edits < MaxEdits
  /\ edits' = edits + 1
  /\ saving' = [d \in Callers |->
       IF d = c THEN [what |-> what, data |-> data, alone |-> InFlight = {}]
       ELSE IF d \in InFlight THEN [saving[d] EXCEPT !.alone = FALSE] ELSE saving[d]]
  /\ UNCHANGED <<disk, behind>>

\* A setter or the connect loop changes the settings under mu; the snapshot
\* is a second critical section (persistSettings).
Set(c, new) ==
  /\ Edit(c, "changed", new)
  /\ prefs' = new
  /\ had' = [had EXCEPT !.settings = @ \cup {new}]
  /\ asked' = (asked \/ (new.games /\ ~prefs.games))
  /\ UNCHANGED cache

HandleSetProxyMode(c) == \E m \in Modes, p \in {1, 2} :
                           Set(c, [prefs EXCEPT !.mode = m, !.port = p])
HandleSetPresets(c) == \E on \in BOOLEAN : Set(c, [prefs EXCEPT !.games = on])
rememberLastConn(c) == /\ prefs.last # "node"
                       /\ Set(c, [prefs EXCEPT !.last = "node"])

persistSettings(c) ==
  /\ saving[c].what = "changed"
  /\ saving' = [saving EXCEPT ![c].what = "settings", ![c].data = settingsLocked(prefs)]
  /\ UNCHANGED <<prefs, disk, cache, had, asked, behind, edits>>

\* Mutant: the snapshot is taken before the new value is in the map.
SnapshotEarly(k, v) == cache
Snapshot(k, v) == [cache EXCEPT ![k] = v]

\* A cache learns a value: change and snapshot in one critical section, and
\* nothing at all when memory already has it.
Learn(c, k, v) ==
  /\ cache[k] # v
  /\ Edit(c, "cache", Snapshot(k, v))
  /\ cache' = [cache EXCEPT ![k] = v]
  /\ had' = [had EXCEPT !.cache = @ \cup {cache'}]
  /\ UNCHANGED <<prefs, asked>>

\* The file is replaced as a whole; a later save makes up for a failed one.
SaveTo(c, kind) ==
  /\ saving[c].what = kind
  /\ behind' = IF saving[c].alone THEN behind \ {kind} ELSE behind \cup {kind}
  /\ saving' = [saving EXCEPT ![c] = Quiet]
  /\ UNCHANGED <<prefs, cache, had, asked, edits>>
Save(c) == SaveTo(c, "settings") /\ file' = saving[c].data /\ UNCHANGED cacheFile
SaveCache(c) == SaveTo(c, "cache") /\ cacheFile' = saving[c].data /\ UNCHANGED file

\* Best effort: a failed write is logged or swallowed.
SaveFails(c) ==
  /\ saving[c].what \in {"settings", "cache"}
  /\ behind' = behind \cup {saving[c].what}
  /\ saving' = [saving EXCEPT ![c] = Quiet]
  /\ UNCHANGED <<prefs, disk, cache, had, asked, edits>>

\* The daemon dies at any point and the next one loads what is on disk.
Restart ==
  /\ prefs' = Load(file)
  /\ cache' = cacheFile
  /\ saving' = [c \in Callers |-> Quiet]
  /\ behind' = {}
  /\ UNCHANGED <<disk, had, asked, edits>>

SavesNext == \/ \E c \in Callers : \/ HandleSetProxyMode(c) \/ HandleSetPresets(c) \/ rememberLastConn(c)
                                   \/ persistSettings(c) \/ Save(c) \/ SaveCache(c) \/ SaveFails(c)
                                   \/ \E k \in Keys, v \in Values : Learn(c, k, v)
             \/ Restart

-----------------------------------------------------------------------------
(***************************************************************************)
(* Whatever the order of the saves, and wherever the daemon dies, what the *)
(* next start will load are settings, and a cache, the daemon really had   *)
(* at one moment, never parts of two (persistSettings, fileLastGood.Set).  *)
(***************************************************************************)
SavedIsCoherent == Load(file) \in had.settings /\ cacheFile \in had.cache

(***************************************************************************)
(* When every caller is done, a file whose last save succeeded with no     *)
(* other change in flight is current: a restart then loses nothing, even   *)
(* after earlier saves failed.                                             *)
(***************************************************************************)
QuietDiskIsCurrent ==
  InFlight = {} => /\ "settings" \notin behind => Load(file) = prefs
                   /\ "cache" \notin behind => cacheFile = cache

(***************************************************************************)
(* The games preset, which lets traffic out of the tunnel, is on - now or  *)
(* after a restart - only if the user switched it on in a build that shows *)
(* the switch: never by what version 1 stored, however often the daemon    *)
(* restarts before its first save (migrateV1toV2).                         *)
(***************************************************************************)
PresetsWereAsked == prefs.games \/ Load(file).games => asked

(***************************************************************************)
(* What survives a restart: a state the daemon had, the latest one when    *)
(* its saves got through, and no preset nobody asked for.                  *)
(***************************************************************************)
SavesSurvive == SavedIsCoherent /\ QuietDiskIsCurrent /\ PresetsWereAsked

=============================================================================
