----------------------------- MODULE FilesProofs -----------------------------
(***************************************************************************)
(* What the daemon keeps in files: the list of profiles in memory and on   *)
(* disk, for every set of ids (Store), what survives a restart, for every  *)
(* number of callers, keys and values (Saves), and the service log, for    *)
(* every limit and size (LogRotate).                                       *)
(***************************************************************************)
EXTENDS Store, Saves, LogRotate, TLAPS, SequenceTheorems, WellFoundedInduction

(* The list of profiles.                                                   *)

StoreSpec == StoreInit /\ [][StoreNext]_storeVars

\* A list names no id twice.
Distinct(s) == \A i, j \in DOMAIN s : s[i].id = s[j].id => i = j

\* An operation that holds the lock, with the list before it.
Operations == [kind : {"add", "update", "remove", "saved"}, at : Nat, before : Seq(Profiles)]

\* What each operation has done to memory, and that its rollback can be told
\* from what it remembers.
Remembers ==
  /\ op.kind = "add" => profiles = Append(op.before, profiles[op.at]) /\ op.at = Len(op.before) + 1
                        /\ profiles[op.at] \in Profiles
  /\ op.kind = "update" => /\ op.at \in 1..Len(op.before) /\ profiles[op.at] \in Profiles
                           /\ profiles = [op.before EXCEPT ![op.at] = profiles[op.at]]
  /\ op.kind = "remove" => op.at \in 1..Len(op.before) /\ profiles = RemoveAt(op.before, op.at)

\* The inductive invariant.
StoreInv ==
  /\ profiles \in Seq(Profiles) /\ stored \in Seq(Profiles)
  /\ op = Idle \/ op \in Operations
  /\ Distinct(profiles) /\ Distinct(stored)
  /\ op = Idle => profiles = stored
  /\ op.kind \in {"add", "update", "remove"} => stored = op.before
  /\ op.kind = "saved" => stored = profiles
  /\ Remembers

-----------------------------------------------------------------------------
\* The list without its i-th profile, entry by entry.
LEMMA RemoveAtProperties ==
  ASSUME NEW S, NEW s \in Seq(S), NEW i \in 1..Len(s)
  PROVE  /\ RemoveAt(s, i) \in Seq(S)
         /\ Len(RemoveAt(s, i)) = Len(s) - 1
         /\ \A j \in 1..(Len(s) - 1) : RemoveAt(s, i)[j] = IF j < i THEN s[j] ELSE s[j + 1]
<1> DEFINE a == SubSeq(s, 1, i - 1)
           b == SubSeq(s, i + 1, Len(s))
<1>1. a \in Seq(S) /\ Len(a) = i - 1 /\ \A j \in 1..(i - 1) : a[j] = s[j]
  OBVIOUS
<1>2. b \in Seq(S) /\ Len(b) = Len(s) - i /\ \A j \in 1..(Len(s) - i) : b[j] = s[i + j]
  OBVIOUS
<1>3. RemoveAt(s, i) = a \o b
  BY DEF RemoveAt
<1> HIDE DEF a, b
<1>4. a \o b \in Seq(S) /\ Len(a \o b) = Len(s) - 1
  <2>1. a \o b \in Seq(S) /\ Len(a \o b) = Len(a) + Len(b)
    BY <1>1, <1>2, ConcatProperties
  <2>2. Len(s) \in Nat
    BY LenProperties
  <2>3. (i - 1) + (Len(s) - i) = Len(s) - 1
    BY <2>2
  <2> QED BY <1>1, <1>2, <2>1, <2>3
<1>5. ASSUME NEW j \in 1..(Len(s) - 1)
      PROVE  (a \o b)[j] = IF j < i THEN s[j] ELSE s[j + 1]
  <2>1. CASE j < i
    BY <1>1, <1>2, <2>1
  <2>2. CASE ~(j < i)
    <3>1. (a \o b)[j] = b[j - (i - 1)] /\ j - (i - 1) \in 1..(Len(s) - i)
      BY <1>1, <1>2, <2>2
    <3>2. i + (j - (i - 1)) = j + 1
      OBVIOUS
    <3> QED BY <1>2, <2>2, <3>1, <3>2
  <2> QED BY <2>1, <2>2
<1> QED BY <1>3, <1>4, <1>5

\* A profile put back where it was taken from restores the list.
LEMMA InsertUndoesRemove ==
  ASSUME NEW S, NEW s \in Seq(S), NEW i \in 1..Len(s)
  PROVE  InsertAt(RemoveAt(s, i), i, s[i]) = s
<1> DEFINE r == RemoveAt(s, i)
           a == SubSeq(r, 1, i - 1)
           b == SubSeq(r, i, Len(r))
           t == (a \o <<s[i]>>) \o b
<1>1. /\ r \in Seq(S) /\ Len(r) = Len(s) - 1
      /\ \A j \in 1..(Len(s) - 1) : r[j] = IF j < i THEN s[j] ELSE s[j + 1]
  BY RemoveAtProperties
<1>2. InsertAt(r, i, s[i]) = t
  BY DEF InsertAt
<1> HIDE DEF r
<1>3. a \in Seq(S) /\ Len(a) = i - 1 /\ \A j \in 1..(i - 1) : a[j] = s[j]
  BY <1>1
<1>4. b \in Seq(S) /\ Len(b) = Len(s) - i /\ \A j \in 1..(Len(s) - i) : b[j] = s[i + j]
  BY <1>1
<1> HIDE DEF a, b
<1>5. s[i] \in S /\ t \in Seq(S) /\ Len(t) = Len(s)
  BY <1>3, <1>4
<1>6. ASSUME NEW j \in 1..Len(s) PROVE t[j] = s[j]
  <2>1. CASE j < i
    BY <1>3, <1>4, <2>1
  <2>2. CASE j = i
    BY <1>3, <1>4, <2>2
  <2>3. CASE j > i
    <3>1. t[j] = b[j - i] /\ j - i \in 1..(Len(s) - i)
      BY <1>3, <1>4, <2>3
    <3> DEFINE m == j - i
    <3>2. m \in 1..(Len(s) - i) /\ i + m = j
      BY <3>1
    <3> HIDE DEF m
    <3>3. b[m] = s[i + m]
      BY <1>4, <3>2
    <3> QED BY <3>1, <3>2, <3>3 DEF m
  <2>4. i \in Int /\ j \in Int
    OBVIOUS
  <2> HIDE DEF t
  <2> QED BY <2>1, <2>2, <2>3, <2>4
<1> HIDE DEF t
<1>7. t = s
  BY <1>5, <1>6, SeqEqual
<1> QED BY <1>2, <1>7 DEF r

\* A list without the profile just appended to it.
LEMMA FrontOfAppend ==
  ASSUME NEW S, NEW s \in Seq(S), NEW e \in S
  PROVE  SubSeq(Append(s, e), 1, Len(Append(s, e)) - 1) = s
<1> DEFINE t == Append(s, e)
           f == SubSeq(t, 1, Len(s))
<1>1. t \in Seq(S) /\ Len(t) = Len(s) + 1 /\ \A i \in 1..Len(s) : t[i] = s[i]
  BY AppendProperties
<1>2. Len(s) \in Nat /\ Len(t) - 1 = Len(s)
  BY <1>1, LenProperties
<1> HIDE DEF t
<1>3. f \in Seq(S) /\ Len(f) = Len(s) /\ \A i \in 1..Len(s) : f[i] = t[i]
  BY <1>1, <1>2
<1> HIDE DEF f
<1>4. f = s
  BY <1>1, <1>3, SeqEqual
<1> QED BY <1>2, <1>4 DEF f, t

\* The store starts with the list it opened.
LEMMA StoreInitInv == StoreInit => StoreInv
BY DEF StoreInit, StoreInv, Idle, Distinct, Remembers

\* indexOf returns where the profile is, when there is one.
LEMMA indexOfFound ==
  ASSUME NEW id, profiles \in Seq(Profiles), indexOf(id) # 0
  PROVE  indexOf(id) \in 1..Len(profiles) /\ profiles[indexOf(id)].id = id
BY LenProperties DEF indexOf

\* Every operation, its save, its failed save with the rollback, and a crash.
LEMMA StoreStepInv == StoreInv /\ [StoreNext]_storeVars => StoreInv'
<1> SUFFICES ASSUME StoreInv, [StoreNext]_storeVars PROVE StoreInv'
  OBVIOUS
<1> USE DEF StoreInv
<1>1. ASSUME NEW p \in Profiles, Add(p) PROVE StoreInv'
  <2>1. /\ op = Idle /\ stored = profiles /\ stored' = profiles
        /\ profiles' = Append(profiles, p)
        /\ op' = [kind |-> "add", at |-> Len(profiles) + 1, before |-> profiles]
    BY <1>1 DEF Add, Change
  <2>2. /\ profiles' \in Seq(Profiles) /\ Len(profiles') = Len(profiles) + 1
        /\ \A j \in 1..Len(profiles) : profiles'[j] = profiles[j]
        /\ profiles'[Len(profiles) + 1] = p
    BY <2>1, AppendProperties
  <2>3. \A j \in 1..Len(profiles) : profiles[j].id # p.id
    <3>1. DOMAIN profiles = 1..Len(profiles)
      BY LenProperties
    <3>2. indexOf(p.id) = 0
      BY <1>1 DEF Add
    <3>3. ASSUME NEW j \in 1..Len(profiles), profiles[j].id = p.id PROVE FALSE
      <4>1. indexOf(p.id) \in DOMAIN profiles
        BY <3>1, <3>3 DEF indexOf
      <4> QED BY <3>1, <3>2, <4>1
    <3> QED BY <3>3
  <2>4. Distinct(profiles')
    <3>1. DOMAIN profiles' = 1..(Len(profiles) + 1) /\ DOMAIN profiles = 1..Len(profiles)
      BY <2>2, LenProperties
    <3> QED BY <2>2, <2>3, <3>1 DEF Distinct
  <2>5. op' \in Operations /\ op'.kind = "add" /\ op' # Idle
    BY <2>1, LenProperties DEF Operations, Idle
  <2>6. Remembers'
    BY <2>1, <2>2, <2>5 DEF Remembers
  <2> QED BY <2>1, <2>2, <2>4, <2>5, <2>6
<1>2. ASSUME NEW p \in Profiles, Update(p) PROVE StoreInv'
  <2> DEFINE i == indexOf(p.id)
  <2>1. /\ op = Idle /\ stored = profiles /\ stored' = profiles
        /\ profiles' = [profiles EXCEPT ![i] = p]
        /\ op' = [kind |-> "update", at |-> i, before |-> profiles]
    BY <1>2 DEF Update, Change
  <2>2. i \in 1..Len(profiles) /\ profiles[i].id = p.id
    BY <1>2, indexOfFound DEF Update
  <2> HIDE DEF i
  <2>3. /\ profiles' \in Seq(Profiles) /\ Len(profiles') = Len(profiles)
        /\ \A j \in 1..Len(profiles) : profiles'[j] = IF j = i THEN p ELSE profiles[j]
    BY <2>1, <2>2, ExceptSeq
  <2>4. Distinct(profiles')
    <3>1. DOMAIN profiles' = 1..Len(profiles) /\ DOMAIN profiles = 1..Len(profiles)
      BY <2>3, LenProperties
    <3> QED BY <2>2, <2>3, <3>1 DEF Distinct
  <2>5. op' \in Operations /\ op'.kind = "update" /\ op' # Idle
    BY <2>1, <2>2 DEF Operations, Idle
  <2>6. Remembers'
    BY <2>1, <2>2, <2>3, <2>5 DEF Remembers
  <2> QED BY <2>1, <2>3, <2>4, <2>5, <2>6
<1>3. ASSUME NEW id \in Ids, RemoveProfile(id) PROVE StoreInv'
  <2> DEFINE i == indexOf(id)
  <2>1. /\ op = Idle /\ stored = profiles /\ stored' = profiles
        /\ profiles' = RemoveAt(profiles, i)
        /\ op' = [kind |-> "remove", at |-> i, before |-> profiles]
    BY <1>3 DEF RemoveProfile, Change
  <2>2. i \in 1..Len(profiles)
    BY <1>3, indexOfFound DEF RemoveProfile
  <2> HIDE DEF i
  <2>3. /\ profiles' \in Seq(Profiles) /\ Len(profiles') = Len(profiles) - 1
        /\ \A j \in 1..(Len(profiles) - 1) :
             profiles'[j] = IF j < i THEN profiles[j] ELSE profiles[j + 1]
    BY <2>1, <2>2, RemoveAtProperties
  <2>4. Distinct(profiles')
    <3>1. DOMAIN profiles' = 1..(Len(profiles) - 1) /\ DOMAIN profiles = 1..Len(profiles)
      BY <2>3, LenProperties
    <3> DEFINE from(j) == IF j < i THEN j ELSE j + 1
    <3>2. ASSUME NEW j \in DOMAIN profiles'
          PROVE  from(j) \in DOMAIN profiles /\ profiles'[j] = profiles[from(j)]
      BY <2>2, <2>3, <3>1
    <3>3. ASSUME NEW j \in DOMAIN profiles', NEW k \in DOMAIN profiles', from(j) = from(k)
          PROVE  j = k
      BY <2>2, <3>1, <3>3
    <3> HIDE DEF from
    <3> QED BY <3>2, <3>3 DEF Distinct
  <2>5. op' \in Operations /\ op'.kind = "remove" /\ op' # Idle
    BY <2>1, <2>2 DEF Operations, Idle
  <2>6. Remembers'
    BY <2>1, <2>2, <2>5 DEF Remembers
  <2> QED BY <2>1, <2>3, <2>4, <2>5, <2>6
<1>4. CASE save
  BY <1>4 DEF save, Operations, Idle, Distinct, Remembers
<1>5. CASE Return
  BY <1>5 DEF Return, Operations, Idle, Distinct, Remembers
<1>6. CASE saveFails
  <2>1. op.kind \in {"add", "update", "remove"} /\ op' = Idle /\ stored' = op.before
    BY <1>6 DEF saveFails
  <2>2. op \in Operations /\ op.before \in Seq(Profiles)
    BY <2>1 DEF Operations, Idle
  <2>3. profiles' = op.before
    <3>1. CASE op.kind = "add"
      <4>1. profiles' = SubSeq(profiles, 1, Len(profiles) - 1)
        BY <1>6, <3>1 DEF saveFails, Rollback
      <4>2. profiles = Append(op.before, profiles[op.at]) /\ profiles[op.at] \in Profiles
        BY <3>1 DEF Remembers
      <4>3. SubSeq(profiles, 1, Len(profiles) - 1) = op.before
        BY <2>2, <4>2, FrontOfAppend, Zenon
      <4> QED BY <4>1, <4>3
    <3>2. CASE op.kind = "update"
      <4>1. profiles' = [profiles EXCEPT ![op.at] = op.before[op.at]]
        BY <1>6, <3>2 DEF saveFails, Rollback
      <4> QED BY <2>2, <3>2, <4>1, LenProperties DEF Remembers
    <3>3. CASE op.kind = "remove"
      <4>1. profiles' = InsertAt(profiles, op.at, op.before[op.at])
        BY <1>6, <3>3 DEF saveFails, Rollback
      <4> QED BY <2>2, <3>3, <4>1, InsertUndoesRemove DEF Remembers
    <3> QED BY <2>1, <3>1, <3>2, <3>3
  <2> QED BY <2>1, <2>2, <2>3 DEF Idle, Distinct, Remembers
<1>7. CASE Reopen
  BY <1>7 DEF Reopen, Idle, Distinct, Remembers
<1>8. CASE UNCHANGED storeVars
  BY <1>8 DEF storeVars, Distinct, Remembers
<1> QED BY <1>1, <1>2, <1>3, <1>4, <1>5, <1>6, <1>7, <1>8 DEF StoreNext

(***************************************************************************)
(* With the lock free, memory and disk hold the same list, each profile    *)
(* once, whatever saves failed and wherever the daemon died; while an      *)
(* operation runs the file is the list before it or after it (Store.Add,   *)
(* Update, Remove, save).                                                  *)
(***************************************************************************)
THEOREM StoreAlwaysMatchesDisk == StoreSpec => []StoreMatchesDisk
<1>1. StoreInv => StoreMatchesDisk
  BY DEF StoreInv, StoreMatchesDisk, Operations, Idle, Distinct
<1> QED BY <1>1, StoreInitInv, StoreStepInv, PTL DEF StoreSpec

----------------------------------------------------------------------------
(* Settings, the last connect and the cache of node verdicts.              *)

SavesSpec == SavesInit /\ [][SavesNext]_savesVars

Prefs == [mode : Modes, port : {1, 2}, last : {"none", "node"}, games : BOOLEAN]
Caches == [Keys -> Values \cup {Unlearned}]

Pending == {Quiet}
           \cup [what : {"changed"}, data : Prefs, alone : BOOLEAN]
           \cup [what : {"settings"}, data : {settingsLocked(p) : p \in Prefs}, alone : BOOLEAN]
           \cup [what : {"cache"}, data : Caches, alone : BOOLEAN]

SavesTypeOK ==
  /\ prefs \in Prefs /\ Load(file) \in Prefs
  /\ cache \in Caches /\ cacheFile \in Caches
  /\ saving \in [Callers -> Pending]
  /\ had \in [settings : SUBSET Prefs, cache : SUBSET Caches]
  /\ asked \in BOOLEAN

\* What is in memory and what is about to be saved has been held.
Held ==
  /\ prefs \in had.settings /\ cache \in had.cache
  /\ \A c \in Callers :
       /\ saving[c].what = "settings" => Load(saving[c].data) \in had.settings
       /\ saving[c].what = "cache" => saving[c].data \in had.cache

\* A save in flight carries no preset that was not asked for.
SavesAsked ==
  \A c \in Callers :
    saving[c].what = "settings" /\ Load(saving[c].data).games => asked

\* A save that began alone and still is carries what memory holds.
AloneIsCurrent ==
  \A c \in InFlight :
    saving[c].alone => /\ InFlight = {c}
                       /\ saving[c].what = "settings" => Load(saving[c].data) = prefs
                       /\ saving[c].what = "cache" => saving[c].data = cache

\* A file that is not behind and has no save under way is current.
FilesAreCurrent ==
  /\ ("settings" \notin behind /\ \A c \in Callers : saving[c].what \notin {"changed", "settings"})
       => Load(file) = prefs
  /\ ("cache" \notin behind /\ \A c \in Callers : saving[c].what # "cache") => cacheFile = cache

\* The inductive invariant.
SavesInv == /\ SavesTypeOK /\ Held /\ SavesAsked /\ AloneIsCurrent /\ FilesAreCurrent
            /\ SavedIsCoherent /\ PresetsWereAsked

-----------------------------------------------------------------------------
\* What is written comes back as it was: settingsLocked, then Load and
\* SetSettings, lose nothing the daemon held.
LEMMA LoadSaved == ASSUME NEW p \in Prefs PROVE Load(settingsLocked(p)) = p
<1>1. migrate(settingsLocked(p)) = settingsLocked(p)
  BY DEF migrate, settingsLocked, settingsVersion
<1>2. /\ p.mode \in Modes /\ p.port \in {1, 2} /\ p.games \in BOOLEAN
      /\ p = [mode |-> p.mode, port |-> p.port, last |-> p.last, games |-> p.games]
  BY DEF Prefs
<1>3. Load(settingsLocked(p)) = [mode |-> p.mode, port |-> p.port, last |-> p.last, games |-> p.games]
  <2>1. (settingsLocked(p).games = "on") = p.games
    BY <1>2 DEF settingsLocked
  <2> QED BY <1>1, <1>2, <2>1 DEF Load, settingsLocked
<1> QED BY <1>2, <1>3

\* Whatever file is found loads as settings the daemon can hold, and only a
\* file of this version carries a preset.
LEMMA LoadFound ==
  ASSUME NEW ps \in Found
  PROVE  Load(ps) \in Prefs /\ (Load(ps).games => ps.version = settingsVersion /\ ps.games = "on")
<1>1. \/ ps = NoSettings
      \/ ps = [version |-> 1, mode |-> "tun", port |-> 1, last |-> "node", games |-> "on"]
      \/ ps = [version |-> 1, mode |-> "odd", port |-> 0, last |-> "none", games |-> "unset"]
      \/ ps = [version |-> 2, mode |-> "tun", port |-> 1, last |-> "none", games |-> "on"]
      \/ ps = [version |-> 3, mode |-> "tun", port |-> 2, last |-> "node", games |-> "on"]
  BY Zenon DEF Found
<1> DEFINE Fields == /\ ps.version \in 0..3 /\ ps.last \in {"none", "node"}
                     /\ ps.version = 2 => ps.games = "on"
<1>2. Fields
  <2>1. CASE ps = NoSettings
    <3>1. NoSettings.version = 0 /\ NoSettings.last = "none"
      BY DEF NoSettings
    <3> QED BY <2>1, <3>1
  <2>2. CASE ps = [version |-> 1, mode |-> "tun", port |-> 1, last |-> "node", games |-> "on"]
    BY <2>2
  <2>3. CASE ps = [version |-> 1, mode |-> "odd", port |-> 0, last |-> "none", games |-> "unset"]
    BY <2>3
  <2>4. CASE ps = [version |-> 2, mode |-> "tun", port |-> 1, last |-> "none", games |-> "on"]
    BY <2>4
  <2>5. CASE ps = [version |-> 3, mode |-> "tun", port |-> 2, last |-> "node", games |-> "on"]
    BY <2>5
  <2> HIDE DEF Fields
  <2> QED BY <1>1, <2>1, <2>2, <2>3, <2>4, <2>5
<1>3. CASE ps.version = 2
  <2>1. migrate(ps) = ps
    BY <1>3 DEF migrate, settingsVersion
  <2> QED BY <1>2, <1>3, <2>1 DEF Load, Prefs, Modes, settingsVersion
<1>4. CASE ps.version = 1
  <2>1. migrate(ps) = [ps EXCEPT !.games = "off", !.version = settingsVersion]
    BY <1>4 DEF migrate, settingsVersion
  <2>2. migrate(ps).last = ps.last /\ migrate(ps).games = "off"
    BY <1>1, <1>4, <2>1 DEF NoSettings
  <2> QED BY <1>2, <2>2 DEF Load, Prefs, Modes
<1>5. CASE ps.version \notin {1, 2}
  <2>1. migrate(ps) = NoSettings
    BY <1>5 DEF migrate, settingsVersion
  <2>2. NoSettings.last = "none" /\ NoSettings.games = "unset"
    BY DEF NoSettings
  <2> QED BY <2>1, <2>2 DEF Load, Prefs, Modes
<1> QED BY <1>3, <1>4, <1>5

\* A change puts one more caller in flight, and nobody in flight is alone.
LEMMA EditShape ==
  ASSUME SavesTypeOK, NEW c \in Callers, NEW what, NEW data, Edit(c, what, data),
         [what |-> what, data |-> data, alone |-> InFlight = {}] \in Pending,
         what # "nothing"
  PROVE  /\ saving' \in [Callers -> Pending]
         /\ InFlight' = InFlight \cup {c}
         /\ saving'[c].what = what /\ saving'[c].data = data /\ saving'[c].alone = (InFlight = {})
         /\ c \notin InFlight
         /\ \A d \in Callers \ {c} :
              /\ saving'[d].what = saving[d].what
              /\ saving[d].what # "nothing" =>
                   saving'[d].data = saving[d].data /\ saving'[d].alone = FALSE
<1>1. ASSUME NEW d \in InFlight
      PROVE  LET s == [saving[d] EXCEPT !.alone = FALSE]
             IN  s \in Pending /\ s.what = saving[d].what /\ s.data = saving[d].data /\ s.alone = FALSE
  <2>1. saving[d] \in Pending /\ saving[d].what # "nothing"
    BY DEF SavesTypeOK, InFlight
  <2>2. CASE saving[d] \in [what : {"changed"}, data : Prefs, alone : BOOLEAN]
    BY <2>2 DEF Pending
  <2>3. CASE saving[d] \in [what : {"settings"}, data : {settingsLocked(p) : p \in Prefs}, alone : BOOLEAN]
    BY <2>3 DEF Pending
  <2>4. CASE saving[d] \in [what : {"cache"}, data : Caches, alone : BOOLEAN]
    BY <2>4 DEF Pending
  <2> QED BY <2>1, <2>2, <2>3, <2>4 DEF Pending, Quiet
<1>2. c \notin InFlight
  BY DEF Edit, InFlight, Quiet
<1>3. saving' = [d \in Callers |->
        IF d = c THEN [what |-> what, data |-> data, alone |-> InFlight = {}]
        ELSE IF d \in InFlight THEN [saving[d] EXCEPT !.alone = FALSE] ELSE saving[d]]
  BY DEF Edit
<1>4. saving' \in [Callers -> Pending]
  BY <1>1, <1>3 DEF SavesTypeOK
<1>5. /\ saving'[c].what = what /\ saving'[c].data = data /\ saving'[c].alone = (InFlight = {})
  BY <1>3
<1>6. \A d \in Callers \ {c} :
        /\ saving'[d].what = saving[d].what
        /\ saving[d].what # "nothing" => saving'[d].data = saving[d].data /\ saving'[d].alone = FALSE
  BY <1>1, <1>3 DEF InFlight
<1>7. InFlight' = InFlight \cup {c}
  BY <1>5, <1>6 DEF InFlight
<1> QED BY <1>2, <1>4, <1>5, <1>6, <1>7

\* A first start from whatever file is found.
LEMMA SavesInitInv == SavesInit => SavesInv
<1> SUFFICES ASSUME SavesInit PROVE SavesInv
  OBVIOUS
<1> USE DEF SavesInit
<1>1. Load(file) \in Prefs /\ (Load(file).games => asked)
  BY LoadFound
<1>2. SavesTypeOK
  BY <1>1 DEF SavesTypeOK, Caches, Pending, disk
<1>3. Held /\ SavesAsked /\ SavedIsCoherent
  BY DEF Held, SavesAsked, SavedIsCoherent, Quiet
<1>4. AloneIsCurrent /\ FilesAreCurrent
  BY DEF AloneIsCurrent, FilesAreCurrent, InFlight, Quiet
<1>5. PresetsWereAsked
  BY <1>1 DEF PresetsWereAsked
<1> QED BY <1>2, <1>3, <1>4, <1>5 DEF SavesInv

\* Every step but a restart concerns one caller: a setter, a save, a failed
\* save; a restart drops what was in flight and loads what reached the disk.
LEMMA SavesStepInv == SavesInv /\ [SavesNext]_savesVars => SavesInv'
<1> SUFFICES ASSUME SavesInv, [SavesNext]_savesVars PROVE SavesInv'
  OBVIOUS
<1> USE DEF SavesInv, disk
<1>1. ASSUME NEW c \in Callers, NEW new \in Prefs, Set(c, new) PROVE SavesInv'
  <2> USE <1>1 DEF Set
  <2>1. Edit(c, "changed", new)
    OBVIOUS
  <2>2. [what |-> "changed", data |-> new, alone |-> InFlight = {}] \in Pending
    BY DEF Pending
  <2>3. /\ saving' \in [Callers -> Pending] /\ InFlight' = InFlight \cup {c}
        /\ c \notin InFlight /\ saving'[c].what = "changed" /\ saving'[c].alone = (InFlight = {})
        /\ \A d \in Callers \ {c} :
             /\ saving'[d].what = saving[d].what
             /\ saving[d].what # "nothing" => saving'[d].data = saving[d].data /\ saving'[d].alone = FALSE
    BY <2>1, <2>2, EditShape
  <2>4. UNCHANGED <<disk, behind>>
    BY <2>1 DEF Edit
  <2>5. SavesTypeOK'
    BY <2>3, <2>4 DEF SavesTypeOK
  <2>6. Held' /\ SavesAsked' /\ SavedIsCoherent' /\ PresetsWereAsked'
    BY <2>3, <2>4 DEF SavesTypeOK, Held, SavesAsked, SavedIsCoherent, PresetsWereAsked
  <2>7. AloneIsCurrent' /\ FilesAreCurrent'
    BY <2>3, <2>4 DEF SavesTypeOK, AloneIsCurrent, FilesAreCurrent, InFlight
  <2> QED BY <2>5, <2>6, <2>7
<1>2. ASSUME NEW c \in Callers, persistSettings(c) PROVE SavesInv'
  <2> USE <1>2 DEF persistSettings
  <2>1. saving[c] \in [what : {"changed"}, data : Prefs, alone : BOOLEAN]
    BY DEF SavesTypeOK, Pending, Quiet
  <2>2. Load(settingsLocked(prefs)) = prefs /\ prefs \in Prefs
    BY LoadSaved DEF SavesTypeOK
  <2>3. /\ saving'[c].what = "settings" /\ saving'[c].data = settingsLocked(prefs)
        /\ saving'[c].alone = saving[c].alone /\ saving'[c] \in Pending
    BY <2>1, <2>2 DEF SavesTypeOK, Pending
  <2>4. /\ saving' \in [Callers -> Pending]
        /\ \A d \in Callers \ {c} : saving'[d] = saving[d]
    BY <2>3 DEF SavesTypeOK
  <2>5. InFlight' = InFlight
    BY <2>3, <2>4 DEF InFlight
  <2>6. SavesTypeOK'
    BY <2>4 DEF SavesTypeOK
  <2>7. Held' /\ SavesAsked' /\ SavedIsCoherent' /\ PresetsWereAsked'
    BY <2>2, <2>3, <2>4 DEF SavesTypeOK, Held, SavesAsked, SavedIsCoherent, PresetsWereAsked
  <2>8. AloneIsCurrent'
    <3>1. c \in InFlight /\ \A d \in InFlight : d \in Callers
      BY <2>1 DEF InFlight
    <3>2. SUFFICES ASSUME NEW d \in InFlight, saving'[d].alone
                   PROVE  /\ InFlight = {d}
                          /\ saving'[d].what = "settings" => Load(saving'[d].data) = prefs
                          /\ saving'[d].what = "cache" => saving'[d].data = cache
      BY <2>5 DEF AloneIsCurrent
    <3>3. CASE d = c
      BY <2>2, <2>3, <3>1, <3>2, <3>3 DEF AloneIsCurrent
    <3>4. CASE d # c
      BY <2>4, <3>1, <3>2, <3>4 DEF AloneIsCurrent
    <3> QED BY <3>3, <3>4
  <2>9. FilesAreCurrent'
    BY <2>3, <2>4 DEF FilesAreCurrent
  <2> QED BY <2>6, <2>7, <2>8, <2>9
<1>3. ASSUME NEW c \in Callers, NEW k \in Keys, NEW v \in Values, Learn(c, k, v) PROVE SavesInv'
  <2> USE <1>3 DEF Learn
  <2>0. cache' = [cache EXCEPT ![k] = v] /\ cache' \in Caches
    BY DEF SavesTypeOK, Caches
  <2>1. PICK n : n = cache'
    OBVIOUS
  <2>2. Edit(c, "cache", n)
    BY <2>0, <2>1 DEF Snapshot
  <2>2a. [what |-> "cache", data |-> n, alone |-> InFlight = {}] \in Pending
    BY <2>0, <2>1 DEF Pending
  <2>3. /\ saving' \in [Callers -> Pending] /\ InFlight' = InFlight \cup {c}
        /\ c \notin InFlight
        /\ saving'[c].what = "cache" /\ saving'[c].data = cache' /\ saving'[c].alone = (InFlight = {})
        /\ \A d \in Callers \ {c} :
             /\ saving'[d].what = saving[d].what
             /\ saving[d].what # "nothing" => saving'[d].data = saving[d].data /\ saving'[d].alone = FALSE
    <3> HIDE <1>3 DEF SavesInv, Learn, disk
    <3>1. SavesTypeOK /\ "cache" # "nothing"
      BY DEF SavesInv
    <3> QED BY <3>1, <2>1, <2>2, <2>2a, EditShape
  <2>4. UNCHANGED <<disk, behind>>
    BY <2>2 DEF Edit
  <2>5. SavesTypeOK'
    BY <2>0, <2>3, <2>4 DEF SavesTypeOK
  <2>6. Held' /\ SavesAsked' /\ SavedIsCoherent' /\ PresetsWereAsked'
    BY <2>0, <2>3, <2>4 DEF SavesTypeOK, Held, SavesAsked, SavedIsCoherent, PresetsWereAsked
  <2>7. AloneIsCurrent' /\ FilesAreCurrent'
    BY <2>0, <2>3, <2>4 DEF SavesTypeOK, AloneIsCurrent, FilesAreCurrent, InFlight
  <2> QED BY <2>5, <2>6, <2>7
<1>4. ASSUME NEW c \in Callers, Save(c) PROVE SavesInv'
  <2> USE <1>4 DEF Save, SaveTo
  <2>0. saving' = [saving EXCEPT ![c] = Quiet] /\ Load(file') = Load(saving[c].data)
    OBVIOUS
  <2>1. Load(file') \in Prefs
    BY <2>0, LoadSaved DEF SavesTypeOK, Pending, Quiet
  <2>2. SavesTypeOK'
    BY <2>0, <2>1 DEF SavesTypeOK, Pending
  <2>3. Held' /\ SavesAsked' /\ SavedIsCoherent' /\ PresetsWereAsked'
    BY <2>0 DEF SavesTypeOK, Quiet, Held, SavesAsked, SavedIsCoherent, PresetsWereAsked
  <2>4. AloneIsCurrent' /\ FilesAreCurrent'
    BY <2>0 DEF SavesTypeOK, Quiet, AloneIsCurrent, FilesAreCurrent, InFlight
  <2> QED BY <2>2, <2>3, <2>4
<1>5. ASSUME NEW c \in Callers, SaveCache(c) PROVE SavesInv'
  <2> USE <1>5 DEF SaveCache, SaveTo
  <2>0. saving' = [saving EXCEPT ![c] = Quiet] /\ cacheFile' = saving[c].data
    OBVIOUS
  <2>1. cacheFile' \in Caches
    BY <2>0 DEF SavesTypeOK, Pending, Quiet
  <2>2. SavesTypeOK'
    BY <2>0, <2>1 DEF SavesTypeOK, Pending
  <2>3. Held' /\ SavesAsked' /\ SavedIsCoherent' /\ PresetsWereAsked'
    BY <2>0 DEF SavesTypeOK, Quiet, Held, SavesAsked, SavedIsCoherent, PresetsWereAsked
  <2>4. AloneIsCurrent' /\ FilesAreCurrent'
    BY <2>0 DEF SavesTypeOK, Quiet, AloneIsCurrent, FilesAreCurrent, InFlight
  <2> QED BY <2>2, <2>3, <2>4
<1>6. ASSUME NEW c \in Callers, SaveFails(c) PROVE SavesInv'
  <2> USE <1>6 DEF SaveFails
  <2>1. SavesTypeOK'
    BY DEF SavesTypeOK, Pending
  <2>2. Held' /\ SavesAsked' /\ SavedIsCoherent' /\ PresetsWereAsked'
    BY DEF SavesTypeOK, Quiet, Held, SavesAsked, SavedIsCoherent, PresetsWereAsked
  <2>3. AloneIsCurrent' /\ FilesAreCurrent'
    BY DEF SavesTypeOK, Quiet, AloneIsCurrent, FilesAreCurrent, InFlight
  <2> QED BY <2>1, <2>2, <2>3
<1>7. CASE Restart
  <2> USE <1>7 DEF Restart
  <2>1. SavesTypeOK'
    BY DEF SavesTypeOK, Pending
  <2>2. Held' /\ SavesAsked' /\ SavedIsCoherent' /\ PresetsWereAsked'
    BY DEF SavesTypeOK, Quiet, Held, SavesAsked, SavedIsCoherent, PresetsWereAsked
  <2>3. AloneIsCurrent' /\ FilesAreCurrent'
    BY DEF SavesTypeOK, Quiet, AloneIsCurrent, FilesAreCurrent, InFlight
  <2> QED BY <2>1, <2>2, <2>3
<1>8. CASE UNCHANGED savesVars
  BY <1>8 DEF savesVars, SavesTypeOK, Held, SavesAsked, SavedIsCoherent, PresetsWereAsked,
              AloneIsCurrent, FilesAreCurrent, InFlight
<1>9. ASSUME NEW c \in Callers, HandleSetProxyMode(c) \/ HandleSetPresets(c) \/ rememberLastConn(c)
      PROVE  \E new \in Prefs : Set(c, new)
  <2>1. ASSUME NEW m \in Modes, NEW p \in {1, 2} PROVE [prefs EXCEPT !.mode = m, !.port = p] \in Prefs
    BY DEF SavesTypeOK, Prefs
  <2>2. ASSUME NEW on \in BOOLEAN PROVE [prefs EXCEPT !.games = on] \in Prefs
    BY DEF SavesTypeOK, Prefs
  <2>3. [prefs EXCEPT !.last = "node"] \in Prefs
    BY DEF SavesTypeOK, Prefs
  <2> QED BY <1>9, <2>1, <2>2, <2>3 DEF HandleSetProxyMode, HandleSetPresets, rememberLastConn
<1> QED BY <1>1, <1>2, <1>3, <1>4, <1>5, <1>6, <1>7, <1>8, <1>9 DEF SavesNext

(***************************************************************************)
(* What the next start loads is a state the daemon had, the latest one     *)
(* when its saves got through, and no preset nobody asked for: for every   *)
(* number of callers and every order of their saves, failures and restarts *)
(* (persistSettings, fileSettings, fileLastGood, migrate).                 *)
(***************************************************************************)
THEOREM SavesAlwaysSurvive == SavesSpec => []SavesSurvive
<1>1. SavesInv => SavesSurvive
  BY DEF SavesInv, SavesSurvive, QuietDiskIsCurrent, FilesAreCurrent, InFlight
<1> QED BY <1>1, SavesInitInv, SavesStepInv, PTL DEF SavesSpec

-----------------------------------------------------------------------------
(* The rotated log: numbers, sums and the lines of files, first.           *)

-----------------------------------------------------------------------------
\* A set of numbers that is not empty has a least element.
LEMMA LeastNat ==
    ASSUME NEW S \in SUBSET Nat, S # {}
    PROVE  \E x \in S : \A y \in S : x <= y
<1>1. PICK x \in S : \A y \in S : ~(<<y, x>> \in OpToRel(<, Nat))
    BY NatLessThanWellFounded, WFMin
<1>2. ASSUME NEW y \in S PROVE x <= y
  <2>1. x \in Nat /\ y \in Nat /\ <<y, x>> \in Nat \X Nat /\ <<y, x>>[1] = y /\ <<y, x>>[2] = x
    OBVIOUS
  <2>2. y < x => <<y, x>> \in OpToRel(<, Nat)
    BY <2>1, Zenon DEF OpToRel
  <2>3. ~(y < x)
    BY <1>1, <2>2, Zenon
  <2> QED
    BY <2>1, <2>3
<1> QED
    BY <1>2

\* Induction over the numbers, for a set of them.
LEMMA Induct ==
    ASSUME NEW P \in SUBSET Nat, 0 \in P, \A n \in P : n + 1 \in P
    PROVE  P = Nat
<1>1. SUFFICES ASSUME Nat \ P # {} PROVE FALSE
    OBVIOUS
<1>2. PICK m \in Nat \ P : \A y \in Nat \ P : m <= y
    BY <1>1, LeastNat
<1>3. m # 0 /\ m - 1 \in Nat /\ ~(m <= m - 1) /\ m - 1 + 1 = m
    BY <1>2
<1>4. m - 1 \in P
    BY <1>2, <1>3
<1> QED
    BY <1>2, <1>3, <1>4


\* A sum, one weight at a time.
LEMMA SumFacts ==
    ASSUME NEW w
    PROVE  Sum(w, 0) = 0 /\ \A n \in Nat : Sum(w, n + 1) = Sum(w, n) + w[n + 1]
<1> DEFINE base == 0
           more(x, i) == x + w[i]
           Step(f, k) == [i \in 0..k |-> IF i = 0 THEN base ELSE more(f[i - 1], i)]
           P == {k \in Nat : \E f : f = Step(f, k)}
           at(k) == CHOOSE f : f = Step(f, k)
<1>1. ASSUME NEW k \in Nat PROVE Sum(w, k) = at(k)[k]
  BY DEF Sum
<1> HIDE DEF base, more
<1>2. 0 \in P
  <2>1. Step(Step(base, 0), 0) = Step(base, 0)
    OBVIOUS
  <2> QED
    BY <2>1
<1>3. ASSUME NEW k \in P PROVE k + 1 \in P
  <2>1. PICK f : f = Step(f, k)
    OBVIOUS
  <2> DEFINE g == Step(f, k + 1)
  <2>2. \A i \in 0..k : g[i] = f[i]
    BY <2>1
  <2>3. ASSUME NEW i \in 0..(k + 1) PROVE g[i] = Step(g, k + 1)[i]
    <3>1. i # 0 => g[i - 1] = f[i - 1] /\ g[i] = more(f[i - 1], i)
      BY <2>2
    <3> HIDE DEF g
    <3> QED
      BY <3>1 DEF g
  <2>4. g = Step(g, k + 1)
    BY <2>3
  <2> HIDE DEF g, Step
  <2> QED
    BY <2>4
<1>4. ASSUME NEW k \in Nat PROVE at(k) = Step(at(k), k)
  <2>1. P \in SUBSET Nat
    OBVIOUS
  <2> HIDE DEF P
  <2>2. P = Nat
    BY <1>2, <1>3, <2>1, Induct
  <2> HIDE DEF Step
  <2> QED
    BY <2>2 DEF P
<1> HIDE DEF P, at
<1>5. ASSUME NEW k \in Nat
      PROVE  at(k)[0] = base /\ \A i \in 1..k : at(k)[i] = more(at(k)[i - 1], i)
  BY <1>4
<1> HIDE DEF Step
<1>6. ASSUME NEW n \in Nat PROVE at(n + 1)[n] = at(n)[n]
  <2> DEFINE Q == {i \in Nat : i <= n => at(n + 1)[i] = at(n)[i]}
  <2>1. 0 \in Q
    BY <1>5
  <2>2. ASSUME NEW i \in Q, i + 1 <= n PROVE at(n + 1)[i + 1] = at(n)[i + 1]
    <3>1. i + 1 \in 1..n /\ i + 1 \in 1..(n + 1) /\ i + 1 - 1 = i /\ i <= n
      BY <2>2
    <3> QED
      BY <1>5, <3>1
  <2>3. Q \in SUBSET Nat /\ \A i \in Q : i + 1 \in Q
    BY <2>2
  <2> HIDE DEF Q
  <2>4. Q = Nat
    BY <2>1, <2>3, Induct
  <2> QED
    BY <2>4 DEF Q
<1>7. Sum(w, 0) = base /\ \A n \in Nat : Sum(w, n + 1) = more(Sum(w, n), n + 1)
  <2>1. ASSUME NEW n \in Nat PROVE Sum(w, n + 1) = more(Sum(w, n), n + 1)
    <3>1. n + 1 \in 1..(n + 1) /\ n + 1 - 1 = n
      OBVIOUS
    <3>2. at(n + 1)[n + 1] = more(at(n + 1)[n], n + 1)
      BY <1>5, <3>1
    <3> QED
      BY <1>1, <1>6, <3>2
  <2> QED
    BY <1>1, <1>5, <2>1
<1>8. ASSUME NEW n \in Nat PROVE more(Sum(w, n), n + 1) = Sum(w, n) + w[n + 1]
  <2>1. n + 1 - 1 = n
    OBVIOUS
  <2> QED
    BY <2>1 DEF more
<1> QED
  BY <1>7, <1>8 DEF base

\* The lines retained, one generation at a time.
LEMMA UpToFacts ==
    ASSUME NEW fs
    PROVE  UpTo(fs, 0) = << >> /\ \A n \in Nat : UpTo(fs, n + 1) = LinesOf(fs[n]) \o UpTo(fs, n)
<1> DEFINE base == << >>
           more(x, i) == LinesOf(fs[i - 1]) \o x
           Step(f, k) == [i \in 0..k |-> IF i = 0 THEN base ELSE more(f[i - 1], i)]
           P == {k \in Nat : \E f : f = Step(f, k)}
           at(k) == CHOOSE f : f = Step(f, k)
<1>1. ASSUME NEW k \in Nat PROVE UpTo(fs, k) = at(k)[k]
  BY DEF UpTo
<1> HIDE DEF base, more
<1>2. 0 \in P
  <2>1. Step(Step(base, 0), 0) = Step(base, 0)
    OBVIOUS
  <2> QED
    BY <2>1
<1>3. ASSUME NEW k \in P PROVE k + 1 \in P
  <2>1. PICK f : f = Step(f, k)
    OBVIOUS
  <2> DEFINE g == Step(f, k + 1)
  <2>2. \A i \in 0..k : g[i] = f[i]
    BY <2>1
  <2>3. ASSUME NEW i \in 0..(k + 1) PROVE g[i] = Step(g, k + 1)[i]
    <3>1. i # 0 => g[i - 1] = f[i - 1] /\ g[i] = more(f[i - 1], i)
      BY <2>2
    <3> HIDE DEF g
    <3> QED
      BY <3>1 DEF g
  <2>4. g = Step(g, k + 1)
    BY <2>3
  <2> HIDE DEF g, Step
  <2> QED
    BY <2>4
<1>4. ASSUME NEW k \in Nat PROVE at(k) = Step(at(k), k)
  <2>1. P \in SUBSET Nat
    OBVIOUS
  <2> HIDE DEF P
  <2>2. P = Nat
    BY <1>2, <1>3, <2>1, Induct
  <2> HIDE DEF Step
  <2> QED
    BY <2>2 DEF P
<1> HIDE DEF P, at
<1>5. ASSUME NEW k \in Nat
      PROVE  at(k)[0] = base /\ \A i \in 1..k : at(k)[i] = more(at(k)[i - 1], i)
  BY <1>4
<1> HIDE DEF Step
<1>6. ASSUME NEW n \in Nat PROVE at(n + 1)[n] = at(n)[n]
  <2> DEFINE Q == {i \in Nat : i <= n => at(n + 1)[i] = at(n)[i]}
  <2>1. 0 \in Q
    BY <1>5
  <2>2. ASSUME NEW i \in Q, i + 1 <= n PROVE at(n + 1)[i + 1] = at(n)[i + 1]
    <3>1. i + 1 \in 1..n /\ i + 1 \in 1..(n + 1) /\ i + 1 - 1 = i /\ i <= n
      BY <2>2
    <3> QED
      BY <1>5, <3>1
  <2>3. Q \in SUBSET Nat /\ \A i \in Q : i + 1 \in Q
    BY <2>2
  <2> HIDE DEF Q
  <2>4. Q = Nat
    BY <2>1, <2>3, Induct
  <2> QED
    BY <2>4 DEF Q
<1>7. UpTo(fs, 0) = base /\ \A n \in Nat : UpTo(fs, n + 1) = more(UpTo(fs, n), n + 1)
  <2>1. ASSUME NEW n \in Nat PROVE UpTo(fs, n + 1) = more(UpTo(fs, n), n + 1)
    <3>1. n + 1 \in 1..(n + 1) /\ n + 1 - 1 = n
      OBVIOUS
    <3>2. at(n + 1)[n + 1] = more(at(n + 1)[n], n + 1)
      BY <1>5, <3>1
    <3> QED
      BY <1>1, <1>6, <3>2
  <2> QED
    BY <1>1, <1>5, <2>1
<1>8. ASSUME NEW n \in Nat PROVE more(UpTo(fs, n), n + 1) = LinesOf(fs[n]) \o UpTo(fs, n)
  <2>1. n + 1 - 1 = n
    OBVIOUS
  <2> QED
    BY <2>1 DEF more
<1> QED
  BY <1>7, <1>8 DEF base

LEMMA SumAgrees ==
    ASSUME NEW w, NEW v, NEW n \in Nat, \A i \in 1..n : w[i] = v[i]
    PROVE  Sum(w, n) = Sum(v, n)
<1> DEFINE P == {k \in Nat : k <= n => Sum(w, k) = Sum(v, k)}
<1>1. 0 \in P
  BY SumFacts
<1>2. ASSUME NEW k \in P, k + 1 <= n PROVE Sum(w, k + 1) = Sum(v, k + 1)
  <2>1. k + 1 \in 1..n /\ k <= n
    BY <1>2
  <2> QED
    BY <2>1, SumFacts
<1>3. P \in SUBSET Nat /\ \A k \in P : k + 1 \in P
  BY <1>2
<1> HIDE DEF P
<1>4. P = Nat
  BY <1>1, <1>3, Induct
<1> QED
  BY <1>4 DEF P

LEMMA SumType ==
    ASSUME NEW w, NEW n \in Nat, \A i \in 1..n : w[i] \in Nat
    PROVE  Sum(w, n) \in Nat
<1> DEFINE P == {k \in Nat : k <= n => Sum(w, k) \in Nat}
<1>1. 0 \in P
  BY SumFacts
<1>2. ASSUME NEW k \in P, k + 1 <= n PROVE Sum(w, k + 1) \in Nat
  <2>1. k + 1 \in 1..n /\ k <= n
    BY <1>2
  <2> QED
    BY <2>1, SumFacts
<1>3. P \in SUBSET Nat /\ \A k \in P : k + 1 \in P
  BY <1>2
<1> HIDE DEF P
<1>4. P = Nat
  BY <1>1, <1>3, Induct
<1> QED
  BY <1>4 DEF P

LEMMA SumSplits ==
    ASSUME NEW w, NEW v, NEW n \in Nat, NEW m \in Nat,
           \A i \in 1..(n + m) : w[i] \in Nat, \A i \in 1..m : v[i] = w[n + i]
    PROVE  Sum(w, n + m) = Sum(w, n) + Sum(v, m)
<1> DEFINE P == {k \in Nat : k <= m => Sum(w, n + k) = Sum(w, n) + Sum(v, k)}
<1>1. Sum(w, n) \in Nat
  BY SumType
<1>2. 0 \in P
  BY <1>1, SumFacts
<1>3. ASSUME NEW k \in P, k + 1 <= m PROVE Sum(w, n + (k + 1)) = Sum(w, n) + Sum(v, k + 1)
  <2>1. k + 1 \in 1..m /\ k <= m /\ n + (k + 1) = (n + k) + 1 /\ n + k \in Nat
    BY <1>3
  <2>2. v[k + 1] = w[n + (k + 1)] /\ w[n + (k + 1)] \in Nat
    BY <2>1
  <2>3. \A i \in 1..k : v[i] \in Nat
    BY <2>1
  <2>4. Sum(v, k) \in Nat
    BY <2>3, SumType
  <2>5. Sum(w, n + (k + 1)) = Sum(w, n + k) + w[n + (k + 1)]
    BY <2>1, SumFacts
  <2>6. Sum(v, k + 1) = Sum(v, k) + v[k + 1]
    BY SumFacts
  <2> QED
    BY <1>1, <2>1, <2>2, <2>4, <2>5, <2>6
<1>4. P \in SUBSET Nat /\ \A k \in P : k + 1 \in P
  BY <1>3
<1> HIDE DEF P
<1>5. P = Nat
  BY <1>2, <1>4, Induct
<1> QED
  BY <1>5 DEF P

-----------------------------------------------------------------------------
Line == [n : Nat, size : Nat \ {0}]

LEMMA WeighType == ASSUME NEW ls \in Seq(Line) PROVE Weigh(ls) \in Nat
<1> DEFINE w == [i \in 1..Len(ls) |-> ls[i].size]
<1>1. Len(ls) \in Nat /\ \A i \in 1..Len(ls) : w[i] \in Nat
  <2>1. \A i \in 1..Len(ls) : ls[i] \in Line
    BY ElementOfSeq
  <2> QED
    BY <2>1, LenProperties DEF Line
<1> HIDE DEF w
<1>2. Sum(w, Len(ls)) \in Nat
  BY <1>1, SumType
<1> QED
  BY <1>2 DEF Weigh, w

LEMMA WeighConcat ==
    ASSUME NEW a \in Seq(Line), NEW b \in Seq(Line)
    PROVE  Weigh(a \o b) = Weigh(a) + Weigh(b)
<1> DEFINE s == a \o b
           w == [i \in 1..Len(s) |-> s[i].size]
           wa == [i \in 1..Len(a) |-> a[i].size]
           wb == [i \in 1..Len(b) |-> b[i].size]
<1>1. /\ s \in Seq(Line) /\ Len(s) = Len(a) + Len(b) /\ Len(a) \in Nat /\ Len(b) \in Nat
      /\ \A i \in 1..Len(s) : s[i] = IF i <= Len(a) THEN a[i] ELSE b[i - Len(a)]
  BY ConcatProperties, LenProperties
<1>2. \A i \in 1..Len(s) : s[i] \in Line
  BY <1>1, ElementOfSeq
<1> HIDE DEF s
<1>3. \A i \in 1..(Len(a) + Len(b)) : w[i] \in Nat
  BY <1>1, <1>2 DEF Line
<1>4. \A i \in 1..Len(a) : w[i] = wa[i]
  BY <1>1
<1>5. \A i \in 1..Len(b) : wb[i] = w[Len(a) + i]
  <2> TAKE i \in 1..Len(b)
  <2>1. Len(a) + i \in 1..Len(s) /\ ~(Len(a) + i <= Len(a)) /\ (Len(a) + i) - Len(a) = i
    BY <1>1
  <2>2. s[Len(a) + i] = b[i]
    BY <1>1, <2>1
  <2> QED
    BY <2>1, <2>2
<1>6. Weigh(s) = Sum(w, Len(s)) /\ Weigh(a) = Sum(wa, Len(a)) /\ Weigh(b) = Sum(wb, Len(b))
  BY DEF Weigh
<1> HIDE DEF w, wa, wb
<1>7. Sum(w, Len(a) + Len(b)) = Sum(w, Len(a)) + Sum(wb, Len(b))
  <2> DEFINE n == Len(a)
             m == Len(b)
  <2>1. n \in Nat /\ m \in Nat
    BY <1>1
  <2>2. \A i \in 1..(n + m) : w[i] \in Nat
    BY <1>3
  <2>3. \A i \in 1..m : wb[i] = w[n + i]
    BY <1>5
  <2> HIDE DEF n, m
  <2>4. Sum(w, n + m) = Sum(w, n) + Sum(wb, m)
    BY <2>1, <2>2, <2>3, SumSplits, SMTT(30)
  <2> QED
    BY <2>4 DEF n, m
<1>8. Sum(w, Len(a)) = Sum(wa, Len(a))
  BY <1>1, <1>4, SumAgrees
<1> QED
  BY <1>1, <1>6, <1>7, <1>8 DEF s

LEMMA WeighNone == Weigh(<< >>) = 0
  BY SumFacts, Len(<< >>) = 0 DEF Weigh

LEMMA WeighOne == ASSUME NEW l \in Line PROVE Weigh(<<l>>) = l.size
<1> DEFINE w == [i \in 1..1 |-> <<l>>[i].size]
<1>1. Weigh(<<l>>) = Sum(w, 1)
  BY Len(<<l>>) = 1 DEF Weigh
<1>2. w[1] = l.size
  OBVIOUS
<1> HIDE DEF w
<1>3. Sum(w, 0) = 0 /\ Sum(w, 0 + 1) = Sum(w, 0) + w[0 + 1]
  BY SumFacts
<1> QED
  BY <1>1, <1>2, <1>3 DEF Line

LEMMA WeighAppend ==
    ASSUME NEW ls \in Seq(Line), NEW l \in Line
    PROVE  Weigh(Append(ls, l)) = Weigh(ls) + l.size
<1>1. <<l>> \in Seq(Line) /\ Append(ls, l) = ls \o <<l>>
  BY AppendIsConcat
<1> QED
  BY <1>1, WeighConcat, WeighOne

\* Only an empty file weighs nothing.
LEMMA WeighSome ==
    ASSUME NEW ls \in Seq(Line), Weigh(ls) = 0 PROVE ls = << >>
<1>1. SUFFICES ASSUME ls # << >> PROVE FALSE
  OBVIOUS
<1>2. PICK f \in Seq(Line), l \in Line : ls = Append(f, l)
  BY <1>1, SequenceEmptyOrAppend
<1>3. Weigh(ls) = Weigh(f) + l.size /\ Weigh(f) \in Nat
  BY <1>2, WeighAppend, WeighType
<1> QED
  BY <1>3 DEF Line

\* A part at the end weighs no more than the whole.
LEMMA WeighEnd ==
    ASSUME NEW a \in Seq(Line), NEW b \in Seq(Line)
    PROVE  Weigh(b) <= Weigh(a \o b) /\ Weigh(a) <= Weigh(a \o b)
  BY WeighConcat, WeighType

-----------------------------------------------------------------------------
Slots == Seq(Seq(Line))
Generations == [0..Top -> Slots]

LEMMA LinesOfType == ASSUME NEW f \in Slots PROVE LinesOf(f) \in Seq(Line)
<1>1. CASE f = Absent
  BY <1>1 DEF LinesOf
<1>2. CASE f # Absent
  <2>1. 1 \in 1..Len(f)
    BY <1>2, EmptySeq DEF Slots, Absent
  <2>2. f[1] \in Seq(Line)
    BY <2>1, ElementOfSeq DEF Slots
  <2> QED
    BY <1>2, <2>2 DEF LinesOf
<1> QED
  BY <1>1, <1>2

LEMMA LinesOfAbsent == LinesOf(Absent) = << >>
  BY DEF LinesOf

LEMMA UpToType ==
    ASSUME NEW fs \in Generations, NEW n \in 0..(Top + 1)
    PROVE  UpTo(fs, n) \in Seq(Line)
<1> DEFINE P == {k \in Nat : k <= n => UpTo(fs, k) \in Seq(Line)}
<1>1. 0 \in P
  <2>1. UpTo(fs, 0) = << >>
    BY UpToFacts
  <2>2. << >> \in Seq(Line)
    BY EmptySeq
  <2>3. UpTo(fs, 0) \in Seq(Line)
    BY <2>1, <2>2
  <2> QED
    BY <2>3
<1>2. ASSUME NEW k \in P, k + 1 <= n PROVE UpTo(fs, k + 1) \in Seq(Line)
  <2>1. k <= n /\ k \in 0..Top
    BY <1>2 DEF Top
  <2>2. fs[k] \in Slots
    BY <2>1 DEF Generations
  <2>3. LinesOf(fs[k]) \in Seq(Line) /\ UpTo(fs, k) \in Seq(Line)
    BY <2>1, <2>2, LinesOfType
  <2>4. LinesOf(fs[k]) \o UpTo(fs, k) \in Seq(Line)
    BY <2>3, ConcatProperties
  <2> QED
    BY <2>4, UpToFacts
<1>3. P \in SUBSET Nat /\ \A k \in P : k + 1 \in P
  BY <1>2
<1> HIDE DEF P
<1>4. P = Nat
  BY <1>1, <1>3, Induct
<1> QED
  BY <1>4 DEF P, Top

\* Generations whose files hold the same lines leave the rest the same.
LEMMA UpToAgrees ==
    ASSUME NEW fs, NEW gs, NEW n \in Nat, NEW k \in 0..n, UpTo(fs, k) = UpTo(gs, k),
           \A g \in k..(n - 1) : LinesOf(fs[g]) = LinesOf(gs[g])
    PROVE  UpTo(fs, n) = UpTo(gs, n)
<1> DEFINE P == {i \in Nat : k + i <= n => UpTo(fs, k + i) = UpTo(gs, k + i)}
<1>1. 0 \in P
  OBVIOUS
<1>2. ASSUME NEW i \in P, k + (i + 1) <= n PROVE UpTo(fs, k + (i + 1)) = UpTo(gs, k + (i + 1))
  <2>1. k + i <= n /\ k + i \in k..(n - 1) /\ k + i \in Nat /\ k + (i + 1) = (k + i) + 1
    BY <1>2
  <2>2. UpTo(fs, k + i) = UpTo(gs, k + i) /\ LinesOf(fs[k + i]) = LinesOf(gs[k + i])
    BY <2>1
  <2> QED
    BY <2>1, <2>2, UpToFacts
<1>3. P \in SUBSET Nat /\ \A i \in P : i + 1 \in P
  BY <1>2
<1> HIDE DEF P
<1>4. P = Nat
  BY <1>1, <1>3, Induct
<1>5. n - k \in Nat /\ k + (n - k) = n
  OBVIOUS
<1>6. n - k \in P
  BY <1>4, <1>5
<1> QED
  BY <1>5, <1>6 DEF P

\* Joining lines is associative.
LEMMA LinesJoin ==
    ASSUME NEW x \in Seq(Line), NEW y \in Seq(Line), NEW z \in Seq(Line)
    PROVE  (x \o y) \o z = x \o (y \o z)
<1> DEFINE S == Line
<1>1. x \in Seq(S) /\ y \in Seq(S) /\ z \in Seq(S)
  OBVIOUS
<1> HIDE DEF S
<1> QED
  BY <1>1, ConcatAssociative, SMTT(30)

\* The newer generations hold the end of what all of them hold.
LEMMA UpToEnds ==
    ASSUME NEW fs \in Generations, NEW n \in 0..(Top + 1), NEW k \in 0..n
    PROVE  \E x \in Seq(Line) : UpTo(fs, n) = x \o UpTo(fs, k)
<1> DEFINE E(i) == \E x \in Seq(Line) : UpTo(fs, k + i) = x \o UpTo(fs, k)
           P == {i \in Nat : k + i <= n => E(i)}
<1>0. UpTo(fs, k) \in Seq(Line)
  <2>1. k \in 0..(Top + 1)
    BY DEF Top
  <2> QED
    BY <2>1, UpToType
<1>1. 0 \in P
  <2>1. << >> \in Seq(Line) /\ UpTo(fs, k + 0) = << >> \o UpTo(fs, k)
    BY <1>0, ConcatEmptySeq
  <2> QED
    BY <2>1
<1>2. ASSUME NEW i \in P, k + (i + 1) <= n PROVE E(i + 1)
  <2>1. k + i <= n /\ k + i \in 0..Top /\ k + i \in Nat /\ k + (i + 1) = (k + i) + 1
    BY <1>2 DEF Top
  <2>2. PICK x \in Seq(Line) : UpTo(fs, k + i) = x \o UpTo(fs, k)
    BY <2>1
  <2>3. LinesOf(fs[k + i]) \in Seq(Line)
    BY <2>1, LinesOfType DEF Generations
  <2>4. UpTo(fs, k + (i + 1)) = LinesOf(fs[k + i]) \o (x \o UpTo(fs, k))
    BY <2>1, <2>2, UpToFacts
  <2>5. LinesOf(fs[k + i]) \o (x \o UpTo(fs, k)) = (LinesOf(fs[k + i]) \o x) \o UpTo(fs, k)
    BY <1>0, <2>3, LinesJoin
  <2>6. LinesOf(fs[k + i]) \o x \in Seq(Line)
    BY <2>3, ConcatProperties
  <2> QED
    BY <2>4, <2>5, <2>6
<1> HIDE DEF E
<1>3. P \in SUBSET Nat /\ \A i \in P : i + 1 \in P
  BY <1>2
<1> HIDE DEF P
<1>4. P = Nat
  BY <1>1, <1>3, Induct
<1>5. n - k \in Nat /\ k + (n - k) = n
  BY DEF Top
<1>6. n - k \in P
  BY <1>4, <1>5
<1>7. E(n - k)
  BY <1>5, <1>6 DEF P
<1> QED
  BY <1>5, <1>7 DEF E

\* Files that are not there or empty add nothing.
LEMMA UpToRest ==
    ASSUME NEW fs \in Generations, NEW n \in 0..(Top + 1), NEW k \in 0..n,
           \A g \in k..(n - 1) : LinesOf(fs[g]) = << >>
    PROVE  UpTo(fs, n) = UpTo(fs, k)
<1> DEFINE P == {i \in Nat : k + i <= n => UpTo(fs, k + i) = UpTo(fs, k)}
<1>0. UpTo(fs, k) \in Seq(Line)
  <2>1. k \in 0..(Top + 1)
    BY DEF Top
  <2> QED
    BY <2>1, UpToType
<1>1. 0 \in P
  OBVIOUS
<1>2. ASSUME NEW i \in P, k + (i + 1) <= n PROVE UpTo(fs, k + (i + 1)) = UpTo(fs, k)
  <2>1. k + i <= n /\ k + i \in k..(n - 1) /\ k + i \in Nat /\ k + (i + 1) = (k + i) + 1
    BY <1>2 DEF Top
  <2>2. UpTo(fs, k + (i + 1)) = << >> \o UpTo(fs, k)
    BY <2>1, UpToFacts
  <2> QED
    BY <1>0, <2>2, ConcatEmptySeq
<1>3. P \in SUBSET Nat /\ \A i \in P : i + 1 \in P
  BY <1>2
<1> HIDE DEF P
<1>4. P = Nat
  BY <1>1, <1>3, Induct
<1>5. n - k \in Nat /\ k + (n - k) = n
  BY DEF Top
<1>6. n - k \in P
  BY <1>4, <1>5
<1> QED
  BY <1>5, <1>6 DEF P

\* A file renamed to a free number leaves the lines and their order.
LEMMA UpToMove ==
    ASSUME NEW fs \in Generations, NEW g \in 0..(Top - 1), fs[g + 1] = Absent,
           NEW gs \in Generations, gs[g] = Absent, gs[g + 1] = fs[g],
           \A i \in 0..Top : i # g /\ i # g + 1 => gs[i] = fs[i]
    PROVE  UpTo(gs, Top + 1) = UpTo(fs, Top + 1)
<1>1. g + 1 \in 0..Top /\ g \in 0..Top /\ g \in Nat /\ g + 1 # g /\ Top + 1 \in Nat
      /\ (g + 1) + 1 \in 0..(Top + 1) /\ g \in 0..(Top + 1)
  BY DEF Top
<1>3. gs[g] = Absent /\ gs[g + 1] = fs[g]
      /\ \A i \in 0..Top : i # g /\ i # g + 1 => gs[i] = fs[i]
  OBVIOUS
<1>4. UpTo(gs, g) = UpTo(fs, g)
  <2>1. \A i \in 0..(g - 1) : LinesOf(gs[i]) = LinesOf(fs[i])
    <3>1. \A i \in 0..(g - 1) : i \in 0..Top /\ i # g /\ i # g + 1
      BY <1>1 DEF Top
    <3> QED
      BY <1>3, <3>1
  <2>2. UpTo(gs, 0) = UpTo(fs, 0) /\ 0 \in 0..g
    <3>1. UpTo(gs, 0) = << >> /\ UpTo(fs, 0) = << >>
      BY UpToFacts
    <3> QED
      BY <1>1, <3>1
  <2> QED
    BY <1>1, <2>1, <2>2, UpToAgrees
<1> DEFINE u == UpTo(fs, g)
           a == LinesOf(fs[g])
<1>5. u \in Seq(Line) /\ a \in Seq(Line)
  BY <1>1, UpToType, LinesOfType DEF Generations
<1>6. UpTo(fs, (g + 1) + 1) = << >> \o (a \o u)
  <2>1. g + 1 \in Nat /\ g \in Nat
    BY <1>1
  <2>2. UpTo(fs, (g + 1) + 1) = LinesOf(fs[g + 1]) \o UpTo(fs, g + 1) /\ UpTo(fs, g + 1) = a \o u
    BY <2>1, UpToFacts
  <2> QED
    BY <2>2, LinesOfAbsent
<1>7. UpTo(gs, (g + 1) + 1) = a \o (<< >> \o u)
  <2>1. g + 1 \in Nat /\ g \in Nat
    BY <1>1
  <2>2. /\ UpTo(gs, (g + 1) + 1) = LinesOf(gs[g + 1]) \o UpTo(gs, g + 1)
        /\ UpTo(gs, g + 1) = LinesOf(gs[g]) \o UpTo(gs, g)
    BY <2>1, UpToFacts
  <2> QED
    BY <1>3, <1>4, <2>2, LinesOfAbsent
<1>8. a \o u \in Seq(Line)
  BY <1>5, ConcatProperties
<1>9. UpTo(gs, (g + 1) + 1) = UpTo(fs, (g + 1) + 1)
  BY <1>5, <1>6, <1>7, <1>8, ConcatEmptySeq
<1>10. \A i \in ((g + 1) + 1)..((Top + 1) - 1) : LinesOf(gs[i]) = LinesOf(fs[i])
  <2>1. \A i \in ((g + 1) + 1)..((Top + 1) - 1) : i \in 0..Top /\ i # g /\ i # g + 1
    BY <1>1 DEF Top
  <2> QED
    BY <1>3, <2>1
<1>11. UpTo(gs, Top + 1) = UpTo(fs, Top + 1)
  <2> DEFINE k == (g + 1) + 1
             n == Top + 1
  <2>1. n \in Nat /\ k \in 0..n
    BY <1>1
  <2>2. UpTo(gs, k) = UpTo(fs, k) /\ \A i \in k..(n - 1) : LinesOf(gs[i]) = LinesOf(fs[i])
    BY <1>9, <1>10
  <2> HIDE DEF k, n
  <2>3. UpTo(gs, n) = UpTo(fs, n)
    BY <2>1, <2>2, UpToAgrees
  <2> QED
    BY <2>3 DEF n
<1> QED
  BY <1>11

\* A line written to the active file comes after all the others.
LEMMA UpToAppend ==
    ASSUME NEW fs \in Generations, NEW l \in Line,
           NEW gs \in Generations, LinesOf(gs[0]) = Append(LinesOf(fs[0]), l),
           \A i \in 1..Top : gs[i] = fs[i]
    PROVE  UpTo(gs, Top + 1) = Append(UpTo(fs, Top + 1), l)
<1>1. 0 \in 0..Top /\ fs[0] \in Slots
  BY DEF Top, Generations
<1>2. LinesOf(fs[0]) \in Seq(Line)
  BY <1>1, LinesOfType
<1> DEFINE b == Append(LinesOf(fs[0]), l)
<1>3. b \in Seq(Line)
  BY <1>2, AppendProperties
<1> HIDE DEF b
<1>5. LinesOf(gs[0]) = b /\ \A i \in 1..Top : gs[i] = fs[i]
  BY DEF b
<1> DEFINE E(i) == UpTo(gs, i + 1) = Append(UpTo(fs, i + 1), l)
           P == {i \in Nat : i <= Top => E(i)}
<1>6. 0 \in P
  <2>1. UpTo(fs, 0 + 1) = LinesOf(fs[0]) \o << >> /\ UpTo(gs, 0 + 1) = b \o << >>
    BY <1>5, UpToFacts
  <2>2. UpTo(fs, 0 + 1) = LinesOf(fs[0]) /\ UpTo(gs, 0 + 1) = b
    BY <1>2, <1>3, <2>1, ConcatEmptySeq
  <2> QED
    BY <2>2 DEF b
<1>7. ASSUME NEW i \in P, i + 1 <= Top PROVE E(i + 1)
  <2>1. i <= Top /\ i + 1 \in 1..Top /\ i + 1 \in 0..(Top + 1) /\ i + 1 \in 0..Top /\ i \in Nat
    BY <1>7, SMTT(30) DEF Top
  <2> DEFINE a == LinesOf(fs[i + 1])
             u == UpTo(fs, i + 1)
  <2>2. a \in Seq(Line) /\ u \in Seq(Line)
    BY <2>1, UpToType, LinesOfType DEF Generations
  <2>3. UpTo(gs, (i + 1) + 1) = a \o Append(u, l) /\ UpTo(fs, (i + 1) + 1) = a \o u
    <3>1. UpTo(gs, (i + 1) + 1) = LinesOf(gs[i + 1]) \o UpTo(gs, i + 1)
          /\ UpTo(fs, (i + 1) + 1) = a \o u
      <4> DEFINE j == i + 1
      <4>1. j \in Nat
        BY <2>1
      <4> HIDE DEF j
      <4>2. UpTo(gs, j + 1) = LinesOf(gs[j]) \o UpTo(gs, j)
            /\ UpTo(fs, j + 1) = LinesOf(fs[j]) \o UpTo(fs, j)
        BY <4>1, UpToFacts
      <4> QED
        BY <4>2 DEF j
    <3>2. gs[i + 1] = fs[i + 1] /\ UpTo(gs, i + 1) = Append(u, l)
      BY <1>5, <1>7, <2>1
    <3> QED
      BY <3>1, <3>2
  <2>4. <<l>> \in Seq(Line) /\ a \o u \in Seq(Line)
    BY <2>2, ConcatProperties
  <2> HIDE DEF a, u
  <2>5. Append(u, l) = u \o <<l>> /\ Append(a \o u, l) = (a \o u) \o <<l>>
    BY <2>2, <2>4, AppendIsConcat
  <2>6. (a \o u) \o <<l>> = a \o (u \o <<l>>)
    BY <2>2, <2>4, LinesJoin
  <2> QED
    BY <2>3, <2>5, <2>6
<1> HIDE DEF E
<1>8. P \in SUBSET Nat /\ \A i \in P : i + 1 \in P
  BY <1>7
<1> HIDE DEF P
<1>9. P = Nat
  BY <1>6, <1>8, Induct
<1>10. Top \in P
  BY <1>9 DEF Top
<1> QED
  BY <1>10 DEF P, E, Top

\* Lines that are the last of those written, in order and with no gap.
Contiguous(s, n) == \A i \in DOMAIN s : s[i].n = n - Len(s) + i

LEMMA ContiguousEnd ==
    ASSUME NEW x \in Seq(Line), NEW s \in Seq(Line), NEW n \in Nat, Contiguous(x \o s, n)
    PROVE  Contiguous(s, n)
<1>1. /\ x \o s \in Seq(Line) /\ Len(x \o s) = Len(x) + Len(s) /\ Len(x) \in Nat /\ Len(s) \in Nat
      /\ \A i \in 1..(Len(x) + Len(s)) : (x \o s)[i] = IF i <= Len(x) THEN x[i] ELSE s[i - Len(x)]
      /\ DOMAIN s = 1..Len(s) /\ DOMAIN (x \o s) = 1..(Len(x) + Len(s))
  BY ConcatProperties, LenProperties
<1>2. ASSUME NEW i \in DOMAIN s PROVE s[i].n = n - Len(s) + i
  <2>1. Len(x) + i \in 1..(Len(x) + Len(s)) /\ ~(Len(x) + i <= Len(x)) /\ (Len(x) + i) - Len(x) = i
    BY <1>1
  <2>2. (x \o s)[Len(x) + i] = s[i]
    BY <1>1, <2>1
  <2>3. s[i].n = n - (Len(x) + Len(s)) + (Len(x) + i)
    BY <1>1, <2>1, <2>2 DEF Contiguous
  <2> QED
    BY <1>1, <2>3
<1> QED
  BY <1>2 DEF Contiguous

LEMMA ContiguousAppend ==
    ASSUME NEW s \in Seq(Line), NEW n \in Nat, Contiguous(s, n), NEW l \in Line, l.n = n + 1
    PROVE  Contiguous(Append(s, l), n + 1)
<1> DEFINE t == Append(s, l)
<1>1. /\ Len(s) \in Nat /\ DOMAIN s = 1..Len(s) /\ Len(t) = Len(s) + 1
      /\ DOMAIN t = 1..(Len(s) + 1)
      /\ \A i \in 1..Len(s) : t[i] = s[i]
      /\ t[Len(s) + 1] = l
  BY AppendProperties, LenProperties
<1> HIDE DEF t
<1>2. ASSUME NEW i \in DOMAIN t PROVE t[i].n = (n + 1) - Len(t) + i
  BY <1>1 DEF Contiguous
<1> QED
  BY <1>2 DEF Contiguous, t

\* The lines of files of one line each, numbered backwards.
LEMMA ContiguousFront ==
    ASSUME NEW s \in Seq(Line), NEW n \in Nat, Contiguous(s, n), NEW l \in Line, l.n = n - Len(s)
    PROVE  Contiguous(<<l>> \o s, n)
<1> DEFINE t == <<l>> \o s
<1>1. /\ Len(s) \in Nat /\ DOMAIN s = 1..Len(s) /\ Len(t) = 1 + Len(s)
      /\ DOMAIN t = 1..(1 + Len(s))
      /\ \A i \in 1..(1 + Len(s)) : t[i] = IF i <= 1 THEN l ELSE s[i - 1]
  <2>1. <<l>> \in Seq(Line) /\ Len(<<l>>) = 1 /\ <<l>>[1] = l
    OBVIOUS
  <2>2. /\ t \in Seq(Line) /\ Len(t) = 1 + Len(s)
        /\ \A i \in 1..(1 + Len(s)) : t[i] = IF i <= 1 THEN <<l>>[i] ELSE s[i - 1]
    BY <2>1, ConcatProperties
  <2> HIDE DEF t
  <2> QED
    BY <2>1, <2>2, LenProperties
<1> HIDE DEF t
<1>2. ASSUME NEW i \in DOMAIN t PROVE t[i].n = n - Len(t) + i
  <2>1. i \in 1..(1 + Len(s)) /\ (i <= 1 => i = 1) /\ (~(i <= 1) => i - 1 \in 1..Len(s))
    BY <1>1
  <2>2. CASE i <= 1
    BY <1>1, <2>1, <2>2
  <2>3. CASE ~(i <= 1)
    <3>1. t[i] = s[i - 1] /\ s[i - 1].n = n - Len(s) + (i - 1)
      BY <1>1, <2>1, <2>3 DEF Contiguous
    <3> QED
      BY <1>1, <2>1, <3>1
  <2> QED
    BY <2>2, <2>3
<1> QED
  BY <1>2 DEF Contiguous, t

-----------------------------------------------------------------------------
(* The weight of the rotated files, and what prune leaves of them.         *)

LEMMA RotatedFacts ==
    ASSUME NEW fs
    PROVE  /\ Rotated(fs, 0) = 0
           /\ \A n \in Nat : Rotated(fs, n + 1) = Rotated(fs, n) + Weigh(LinesOf(fs[n + 1]))
<1> DEFINE w(n) == [g \in 1..n |-> Weigh(LinesOf(fs[g]))]
<1>1. \A n : Rotated(fs, n) = Sum(w(n), n)
  BY DEF Rotated
<1>2. Rotated(fs, 0) = 0
  BY <1>1, SumFacts
<1>3. ASSUME NEW n \in Nat PROVE Rotated(fs, n + 1) = Rotated(fs, n) + Weigh(LinesOf(fs[n + 1]))
  <2>1. w(n + 1)[n + 1] = Weigh(LinesOf(fs[n + 1])) /\ \A i \in 1..n : w(n + 1)[i] = w(n)[i]
    OBVIOUS
  <2> DEFINE a == w(n + 1)
             b == w(n)
  <2> HIDE DEF w, a, b
  <2>2. Sum(a, n + 1) = Sum(a, n) + a[n + 1]
    BY SumFacts
  <2>3. \A i \in 1..n : a[i] = b[i]
    BY <2>1 DEF a, b
  <2>4. Sum(a, n) = Sum(b, n)
    BY <2>3, SumAgrees
  <2>5. Rotated(fs, n + 1) = Sum(a, n + 1) /\ Rotated(fs, n) = Sum(b, n)
    BY <1>1 DEF a, b
  <2> QED
    BY <2>1, <2>2, <2>4, <2>5 DEF a
<1> QED
  BY <1>2, <1>3

LEMMA RotatedType ==
    ASSUME NEW fs \in Generations, NEW n \in 0..Top
    PROVE  Rotated(fs, n) \in Nat
<1> DEFINE w == [g \in 1..n |-> Weigh(LinesOf(fs[g]))]
<1>1. ASSUME NEW g \in 1..n PROVE w[g] \in Nat
  <2>1. fs[g] \in Slots
    BY DEF Generations, Top
  <2> QED
    BY <2>1, LinesOfType, WeighType
<1>2. n \in Nat
  BY DEF Top
<1> HIDE DEF w
<1>3. Sum(w, n) \in Nat
  BY <1>1, <1>2, SumType
<1> QED
  BY <1>3 DEF w, Rotated

LEMMA RotatedAgrees ==
    ASSUME NEW fs, NEW gs, NEW n \in Nat, \A g \in 1..n : LinesOf(fs[g]) = LinesOf(gs[g])
    PROVE  Rotated(fs, n) = Rotated(gs, n)
<1> DEFINE v == [g \in 1..n |-> Weigh(LinesOf(fs[g]))]
           w == [g \in 1..n |-> Weigh(LinesOf(gs[g]))]
<1>1. \A g \in 1..n : v[g] = w[g]
  OBVIOUS
<1> HIDE DEF v, w
<1>2. Sum(v, n) = Sum(w, n)
  BY <1>1, SumAgrees
<1> QED
  BY <1>2 DEF v, w, Rotated

LEMMA RotatedRest ==
    ASSUME NEW fs \in Generations, NEW n \in 0..Top, NEW k \in 0..n,
           \A g \in (k + 1)..n : LinesOf(fs[g]) = << >>
    PROVE  Rotated(fs, n) = Rotated(fs, k)
<1> DEFINE E(i) == Rotated(fs, k + i) = Rotated(fs, k)
           P == {i \in Nat : k + i <= n => E(i)}
<1>0. k \in Nat /\ n \in Nat /\ Rotated(fs, k) \in Nat
  <2>1. k \in 0..Top /\ k \in Nat /\ n \in Nat
    BY DEF Top
  <2>2. Rotated(fs, k) \in Nat
    BY <2>1, RotatedType
  <2> QED
    BY <2>1, <2>2
<1>1. 0 \in P
  BY <1>0
<1>2. ASSUME NEW i \in P, k + (i + 1) <= n PROVE E(i + 1)
  <2>1. k + i <= n /\ (k + i) + 1 \in (k + 1)..n /\ k + i \in Nat /\ k + (i + 1) = (k + i) + 1
    BY <1>0, <1>2
  <2>2. Rotated(fs, (k + i) + 1) = Rotated(fs, k + i) + Weigh(LinesOf(fs[(k + i) + 1]))
    BY <2>1, RotatedFacts
  <2>3. Weigh(LinesOf(fs[(k + i) + 1])) = 0
    BY <2>1, WeighNone
  <2>4. E(i)
    BY <2>1
  <2> QED
    BY <1>0, <2>1, <2>2, <2>3, <2>4
<1> HIDE DEF E
<1>3. P \in SUBSET Nat /\ \A i \in P : i + 1 \in P
  BY <1>2
<1> HIDE DEF P
<1>4. P = Nat
  BY <1>1, <1>3, Induct
<1>5. n - k \in Nat /\ k + (n - k) = n
  BY <1>0
<1>6. E(n - k)
  BY <1>4, <1>5 DEF P
<1> QED
  BY <1>5, <1>6 DEF E

LEMMA WeighUpTo ==
    ASSUME NEW fs \in Generations, NEW n \in 0..Top
    PROVE  Weigh(UpTo(fs, n + 1)) = Weigh(LinesOf(fs[0])) + Rotated(fs, n)
<1> DEFINE E(i) == Weigh(UpTo(fs, i + 1)) = Weigh(LinesOf(fs[0])) + Rotated(fs, i)
           P == {i \in Nat : i <= n => E(i)}
<1>0. fs[0] \in Slots /\ n \in Nat
  BY DEF Generations, Top
<1>1. LinesOf(fs[0]) \in Seq(Line) /\ Weigh(LinesOf(fs[0])) \in Nat
  BY <1>0, LinesOfType, WeighType
<1>2. 0 \in P
  <2>1. UpTo(fs, 0 + 1) = LinesOf(fs[0]) \o UpTo(fs, 0) /\ UpTo(fs, 0) = << >>
    BY UpToFacts
  <2>2. UpTo(fs, 0 + 1) = LinesOf(fs[0])
    BY <1>1, <2>1, ConcatEmptySeq
  <2>3. Rotated(fs, 0) = 0
    BY RotatedFacts
  <2>4. E(0)
    BY <1>1, <2>2, <2>3
  <2> QED
    BY <2>4
<1>3. ASSUME NEW i \in P, i + 1 <= n PROVE E(i + 1)
  <2> DEFINE j == i + 1
  <2>1. i \in Nat /\ i <= n /\ j \in Nat /\ j \in 0..Top /\ j \in 0..(Top + 1) /\ i \in 0..Top
    BY <1>0, <1>3 DEF Top
  <2>2. Rotated(fs, j) = Rotated(fs, i) + Weigh(LinesOf(fs[j])) /\ Rotated(fs, i) \in Nat
    BY <2>1, RotatedFacts, RotatedType
  <2>3. E(i)
    BY <2>1
  <2> HIDE DEF j
  <2>4. UpTo(fs, j + 1) = LinesOf(fs[j]) \o UpTo(fs, j)
    BY <2>1, UpToFacts
  <2>5. fs[j] \in Slots
    BY <2>1 DEF Generations
  <2>6. LinesOf(fs[j]) \in Seq(Line) /\ UpTo(fs, j) \in Seq(Line)
    BY <2>1, <2>5, LinesOfType, UpToType
  <2>7. Weigh(UpTo(fs, j + 1)) = Weigh(LinesOf(fs[j])) + Weigh(UpTo(fs, j))
        /\ Weigh(LinesOf(fs[j])) \in Nat
    BY <2>4, <2>6, WeighConcat, WeighType
  <2>8. Weigh(UpTo(fs, j)) = Weigh(LinesOf(fs[0])) + Rotated(fs, i)
    BY <2>3 DEF j
  <2>9. E(j)
    BY <1>1, <2>2, <2>7, <2>8
  <2> QED
    BY <2>9 DEF j
<1> HIDE DEF E
<1>4. P \in SUBSET Nat /\ \A i \in P : i + 1 \in P
  BY <1>3
<1> HIDE DEF P
<1>5. P = Nat
  BY <1>2, <1>4, Induct
<1>6. E(n)
  BY <1>0, <1>5 DEF P
<1> QED
  BY <1>6 DEF E

\* The files without the generations after the k-th.
Cut(fs, k) == [g \in 0..Top |-> IF g > k THEN Absent ELSE fs[g]]

LEMMA CutType ==
    ASSUME NEW fs \in Generations, NEW k \in 0..Top
    PROVE  Cut(fs, k) \in Generations
<1>1. Absent \in Slots
  BY EmptySeq DEF Absent, Slots
<1> QED
  BY <1>1 DEF Cut, Generations

\* prune, one generation at a time from the oldest.
Kept(fs, limit) == [g \in 0..Top |-> IF g > limit /\ g \notin held THEN Absent ELSE fs[g]]
Room(fs) == budget(Weigh(LinesOf(fs[0])))
Dropped(f, fs, limit, g) == IF Rotated(f, limit) > Room(fs) /\ g \notin held
                            THEN [f EXCEPT ![g] = Absent] ELSE f

LEMMA PruneSteps ==
    ASSUME NEW fs, NEW limit \in 0..Top
    PROVE  \E left : /\ prune(fs, limit) = left[limit] /\ left[0] = Kept(fs, limit)
                     /\ \A i \in 1..limit :
                           left[i] = Dropped(left[i - 1], fs, limit, oldestFirst(limit, i))
<1> DEFINE kept == [g \in 0..Top |-> IF g > limit /\ g \notin held THEN Absent ELSE fs[g]]
           room == budget(Weigh(LinesOf(fs[0])))
           drop(f, g) == IF Rotated(f, limit) > room /\ g \notin held
                         THEN [f EXCEPT ![g] = Absent] ELSE f
           more(x, i) == drop(x, oldestFirst(limit, i))
           Step(f, k) == [i \in 0..k |-> IF i = 0 THEN kept ELSE more(f[i - 1], i)]
           P == {k \in Nat : \E f : f = Step(f, k)}
           left == CHOOSE f : f = Step(f, limit)
<1>0. limit \in Nat /\ limit <= Top
  BY DEF Top
<1>1. prune(fs, limit) = left[limit]
  BY DEF prune
<1>2. kept = Kept(fs, limit) /\ \A x, i : more(x, i) = Dropped(x, fs, limit, oldestFirst(limit, i))
  BY DEF Kept, Dropped, Room
<1> HIDE DEF kept, more
<1>3. 0 \in P
  <2>1. Step(Step(kept, 0), 0) = Step(kept, 0)
    OBVIOUS
  <2> QED
    BY <2>1
<1>4. ASSUME NEW k \in P PROVE k + 1 \in P
  <2>1. PICK f : f = Step(f, k)
    OBVIOUS
  <2> DEFINE g == Step(f, k + 1)
  <2>2. \A i \in 0..k : g[i] = f[i]
    BY <2>1
  <2>3. ASSUME NEW i \in 0..(k + 1) PROVE g[i] = Step(g, k + 1)[i]
    <3>1. ASSUME i # 0 PROVE g[i - 1] = f[i - 1] /\ g[i] = more(f[i - 1], i)
      <4>1. i - 1 \in 0..k
        BY <3>1
      <4> QED
        BY <2>2, <3>1, <4>1
    <3> HIDE DEF g
    <3> QED
      BY <3>1 DEF g
  <2>4. g = Step(g, k + 1)
    BY <2>3
  <2> HIDE DEF g, Step
  <2> QED
    BY <2>4
<1>5. left = Step(left, limit)
  <2>1. P \in SUBSET Nat
    OBVIOUS
  <2> HIDE DEF P
  <2>2. P = Nat
    BY <1>3, <1>4, <2>1, Induct
  <2> HIDE DEF Step
  <2> QED
    BY <1>0, <2>2 DEF P
<1> HIDE DEF P, left
<1>6. left[0] = kept /\ \A i \in 1..limit : left[i] = more(left[i - 1], i)
  BY <1>0, <1>5
<1> QED
  BY <1>1, <1>2, <1>6, Zenon

\* What prune leaves of the files: some of them, the active one among them.
LEMMA PruneThins ==
    ASSUME NEW fs \in Generations, NEW limit \in 0..Top
    PROVE  /\ prune(fs, limit) \in Generations /\ prune(fs, limit)[0] = fs[0]
           /\ \A g \in 0..Top : prune(fs, limit)[g] \in {fs[g], Absent}
<1>0. limit \in Nat /\ limit <= Top
  BY DEF Top
<1>1. PICK left :
        /\ prune(fs, limit) = left[limit] /\ left[0] = Kept(fs, limit)
        /\ \A i \in 1..limit : left[i] = Dropped(left[i - 1], fs, limit, oldestFirst(limit, i))
  BY PruneSteps
<1>2. Absent \in Slots
  BY EmptySeq DEF Absent, Slots
<1> DEFINE E(j) == /\ left[j] \in Generations /\ left[j][0] = fs[0]
                   /\ \A g \in 0..Top : left[j][g] \in {fs[g], Absent}
           Q == {j \in Nat : j <= limit => E(j)}
<1>3. 0 \in Q
  <2>1. 0 \in 0..Top /\ ~(0 > limit)
    BY <1>0 DEF Top
  <2>2. Kept(fs, limit) \in Generations
    BY <1>2 DEF Kept, Generations
  <2>3. E(0)
    BY <1>1, <2>1, <2>2 DEF Kept
  <2> HIDE DEF E
  <2> QED
    BY <2>3
<1>4. ASSUME NEW j \in Q, j + 1 <= limit PROVE E(j + 1)
  <2>1. j \in Nat /\ j + 1 \in 1..limit /\ (j + 1) - 1 = j /\ E(j)
    BY <1>0, <1>4
  <2> DEFINE g == oldestFirst(limit, j + 1)
             f == left[j]
  <2>2. g \in 0..Top /\ g # 0
    BY <1>0, <2>1 DEF oldestFirst, Top
  <2> HIDE DEF g
  <2>3. left[j + 1] = Dropped(f, fs, limit, g)
    BY <1>1, <2>1 DEF g
  <2>4. f \in Generations /\ f[0] = fs[0] /\ \A h \in 0..Top : f[h] \in {fs[h], Absent}
    BY <2>1
  <2> HIDE DEF E, f
  <2>5. Dropped(f, fs, limit, g) = f \/ Dropped(f, fs, limit, g) = [f EXCEPT ![g] = Absent]
    BY DEF Dropped
  <2>6. /\ [f EXCEPT ![g] = Absent] \in Generations /\ [f EXCEPT ![g] = Absent][0] = fs[0]
        /\ \A h \in 0..Top : [f EXCEPT ![g] = Absent][h] \in {fs[h], Absent}
    <3>1. 0 \in 0..Top
      BY DEF Top
    <3> QED
      BY <1>2, <2>2, <2>4, <3>1 DEF Generations
  <2> QED
    BY <2>3, <2>4, <2>5, <2>6 DEF E
<1> HIDE DEF E
<1>5. Q \in SUBSET Nat /\ \A j \in Q : j + 1 \in Q
  BY <1>4
<1> HIDE DEF Q
<1>6. Q = Nat
  BY <1>3, <1>5, Induct
<1>7. E(limit)
  BY <1>0, <1>6 DEF Q
<1> QED
  BY <1>1, <1>7 DEF E

\* Unless a held generation is in its way, prune cuts the old end off, and what
\* it leaves has room.
LEMMA PruneCuts ==
    ASSUME NEW fs \in Generations, NEW limit \in 0..Top, ~Obstructs(fs, limit), held \subseteq 0..Top
    PROVE  \E k \in 0..limit : /\ prune(fs, limit) = Cut(fs, k)
                               /\ Rotated(Cut(fs, k), limit) <= budget(Weigh(LinesOf(fs[0])))
<1> DEFINE room == Room(fs)
<1>0. limit \in Nat /\ limit <= Top
  BY DEF Top
<1>1. PICK left :
        /\ prune(fs, limit) = left[limit] /\ left[0] = Kept(fs, limit)
        /\ \A i \in 1..limit : left[i] = Dropped(left[i - 1], fs, limit, oldestFirst(limit, i))
  BY PruneSteps
<1>2. Kept(fs, limit) = Cut(fs, limit)
  <2>1. \A g \in 0..Top : g > limit /\ g \in held => fs[g] = Absent
    BY <1>0 DEF Obstructs
  <2> QED
    BY <2>1 DEF Cut, Kept
<1>6. left[0] = Cut(fs, limit)
      /\ \A i \in 1..limit : left[i] = Dropped(left[i - 1], fs, limit, oldestFirst(limit, i))
  BY <1>1, <1>2
<1>20. CASE Rotated(fs, limit) <= room
  <2> DEFINE c == Cut(fs, limit)
             Q == {j \in Nat : j <= limit => left[j] = c}
  <2>1. Rotated(c, limit) = Rotated(fs, limit)
    <3>1. \A g \in 1..limit : g \in 0..Top /\ ~(g > limit)
      BY <1>0 DEF Top
    <3>2. \A g \in 1..limit : LinesOf(c[g]) = LinesOf(fs[g])
      BY <3>1 DEF Cut
    <3> HIDE DEF c
    <3> QED
      BY <1>0, <3>2, RotatedAgrees
  <2>2. ~(Rotated(c, limit) > room) /\ Rotated(c, limit) <= room
    <3>1. fs[0] \in Slots
      BY DEF Generations, Top
    <3>2. Weigh(LinesOf(fs[0])) \in Nat
      BY <3>1, LinesOfType, WeighType
    <3>3. room \in Nat /\ Rotated(fs, limit) \in Nat
      BY <3>2, RotatedType, LogAssumption DEF budget, Room
    <3> HIDE DEF c, room
    <3> QED
      BY <1>20, <2>1, <3>3
  <2> HIDE DEF c
  <2>3. 0 \in Q
    BY <1>6 DEF c
  <2>4. ASSUME NEW j \in Q, j + 1 <= limit PROVE left[j + 1] = c
    <3>1. j + 1 \in 1..limit /\ (j + 1) - 1 = j /\ left[j] = c
      BY <1>0, <2>4
    <3> QED
      BY <1>6, <2>2, <3>1 DEF Dropped
  <2>5. Q \in SUBSET Nat /\ \A j \in Q : j + 1 \in Q
    BY <2>4
  <2> HIDE DEF Q
  <2>6. Q = Nat
    BY <2>3, <2>5, Induct
  <2>7. left[limit] = c
    BY <1>0, <2>6 DEF Q
  <2>8. limit \in 0..limit
    BY <1>0
  <2> QED
    BY <1>1, <2>2, <2>7, <2>8 DEF c, Room
<1>21. CASE ~(Rotated(fs, limit) <= room)
  <2> DEFINE E(j) == \E k \in (limit - j)..limit :
                        left[j] = Cut(fs, k) /\ (k = limit - j \/ Rotated(Cut(fs, k), limit) <= room)
             Q == {j \in Nat : j <= limit => E(j)}
  <2>7. 0 \in Q
    <3>1. left[0] = Cut(fs, limit) /\ limit \in (limit - 0)..limit /\ limit = limit - 0
      BY <1>0, <1>2, <1>6
    <3>2. E(0)
      BY <3>1
    <3> HIDE DEF E
    <3> QED
      BY <3>2
  <2>8. room \in Nat
    <3>1. fs[0] \in Slots
      BY DEF Generations, Top
    <3>2. Weigh(LinesOf(fs[0])) \in Nat
      BY <3>1, LinesOfType, WeighType
    <3> QED
      BY <3>2, LogAssumption DEF budget, Room
  <2>16. \A g \in held : g >= 1 => fs[g] = Absent
    <3>1. Rotated(fs, limit) > room
      BY <1>21, <2>8, RotatedType
    <3> QED
      BY <3>1 DEF Obstructs, Room
  <2> HIDE DEF room
  <2>9. ASSUME NEW j \in Q, j + 1 <= limit PROVE E(j + 1)
    <3>1. j \in Nat /\ j <= limit /\ j + 1 \in 1..limit /\ (j + 1) - 1 = j
      BY <1>0, <2>9
    <3> DEFINE g == limit - j
    <3>2. g \in 1..limit /\ g \in 0..Top /\ g - 1 \in 0..Top /\ oldestFirst(limit, j + 1) = g
          /\ limit - (j + 1) = g - 1 /\ (g \in held => fs[g] = Absent)
      <4>1. g \in 1..limit /\ limit - (j + 1) = g - 1 /\ limit + 1 - (j + 1) = g
        BY <1>0, <3>1
      <4>2. g \in 0..Top /\ g - 1 \in 0..Top
        BY <1>0, <4>1 DEF Top
      <4> HIDE DEF g
      <4>3. g \in held => fs[g] = Absent
        BY <2>16, <4>1
      <4> QED
        BY <4>1, <4>2, <4>3 DEF oldestFirst
    <3>3. PICK k \in g..limit : left[j] = Cut(fs, k) /\ (k = g \/ Rotated(Cut(fs, k), limit) <= room)
      BY <3>1
    <3>4. left[j + 1] = IF Rotated(left[j], limit) > room /\ g \notin held
                        THEN [left[j] EXCEPT ![g] = Absent] ELSE left[j]
      BY <1>6, <3>1, <3>2 DEF Dropped, room
    <3>5. Rotated(Cut(fs, k), limit) \in Nat
      <4>1. k \in 0..Top /\ limit \in 0..Top
        BY <1>0, <3>2, <3>3 DEF Top
      <4> QED
        BY <4>1, CutType, RotatedType
    <3>6. CASE Rotated(left[j], limit) > room
      <4>1. k = g
        BY <2>8, <3>3, <3>5, <3>6
      <4>2. left[j + 1] = IF g \notin held THEN [Cut(fs, g) EXCEPT ![g] = Absent] ELSE Cut(fs, g)
        BY <3>3, <3>4, <3>6, <4>1
      <4>5. g \in held => Cut(fs, g) = Cut(fs, g - 1)
        <5> HIDE DEF g
        <5>1. ASSUME g \in held, NEW i \in 0..Top PROVE (IF i > g THEN Absent ELSE fs[i]) = IF i > g - 1 THEN Absent ELSE fs[i]
          BY <3>2, <5>1 DEF Top
        <5> QED
          BY <5>1 DEF Cut
      <4>3. [Cut(fs, g) EXCEPT ![g] = Absent] = Cut(fs, g - 1)
        <5> HIDE DEF g
        <5>1. Cut(fs, g)[g] = fs[g] /\ DOMAIN Cut(fs, g) = 0..Top
          BY <3>2 DEF Cut
        <5>2. \A i \in 0..Top : [Cut(fs, g) EXCEPT ![g] = Absent][i] = Cut(fs, g - 1)[i]
          BY <3>2 DEF Cut, Top
        <5> QED
          BY <5>1, <5>2 DEF Cut
      <4>4. g - 1 \in (limit - (j + 1))..limit
        BY <3>2
      <4> QED
        BY <3>2, <4>2, <4>3, <4>4, <4>5
    <3>7. CASE ~(Rotated(left[j], limit) > room)
      <4>1. left[j + 1] = Cut(fs, k)
        BY <3>3, <3>4, <3>7
      <4>2. Rotated(Cut(fs, k), limit) <= room
        BY <2>8, <3>3, <3>5, <3>7
      <4>3. k \in (limit - (j + 1))..limit
        BY <3>2, <3>3
      <4> QED
        BY <4>1, <4>2, <4>3
    <3> QED
      BY <3>6, <3>7
  <2> HIDE DEF E
  <2>10. Q \in SUBSET Nat /\ \A j \in Q : j + 1 \in Q
    BY <2>9
  <2> HIDE DEF Q
  <2>11. Q = Nat
    BY <2>7, <2>10, Induct
  <2>12. E(limit)
    BY <1>0, <2>11 DEF Q
  <2>13. PICK k \in 0..limit : /\ left[limit] = Cut(fs, k)
                               /\ k = 0 \/ Rotated(Cut(fs, k), limit) <= room
    BY <1>0, <2>12 DEF E
  <2>14. CASE k = 0
    <3> DEFINE c == Cut(fs, 0)
    <3>1. c \in Generations
      BY CutType, 0 \in 0..Top DEF Top
    <3>2. \A i \in (0 + 1)..limit : LinesOf(c[i]) = << >>
      <4>1. \A i \in (0 + 1)..limit : i \in 0..Top /\ i > 0
        BY <1>0 DEF Top
      <4>2. \A i \in (0 + 1)..limit : c[i] = Absent
        BY <4>1 DEF Cut
      <4> QED
        BY <4>2, LinesOfAbsent
    <3> HIDE DEF c
    <3>3. Rotated(c, limit) = Rotated(c, 0) /\ Rotated(c, 0) = 0
      BY <1>0, <3>1, <3>2, RotatedRest, RotatedFacts
    <3>4. Rotated(Cut(fs, k), limit) <= room
      BY <2>8, <2>14, <3>3 DEF c
    <3> QED
      BY <1>1, <2>13, <3>4 DEF room, Room
  <2>15. CASE k # 0
    BY <1>1, <2>13, <2>15 DEF room, Room
  <2> QED
    BY <2>14, <2>15
<1> QED
  BY <1>20, <1>21

\* What is cut off is the old end.
LEMMA CutKeepsTheEnd ==
    ASSUME NEW fs \in Generations, NEW k \in 0..Top, NEW n \in Nat,
           Contiguous(UpTo(fs, Top + 1), n)
    PROVE  Contiguous(UpTo(Cut(fs, k), Top + 1), n)
<1> DEFINE c == Cut(fs, k)
           m == Top + 1
           j == k + 1
<1>1. c \in Generations
  BY CutType
<1>2. m \in Nat /\ m \in 0..(Top + 1) /\ j \in 0..m /\ j \in 0..(Top + 1) /\ 0 \in 0..j /\ j \in Nat
  BY DEF Top
<1>3. \A g \in 0..(j - 1) : LinesOf(c[g]) = LinesOf(fs[g])
  <2>1. \A g \in 0..(j - 1) : g \in 0..Top /\ ~(g > k)
    BY DEF Top
  <2> QED
    BY <2>1 DEF Cut
<1>4. \A g \in j..(m - 1) : LinesOf(c[g]) = << >>
  <2>1. \A g \in j..(m - 1) : g \in 0..Top /\ g > k
    BY DEF Top
  <2>2. \A g \in j..(m - 1) : c[g] = Absent
    BY <2>1 DEF Cut
  <2> QED
    BY <2>2, LinesOfAbsent
<1> HIDE DEF c, m, j
<1>5. UpTo(c, 0) = UpTo(fs, 0)
  <2>1. UpTo(c, 0) = << >> /\ UpTo(fs, 0) = << >>
    BY UpToFacts
  <2> QED
    BY <2>1
<1>6. UpTo(c, j) = UpTo(fs, j)
  BY <1>2, <1>3, <1>5, UpToAgrees
<1>7. UpTo(c, m) = UpTo(c, j)
  BY <1>1, <1>2, <1>4, UpToRest
<1>8. PICK x \in Seq(Line) : UpTo(fs, m) = x \o UpTo(fs, j)
  BY <1>2, UpToEnds
<1>9. UpTo(fs, j) \in Seq(Line)
  BY <1>2, UpToType
<1>10. Contiguous(UpTo(fs, j), n)
  BY <1>8, <1>9, ContiguousEnd DEF m
<1> QED
  BY <1>6, <1>7, <1>10 DEF c, m

-----------------------------------------------------------------------------
(* The rotation.                                                           *)

LogSpec == LogInit /\ [][LogNext]_logVars

LogTypeOK ==
  /\ gens \in Generations /\ open \in BOOLEAN /\ MaxFiles \in FileLimits
  /\ pc \in [at : {"idle", "shift", "remove", "open", "reopen", "restart"}, i : Int, line : Nat]
  /\ retryAt \in Nat /\ written \in Nat /\ held \subseteq 0..Top
  /\ refused \in BOOLEAN /\ stuck \in BOOLEAN

\* How far a rotation got shows in the files.
RotationIsSeen ==
  /\ pc.at = "idle" => pc = Resting
  /\ open => pc = Resting /\ gens[0] # Absent
  /\ pc # Resting => pc.line \in Sizes
  /\ pc.at = "shift" => pc.i \in 0..(MaxFiles - 1) /\ (stuck \/ gens[pc.i + 1] = Absent)
  /\ pc.at \in {"remove", "restart"} => MaxFiles = 0
  /\ pc.at \in {"open", "restart"} => gens[0] = Absent
  /\ pc.at = "reopen" => refused

\* A writer that has been opened has pruned.
NoneTooOld == ~stuck /\ (open \/ pc # Resting) => \A g \in (MaxFiles + 1)..Top : gens[g] = Absent

\* The active file passes its size, and the others theirs, only after a refusal.
SizesAreKept ==
  /\ retryAt # 0 => refused
  /\ refused \/ size <= MaxSize \/ Len(Lines(0)) = 1
  /\ open /\ ~refused /\ ~stuck => Rotated(gens, MaxFiles) <= budget(0)

\* Nothing is missing before an older generation has been in the way.
NoGap == ~stuck => Contiguous(Retained, written)

\* The inductive invariant, but for the order of the lines.
LogInv == LogTypeOK /\ RotationIsSeen /\ NoneTooOld /\ SizesAreKept /\ NoGap

LEMMA Limits == FileLimits \subseteq 0..Top /\ 0 \in 0..Top /\ Sizes \subseteq Nat \ {0} /\ Sizes \subseteq Nat
  BY LogAssumption DEF Top

LEMMA LogInvType ==
    ASSUME LogInv
    PROVE  /\ gens \in Generations /\ \A g \in 0..Top : gens[g] \in Slots /\ Lines(g) \in Seq(Line)
           /\ MaxFiles \in 0..Top /\ written \in Nat /\ held \subseteq 0..Top /\ size \in Nat
           /\ Retained \in Seq(Line)
<1>1. gens \in Generations /\ MaxFiles \in 0..Top /\ written \in Nat /\ held \subseteq 0..Top
  BY Limits DEF LogInv, LogTypeOK
<1>2. \A g \in 0..Top : gens[g] \in Slots /\ Lines(g) \in Seq(Line)
  BY <1>1, LinesOfType DEF Generations, Lines
<1>3. size \in Nat
  BY <1>2, Limits, WeighType DEF size
<1>4. Retained \in Seq(Line)
  <2>1. Top + 1 \in 0..(Top + 1)
    BY DEF Top
  <2> QED
    BY <1>1, <2>1, UpToType DEF Retained
<1> QED
  BY <1>1, <1>2, <1>3, <1>4

\* An empty new file changes no line.
LEMMA CreatedIsEmpty ==
    ASSUME gens \in Generations
    PROVE  /\ Created \in Generations /\ Created[0] # Absent
           /\ LinesOf(Created[0]) = Lines(0)
           /\ \A g \in 1..Top : Created[g] = gens[g]
           /\ UpTo(Created, Top + 1) = Retained
<1>1. << << >> >> \in Slots /\ << << >> >> # Absent /\ LinesOf(<< << >> >>) = << >>
  <2>1. << >> \in Seq(Line)
    BY EmptySeq
  <2>2. << << >> >> \in Seq(Seq(Line)) /\ << << >> >> # << >> /\ << << >> >>[1] = << >>
    BY <2>1
  <2> QED
    BY <2>2 DEF Slots, Absent, LinesOf
<1>2. 0 \in 0..Top
  BY DEF Top
<1>3. Created \in Generations /\ Created[0] # Absent /\ LinesOf(Created[0]) = Lines(0)
  <2>1. CASE gens[0] = Absent
    <3>1. Created = [gens EXCEPT ![0] = << << >> >>]
      BY <2>1 DEF Created
    <3> DEFINE e == << << >> >>
    <3> HIDE DEF e
    <3>2. Created = [gens EXCEPT ![0] = e] /\ e \in Slots
      BY <1>1, <3>1 DEF e
    <3>3. Created \in Generations /\ Created[0] = e
      BY <1>2, <3>2 DEF Generations
    <3> QED
      BY <1>1, <2>1, <3>3, LinesOfAbsent DEF e, Lines
  <2>2. CASE gens[0] # Absent
    BY <2>2 DEF Created, Lines
  <2> QED
    BY <2>1, <2>2
<1>4. \A g \in 1..Top : Created[g] = gens[g]
  <2>1. \A g \in 1..Top : g \in 0..Top /\ g # 0
    BY DEF Top
  <2> QED
    BY <2>1 DEF Created, Generations
<1>5. UpTo(Created, Top + 1) = Retained
  <2> DEFINE c == Created
             n == Top + 1
  <2>1. n \in Nat /\ 0 \in 0..n
    BY DEF Top
  <2>2. UpTo(c, 0) = UpTo(gens, 0)
    <3>1. UpTo(c, 0) = << >> /\ UpTo(gens, 0) = << >>
      BY UpToFacts
    <3> QED
      BY <3>1
  <2>3. \A g \in 0..(n - 1) : LinesOf(c[g]) = LinesOf(gens[g])
    <3>1. \A g \in 0..(n - 1) : g = 0 \/ g \in 1..Top
      BY DEF Top
    <3> QED
      BY <1>3, <1>4, <3>1 DEF Lines
  <2> HIDE DEF c, n
  <2>4. UpTo(c, n) = UpTo(gens, n)
    BY <2>1, <2>2, <2>3, UpToAgrees
  <2> QED
    BY <2>4 DEF c, n, Retained
<1> QED
  BY <1>3, <1>4, <1>5

\* The next line goes to the end of the active file and of all lines.
LEMMA AppendIsLast ==
    ASSUME NEW fs \in Generations, fs[0] # Absent, NEW s \in Sizes, written \in Nat
    PROVE  /\ Append0(fs, s) \in Generations /\ Append0(fs, s)[0] # Absent
           /\ LinesOf(Append0(fs, s)[0]) = Append(LinesOf(fs[0]), [n |-> written + 1, size |-> s])
           /\ \A g \in 1..Top : Append0(fs, s)[g] = fs[g]
           /\ (Contiguous(UpTo(fs, Top + 1), written)
                => Contiguous(UpTo(Append0(fs, s), Top + 1), written + 1))
<1> DEFINE l == [n |-> written + 1, size |-> s]
           b == Append(LinesOf(fs[0]), l)
           gs == Append0(fs, s)
<1>1. l \in Line /\ l.n = written + 1
  BY Limits DEF Line
<1>2. 0 \in 0..Top /\ fs[0] \in Slots
  BY DEF Top, Generations
<1>3. LinesOf(fs[0]) \in Seq(Line) /\ LinesOf(fs[0]) = fs[0][1]
  BY <1>2, LinesOfType DEF LinesOf
<1>4. gs = [fs EXCEPT ![0] = <<b>>]
  BY <1>3 DEF Append0
<1> HIDE DEF l, gs
<1>5. b \in Seq(Line)
  BY <1>1, <1>3, AppendProperties
<1> HIDE DEF b
<1>6. <<b>> \in Slots /\ <<b>> # Absent /\ LinesOf(<<b>>) = b
  <2>1. <<b>> # << >> /\ <<b>>[1] = b /\ <<b>> \in Seq(Seq(Line))
    BY <1>5
  <2> QED
    BY <2>1 DEF Slots, LinesOf, Absent
<1>7. gs \in Generations /\ gs[0] = <<b>>
  BY <1>2, <1>4, <1>6 DEF Generations
<1>8. \A g \in 1..Top : gs[g] = fs[g]
  <2>1. \A g \in 1..Top : g \in 0..Top /\ g # 0
    BY DEF Top
  <2> QED
    BY <1>4, <2>1 DEF Generations
<1>9. UpTo(gs, Top + 1) = Append(UpTo(fs, Top + 1), l)
  <2>1. LinesOf(gs[0]) = Append(LinesOf(fs[0]), l)
    BY <1>6, <1>7 DEF b
  <2> QED
    BY <1>1, <1>7, <1>8, <2>1, UpToAppend
<1>10. UpTo(fs, Top + 1) \in Seq(Line)
  BY UpToType, Top + 1 \in 0..(Top + 1) DEF Top
<1>11. Contiguous(UpTo(fs, Top + 1), written) => Contiguous(UpTo(gs, Top + 1), written + 1)
  BY <1>1, <1>9, <1>10, ContiguousAppend
<1> QED
  BY <1>6, <1>7, <1>8, <1>11 DEF b, l, gs

\* The first start finds files of one line each.
LEMMA LogInitInv == LogInit => LogInv
<1> SUFFICES ASSUME LogInit PROVE LogInv
  OBVIOUS
<1>1. PICK old \in -1..(MaxFiles + 1), s \in Sizes :
        /\ gens = [g \in 0..Top |-> IF g > old THEN Absent
                                    ELSE <<<<[n |-> old - g + 1, size |-> s]>>>>]
        /\ written = old + 1
  BY DEF LogInit
<1>2. MaxFiles \in 0..Top /\ MaxFiles \in FileLimits /\ old \in Int /\ -1 <= old /\ s \in Nat \ {0}
      /\ written \in Nat /\ written = old + 1
  BY <1>1, Limits DEF LogInit, Top
<1>3. /\ open = FALSE /\ retryAt = 0 /\ pc = Resting /\ held = {}
      /\ refused = FALSE /\ stuck = FALSE
  BY DEF LogInit
<1> DEFINE l(g) == [n |-> old - g + 1, size |-> s]
<1>4. \A g \in 0..Top : g > old => gens[g] = Absent
  BY <1>1
<1>5. \A g \in 0..Top : ~(g > old) => gens[g] = << <<l(g)>> >>
  BY <1>1
<1>6. ASSUME NEW g \in 0..Top, ~(g > old)
      PROVE  l(g) \in Line /\ l(g).n = written - g /\ gens[g] \in Slots /\ LinesOf(gens[g]) = <<l(g)>>
  <2>1. l(g).n = old - g + 1 /\ l(g).size = s /\ old - g + 1 \in Nat
    BY <1>2, <1>6 DEF Top
  <2>2. l(g) \in Line /\ l(g).n = written - g
    BY <1>2, <2>1 DEF Line, Top
  <2>3. gens[g] = << <<l(g)>> >>
    BY <1>5, <1>6
  <2> HIDE DEF l
  <2>4. << <<l(g)>> >> \in Seq(Seq(Line)) /\ << <<l(g)>> >> # << >> /\ << <<l(g)>> >>[1] = <<l(g)>>
    BY <2>2
  <2> QED
    BY <2>2, <2>3, <2>4 DEF Slots, LinesOf, Absent
<1> HIDE DEF l
<1>7. gens \in Generations
  <2>1. ASSUME NEW g \in 0..Top PROVE gens[g] \in Slots
    <3>1. Absent \in Slots
      BY EmptySeq DEF Absent, Slots
    <3> QED
      BY <1>4, <1>6, <3>1
  <2>2. gens = [g \in 0..Top |-> gens[g]]
    BY <1>1
  <2> QED
    BY <2>1, <2>2 DEF Generations
<1>8. refused \/ size <= MaxSize \/ Len(Lines(0)) = 1
  <2>1. 0 \in 0..Top
    BY DEF Top
  <2>2. CASE 0 > old
    <3>1. Lines(0) = << >>
      BY <1>4, <2>1, <2>2, LinesOfAbsent DEF Lines
    <3>2. size = 0
      BY <3>1, WeighNone DEF size
    <3> QED
      BY <3>2, LogAssumption
  <2>3. CASE ~(0 > old)
    <3>1. Lines(0) = <<l(0)>>
      BY <1>6, <2>1, <2>3 DEF Lines
    <3>2. Len(<<l(0)>>) = 1
      OBVIOUS
    <3> QED
      BY <3>1, <3>2
  <2> QED
    BY <2>2, <2>3
<1> DEFINE E(k) == Contiguous(UpTo(gens, k), written) /\ (k <= written => Len(UpTo(gens, k)) = k)
           P == {k \in Nat : k <= Top + 1 => E(k)}
<1>9. 0 \in P
  <2>1. UpTo(gens, 0) = << >> /\ Len(<< >>) = 0
    BY UpToFacts
  <2>2. Contiguous(<< >>, written)
    BY DEF Contiguous
  <2> QED
    BY <2>1, <2>2
<1>10. ASSUME NEW k \in P, k + 1 <= Top + 1 PROVE E(k + 1)
  <2>1. k \in Nat /\ k \in 0..Top /\ k \in 0..(Top + 1) /\ k <= Top + 1
    BY <1>10 DEF Top
  <2> DEFINE u == UpTo(gens, k)
  <2>2. u \in Seq(Line) /\ UpTo(gens, k + 1) = LinesOf(gens[k]) \o u /\ Contiguous(u, written)
        /\ (k <= written => Len(u) = k)
    BY <1>7, <2>1, UpToType, UpToFacts
  <2> HIDE DEF u
  <2>3. CASE k > old
    <3>1. UpTo(gens, k + 1) = u
      BY <1>4, <2>1, <2>2, <2>3, LinesOfAbsent, ConcatEmptySeq
    <3>2. ~(k + 1 <= written)
      BY <1>2, <2>1, <2>3
    <3> QED
      BY <2>2, <3>1, <3>2
  <2>4. CASE ~(k > old)
    <3>1. k <= written /\ Len(u) = k
      BY <1>2, <2>1, <2>2, <2>4
    <3>2. UpTo(gens, k + 1) = <<l(k)>> \o u /\ l(k) \in Line /\ l(k).n = written - Len(u)
      BY <1>6, <2>1, <2>2, <2>4, <3>1
    <3>3. Contiguous(UpTo(gens, k + 1), written)
      BY <1>2, <2>2, <3>2, ContiguousFront
    <3>4. Len(<<l(k)>> \o u) = 1 + Len(u)
      <4>1. <<l(k)>> \in Seq(Line) /\ Len(<<l(k)>>) = 1
        BY <3>2
      <4> QED
        BY <2>2, <4>1, ConcatProperties
    <3>5. Len(UpTo(gens, k + 1)) = k + 1
      BY <2>1, <3>1, <3>2, <3>4
    <3> QED
      BY <3>3, <3>5
  <2> QED
    BY <2>3, <2>4
<1> HIDE DEF E
<1>11. P \in SUBSET Nat /\ \A k \in P : k + 1 \in P
  BY <1>10
<1> HIDE DEF P
<1>12. P = Nat
  BY <1>9, <1>11, Induct
<1>13. Contiguous(Retained, written)
  <2>1. Top + 1 \in Nat /\ Top + 1 <= Top + 1
    BY DEF Top
  <2>2. E(Top + 1)
    BY <1>12, <2>1 DEF P
  <2> QED
    BY <2>2 DEF E, Retained
<1>14. Resting \in [at : {"idle", "shift", "remove", "open", "reopen", "restart"}, i : Int, line : Nat]
       /\ Resting.at = "idle"
  BY DEF Resting
<1>15. LogTypeOK
  BY <1>2, <1>3, <1>7, <1>14 DEF LogTypeOK
<1>16. RotationIsSeen
  BY <1>3, <1>14 DEF RotationIsSeen
<1>17. NoneTooOld
  BY <1>3 DEF NoneTooOld
<1>18. SizesAreKept
  BY <1>3, <1>8 DEF SizesAreKept
<1> QED
  BY <1>13, <1>15, <1>16, <1>17, <1>18 DEF LogInv, NoGap

\* What the invariant says when the files stay as they are.
LEMMA FilesStay ==
    ASSUME LogInv, UNCHANGED <<gens, MaxFiles, retryAt, written>>,
           held' \subseteq 0..Top, refused' \in BOOLEAN, refused => refused', stuck' = stuck,
           (open' = open /\ pc' = pc) \/ (open' = FALSE /\ pc' = Resting)
    PROVE  LogInv'
<1>1. Lines(0)' = Lines(0) /\ size' = size /\ Retained' = Retained
  BY DEF Lines, size, Retained
<1>2. Resting \in [at : {"idle", "shift", "remove", "open", "reopen", "restart"}, i : Int, line : Nat]
      /\ Resting.at = "idle"
  BY DEF Resting
<1>3. LogTypeOK'
  BY <1>2 DEF LogInv, LogTypeOK
<1>4. RotationIsSeen'
  <2>1. CASE open' = open /\ pc' = pc
    BY <2>1 DEF LogInv, LogTypeOK, RotationIsSeen
  <2>2. CASE open' = FALSE /\ pc' = Resting
    BY <1>2, <2>2 DEF RotationIsSeen
  <2> QED
    BY <2>1, <2>2
<1>5. NoneTooOld'
  BY DEF LogInv, NoneTooOld
<1>6. SizesAreKept'
  BY <1>1 DEF LogInv, LogTypeOK, SizesAreKept
<1>7. NoGap'
  BY <1>1 DEF LogInv, NoGap
<1> QED
  BY <1>3, <1>4, <1>5, <1>6, <1>7 DEF LogInv

\* A line in the active file, or alone in a new one: what it does to the sizes.
LEMMA WriteInv == ASSUME LogInv, NEW s \in Sizes, Write(s) PROVE LogInv'
<1> DEFINE l == [n |-> written + 1, size |-> s]
<1>1. /\ open /\ pc = Resting /\ ~MustRotate(s)
      /\ gens' = Append0(gens, s) /\ written' = written + 1
      /\ UNCHANGED <<open, MaxFiles, retryAt, pc, held, refused, stuck>>
  BY DEF Write, Written
<1>2. /\ gens \in Generations /\ written \in Nat /\ MaxFiles \in 0..Top /\ size \in Nat
      /\ Lines(0) \in Seq(Line) /\ gens[0] # Absent
      /\ (~stuck => Contiguous(UpTo(gens, Top + 1), written))
  BY <1>1, LogInvType, 0 \in 0..Top DEF LogInv, NoGap, RotationIsSeen, Retained, Top
<1>3. /\ gens' \in Generations /\ gens'[0] # Absent
      /\ LinesOf(gens'[0]) = Append(Lines(0), l)
      /\ \A g \in 1..Top : gens'[g] = gens[g]
      /\ (~stuck => Contiguous(UpTo(gens', Top + 1), written + 1))
  BY <1>1, <1>2, AppendIsLast DEF Lines
<1>4. l \in Line /\ l.size = s /\ s \in Nat
  BY <1>2, Limits DEF Line
<1> HIDE DEF l
<1>5. Lines(0)' = Append(Lines(0), l) /\ size' = size + s
  <2>1. Lines(0)' = Append(Lines(0), l)
    BY <1>3 DEF Lines
  <2>2. Weigh(Append(Lines(0), l)) = Weigh(Lines(0)) + s
    BY <1>2, <1>4, WeighAppend
  <2> QED
    BY <2>1, <2>2 DEF size
<1>6. LogTypeOK'
  BY <1>1, <1>2, <1>3 DEF LogInv, LogTypeOK
<1>7. RotationIsSeen'
  <2>1. pc.at = "idle"
    BY <1>1 DEF Resting
  <2> QED
    BY <1>1, <1>3, <2>1 DEF RotationIsSeen
<1>8. NoneTooOld'
  <2>1. \A g \in (MaxFiles + 1)..Top : g \in 1..Top /\ (~stuck => gens[g] = Absent)
    BY <1>1, <1>2 DEF LogInv, NoneTooOld, Top
  <2> QED
    BY <1>1, <1>3, <2>1 DEF NoneTooOld
<1>9. SizesAreKept'
  <2>1. ASSUME ~refused PROVE size' <= MaxSize \/ Len(Lines(0)') = 1
    <3>1. retryAt = 0
      BY <2>1 DEF LogInv, SizesAreKept
    <3>2. ~(size > 0) \/ ~(size + s > MaxSize)
      BY <1>1, <1>2, <3>1 DEF MustRotate
    <3>3. CASE ~(size > 0)
      <4>1. Lines(0) = << >>
        BY <1>2, <3>3, WeighSome DEF size
      <4>2. Len(Append(<< >>, l)) = 1
        BY <1>4, AppendProperties, EmptySeq
      <4> QED
        BY <1>5, <4>1, <4>2
    <3>4. CASE ~(size + s > MaxSize)
      BY <1>2, <1>4, <1>5, <3>4, LogAssumption
    <3> QED
      BY <3>2, <3>3, <3>4
  <2>2. Rotated(gens', MaxFiles) = Rotated(gens, MaxFiles)
    <3>1. MaxFiles \in Nat /\ \A g \in 1..MaxFiles : g \in 1..Top
      BY <1>2 DEF Top
    <3>2. \A g \in 1..MaxFiles : LinesOf(gens'[g]) = LinesOf(gens[g])
      BY <1>3, <3>1
    <3> QED
      BY <3>1, <3>2, RotatedAgrees
  <2> QED
    BY <1>1, <2>1, <2>2 DEF LogInv, SizesAreKept
<1>10. NoGap'
  BY <1>1, <1>3 DEF NoGap, Retained
<1> QED
  BY <1>6, <1>7, <1>8, <1>9, <1>10 DEF LogInv

LEMMA BudgetShrinks == \A n \in Nat : budget(n) <= budget(0) /\ budget(n) \in Nat
  BY LogAssumption DEF budget

\* What a prune after an open leaves, whatever is held.
LEMMA PrunedFiles ==
    ASSUME LogInv, NEW limit \in 0..Top, NEW fs, fs = prune(Created, limit)
    PROVE  /\ fs \in Generations /\ fs[0] # Absent /\ LinesOf(fs[0]) = Lines(0)
           /\ \A g \in 1..Top : fs[g] \in {gens[g], Absent}
<1>1. gens \in Generations
  BY LogInvType
<1>2. /\ Created \in Generations /\ Created[0] # Absent /\ LinesOf(Created[0]) = Lines(0)
      /\ \A g \in 1..Top : Created[g] = gens[g]
  BY <1>1, CreatedIsEmpty
<1>3. \A g \in 1..Top : g \in 0..Top
  BY DEF Top
<1> QED
  BY <1>2, <1>3, PruneThins

\* And when nothing held is in its way.
LEMMA PrunedNew ==
    ASSUME LogInv, NEW limit \in 0..Top, NEW fs, fs = prune(Created, limit),
           ~stuck, ~Obstructs(Created, limit)
    PROVE  /\ \A g \in (limit + 1)..Top : fs[g] = Absent
           /\ Rotated(fs, limit) <= budget(0)
           /\ Contiguous(UpTo(fs, Top + 1), written)
<1> DEFINE c == Created
<1>1. gens \in Generations /\ held \subseteq 0..Top /\ written \in Nat /\ size \in Nat
  BY LogInvType
<1>2. /\ c \in Generations /\ LinesOf(c[0]) = Lines(0) /\ ~Obstructs(c, limit)
      /\ UpTo(c, Top + 1) = Retained
  BY <1>1, CreatedIsEmpty
<1> HIDE DEF c
<1>3. PICK k \in 0..limit : /\ prune(c, limit) = Cut(c, k)
                            /\ Rotated(Cut(c, k), limit) <= budget(Weigh(LinesOf(c[0])))
  BY <1>1, <1>2, PruneCuts
<1>4. k \in 0..Top /\ limit \in Nat
  BY DEF Top
<1>5. fs = Cut(c, k)
  BY <1>3 DEF c
<1>6. fs \in Generations
  BY <1>2, <1>4, <1>5, CutType
<1>8. \A g \in (limit + 1)..Top : fs[g] = Absent
  <2>1. \A g \in (limit + 1)..Top : g \in 0..Top /\ g > k
    BY <1>4 DEF Top
  <2> QED
    BY <1>5, <2>1 DEF Cut
<1>9. Rotated(fs, limit) <= budget(0)
  <2>1. Rotated(fs, limit) <= budget(size)
    BY <1>2, <1>3, <1>5 DEF size
  <2>2. Rotated(fs, limit) \in Nat
    BY <1>6, RotatedType
  <2>3. budget(size) <= budget(0) /\ budget(size) \in Nat /\ budget(0) \in Nat
    BY <1>1, BudgetShrinks
  <2> QED
    BY <2>1, <2>2, <2>3
<1>10. Contiguous(UpTo(fs, Top + 1), written)
  <2>1. Contiguous(UpTo(c, Top + 1), written)
    BY <1>2 DEF LogInv, NoGap
  <2> QED
    BY <1>1, <1>2, <1>4, <1>5, <2>1, CutKeepsTheEnd
<1> QED
  BY <1>8, <1>9, <1>10

LEMMA OpenInv == ASSUME LogInv, Open PROVE LogInv'
<1>1. /\ pc = Resting /\ MaxFiles' \in FileLimits /\ open' = TRUE /\ retryAt' = 0
      /\ gens' = prune(Created, MaxFiles')
      /\ stuck' = (stuck \/ Obstructs(Created, MaxFiles'))
      /\ UNCHANGED <<pc, held, written, refused>>
  BY DEF Open
<1>2. MaxFiles' \in 0..Top
  BY <1>1, Limits
<1>3. /\ gens' \in Generations /\ gens'[0] # Absent /\ LinesOf(gens'[0]) = Lines(0)
      /\ (~stuck' => /\ \A g \in (MaxFiles' + 1)..Top : gens'[g] = Absent
                     /\ Rotated(gens', MaxFiles') <= budget(0)
                     /\ Contiguous(UpTo(gens', Top + 1), written))
  BY <1>1, <1>2, PrunedFiles, PrunedNew
<1>4. Lines(0)' = Lines(0) /\ size' = size
  BY <1>3 DEF Lines, size
<1>5. LogTypeOK'
  <2>1. stuck' \in BOOLEAN
    BY <1>1
  <2> QED
    BY <1>1, <1>3, <2>1 DEF LogInv, LogTypeOK
<1>6. RotationIsSeen'
  <2>1. pc.at = "idle"
    BY <1>1 DEF Resting
  <2> QED
    BY <1>1, <1>3, <2>1 DEF RotationIsSeen
<1>7. NoneTooOld'
  BY <1>3 DEF NoneTooOld
<1>8. SizesAreKept'
  BY <1>1, <1>3, <1>4 DEF LogInv, SizesAreKept
<1>9. NoGap'
  BY <1>1, <1>3 DEF NoGap, Retained
<1> QED
  BY <1>5, <1>6, <1>7, <1>8, <1>9 DEF LogInv

\* Room is made at the old end before anything moves.
LEMMA RotateInv == ASSUME LogInv, NEW s \in Sizes, Rotate(s) PROVE LogInv'
<1>1. /\ open /\ pc = Resting /\ open' = FALSE
      /\ gens' = IF MaxFiles = 0 \/ MaxFiles \in held THEN gens
                 ELSE [gens EXCEPT ![MaxFiles] = Absent]
      /\ stuck' = (stuck \/ (MaxFiles \in held \ {0} /\ gens[MaxFiles] # Absent))
      /\ pc' = [at |-> IF MaxFiles = 0 THEN "remove" ELSE "shift", i |-> MaxFiles - 1, line |-> s]
      /\ UNCHANGED <<MaxFiles, retryAt, held, written, refused>>
  BY DEF Rotate, Written
<1>2. /\ gens \in Generations /\ written \in Nat /\ MaxFiles \in 0..Top
      /\ (~stuck => /\ \A g \in (MaxFiles + 1)..Top : gens[g] = Absent
                    /\ Contiguous(UpTo(gens, Top + 1), written))
  BY <1>1, LogInvType DEF LogInv, NoGap, NoneTooOld, Retained
<1>3. /\ pc'.at = (IF MaxFiles = 0 THEN "remove" ELSE "shift") /\ pc'.i = MaxFiles - 1 /\ pc'.line = s
      /\ pc' \in [at : {"idle", "shift", "remove", "open", "reopen", "restart"}, i : Int, line : Nat]
  BY <1>1, <1>2, Limits DEF Top
<1>4. gens' \in Generations /\ gens'[0] = gens[0]
  <2>1. CASE gens' = gens
    BY <1>2, <2>1
  <2>2. CASE MaxFiles # 0 /\ gens' = [gens EXCEPT ![MaxFiles] = Absent]
    <3>1. Absent \in Slots /\ 0 \in 0..Top
      BY EmptySeq DEF Absent, Slots, Top
    <3> QED
      BY <1>2, <2>2, <3>1 DEF Generations
  <2> QED
    BY <1>1, <2>1, <2>2
<1>11. ASSUME ~stuck'
       PROVE  /\ \A g \in (MaxFiles + 1)..Top : gens'[g] = Absent
              /\ (MaxFiles # 0 => gens'[MaxFiles] = Absent)
              /\ Contiguous(UpTo(gens', Top + 1), written)
  <2>0. ~stuck /\ (MaxFiles \in held /\ MaxFiles # 0 => gens[MaxFiles] = Absent)
    BY <1>1, <1>11
  <2>1. CASE MaxFiles = 0
    BY <1>1, <1>2, <2>0, <2>1
  <2>2. CASE MaxFiles # 0
    <3> DEFINE k == MaxFiles - 1
    <3>1. k \in 0..Top /\ k + 1 = MaxFiles /\ MaxFiles \in Nat /\ MaxFiles \in 0..Top
      BY <1>2, <2>2 DEF Top
    <3>2. /\ gens'[MaxFiles] = Absent
          /\ \A g \in 0..Top : g # MaxFiles => gens'[g] = gens[g]
      BY <1>1, <1>2, <2>0, <2>2, <3>1 DEF Generations
    <3> HIDE DEF k
    <3>3. gens' = Cut(gens, k)
      <4>1. \A g \in 0..Top : g > k <=> g = MaxFiles \/ g \in (MaxFiles + 1)..Top
        BY <1>2, <3>1 DEF Top
      <4>2. \A g \in 0..Top : gens'[g] = Cut(gens, k)[g]
        BY <1>2, <2>0, <3>2, <4>1 DEF Cut
      <4>3. gens' = [g \in 0..Top |-> gens'[g]]
        BY <1>4 DEF Generations
      <4> QED
        BY <4>2, <4>3 DEF Cut
    <3>4. Contiguous(UpTo(gens', Top + 1), written)
      BY <1>2, <2>0, <3>1, <3>3, CutKeepsTheEnd
    <3>5. \A g \in (MaxFiles + 1)..Top : g \in 0..Top /\ g # MaxFiles
      BY <3>1 DEF Top
    <3> QED
      BY <1>2, <2>0, <3>2, <3>4, <3>5
  <2> QED
    BY <2>1, <2>2
<1>5. Lines(0)' = Lines(0) /\ size' = size
  BY <1>4 DEF Lines, size
<1>6. LogTypeOK'
  <2>1. stuck' \in BOOLEAN
    BY <1>1 DEF LogInv, LogTypeOK
  <2> QED
    BY <1>1, <1>3, <1>4, <2>1 DEF LogInv, LogTypeOK
<1>7. RotationIsSeen'
  <2>1. MaxFiles # 0 => pc'.i \in 0..(MaxFiles - 1) /\ pc'.i + 1 = MaxFiles
    BY <1>2, <1>3 DEF Top
  <2> QED
    BY <1>1, <1>3, <1>11, <2>1 DEF RotationIsSeen
<1>8. NoneTooOld'
  BY <1>1, <1>11 DEF NoneTooOld
<1>9. SizesAreKept'
  BY <1>1, <1>5 DEF LogInv, SizesAreKept
<1>10. NoGap'
  BY <1>1, <1>11 DEF NoGap, Retained
<1> QED
  BY <1>6, <1>7, <1>8, <1>9, <1>10 DEF LogInv

\* A rename, over what was there or to a number that is free.
LEMMA MovedFacts ==
    ASSUME LogInv, NEW g \in 0..(MaxFiles - 1), gens' = Moved(g)
    PROVE  /\ gens' \in Generations /\ gens'[g] = Absent /\ gens'[g + 1] = gens[g]
           /\ \A i \in 0..Top : i # g /\ i # g + 1 => gens'[i] = gens[i]
           /\ (gens[g + 1] = Absent => UpTo(gens', Top + 1) = UpTo(gens, Top + 1))
<1>1. gens \in Generations /\ MaxFiles \in 0..Top
  BY LogInvType
<1>2. g \in 0..Top /\ g + 1 \in 0..Top /\ g \in 0..(Top - 1) /\ g # g + 1
  BY <1>1 DEF Top
<1>3. gens' = [gens EXCEPT ![g + 1] = gens[g], ![g] = Absent]
  BY DEF Moved
<1>4. Absent \in Slots
  BY EmptySeq DEF Absent, Slots
<1>5. /\ gens' \in Generations /\ gens'[g] = Absent /\ gens'[g + 1] = gens[g]
      /\ \A i \in 0..Top : i # g /\ i # g + 1 => gens'[i] = gens[i]
  BY <1>1, <1>2, <1>3, <1>4 DEF Generations
<1> DEFINE gs == gens'
<1>6. /\ gs \in Generations /\ gs[g] = Absent /\ gs[g + 1] = gens[g]
      /\ \A i \in 0..Top : i # g /\ i # g + 1 => gs[i] = gens[i]
  BY <1>5
<1> HIDE DEF gs
<1>7. gens[g + 1] = Absent => UpTo(gs, Top + 1) = UpTo(gens, Top + 1)
  BY <1>1, <1>2, <1>6, UpToMove
<1> QED
  BY <1>5, <1>7 DEF gs

LEMMA ShiftInv == ASSUME LogInv, Shift PROVE LogInv'
<1>1. /\ pc.at = "shift" /\ pc.i >= 1
      /\ gens' = IF Movable(pc.i) THEN Moved(pc.i) ELSE gens
      /\ stuck' = (stuck \/ (gens[pc.i] # Absent /\ ~Movable(pc.i)))
      /\ pc' = [pc EXCEPT !.i = @ - 1]
      /\ UNCHANGED <<open, MaxFiles, retryAt, held, written, refused>>
  BY DEF Shift
<1> DEFINE g == pc.i
<1>2. /\ gens \in Generations /\ written \in Nat /\ MaxFiles \in 0..Top
      /\ pc \in [at : {"idle", "shift", "remove", "open", "reopen", "restart"}, i : Int, line : Nat]
      /\ pc # Resting /\ ~open /\ pc.line \in Sizes
      /\ (~stuck => /\ \A i \in (MaxFiles + 1)..Top : gens[i] = Absent
                    /\ Contiguous(UpTo(gens, Top + 1), written))
  <2>1. pc # Resting
    BY <1>1 DEF Resting
  <2>2. ~open
    BY <2>1 DEF LogInv, RotationIsSeen, LogTypeOK
  <2> QED
    BY <2>1, <2>2, LogInvType DEF LogInv, LogTypeOK, NoGap, NoneTooOld, Retained, RotationIsSeen
<1>3. g \in 0..(MaxFiles - 1) /\ (~stuck => gens[g + 1] = Absent) /\ g >= 1
  BY <1>1 DEF LogInv, RotationIsSeen
<1>4. pc'.at = "shift" /\ pc'.i = g - 1 /\ pc'.line = pc.line
      /\ pc' \in [at : {"idle", "shift", "remove", "open", "reopen", "restart"}, i : Int, line : Nat]
  BY <1>1, <1>2
<1>5. gens' \in Generations /\ gens'[0] = gens[0]
  <2>1. CASE gens' = gens
    BY <1>2, <2>1
  <2>2. CASE gens' = Moved(g)
    <3>1. 0 \in 0..Top /\ 0 # g /\ 0 # g + 1
      BY <1>3 DEF Top
    <3> QED
      BY <1>3, <2>2, <3>1, MovedFacts
  <2> QED
    BY <1>1, <2>1, <2>2
<1>13. ASSUME ~stuck'
       PROVE  /\ gens'[g] = Absent
              /\ \A i \in (MaxFiles + 1)..Top : gens'[i] = Absent
              /\ UpTo(gens', Top + 1) = UpTo(gens, Top + 1)
  <2>0. ~stuck /\ (gens[g] = Absent \/ Movable(g))
    BY <1>1, <1>13
  <2>1. CASE gens[g] = Absent
    <3>1. gens' = gens
      BY <1>1, <2>1 DEF Movable
    <3> QED
      BY <1>2, <2>0, <2>1, <3>1
  <2>2. CASE gens[g] # Absent
    <3>1. gens' = Moved(g)
      BY <1>1, <2>0, <2>2
    <3>2. /\ gens'[g] = Absent
          /\ \A i \in 0..Top : i # g /\ i # g + 1 => gens'[i] = gens[i]
          /\ UpTo(gens', Top + 1) = UpTo(gens, Top + 1)
      BY <1>3, <2>0, <3>1, MovedFacts
    <3>3. \A i \in (MaxFiles + 1)..Top : i \in 0..Top /\ i # g /\ i # g + 1
      BY <1>2, <1>3 DEF Top
    <3> QED
      BY <1>2, <2>0, <3>2, <3>3
  <2> QED
    BY <2>1, <2>2
<1>6. Lines(0)' = Lines(0) /\ size' = size
  BY <1>5 DEF Lines, size
<1>7. stuck' \in BOOLEAN /\ (stuck => stuck')
  BY <1>1 DEF LogInv, LogTypeOK
<1>8. LogTypeOK'
  BY <1>1, <1>4, <1>5, <1>7 DEF LogInv, LogTypeOK
<1>9. RotationIsSeen'
  <2>1. g - 1 \in 0..(MaxFiles - 1) /\ (g - 1) + 1 = g
    BY <1>2, <1>3 DEF Top
  <2>2. (stuck' \/ gens'[pc'.i + 1] = Absent) /\ pc'.i \in 0..(MaxFiles - 1)
    BY <1>4, <1>13, <2>1
  <2> QED
    BY <1>1, <1>2, <1>4, <2>2 DEF RotationIsSeen
<1>10. NoneTooOld'
  BY <1>1, <1>13 DEF NoneTooOld
<1>11. SizesAreKept'
  BY <1>1, <1>2, <1>6, <1>7 DEF LogInv, SizesAreKept
<1>12. NoGap'
  BY <1>1, <1>2, <1>7, <1>13 DEF NoGap, Retained
<1> QED
  BY <1>8, <1>9, <1>10, <1>11, <1>12 DEF LogInv

\* An active file that is gone weighs nothing.
LEMMA GoneWeighsNothing == gens'[0] = Absent => Lines(0)' = << >> /\ size' = 0
  BY LinesOfAbsent, WeighNone DEF Lines, size

LEMMA RenameActiveInv == ASSUME LogInv, RenameActive PROVE LogInv'
<1>1. /\ pc.at = "shift" /\ pc.i = 0
      /\ gens' = IF Movable(0) THEN Moved(0) ELSE gens
      /\ refused' = (refused \/ ~Movable(0))
      /\ pc' = [pc EXCEPT !.at = IF Movable(0) THEN "open" ELSE "reopen"]
      /\ UNCHANGED <<open, MaxFiles, retryAt, held, written, stuck>>
  BY DEF RenameActive
<1>2. /\ gens \in Generations /\ written \in Nat /\ MaxFiles \in 0..Top
      /\ (~stuck => /\ \A i \in (MaxFiles + 1)..Top : gens[i] = Absent
                    /\ Contiguous(UpTo(gens, Top + 1), written))
      /\ pc \in [at : {"idle", "shift", "remove", "open", "reopen", "restart"}, i : Int, line : Nat]
      /\ pc # Resting /\ ~open /\ pc.line \in Sizes
  <2>1. pc # Resting
    BY <1>1 DEF Resting
  <2>2. ~open
    BY <2>1 DEF LogInv, RotationIsSeen, LogTypeOK
  <2> QED
    BY <2>1, <2>2, LogInvType DEF LogInv, LogTypeOK, NoGap, NoneTooOld, Retained, RotationIsSeen
<1>3. 0 \in 0..(MaxFiles - 1) /\ (~stuck => gens[0 + 1] = Absent)
  BY <1>1 DEF LogInv, RotationIsSeen
<1>4. pc'.at = (IF Movable(0) THEN "open" ELSE "reopen") /\ pc'.line = pc.line
      /\ pc' \in [at : {"idle", "shift", "remove", "open", "reopen", "restart"}, i : Int, line : Nat]
  BY <1>1, <1>2
<1>5. CASE Movable(0)
  <2>1. gens' = Moved(0) /\ pc'.at = "open"
    BY <1>1, <1>4, <1>5
  <2>2. refused' = refused
    <3>1. refused \in BOOLEAN
      BY DEF LogInv, LogTypeOK
    <3> QED
      BY <1>1, <1>5, <3>1
  <2>3. /\ gens' \in Generations /\ gens'[0] = Absent
        /\ \A i \in 0..Top : i # 0 /\ i # 0 + 1 => gens'[i] = gens[i]
        /\ (~stuck => UpTo(gens', Top + 1) = UpTo(gens, Top + 1))
    BY <1>3, <2>1, MovedFacts
  <2>4. \A i \in (MaxFiles + 1)..Top : i \in 0..Top /\ i # 0 /\ i # 0 + 1
    BY <1>2, <1>3 DEF Top
  <2>5. Lines(0)' = << >> /\ size' = 0
    BY <2>3, GoneWeighsNothing
  <2>6. LogTypeOK'
    BY <1>1, <1>4, <2>2, <2>3 DEF LogInv, LogTypeOK
  <2>7. RotationIsSeen'
    BY <1>1, <1>2, <1>4, <2>1, <2>3 DEF RotationIsSeen
  <2>8. NoneTooOld'
    BY <1>1, <1>2, <2>3, <2>4 DEF NoneTooOld
  <2>9. SizesAreKept'
    <3>1. 0 <= MaxSize
      BY LogAssumption
    <3> QED
      BY <1>1, <1>2, <2>2, <2>5, <3>1 DEF LogInv, SizesAreKept
  <2>10. NoGap'
    BY <1>1, <1>2, <2>3 DEF NoGap, Retained
  <2> QED
    BY <2>6, <2>7, <2>8, <2>9, <2>10 DEF LogInv
<1>6. CASE ~Movable(0)
  <2>1. gens' = gens /\ pc'.at = "reopen" /\ refused' = TRUE
    BY <1>1, <1>4, <1>6
  <2>2. Lines(0)' = Lines(0) /\ size' = size
    BY <2>1 DEF Lines, size
  <2>3. LogTypeOK'
    BY <1>1, <1>4, <2>1 DEF LogInv, LogTypeOK
  <2>4. RotationIsSeen'
    BY <1>1, <1>2, <1>4, <2>1 DEF RotationIsSeen
  <2>5. NoneTooOld'
    BY <1>1, <1>2, <2>1 DEF NoneTooOld
  <2>6. SizesAreKept'
    BY <1>1, <1>2, <2>1 DEF SizesAreKept
  <2>7. NoGap'
    BY <1>1, <1>2, <2>1 DEF NoGap, Retained
  <2> QED
    BY <2>3, <2>4, <2>5, <2>6, <2>7 DEF LogInv
<1> QED
  BY <1>5, <1>6

LEMMA RemoveActiveInv == ASSUME LogInv, RemoveActive PROVE LogInv'
<1>1. /\ pc.at = "remove"
      /\ gens' = IF 0 \in held THEN gens ELSE [gens EXCEPT ![0] = Absent]
      /\ refused' = (refused \/ 0 \in held)
      /\ pc' = [pc EXCEPT !.at = IF 0 \in held THEN "reopen" ELSE "restart"]
      /\ UNCHANGED <<open, MaxFiles, retryAt, held, written, stuck>>
  BY DEF RemoveActive
<1>2. /\ gens \in Generations /\ written \in Nat /\ MaxFiles = 0
      /\ (~stuck => /\ \A i \in 1..Top : gens[i] = Absent
                    /\ Contiguous(UpTo(gens, Top + 1), written))
      /\ pc \in [at : {"idle", "shift", "remove", "open", "reopen", "restart"}, i : Int, line : Nat]
      /\ pc # Resting /\ ~open /\ pc.line \in Sizes
  <2>1. pc # Resting
    BY <1>1 DEF Resting
  <2>2. ~open
    BY <2>1 DEF LogInv, RotationIsSeen, LogTypeOK
  <2>3. MaxFiles = 0
    BY <1>1 DEF LogInv, RotationIsSeen
  <2>4. ~stuck => \A i \in 1..Top : gens[i] = Absent
    BY <2>1, <2>3 DEF LogInv, NoneTooOld
  <2> QED
    BY <2>1, <2>2, <2>3, <2>4, LogInvType DEF LogInv, LogTypeOK, NoGap, Retained, RotationIsSeen
<1>3. pc'.at = (IF 0 \in held THEN "reopen" ELSE "restart") /\ pc'.line = pc.line
      /\ pc' \in [at : {"idle", "shift", "remove", "open", "reopen", "restart"}, i : Int, line : Nat]
  BY <1>1, <1>2
<1>4. CASE 0 \notin held
  <2>1. gens' = [gens EXCEPT ![0] = Absent] /\ pc'.at = "restart"
    BY <1>1, <1>3, <1>4
  <2>2. refused' = refused
    <3>1. refused \in BOOLEAN
      BY DEF LogInv, LogTypeOK
    <3> QED
      BY <1>1, <1>4, <3>1
  <2>3. /\ gens' \in Generations /\ gens'[0] = Absent
        /\ (~stuck => \A i \in 0..Top : gens'[i] = Absent)
    <3>1. Absent \in Slots
      BY EmptySeq DEF Absent, Slots
    <3>2. 0 \in 0..Top /\ \A i \in 0..Top : i = 0 \/ i \in 1..Top
      BY DEF Top
    <3>3. gens' \in Generations /\ gens'[0] = Absent
      BY <1>2, <2>1, <3>1, <3>2 DEF Generations
    <3>4. ~stuck => \A i \in 1..Top : gens'[i] = Absent
      <4>1. \A i \in 1..Top : i \in 0..Top /\ i # 0
        BY DEF Top
      <4> QED
        BY <1>2, <2>1, <4>1 DEF Generations
    <3> QED
      BY <3>2, <3>3, <3>4
  <2>4. gens'[0] = Absent
    BY <2>3, 0 \in 0..Top DEF Top
  <2>5. Lines(0)' = << >> /\ size' = 0
    BY <2>4, GoneWeighsNothing
  <2>6. ASSUME ~stuck PROVE UpTo(gens', Top + 1) = << >>
    <3> DEFINE gs == gens'
               n == Top + 1
    <3>1. gs \in Generations /\ n \in 0..(Top + 1) /\ 0 \in 0..n
          /\ \A i \in 0..(n - 1) : LinesOf(gs[i]) = << >>
      <4>1. \A i \in 0..(n - 1) : i \in 0..Top
        BY DEF Top
      <4> QED
        BY <2>3, <2>6, <4>1, LinesOfAbsent, SMTT(30) DEF Top
    <3> HIDE DEF gs, n
    <3>2. UpTo(gs, n) = UpTo(gs, 0) /\ UpTo(gs, 0) = << >>
      BY <3>1, UpToRest, UpToFacts
    <3> QED
      BY <3>2 DEF gs, n
  <2>7. LogTypeOK'
    BY <1>1, <1>3, <2>2, <2>3 DEF LogInv, LogTypeOK
  <2>8. RotationIsSeen'
    BY <1>1, <1>2, <1>3, <2>1, <2>4 DEF RotationIsSeen
  <2>9. NoneTooOld'
    <3>1. \A i \in (MaxFiles + 1)..Top : i \in 0..Top
      BY <1>2 DEF Top
    <3> QED
      BY <1>1, <2>3, <3>1 DEF NoneTooOld
  <2>10. SizesAreKept'
    <3>1. 0 <= MaxSize
      BY LogAssumption
    <3> QED
      BY <1>1, <1>2, <2>2, <2>5, <3>1 DEF LogInv, SizesAreKept
  <2>11. NoGap'
    <3>1. Contiguous(<< >>, written)
      BY DEF Contiguous
    <3> QED
      BY <1>1, <2>6, <3>1 DEF NoGap, Retained
  <2> QED
    BY <2>7, <2>8, <2>9, <2>10, <2>11 DEF LogInv
<1>5. CASE 0 \in held
  <2>1. gens' = gens /\ pc'.at = "reopen" /\ refused' = TRUE
    BY <1>1, <1>3, <1>5
  <2>2. LogTypeOK'
    BY <1>1, <1>3, <2>1 DEF LogInv, LogTypeOK
  <2>3. RotationIsSeen'
    BY <1>1, <1>2, <1>3, <2>1 DEF RotationIsSeen
  <2>4. NoneTooOld'
    BY <1>1, <1>2, <2>1 DEF NoneTooOld
  <2>5. SizesAreKept'
    BY <1>1, <1>2, <2>1 DEF SizesAreKept
  <2>6. NoGap'
    BY <1>1, <1>2, <2>1 DEF NoGap, Retained
  <2> QED
    BY <2>2, <2>3, <2>4, <2>5, <2>6 DEF LogInv
<1> QED
  BY <1>4, <1>5

\* The rotation ends with the line in a file, whichever way it went.
LEMMA FinishInv == ASSUME LogInv, Finish PROVE LogInv'
<1> DEFINE s == pc.line
           fs == IF pc.at = "open" THEN prune(Created, MaxFiles) ELSE Created
           l == [n |-> written + 1, size |-> s]
<1>1. /\ pc.at \in {"open", "reopen", "restart"}
      /\ gens' = Append0(fs, s)
      /\ retryAt' = IF pc.at = "reopen" THEN size + MaxSize \div retryGapDivisor ELSE 0
      /\ stuck' = (stuck \/ (pc.at = "open" /\ Obstructs(Created, MaxFiles)))
      /\ open' = TRUE /\ written' = written + 1 /\ pc' = Resting
      /\ UNCHANGED <<MaxFiles, held, refused>>
  BY DEF Finish
<1>2. /\ gens \in Generations /\ written \in Nat /\ MaxFiles \in 0..Top /\ size \in Nat
      /\ pc # Resting /\ s \in Sizes /\ refused \in BOOLEAN /\ stuck \in BOOLEAN
      /\ (~stuck => /\ \A g \in (MaxFiles + 1)..Top : gens[g] = Absent
                    /\ Contiguous(Retained, written))
  <2>1. pc # Resting
    BY <1>1 DEF Resting
  <2> QED
    BY <2>1, LogInvType DEF LogInv, LogTypeOK, NoGap, NoneTooOld, RotationIsSeen
<1>3. /\ fs \in Generations /\ fs[0] # Absent /\ LinesOf(fs[0]) = Lines(0)
      /\ (~stuck' => /\ \A g \in (MaxFiles + 1)..Top : fs[g] = Absent
                     /\ Contiguous(UpTo(fs, Top + 1), written)
                     /\ (~refused => Rotated(fs, MaxFiles) <= budget(0)))
  <2>1. CASE pc.at = "open"
    <3>1. fs = prune(Created, MaxFiles)
      BY <2>1
    <3> HIDE DEF fs
    <3> QED
      BY <1>1, <1>2, <2>1, <3>1, PrunedFiles, PrunedNew
  <2>2. CASE pc.at # "open"
    <3>1. fs = Created
      BY <2>2
    <3> HIDE DEF fs
    <3>2. /\ fs \in Generations /\ fs[0] # Absent /\ LinesOf(fs[0]) = Lines(0)
          /\ \A g \in 1..Top : fs[g] = gens[g]
          /\ UpTo(fs, Top + 1) = Retained
      BY <1>2, <3>1, CreatedIsEmpty
    <3>3. \A g \in (MaxFiles + 1)..Top : g \in 1..Top
      BY <1>2 DEF Top
    <3>4. ~refused => Rotated(fs, MaxFiles) <= budget(0)
      <4>1. ~refused => pc.at = "restart"
        BY <1>1, <2>2 DEF LogInv, RotationIsSeen
      <4>2. pc.at = "restart" => MaxFiles = 0
        BY DEF LogInv, RotationIsSeen
      <4>3. Rotated(fs, 0) = 0 /\ budget(0) \in Nat
        BY RotatedFacts, BudgetShrinks
      <4> QED
        BY <4>1, <4>2, <4>3
    <3> QED
      BY <1>1, <1>2, <3>2, <3>3, <3>4
  <2> QED
    BY <2>1, <2>2
<1> HIDE DEF fs
<1>4. /\ gens' \in Generations /\ gens'[0] # Absent
      /\ LinesOf(gens'[0]) = Append(Lines(0), l)
      /\ \A g \in 1..Top : gens'[g] = fs[g]
      /\ (~stuck' => Contiguous(UpTo(gens', Top + 1), written + 1))
  <2>1. gens' = Append0(fs, s) /\ fs \in Generations /\ fs[0] # Absent /\ s \in Sizes /\ written \in Nat
    BY <1>1, <1>2, <1>3
  <2>2. LinesOf(fs[0]) = Lines(0) /\ (~stuck' => Contiguous(UpTo(fs, Top + 1), written))
    BY <1>3
  <2> HIDE DEF s
  <2>3. /\ Append0(fs, s) \in Generations /\ Append0(fs, s)[0] # Absent
        /\ LinesOf(Append0(fs, s)[0]) = Append(LinesOf(fs[0]), l)
        /\ \A g \in 1..Top : Append0(fs, s)[g] = fs[g]
        /\ (Contiguous(UpTo(fs, Top + 1), written)
             => Contiguous(UpTo(Append0(fs, s), Top + 1), written + 1))
    BY <2>1, AppendIsLast
  <2> QED
    BY <2>1, <2>2, <2>3
<1>5. l \in Line
  <2>1. written + 1 \in Nat /\ s \in Sizes
    BY <1>2
  <2> HIDE DEF s
  <2>2. s \in Nat \ {0}
    BY <2>1, Limits
  <2> QED
    BY <2>1, <2>2 DEF Line
<1> HIDE DEF l
<1>6. Resting \in [at : {"idle", "shift", "remove", "open", "reopen", "restart"}, i : Int, line : Nat]
      /\ Resting.at = "idle"
  BY DEF Resting
<1>7. LogTypeOK'
  <2>1. retryAt' \in Nat
    <3>1. MaxSize \div retryGapDivisor \in Nat
      BY LogAssumption DEF retryGapDivisor
    <3> QED
      BY <1>1, <1>2, <3>1
  <2>2. open' \in BOOLEAN /\ written' \in Nat /\ stuck' \in BOOLEAN
    BY <1>1, <1>2
  <2> QED
    BY <1>1, <1>4, <1>6, <2>1, <2>2 DEF LogInv, LogTypeOK
<1>8. RotationIsSeen'
  BY <1>1, <1>4, <1>6 DEF RotationIsSeen
<1>9. NoneTooOld'
  <2>1. \A g \in (MaxFiles + 1)..Top : g \in 1..Top
    BY <1>2 DEF Top
  <2> QED
    BY <1>1, <1>3, <1>4, <2>1 DEF NoneTooOld
<1>10. SizesAreKept'
  <2>1. retryAt' # 0 => refused'
    BY <1>1 DEF LogInv, RotationIsSeen
  <2>2. ~refused => Len(Lines(0)') = 1
    <3>1. ~refused => gens[0] = Absent
      BY <1>1 DEF LogInv, RotationIsSeen
    <3>2. ~refused => Lines(0) = << >>
      BY <3>1, LinesOfAbsent DEF Lines
    <3>3. Len(Append(<< >>, l)) = 1
      BY <1>5, AppendProperties, EmptySeq
    <3>4. Lines(0)' = Append(Lines(0), l)
      BY <1>4 DEF Lines
    <3> QED
      BY <3>2, <3>3, <3>4
  <2>3. Rotated(gens', MaxFiles) = Rotated(fs, MaxFiles)
    <3>1. MaxFiles \in Nat /\ \A g \in 1..MaxFiles : g \in 1..Top
      BY <1>2 DEF Top
    <3>2. \A g \in 1..MaxFiles : LinesOf(gens'[g]) = LinesOf(fs[g])
      BY <1>4, <3>1
    <3> QED
      BY <3>1, <3>2, RotatedAgrees
  <2> QED
    BY <1>1, <1>3, <2>1, <2>2, <2>3 DEF SizesAreKept
<1>11. NoGap'
  BY <1>1, <1>4 DEF NoGap, Retained
<1> QED
  BY <1>7, <1>8, <1>9, <1>10, <1>11 DEF LogInv

LEMMA LogStepInv == ASSUME LogInv, [LogNext]_logVars PROVE LogInv'
<1>1. held \subseteq 0..Top /\ refused \in BOOLEAN
  BY DEF LogInv, LogTypeOK
<1>2. CASE UNCHANGED logVars
  BY <1>1, <1>2, FilesStay DEF logVars
<1>3. CASE Open
  BY <1>3, OpenInv
<1>4. CASE Shift
  BY <1>4, ShiftInv
<1>5. CASE RenameActive
  BY <1>5, RenameActiveInv
<1>6. CASE RemoveActive
  BY <1>6, RemoveActiveInv
<1>7. CASE Finish
  BY <1>7, FinishInv
<1>8. CASE OpenFails
  <2>1. pc # Resting
    BY <1>8 DEF OpenFails, Resting
  <2>2. open = FALSE
    BY <2>1 DEF LogInv, LogTypeOK, RotationIsSeen
  <2> QED
    BY <1>1, <1>8, <2>2, FilesStay DEF OpenFails
<1>9. CASE Die
  BY <1>1, <1>9, FilesStay DEF Die
<1>10. ASSUME NEW s \in Sizes, Write(s) PROVE LogInv'
  BY <1>10, WriteInv
<1>11. ASSUME NEW s \in Sizes, Rotate(s) PROVE LogInv'
  BY <1>11, RotateInv
<1>12. ASSUME NEW g \in Holdable, Hold(g) PROVE LogInv'
  <2>1. held' \subseteq 0..Top
    BY <1>1, <1>12, LogAssumption DEF Hold, Top
  <2> QED
    BY <1>1, <1>12, <2>1, FilesStay DEF Hold
<1> QED
  BY <1>2, <1>3, <1>4, <1>5, <1>6, <1>7, <1>8, <1>9, <1>10, <1>11, <1>12 DEF LogNext

-----------------------------------------------------------------------------
(* The order of the lines, whatever is held.                               *)

LEMMA WholeThinned ==
    ASSUME NEW fs, NEW gs, NEW n, WholeFiles(fs, n),
           \A g \in 0..Top : LinesOf(gs[g]) = LinesOf(fs[g]) \/ LinesOf(gs[g]) = << >>
    PROVE  WholeFiles(gs, n)
<1>1. 0 \in 0..Top
  BY DEF Top
<1>2. DOMAIN << >> = {}
  OBVIOUS
<1> DEFINE F(g) == LinesOf(fs[g])
           G(g) == LinesOf(gs[g])
<1>3. /\ \A g \in 0..Top : G(g) = F(g) \/ DOMAIN G(g) = {}
      /\ G(0) = F(0) \/ G(0) = << >>
  BY <1>1, <1>2
<1>4. /\ \A g \in 0..Top : \A i \in DOMAIN F(g) : F(g)[i].n = F(g)[1].n + i - 1 /\ F(g)[i].n <= n
      /\ \A g, h \in 0..Top : g < h =>
            \A i \in DOMAIN F(g), j \in DOMAIN F(h) : F(h)[j].n < F(g)[i].n
      /\ F(0) # << >> => F(0)[Len(F(0))].n = n
  BY DEF WholeFiles
<1> HIDE DEF F, G
<1>5. /\ \A g \in 0..Top : \A i \in DOMAIN G(g) : G(g)[i].n = G(g)[1].n + i - 1 /\ G(g)[i].n <= n
      /\ \A g, h \in 0..Top : g < h =>
            \A i \in DOMAIN G(g), j \in DOMAIN G(h) : G(h)[j].n < G(g)[i].n
      /\ G(0) # << >> => G(0)[Len(G(0))].n = n
  BY <1>3, <1>4
<1> QED
  BY <1>5 DEF G, WholeFiles

\* A generation one number up, over whatever was there.
LEMMA WholeMoved ==
    ASSUME NEW fs, NEW gs, NEW n, WholeFiles(fs, n), NEW m \in 0..(Top - 1),
           LinesOf(gs[m]) = << >>, LinesOf(gs[m + 1]) = LinesOf(fs[m]),
           \A g \in 0..Top : g # m /\ g # m + 1 => LinesOf(gs[g]) = LinesOf(fs[g])
    PROVE  WholeFiles(gs, n)
<1>1. 0 \in 0..Top /\ m \in 0..Top /\ m + 1 \in 0..Top /\ 0 # m + 1 /\ m # m + 1
  BY DEF Top
<1>2. DOMAIN << >> = {}
  OBVIOUS
<1> DEFINE F(g) == LinesOf(fs[g])
           G(g) == LinesOf(gs[g])
           from(g) == IF g = m + 1 THEN m ELSE g
<1>3. /\ \A g \in 0..Top : from(g) \in 0..Top /\ (G(g) = F(from(g)) \/ (g = m /\ DOMAIN G(g) = {}))
      /\ G(0) = F(0) \/ G(0) = << >>
  BY <1>1, <1>2
<1>4. \A g, h \in 0..Top : g < h => from(g) < from(h) \/ g = m \/ h = m
  BY DEF Top
<1>5. /\ \A g \in 0..Top : \A i \in DOMAIN F(g) : F(g)[i].n = F(g)[1].n + i - 1 /\ F(g)[i].n <= n
      /\ \A g, h \in 0..Top : g < h =>
            \A i \in DOMAIN F(g), j \in DOMAIN F(h) : F(h)[j].n < F(g)[i].n
      /\ F(0) # << >> => F(0)[Len(F(0))].n = n
  BY DEF WholeFiles
<1>6. DOMAIN G(m) = {}
  BY <1>2
<1> HIDE DEF F, G, from
<1>7. \A g \in 0..Top : \A i \in DOMAIN G(g) : G(g)[i].n = G(g)[1].n + i - 1 /\ G(g)[i].n <= n
  BY <1>3, <1>5
<1>8. \A g, h \in 0..Top : g < h =>
        \A i \in DOMAIN G(g), j \in DOMAIN G(h) : G(h)[j].n < G(g)[i].n
  BY <1>3, <1>4, <1>5, <1>6
<1>9. G(0) # << >> => G(0)[Len(G(0))].n = n
  BY <1>3, <1>5
<1> QED
  BY <1>7, <1>8, <1>9 DEF G, WholeFiles

\* Every generation but the active file is older than it.
LEMMA OlderFiles ==
    /\ \A h \in 1..Top : 0 < h /\ h \in 0..Top
    /\ \A g, h \in 0..Top : g < h => h \in 1..Top
  BY DEF Top

\* The next line, at the end of the active file.
LEMMA WholeAppended ==
    ASSUME NEW fs \in Generations, NEW gs, NEW n \in Nat, WholeFiles(fs, n), NEW l \in Line,
           l.n = n + 1, LinesOf(gs[0]) = Append(LinesOf(fs[0]), l),
           \A g \in 1..Top : LinesOf(gs[g]) = LinesOf(fs[g])
    PROVE  WholeFiles(gs, n + 1)
<1> DEFINE F(g) == LinesOf(fs[g])
           G(g) == LinesOf(gs[g])
           b == LinesOf(fs[0])
           t == Append(b, l)
<1>1. /\ \A g \in 0..Top : \A i \in DOMAIN F(g) : F(g)[i].n = F(g)[1].n + i - 1 /\ F(g)[i].n <= n
      /\ \A g, h \in 0..Top : g < h =>
            \A i \in DOMAIN F(g), j \in DOMAIN F(h) : F(h)[j].n < F(g)[i].n
      /\ b # << >> => b[Len(b)].n = n
  BY DEF WholeFiles
<1>2. /\ \A g \in 0..Top : F(g) \in Seq(Line)
      /\ 0 \in 0..Top /\ b = F(0) /\ G(0) = t
      /\ \A g \in 1..Top : g \in 0..Top /\ G(g) = F(g)
      /\ \A g \in 0..Top : g = 0 \/ g \in 1..Top
  BY LinesOfType DEF Generations, Top
<1>3. /\ b \in Seq(Line) /\ Len(b) \in Nat /\ DOMAIN b = 1..Len(b)
      /\ DOMAIN t = 1..(Len(b) + 1) /\ Len(t) = Len(b) + 1
      /\ \A i \in 1..Len(b) : t[i] = b[i]
      /\ t[Len(b) + 1] = l
  <2>1. b \in Seq(Line)
    BY <1>2
  <2> HIDE DEF b
  <2> QED
    BY <2>1, AppendProperties, LenProperties
<1>4. \A g \in 0..Top : \A i \in DOMAIN F(g) : F(g)[i].n \in Nat
  <2>1. ASSUME NEW g \in 0..Top, NEW i \in DOMAIN F(g) PROVE F(g)[i].n \in Nat
    <3> DEFINE f == F(g)
    <3>1. f \in Seq(Line) /\ i \in DOMAIN f
      BY <1>2, <2>1
    <3> HIDE DEF f
    <3>2. f[i] \in Line
      BY <3>1, ElementOfSeq, LenProperties
    <3> QED
      BY <3>2 DEF f, Line
  <2> QED
    BY <2>1
<1>5. /\ \A i \in 1..Len(b) : b[i].n = b[1].n + i - 1 /\ b[i].n <= n /\ b[i].n \in Nat
      /\ Len(b) # 0 => b[Len(b)].n = n
      /\ \A h \in 1..Top : \A i \in 1..Len(b), j \in DOMAIN F(h) : F(h)[j].n < b[i].n
  <2>1. \A h \in 1..Top : 0 < h /\ h \in 0..Top
    BY OlderFiles
  <2>2. Len(b) # 0 => b # << >>
    OBVIOUS
  <2> HIDE DEF F, G, b
  <2> QED
    BY <1>1, <1>2, <1>3, <1>4, <2>1, <2>2
<1> HIDE DEF F, G, b, t
<1>6. \A i \in DOMAIN t : t[i].n = t[1].n + i - 1 /\ t[i].n <= n + 1
  <2>1. CASE Len(b) = 0
    BY <1>3, <2>1
  <2>2. CASE Len(b) # 0
    <3>1. 1 \in 1..Len(b) /\ Len(b) \in 1..Len(b)
      BY <1>3, <2>2
    <3>2. b[Len(b)].n = b[1].n + Len(b) - 1 /\ b[Len(b)].n = n /\ b[1].n \in Nat /\ t[1] = b[1]
      BY <1>3, <1>5, <2>2, <3>1
    <3>3. ASSUME NEW i \in 1..Len(b) PROVE t[i].n = t[1].n + i - 1 /\ t[i].n <= n + 1
      BY <1>3, <1>5, <3>2
    <3>4. l.n = t[1].n + (Len(b) + 1) - 1
      BY <1>3, <3>2
    <3>5. \A i \in DOMAIN t : i \in 1..Len(b) \/ i = Len(b) + 1
      BY <1>3
    <3> QED
      BY <1>3, <3>3, <3>4, <3>5
  <2> QED
    BY <2>1, <2>2
<1>7. \A g \in 0..Top : \A i \in DOMAIN G(g) : G(g)[i].n = G(g)[1].n + i - 1 /\ G(g)[i].n <= n + 1
  <2>1. ASSUME NEW g \in 1..Top, NEW i \in DOMAIN G(g)
        PROVE  G(g)[i].n = G(g)[1].n + i - 1 /\ G(g)[i].n <= n + 1
    <3>1. g \in 0..Top /\ G(g) = F(g) /\ i \in DOMAIN F(g)
      BY <1>2, <2>1
    <3>2. F(g)[i].n = F(g)[1].n + i - 1 /\ F(g)[i].n <= n /\ F(g)[i].n \in Nat
      BY <1>1, <1>4, <3>1
    <3> QED
      BY <3>1, <3>2
  <2> QED
    BY <1>2, <1>6, <2>1
<1>8. \A g, h \in 0..Top : g < h =>
        \A i \in DOMAIN G(g), j \in DOMAIN G(h) : G(h)[j].n < G(g)[i].n
  <2>1. ASSUME NEW g \in 0..Top, NEW h \in 0..Top, g < h, NEW i \in DOMAIN G(g), NEW j \in DOMAIN G(h)
        PROVE  G(h)[j].n < G(g)[i].n
    <3>0. h \in 1..Top
      BY <2>1, OlderFiles
    <3>1. h \in 1..Top /\ G(h) = F(h) /\ j \in DOMAIN F(h)
      BY <1>2, <2>1, <3>0
    <3>2. CASE g # 0
      <4>1. G(g) = F(g) /\ i \in DOMAIN F(g)
        BY <1>2, <2>1, <3>2
      <4> QED
        BY <1>1, <2>1, <3>1, <4>1
    <3>3. CASE g = 0
      <4>1. i \in 1..Len(b) \/ i = Len(b) + 1
        BY <1>2, <1>3, <2>1, <3>3
      <4>2. CASE i \in 1..Len(b)
        BY <1>2, <1>3, <1>5, <3>1, <3>3, <4>2
      <4>3. CASE i = Len(b) + 1
        <5>1. G(g)[i] = l
          BY <1>2, <1>3, <3>3, <4>3
        <5>2. F(h)[j].n <= n /\ F(h)[j].n \in Nat
          BY <1>1, <1>4, <3>1
        <5> QED
          BY <3>1, <5>1, <5>2
      <4> QED
        BY <4>1, <4>2, <4>3
    <3> QED
      BY <3>2, <3>3
  <2> QED
    BY <2>1
<1>9. G(0) # << >> => G(0)[Len(G(0))].n = n + 1
  BY <1>2, <1>3
<1> QED
  BY <1>7, <1>8, <1>9 DEF G, WholeFiles

LEMMA WholeNext ==
    ASSUME LogInv, NEW fs \in Generations, fs[0] # Absent, NEW s \in Sizes,
           LinesOf(fs[0]) = Lines(0), \A g \in 1..Top : fs[g] \in {gens[g], Absent},
           LinesInOrder
    PROVE  WholeFiles(Append0(fs, s), written + 1)
<1>1. written \in Nat
  BY LogInvType
<1>2. \A g \in 0..Top : g = 0 \/ g \in 1..Top
  BY DEF Top
<1>3. WholeFiles(fs, written)
  <2>1. \A g \in 0..Top : LinesOf(fs[g]) = LinesOf(gens[g]) \/ LinesOf(fs[g]) = << >>
    BY <1>2, LinesOfAbsent DEF Lines
  <2> QED
    BY <2>1, WholeThinned DEF LinesInOrder
<1> DEFINE l == [n |-> written + 1, size |-> s]
<1>4. l \in Line /\ l.n = written + 1
  BY <1>1, Limits DEF Line
<1>5. /\ LinesOf(Append0(fs, s)[0]) = Append(LinesOf(fs[0]), l)
      /\ \A g \in 1..Top : LinesOf(Append0(fs, s)[g]) = LinesOf(fs[g])
  BY <1>1, AppendIsLast
<1> HIDE DEF l
<1> QED
  BY <1>1, <1>3, <1>4, <1>5, WholeAppended

\* The first files hold one line each, the older the smaller.
LEMMA OrderInit == LogInit => LinesInOrder
<1> SUFFICES ASSUME LogInit PROVE LinesInOrder
  OBVIOUS
<1>1. PICK old \in -1..(MaxFiles + 1), s \in Sizes :
        /\ gens = [g \in 0..Top |-> IF g > old THEN Absent
                                    ELSE <<<<[n |-> old - g + 1, size |-> s]>>>>]
        /\ written = old + 1
  BY DEF LogInit
<1>2. old \in Int
  BY <1>1, Limits DEF LogInit, Top
<1> DEFINE l(g) == [n |-> old - g + 1, size |-> s]
<1>3. ASSUME NEW g \in 0..Top
      PROVE  IF g > old THEN LinesOf(gens[g]) = << >> ELSE LinesOf(gens[g]) = <<l(g)>>
  <2>1. CASE g > old
    BY <1>1, <2>1, LinesOfAbsent
  <2>2. CASE ~(g > old)
    <3>1. gens[g] = << <<l(g)>> >>
      BY <1>1, <2>2
    <3> HIDE DEF l
    <3>2. << <<l(g)>> >> # << >> /\ << <<l(g)>> >>[1] = <<l(g)>>
      OBVIOUS
    <3> QED
      BY <2>2, <3>1, <3>2 DEF LinesOf, Absent
  <2> QED
    BY <2>1, <2>2
<1> DEFINE G(g) == LinesOf(gens[g])
<1>4. ASSUME NEW g \in 0..Top, NEW i \in DOMAIN G(g)
      PROVE  i = 1 /\ G(g)[i].n = old - g + 1 /\ ~(g > old)
  <2>1. ~(g > old) /\ G(g) = <<l(g)>>
    BY <1>3, <1>4
  <2>2. i = 1 /\ G(g)[i] = l(g)
    BY <1>4, <2>1
  <2> QED
    BY <2>1, <2>2
<1>5. G(0) # << >> => Len(G(0)) = 1 /\ 1 \in DOMAIN G(0)
  <2>1. 0 \in 0..Top
    BY DEF Top
  <2>2. G(0) = << >> \/ G(0) = <<l(0)>>
    BY <1>3, <2>1
  <2> HIDE DEF G, l
  <2>3. Len(<<l(0)>>) = 1 /\ 1 \in DOMAIN <<l(0)>>
    OBVIOUS
  <2> QED
    BY <2>2, <2>3
<1> HIDE DEF G
<1>6. \A g \in 0..Top : \A i \in DOMAIN G(g) : G(g)[i].n = G(g)[1].n + i - 1 /\ G(g)[i].n <= written
  <2>1. ASSUME NEW g \in 0..Top, NEW i \in DOMAIN G(g)
        PROVE  G(g)[i].n = G(g)[1].n + i - 1 /\ G(g)[i].n <= written
    <3>1. i = 1 /\ G(g)[i].n = old - g + 1
      BY <1>4, <2>1
    <3>2. old - g + 1 = (old - g + 1) + 1 - 1 /\ old - g + 1 <= old + 1
      BY <1>2 DEF Top
    <3> QED
      BY <1>1, <3>1, <3>2
  <2> QED
    BY <2>1
<1>7. \A g, h \in 0..Top : g < h =>
        \A i \in DOMAIN G(g), j \in DOMAIN G(h) : G(h)[j].n < G(g)[i].n
  <2>1. ASSUME NEW g \in 0..Top, NEW h \in 0..Top, g < h, NEW i \in DOMAIN G(g), NEW j \in DOMAIN G(h)
        PROVE  G(h)[j].n < G(g)[i].n
    <3>1. G(g)[i].n = old - g + 1 /\ G(h)[j].n = old - h + 1
      BY <1>4, <2>1
    <3> QED
      BY <1>2, <2>1, <3>1 DEF Top
  <2> QED
    BY <2>1
<1>8. G(0) # << >> => G(0)[Len(G(0))].n = written
  <2>1. 0 \in 0..Top /\ old - 0 + 1 = old + 1
    BY <1>2 DEF Top
  <2> QED
    BY <1>1, <1>4, <1>5, <2>1
<1> QED
  BY <1>6, <1>7, <1>8 DEF G, WholeFiles, LinesInOrder

LEMMA OrderStep == ASSUME LogInv, LinesInOrder, [LogNext]_logVars PROVE LinesInOrder'
<1>1. /\ gens \in Generations /\ MaxFiles \in 0..Top /\ written \in Nat
      /\ MaxFiles \in FileLimits
  BY LogInvType DEF LogInv, LogTypeOK
<1>2. \A g \in 0..Top : g = 0 \/ g \in 1..Top
  BY DEF Top
<1>3. ASSUME UNCHANGED <<gens, written>> PROVE LinesInOrder'
  BY <1>3 DEF LinesInOrder
<1>4. ASSUME written' = written,
             \A g \in 0..Top : LinesOf(gens'[g]) = LinesOf(gens[g]) \/ LinesOf(gens'[g]) = << >>
      PROVE  LinesInOrder'
  <2> DEFINE gs == gens'
  <2>1. \A g \in 0..Top : LinesOf(gs[g]) = LinesOf(gens[g]) \/ LinesOf(gs[g]) = << >>
    BY <1>4
  <2> HIDE DEF gs
  <2>2. WholeFiles(gs, written)
    BY <2>1, WholeThinned DEF LinesInOrder
  <2> QED
    BY <1>4, <2>2 DEF gs, LinesInOrder
<1>5. ASSUME written' = written, NEW g \in 0..(MaxFiles - 1), gens' = Moved(g) PROVE LinesInOrder'
  <2> DEFINE gs == gens'
  <2>1. /\ gs[g] = Absent /\ gs[g + 1] = gens[g]
        /\ \A i \in 0..Top : i # g /\ i # g + 1 => gs[i] = gens[i]
    BY <1>5, MovedFacts
  <2>2. g \in 0..(Top - 1)
    BY <1>1 DEF Top
  <2> HIDE DEF gs
  <2>3. WholeFiles(gs, written)
    BY <2>1, <2>2, LinesOfAbsent, WholeMoved DEF LinesInOrder
  <2> QED
    BY <1>5, <2>3 DEF gs, LinesInOrder
<1>6. CASE Open
  <2>1. written' = written /\ MaxFiles' \in 0..Top /\ gens' = prune(Created, MaxFiles')
    BY <1>6, Limits DEF Open
  <2> DEFINE gs == gens'
  <2>2. LinesOf(gs[0]) = Lines(0) /\ \A g \in 1..Top : gs[g] \in {gens[g], Absent}
    BY <2>1, PrunedFiles
  <2> HIDE DEF gs
  <2>3. \A g \in 0..Top : LinesOf(gs[g]) = LinesOf(gens[g]) \/ LinesOf(gs[g]) = << >>
    BY <1>2, <2>2, LinesOfAbsent DEF Lines
  <2> QED
    BY <1>4, <2>1, <2>3 DEF gs
<1>7. CASE Shift
  <2>1. /\ written' = written /\ pc.i \in 0..(MaxFiles - 1)
        /\ gens' = IF Movable(pc.i) THEN Moved(pc.i) ELSE gens
    BY <1>7 DEF LogInv, RotationIsSeen, Shift
  <2> QED
    BY <1>3, <1>5, <2>1
<1>8. CASE RenameActive
  <2>1. /\ written' = written /\ 0 \in 0..(MaxFiles - 1)
        /\ gens' = IF Movable(0) THEN Moved(0) ELSE gens
    BY <1>8 DEF LogInv, RotationIsSeen, RenameActive
  <2> QED
    BY <1>3, <1>5, <2>1
<1>9. ASSUME written' = written, NEW k \in 0..Top, gens' = [gens EXCEPT ![k] = Absent]
      PROVE  LinesInOrder'
  <2> DEFINE gs == gens'
  <2>1. \A g \in 0..Top : gs[g] = gens[g] \/ gs[g] = Absent
    BY <1>1, <1>9 DEF Generations
  <2> HIDE DEF gs
  <2>2. \A g \in 0..Top : LinesOf(gs[g]) = LinesOf(gens[g]) \/ LinesOf(gs[g]) = << >>
    BY <2>1, LinesOfAbsent
  <2> QED
    BY <1>4, <1>9, <2>2 DEF gs
<1>10. CASE RemoveActive
  <2>1. /\ written' = written /\ 0 \in 0..Top
        /\ gens' = IF 0 \in held THEN gens ELSE [gens EXCEPT ![0] = Absent]
    BY <1>10 DEF RemoveActive, Top
  <2> QED
    BY <1>3, <1>9, <2>1
<1>11. CASE Finish
  <2> DEFINE fs == IF pc.at = "open" THEN prune(Created, MaxFiles) ELSE Created
  <2>1. /\ written' = written + 1 /\ pc.line \in Sizes /\ gens' = Append0(fs, pc.line)
    <3>1. pc # Resting
      BY <1>11 DEF Finish, Resting
    <3> QED
      BY <1>11, <3>1 DEF Finish, LogInv, RotationIsSeen
  <2>2. /\ fs \in Generations /\ fs[0] # Absent /\ LinesOf(fs[0]) = Lines(0)
        /\ \A g \in 1..Top : fs[g] \in {gens[g], Absent}
    <3>1. CASE pc.at = "open"
      <4>1. fs = prune(Created, MaxFiles)
        BY <3>1
      <4> HIDE DEF fs
      <4> QED
        BY <1>1, <4>1, PrunedFiles
    <3>2. CASE pc.at # "open"
      <4>1. fs = Created
        BY <3>2
      <4> HIDE DEF fs
      <4> QED
        BY <1>1, <4>1, CreatedIsEmpty
    <3> QED
      BY <3>1, <3>2
  <2> HIDE DEF fs
  <2>3. WholeFiles(Append0(fs, pc.line), written + 1)
    BY <2>1, <2>2, WholeNext
  <2> QED
    BY <2>1, <2>3 DEF LinesInOrder
<1>12. ASSUME NEW s \in Sizes, Write(s) PROVE LinesInOrder'
  <2>1. written' = written + 1 /\ gens' = Append0(gens, s) /\ gens[0] # Absent
    BY <1>12 DEF LogInv, RotationIsSeen, Write, Written
  <2>2. WholeFiles(Append0(gens, s), written + 1)
    BY <1>1, <2>1, WholeNext DEF Lines
  <2> QED
    BY <2>1, <2>2 DEF LinesInOrder
<1>13. ASSUME NEW s \in Sizes, Rotate(s) PROVE LinesInOrder'
  <2>1. written' = written /\ (gens' = gens \/ gens' = [gens EXCEPT ![MaxFiles] = Absent])
    BY <1>13 DEF Rotate
  <2> QED
    BY <1>1, <1>3, <1>9, <2>1
<1>14. CASE OpenFails \/ Die \/ UNCHANGED logVars
  BY <1>3, <1>14 DEF OpenFails, Die, logVars
<1>15. ASSUME NEW g \in Holdable, Hold(g) PROVE LinesInOrder'
  BY <1>3, <1>15 DEF Hold
<1> QED
  BY <1>6, <1>7, <1>8, <1>10, <1>11, <1>12, <1>13, <1>14, <1>15 DEF LogNext

-----------------------------------------------------------------------------
(* What Tail reads.                                                        *)

LEMMA EndingFacts ==
    ASSUME NEW s \in Seq(Line), NEW n \in Nat
    PROVE  /\ Ending(s, n) \in Seq(Line)
           /\ Len(Ending(s, n)) = IF Len(s) > n THEN n ELSE Len(s)
           /\ \A i \in 1..Len(Ending(s, n)) : Ending(s, n)[i] = s[Len(s) - Len(Ending(s, n)) + i]
<1>1. Len(s) \in Nat
  BY LenProperties
<1>2. CASE Len(s) > n
  <2> DEFINE m == Len(s) - n + 1
             t == SubSeq(s, m, Len(s))
  <2>1. m \in 1..(Len(s) + 1) /\ Len(s) \in (m - 1)..Len(s) /\ Len(s) - m + 1 = n
    BY <1>1, <1>2
  <2>2. /\ t \in Seq(Line) /\ Len(t) = Len(s) - m + 1
        /\ \A i \in 1..(Len(s) - m + 1) : t[i] = s[m + i - 1]
    BY <1>1, <2>1, SubSeqProperties
  <2>3. Ending(s, n) = t
    BY <1>2 DEF Ending
  <2>4. \A i \in 1..n : m + i - 1 = Len(s) - n + i
    BY <1>1
  <2> HIDE DEF t, m
  <2>5. Len(t) = n
    BY <2>1, <2>2
  <2>6. \A i \in 1..n : t[i] = s[Len(s) - n + i]
    BY <2>1, <2>2, <2>4
  <2> QED
    BY <1>2, <2>2, <2>3, <2>5, <2>6
<1>3. CASE ~(Len(s) > n)
  <2>1. Ending(s, n) = s
    BY <1>3 DEF Ending
  <2>2. \A i \in 1..Len(s) : Len(s) - Len(s) + i = i
    BY <1>1
  <2> QED
    BY <1>3, <2>1, <2>2
<1> QED
  BY <1>2, <1>3

\* The end of two pieces is the end of the second behind what is missing of it.
LEMMA EndingConcat ==
    ASSUME NEW a \in Seq(Line), NEW b \in Seq(Line), NEW n \in Nat
    PROVE  /\ n - Len(Ending(b, n)) \in Nat
           /\ Ending(a \o b, n) = Ending(a, n - Len(Ending(b, n))) \o Ending(b, n)
<1> DEFINE e == Ending(b, n)
           m == n - Len(e)
           d == Ending(a, m)
           s == a \o b
           f == Ending(s, n)
<1>1. Len(a) \in Nat /\ Len(b) \in Nat
  BY LenProperties
<1>2. /\ e \in Seq(Line) /\ Len(e) = IF Len(b) > n THEN n ELSE Len(b)
      /\ \A i \in 1..Len(e) : e[i] = b[Len(b) - Len(e) + i]
  BY EndingFacts
<1>3. m \in Nat
  BY <1>1, <1>2
<1> HIDE DEF e, m
<1>4. /\ d \in Seq(Line) /\ Len(d) = IF Len(a) > m THEN m ELSE Len(a)
      /\ \A i \in 1..Len(d) : d[i] = a[Len(a) - Len(d) + i]
  BY <1>3, EndingFacts
<1>5. /\ s \in Seq(Line) /\ Len(s) = Len(a) + Len(b)
      /\ \A i \in 1..(Len(a) + Len(b)) : s[i] = IF i <= Len(a) THEN a[i] ELSE b[i - Len(a)]
  BY ConcatProperties
<1> HIDE DEF d, s
<1>6. /\ f \in Seq(Line) /\ Len(f) = IF Len(s) > n THEN n ELSE Len(s)
      /\ \A i \in 1..Len(f) : f[i] = s[Len(s) - Len(f) + i]
  BY <1>5, EndingFacts
<1> HIDE DEF f
<1>7. /\ d \o e \in Seq(Line) /\ Len(d \o e) = Len(d) + Len(e)
      /\ \A i \in 1..(Len(d) + Len(e)) : (d \o e)[i] = IF i <= Len(d) THEN d[i] ELSE e[i - Len(d)]
  BY <1>2, <1>4, ConcatProperties, ZenonT(30)
<1>8. m = n - Len(e)
  BY DEF m
<1>9. Len(f) = Len(d) + Len(e) /\ Len(d) \in Nat /\ Len(e) \in Nat /\ Len(d) <= Len(a)
      /\ Len(e) <= Len(b) /\ (Len(d) > 0 => Len(e) = Len(b))
  <2>1. Len(e) = (IF Len(b) > n THEN n ELSE Len(b)) /\ Len(d) = (IF Len(a) > m THEN m ELSE Len(a))
        /\ Len(s) = Len(a) + Len(b) /\ Len(f) = (IF Len(s) > n THEN n ELSE Len(s))
    BY <1>2, <1>4, <1>5, <1>6
  <2> DEFINE la == Len(a)
             lb == Len(b)
             ld == Len(d)
             le == Len(e)
             lf == Len(f)
             lst == Len(s)
  <2>2. la \in Nat /\ lb \in Nat /\ m \in Nat /\ m = n - le
    BY <1>1, <1>3, <1>8
  <2>3. le = (IF lb > n THEN n ELSE lb) /\ ld = (IF la > m THEN m ELSE la)
        /\ lst = la + lb /\ lf = (IF lst > n THEN n ELSE lst)
    BY <2>1
  <2> HIDE DEF la, lb, ld, le, lf, lst
  <2>4. lf = ld + le /\ ld \in Nat /\ le \in Nat /\ ld <= la /\ le <= lb /\ (ld > 0 => le = lb)
    BY <2>2, <2>3
  <2> QED
    BY <2>4 DEF la, lb, ld, le, lf
<1>10. ASSUME NEW i \in 1..Len(f) PROVE f[i] = (d \o e)[i]
  <2>1. Len(s) - Len(f) + i \in 1..(Len(a) + Len(b)) /\ i \in 1..(Len(d) + Len(e))
    BY <1>1, <1>5, <1>9
  <2>2. f[i] = s[Len(s) - Len(f) + i]
    BY <1>6
  <2>3. CASE i <= Len(d)
    <3>1. Len(s) - Len(f) + i = Len(a) - Len(d) + i /\ Len(s) - Len(f) + i <= Len(a)
          /\ i \in 1..Len(d)
      <4>1. Len(e) = Len(b) /\ i \in 1..Len(d)
        BY <1>9, <2>1, <2>3
      <4>2. Len(s) = Len(a) + Len(b) /\ Len(f) = Len(d) + Len(e)
        BY <1>5, <1>9
      <4>3. Len(s) - Len(f) + i = Len(a) - Len(d) + i
        BY <1>1, <1>9, <4>1, <4>2
      <4> QED
        BY <1>1, <1>9, <4>1, <4>3
    <3>2. f[i] = a[Len(a) - Len(d) + i]
      BY <1>5, <2>1, <2>2, <3>1
    <3>3. (d \o e)[i] = d[i]
      BY <1>7, <2>1, <2>3
    <3> QED
      BY <1>4, <3>1, <3>2, <3>3
  <2>4. CASE ~(i <= Len(d))
    <3>1. ~(Len(s) - Len(f) + i <= Len(a)) /\ i - Len(d) \in 1..Len(e)
          /\ (Len(s) - Len(f) + i) - Len(a) = Len(b) - Len(e) + (i - Len(d))
      BY <1>1, <1>5, <1>9, <2>1, <2>4
    <3>2. f[i] = b[Len(b) - Len(e) + (i - Len(d))]
      BY <1>5, <2>1, <2>2, <3>1
    <3>3. (d \o e)[i] = e[i - Len(d)]
      BY <1>7, <2>1, <2>4
    <3> QED
      BY <1>2, <3>1, <3>2, <3>3
  <2> QED
    BY <2>3, <2>4
<1>11. f = d \o e
  BY <1>6, <1>7, <1>9, <1>10, SeqEqual
<1> QED
  BY <1>3, <1>8, <1>11 DEF e, d, f, s

\* Of one file the window holds every line of an end that fits it.
LEMMA TailFileReads ==
    ASSUME NEW ls \in Seq(Line), NEW n \in Nat, Weigh(Ending(ls, n)) < tailWindow
    PROVE  tailFile(ls, n) = Ending(ls, n)
<1> DEFINE From(i) == SubSeq(ls, i, Len(ls))
           inWindow(i) == Weigh(From(i)) < tailWindow
           isFirst(i) == inWindow(i) /\ \A j \in 1..(i - 1) : ~inWindow(j)
           first == CHOOSE i \in 1..(Len(ls) + 1) : isFirst(i)
<1>1. tailFile(ls, n) = Ending(IF Weigh(ls) <= tailWindow THEN ls ELSE From(first), n)
  BY DEF tailFile
<1>2. CASE Weigh(ls) <= tailWindow
  BY <1>1, <1>2
<1>3. CASE ~(Weigh(ls) <= tailWindow)
  <2>1. Len(ls) \in Nat /\ Weigh(ls) \in Nat /\ tailWindow \in Nat
    BY LenProperties, WeighType, LogAssumption
  <2>2. Len(ls) > n
    <3>1. SUFFICES ASSUME ~(Len(ls) > n) PROVE FALSE
      OBVIOUS
    <3>2. Ending(ls, n) = ls
      BY <3>1 DEF Ending
    <3> QED
      BY <1>3, <2>1, <3>2
  <2> DEFINE p == Len(ls) - n + 1
  <2>3. p \in 1..(Len(ls) + 1) /\ Ending(ls, n) = From(p)
    BY <2>1, <2>2 DEF Ending
  <2>4. inWindow(p)
    BY <2>3
  <2> HIDE DEF inWindow
  <2> DEFINE W == {i \in 1..(Len(ls) + 1) : inWindow(i)}
  <2>5. PICK i \in W : \A j \in W : i <= j
    <3>1. W \in SUBSET Nat /\ W # {}
      BY <2>1, <2>3, <2>4, SMTT(30)
    <3> HIDE DEF W
    <3> QED
      BY <3>1, LeastNat
  <2>6. isFirst(i) /\ i \in 1..(Len(ls) + 1)
    <3>1. ASSUME NEW j \in 1..(i - 1), inWindow(j) PROVE FALSE
      <4>1. j \in 1..(Len(ls) + 1) /\ ~(i <= j)
        BY <2>1, <2>5
      <4> QED
        BY <2>5, <3>1, <4>1
    <3> QED
      BY <2>5, <3>1
  <2> HIDE DEF isFirst
  <2>7. first \in 1..(Len(ls) + 1) /\ isFirst(first)
    BY <2>6
  <2> HIDE DEF first
  <2>8. first <= p
    <3>1. SUFFICES ASSUME ~(first <= p) PROVE FALSE
      OBVIOUS
    <3>2. p \in 1..(first - 1)
      BY <2>1, <2>3, <2>7, <3>1
    <3> QED
      BY <2>4, <2>7, <3>2 DEF isFirst
  <2> DEFINE t == From(first)
             x == SubSeq(ls, 1, first - 1)
  <2>9. t \in Seq(Line) /\ x \in Seq(Line) /\ Len(t) = Len(ls) - first + 1 /\ ls = x \o t
    <3>1. t \in Seq(Line) /\ Len(t) = Len(ls) - first + 1
      BY <2>1, <2>7, SubSeqProperties
    <3>2. /\ x \in Seq(Line) /\ Len(x) = first - 1
          /\ \A j \in 1..(first - 1) : x[j] = ls[j]
      BY <2>1, <2>7, SubSeqProperties
    <3>3. \A j \in 1..Len(t) : t[j] = ls[first + j - 1]
      BY <2>1, <2>7, <3>1, SubSeqProperties
    <3> HIDE DEF t, x
    <3>4. /\ x \o t \in Seq(Line) /\ Len(x \o t) = Len(ls)
          /\ \A j \in 1..Len(ls) : (x \o t)[j] = IF j <= Len(x) THEN x[j] ELSE t[j - Len(x)]
      <4>1. Len(x) + Len(t) = Len(ls)
        BY <2>1, <2>7, <3>1, <3>2
      <4>2. /\ x \o t \in Seq(Line) /\ Len(x \o t) = Len(x) + Len(t)
            /\ \A j \in 1..(Len(x) + Len(t)) : (x \o t)[j] = IF j <= Len(x) THEN x[j] ELSE t[j - Len(x)]
        BY <3>1, <3>2, ConcatProperties
      <4> QED
        BY <4>1, <4>2
    <3>5. ASSUME NEW j \in 1..Len(ls) PROVE ls[j] = (x \o t)[j]
      <4>1. CASE j <= Len(x)
        BY <2>1, <2>7, <3>2, <3>4, <4>1
      <4>2. CASE ~(j <= Len(x))
        <5>1. j - Len(x) \in 1..Len(t) /\ first + (j - Len(x)) - 1 = j
          BY <2>1, <2>7, <3>1, <3>2, <4>2
        <5> QED
          BY <3>3, <3>4, <4>2, <5>1
      <4> QED
        BY <4>1, <4>2
    <3> QED
      BY <3>1, <3>2, <3>4, <3>5, SeqEqual
  <2> HIDE DEF t, x
  <2>10. Ending(ls, n) = Ending(t, n)
    <3>1. Len(t) >= n /\ Len(t) \in Nat
      BY <2>1, <2>2, <2>7, <2>8, <2>9
    <3>2. Len(Ending(t, n)) = n
      BY <2>9, <3>1, EndingFacts
    <3>3. Ending(x \o t, n) = Ending(x, n - Len(Ending(t, n))) \o Ending(t, n)
      BY <2>9, EndingConcat
    <3>4. n - Len(Ending(t, n)) = 0
      BY <3>2
    <3>5. Ending(x, 0) = << >>
      <4>1. Ending(x, 0) \in Seq(Line) /\ Len(Ending(x, 0)) = 0
        <5>1. Len(x) \in Nat
          BY <2>9, LenProperties
        <5> QED
          BY <2>9, <5>1, EndingFacts
      <4> QED
        BY <4>1, EmptySeq
    <3>6. Ending(t, n) \in Seq(Line)
      BY <2>9, EndingFacts
    <3> QED
      BY <2>9, <3>3, <3>4, <3>5, <3>6, ConcatEmptySeq
  <2> QED
    BY <1>1, <1>3, <2>10 DEF t
<1> QED
  BY <1>2, <1>3

\* Tail walks back from the active file and never misses a line it could show.
LEMMA TailReads == ASSUME LogInv PROVE TailIsTheEnd
<1> DEFINE all == UpTo(gens, MaxFiles + 1)
<1> SUFFICES ASSUME open, NEW n \in 1..MaxLines, Weigh(Ending(all, n)) < tailWindow
             PROVE  Tail0(n) = Ending(all, n)
  BY DEF TailIsTheEnd
<1>1. /\ gens \in Generations /\ MaxFiles \in 0..Top /\ n \in Nat
      /\ \A g \in 0..Top : Lines(g) \in Seq(Line)
  BY LogInvType, LogAssumption
<1> DEFINE limit == MaxFiles + 1
           more(x, i) == join(tailFile(Lines(i - 1), n - Len(x)), x)
           Step(f, k) == [i \in 0..k |-> IF i = 0 THEN << >> ELSE more(f[i - 1], i)]
           P == {k \in Nat : \E f : f = Step(f, k)}
           out == CHOOSE f : f = Step(f, limit)
<1>2. Tail0(n) = out[limit]
  BY DEF Tail0
<1>3. limit \in 0..(Top + 1) /\ limit \in Nat
  <2>1. MaxFiles \in 0..Top
    BY <1>1
  <2> QED
    BY <2>1 DEF Top
<1>13. all = UpTo(gens, limit)
  OBVIOUS
<1> HIDE DEF more, limit, all
<1>4. 0 \in P
  <2>1. Step(Step(<< >>, 0), 0) = Step(<< >>, 0)
    OBVIOUS
  <2> QED
    BY <2>1
<1>5. ASSUME NEW k \in P PROVE k + 1 \in P
  <2>1. PICK f : f = Step(f, k)
    OBVIOUS
  <2> DEFINE g == Step(f, k + 1)
  <2>2. \A i \in 0..k : g[i] = f[i]
    BY <2>1
  <2>3. ASSUME NEW i \in 0..(k + 1) PROVE g[i] = Step(g, k + 1)[i]
    <3>1. ASSUME i # 0 PROVE g[i - 1] = f[i - 1] /\ g[i] = more(f[i - 1], i)
      <4>1. i - 1 \in 0..k
        BY <3>1
      <4> QED
        BY <2>2, <3>1, <4>1
    <3> HIDE DEF g
    <3> QED
      BY <3>1 DEF g
  <2>4. g = Step(g, k + 1)
    BY <2>3
  <2> HIDE DEF g, Step
  <2> QED
    BY <2>4
<1>6. out = Step(out, limit)
  <2>1. P \in SUBSET Nat
    OBVIOUS
  <2> HIDE DEF P
  <2>2. P = Nat
    BY <1>4, <1>5, <2>1, Induct
  <2> HIDE DEF Step
  <2> QED
    BY <1>3, <2>2 DEF P
<1> HIDE DEF P, out
<1>7. out[0] = << >> /\ \A i \in 1..limit : out[i] = more(out[i - 1], i)
  BY <1>3, <1>6
<1> HIDE DEF Step
<1> DEFINE E(k) == out[k] = Ending(UpTo(gens, k), n)
           Q == {k \in Nat : k <= limit => E(k)}
<1>8. 0 \in Q
  <2>1. UpTo(gens, 0) = << >> /\ << >> \in Seq(Line) /\ Len(<< >>) = 0
    BY UpToFacts, EmptySeq
  <2>2. ~(0 > n)
    BY <1>1
  <2>3. Ending(<< >>, n) = << >>
    BY <2>1, <2>2 DEF Ending
  <2>4. E(0)
    BY <1>7, <2>1, <2>3
  <2> HIDE DEF E
  <2> QED
    BY <2>4
<1>9. ASSUME NEW k \in Q, k + 1 <= limit PROVE E(k + 1)
  <2>1. k \in Nat /\ k <= limit /\ k + 1 \in 1..limit /\ (k + 1) - 1 = k /\ k \in 0..Top
        /\ k \in 0..(Top + 1) /\ k + 1 \in 0..(Top + 1)
    BY <1>3, <1>9 DEF Top
  <2> DEFINE ls == Lines(k)
             u == UpTo(gens, k)
             e == Ending(u, n)
             m == n - Len(e)
             d == Ending(ls, m)
  <2>2. ls \in Seq(Line) /\ u \in Seq(Line) /\ UpTo(gens, k + 1) = ls \o u
    BY <1>1, <2>1, UpToType, UpToFacts DEF Lines
  <2>3. out[k] = e
    BY <2>1
  <2>4. out[k + 1] = tailFile(ls, m) \o e
    BY <1>7, <2>1, <2>3 DEF more, join
  <2> HIDE DEF ls, u
  <2>5. e \in Seq(Line) /\ m \in Nat /\ Ending(ls \o u, n) = d \o e
    BY <1>1, <2>2, EndingFacts, EndingConcat
  <2> HIDE DEF e, m
  <2>6. d \in Seq(Line)
    BY <2>2, <2>5, EndingFacts
  <2> HIDE DEF d
  <2>7. Weigh(d) < tailWindow
    <3> DEFINE s == ls \o u
               w == d \o e
    <3>1. s \in Seq(Line) /\ w \in Seq(Line) /\ Ending(s, n) = w
      BY <2>2, <2>5, <2>6, ConcatProperties
    <3>2. UpTo(gens, k + 1) = s
      BY <2>2
    <3>3. Weigh(d) <= Weigh(w)
      BY <2>5, <2>6, WeighEnd
    <3> HIDE DEF s, w
    <3>4. PICK x \in Seq(Line) : all = x \o s
      <4>1. k + 1 \in 0..limit
        BY <1>3, <2>1
      <4> QED
        BY <1>1, <1>3, <1>13, <3>2, <4>1, UpToEnds
    <3> DEFINE r == n - Len(Ending(s, n))
               y == Ending(x, r)
    <3>5. r \in Nat /\ Ending(all, n) = y \o w
      BY <1>1, <3>1, <3>4, EndingConcat
    <3> HIDE DEF r
    <3>6. y \in Seq(Line)
      BY <3>5, EndingFacts
    <3> HIDE DEF y
    <3>7. Weigh(w) <= Weigh(Ending(all, n))
      BY <3>1, <3>5, <3>6, WeighEnd
    <3>8. Weigh(d) \in Nat /\ Weigh(w) \in Nat /\ Weigh(Ending(all, n)) \in Nat /\ tailWindow \in Nat
      <4>1. y \o w \in Seq(Line)
        BY <3>1, <3>6, ConcatProperties
      <4> QED
        BY <2>6, <3>1, <3>5, <4>1, WeighType, LogAssumption
    <3> QED
      BY <3>3, <3>7, <3>8
  <2>8. tailFile(ls, m) = d
    BY <2>2, <2>5, <2>7, TailFileReads DEF d
  <2> QED
    BY <2>2, <2>4, <2>5, <2>8
<1> HIDE DEF E
<1>10. Q \in SUBSET Nat /\ \A k \in Q : k + 1 \in Q
  BY <1>9
<1> HIDE DEF Q
<1>11. Q = Nat
  BY <1>8, <1>10, Induct
<1>12. out[limit] = Ending(UpTo(gens, limit), n)
  <2>1. E(limit)
    BY <1>3, <1>11 DEF Q
  <2> QED
    BY <2>1 DEF E
<1> QED
  BY <1>2, <1>12, <1>13

\* What the limits promise, from the sizes of the parts.
LEMMA LimitsHold == ASSUME LogInv PROVE WithinLimits
<1> SUFFICES ASSUME open, ~refused, ~stuck
             PROVE  /\ size <= MaxSize \/ Len(Lines(0)) = 1
                    /\ \A g \in (MaxFiles + 1)..Top : gens[g] = Absent
                    /\ Weigh(Retained) <= (IF MaxTotal > MaxSize THEN MaxTotal ELSE MaxSize)
                                          + (IF size > MaxSize THEN size - MaxSize ELSE 0)
  BY DEF WithinLimits
<1>1. /\ gens \in Generations /\ MaxFiles \in 0..Top /\ size \in Nat
      /\ \A g \in (MaxFiles + 1)..Top : gens[g] = Absent
      /\ (size <= MaxSize \/ Len(Lines(0)) = 1)
      /\ Rotated(gens, MaxFiles) <= budget(0)
  BY LogInvType DEF LogInv, NoneTooOld, SizesAreKept
<1>2. Weigh(Retained) = size + Rotated(gens, Top)
  BY <1>1, WeighUpTo, Top \in 0..Top DEF Retained, size, Lines, Top
<1>3. Rotated(gens, Top) = Rotated(gens, MaxFiles)
  <2>1. Top \in 0..Top
    BY DEF Top
  <2>2. \A g \in (MaxFiles + 1)..Top : LinesOf(gens[g]) = << >>
    BY <1>1, LinesOfAbsent
  <2> QED
    BY <1>1, <2>1, <2>2, RotatedRest
<1>4. Rotated(gens, MaxFiles) \in Nat
  BY <1>1, RotatedType
<1>5. budget(0) = IF MaxTotal > MaxSize THEN MaxTotal - MaxSize ELSE 0
  BY LogAssumption DEF budget
<1>6. MaxTotal \in Nat /\ MaxSize \in Nat
  BY LogAssumption
<1> QED
  BY <1>1, <1>2, <1>3, <1>4, <1>5, <1>6

(***************************************************************************)
(* The service log keeps its end: for every limit on files and sizes, any  *)
(* lines, refusals and deaths between the steps of a rotation, and         *)
(* whichever files other programs hold open, what is on disk is in the     *)
(* order it was written, no file has a hole and the active one ends with   *)
(* the last line; until an older generation refused to move or go, it is   *)
(* the last lines written with no gap, within the limits while the active  *)
(* file moved; and Tail reads the end of it (rotate, prune, Tail).         *)
(***************************************************************************)
THEOREM LogAlwaysKeepsTheEnd == LogSpec => []LogKeepsTheEnd
<1>1. LogInit => LogInv /\ LinesInOrder
  BY LogInitInv, OrderInit
<1>2. LogInv /\ LinesInOrder /\ [LogNext]_logVars => LogInv' /\ LinesInOrder'
  BY LogStepInv, OrderStep
<1>3. LogInv /\ LinesInOrder => LogKeepsTheEnd
  <2>1. ASSUME LogInv PROVE OldestGoesFirst
    BY <2>1 DEF LogInv, NoGap, Contiguous, OldestGoesFirst
  <2> QED
    BY <2>1, LimitsHold, TailReads DEF LogKeepsTheEnd
<1> QED
  BY <1>1, <1>2, <1>3, PTL DEF LogSpec

=============================================================================
