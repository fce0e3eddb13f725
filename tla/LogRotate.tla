----------------------------- MODULE LogRotate -----------------------------
(***************************************************************************)
(* The size-rotated service log (core/logrot/logrot.go): one active file   *)
(* and numbered generations.  A rotation is a chain of removes and renames *)
(* under the writer's lock; the process may die between any two, a file    *)
(* another program holds open refuses to move (as Windows does), and the   *)
(* new file may not open.  Generation 0 is the active file; a line is its  *)
(* number, in the order written, and its size.                             *)
(***************************************************************************)
EXTENDS Integers, Sequences

CONSTANTS MaxSize,      \* the active file is rotated past this
          FileLimits,   \* generations a run may be told to keep (0: none)
          MaxTotal,     \* budget of all files
          tailWindow,   \* what Tail reads of one file
          Sizes,        \* sizes of a line
          MaxLines,     \* lines written per behaviour
          Holdable      \* generations another program may hold open

ASSUME LogAssumption ==
  /\ MaxSize \in Nat \ {0} /\ FileLimits \subseteq 0..16 /\ FileLimits # {} /\ MaxTotal \in Nat \ {0}
  /\ tailWindow \in Nat \ {0} /\ MaxLines \in Nat /\ Sizes \subseteq Nat \ {0}
  /\ Holdable \subseteq 0..16

retryGapDivisor == 4
Top == 16     \* prune looks for leftovers up to 16 past the limit
Absent == << >>

VARIABLES gens,     \* 0..Top -> Absent, or the one-element sequence of its lines
          open,     \* whether the writer has the active file open
          MaxFiles, \* generations this run keeps (0: none)
          retryAt,
          pc,       \* "idle", or the next step of a rotation: [at, i, line]
          held,     \* generations another program holds open
          written,  \* lines written so far
          refused,  \* ghost: the active file could not be moved, or opened, once
          stuck     \* ghost: an older generation could not be moved or removed once
logVars == <<gens, open, MaxFiles, retryAt, pc, held, written, refused, stuck>>

Resting == [at |-> "idle", i |-> 0, line |-> 0]

LinesOf(f) == IF f = Absent THEN << >> ELSE f[1]
Lines(g) == LinesOf(gens[g])

\* The first n of some weights together; lines and rotated files by weight.
Sum(w, n) == LET upTo[k \in 0..n] == IF k = 0 THEN 0 ELSE upTo[k - 1] + w[k]
             IN  upTo[n]
Weigh(ls) == Sum([i \in 1..Len(ls) |-> ls[i].size], Len(ls))
Rotated(fs, n) == Sum([g \in 1..n |-> Weigh(LinesOf(fs[g]))], n)
size == Weigh(Lines(0))

\* Files of earlier runs, one line each: the active one and older generations,
\* of which a wider configuration may have left one too many.
LogInit ==
  /\ MaxFiles \in FileLimits
  /\ \E old \in -1..(MaxFiles + 1), s \in Sizes :
       /\ gens = [g \in 0..Top |-> IF g > old THEN Absent
                                   ELSE <<<<[n |-> old - g + 1, size |-> s]>>>>]
       /\ written = old + 1
  /\ open = FALSE /\ retryAt = 0 /\ pc = Resting /\ held = {}
  /\ refused = FALSE /\ stuck = FALSE

-----------------------------------------------------------------------------
budget(active) == LET reserve == IF active > MaxSize THEN active ELSE MaxSize
                  IN  IF MaxTotal > reserve THEN MaxTotal - reserve ELSE 0

\* Mutant: the newest generation is deleted first.
newestFirst(limit, k) == k
\* The k-th of 1..limit to go: the highest number first.
oldestFirst(limit, k) == limit + 1 - k

\* prune: leftovers past MaxFiles go, then generations until the rest fits.
prune(fs, limit) ==
  LET kept == [g \in 0..Top |-> IF g > limit /\ g \notin held THEN Absent ELSE fs[g]]
      room == budget(Weigh(LinesOf(fs[0])))
      drop(f, g) == IF Rotated(f, limit) > room /\ g \notin held
                    THEN [f EXCEPT ![g] = Absent] ELSE f
      left[k \in 0..limit] == IF k = 0 THEN kept ELSE drop(left[k - 1], oldestFirst(limit, k))
  IN  left[limit]

\* prune has something to remove while an older generation is held.
Obstructs(fs, limit) ==
  \E g \in held : /\ fs[g] # Absent
                  /\ g > limit \/ (g >= 1 /\ Rotated(fs, limit) > budget(Weigh(LinesOf(fs[0]))))

Created == IF gens[0] = Absent THEN [gens EXCEPT ![0] = << << >> >>] ELSE gens
Append0(fs, s) == [fs EXCEPT ![0] = <<Append(@[1], [n |-> written + 1, size |-> s])>>]

\* A start, perhaps of a build with other limits.
Open == /\ ~open /\ pc = Resting
        /\ MaxFiles' \in FileLimits
        /\ open' = TRUE /\ retryAt' = 0
        /\ gens' = prune(Created, MaxFiles')
        /\ stuck' = (stuck \/ Obstructs(Created, MaxFiles'))
        /\ UNCHANGED <<pc, held, written, refused>>

MustRotate(s) == size > 0 /\ size + s > MaxSize /\ size >= retryAt
Written(s) == open /\ pc = Resting /\ s \in Sizes /\ written < MaxLines

Write(s) == /\ Written(s) /\ ~MustRotate(s)
            /\ gens' = Append0(gens, s) /\ written' = written + 1
            /\ UNCHANGED <<open, MaxFiles, retryAt, pc, held, refused, stuck>>

\* rotate closes the active file and makes room at the end.
Rotate(s) == /\ Written(s) /\ MustRotate(s)
             /\ open' = FALSE
             /\ gens' = IF MaxFiles = 0 \/ MaxFiles \in held THEN gens
                        ELSE [gens EXCEPT ![MaxFiles] = Absent]
             /\ pc' = [at |-> IF MaxFiles = 0 THEN "remove" ELSE "shift",
                       i |-> MaxFiles - 1, line |-> s]
             /\ stuck' = (stuck \/ (MaxFiles \in held \ {0} /\ gens[MaxFiles] # Absent))
             /\ UNCHANGED <<MaxFiles, retryAt, held, written, refused>>

Movable(g) == gens[g] # Absent /\ {g, g + 1} \cap held = {}
Moved(g) == [gens EXCEPT ![g + 1] = gens[g], ![g] = Absent]

Shift == /\ pc.at = "shift" /\ pc.i >= 1
         /\ gens' = IF Movable(pc.i) THEN Moved(pc.i) ELSE gens
         /\ stuck' = (stuck \/ (gens[pc.i] # Absent /\ ~Movable(pc.i)))
         /\ pc' = [pc EXCEPT !.i = @ - 1]
         /\ UNCHANGED <<open, MaxFiles, retryAt, held, written, refused>>

RenameActive == /\ pc.at = "shift" /\ pc.i = 0
                /\ gens' = IF Movable(0) THEN Moved(0) ELSE gens
                /\ refused' = (refused \/ ~Movable(0))
                /\ pc' = [pc EXCEPT !.at = IF Movable(0) THEN "open" ELSE "reopen"]
                /\ UNCHANGED <<open, MaxFiles, retryAt, held, written, stuck>>

RemoveActive == /\ pc.at = "remove"
                /\ gens' = IF 0 \in held THEN gens ELSE [gens EXCEPT ![0] = Absent]
                /\ refused' = (refused \/ 0 \in held)
                /\ pc' = [pc EXCEPT !.at = IF 0 \in held THEN "reopen" ELSE "restart"]
                /\ UNCHANGED <<open, MaxFiles, retryAt, held, written, stuck>>

\* The rotation ends with a file open and the line in it; a reopened one backs
\* the next attempt off.
Finish == /\ pc.at \in {"open", "reopen", "restart"}
          /\ LET fs == IF pc.at = "open" THEN prune(Created, MaxFiles) ELSE Created
             IN  gens' = Append0(fs, pc.line)
          /\ retryAt' = IF pc.at = "reopen" THEN size + MaxSize \div retryGapDivisor ELSE 0
          /\ stuck' = (stuck \/ (pc.at = "open" /\ Obstructs(Created, MaxFiles)))
          /\ open' = TRUE /\ written' = written + 1 /\ pc' = Resting
          /\ UNCHANGED <<MaxFiles, held, refused>>

\* Verify or the disk refuses: the writer stays closed, the line is reported.
OpenFails == /\ pc.at \in {"open", "reopen", "restart"}
             /\ pc' = Resting /\ refused' = TRUE
             /\ UNCHANGED <<gens, open, MaxFiles, retryAt, held, written, stuck>>

Die == /\ open \/ pc # Resting
       /\ open' = FALSE /\ pc' = Resting
       /\ UNCHANGED <<gens, MaxFiles, retryAt, held, written, refused, stuck>>

Hold(g) == /\ gens[g] # Absent \/ g \in held
           /\ held' = IF g \in held THEN held \ {g} ELSE held \cup {g}
           /\ UNCHANGED <<gens, open, MaxFiles, retryAt, pc, written, refused, stuck>>

LogNext == \/ Open \/ Shift \/ RenameActive \/ RemoveActive \/ Finish \/ OpenFails \/ Die
           \/ \E s \in Sizes : Write(s) \/ Rotate(s)
           \/ \E g \in Holdable : Hold(g)

-----------------------------------------------------------------------------
\* The last n of a sequence, or all of it.
Ending(s, n) == IF Len(s) > n THEN SubSeq(s, Len(s) - n + 1, Len(s)) ELSE s

\* Of a file larger than the window the line the window starts in is dropped.
tailFile(ls, n) ==
  LET From(i) == SubSeq(ls, i, Len(ls))
      inWindow(i) == Weigh(From(i)) < tailWindow
      first == CHOOSE i \in 1..(Len(ls) + 1) : inWindow(i) /\ \A j \in 1..(i - 1) : ~inWindow(j)
  IN  Ending(IF Weigh(ls) <= tailWindow THEN ls ELSE From(first), n)

join(older, out) == older \o out

Tail0(n) ==
  LET out[k \in 0..(MaxFiles + 1)] ==
        IF k = 0 THEN << >>
        ELSE join(tailFile(Lines(k - 1), n - Len(out[k - 1])), out[k - 1])
  IN  out[MaxFiles + 1]

-----------------------------------------------------------------------------
\* The lines of the active file and the generations behind it, oldest first.
UpTo(fs, n) == LET upTo[k \in 0..n] == IF k = 0 THEN << >> ELSE LinesOf(fs[k - 1]) \o upTo[k - 1]
               IN  upTo[n]
Retained == UpTo(gens, Top + 1)

(***************************************************************************)
(* Whatever is held, refused or cut short by a crash, no file has a hole   *)
(* in it, an older generation holds older lines only, and the active file  *)
(* ends with the last line written.                                        *)
(***************************************************************************)
WholeFiles(fs, n) ==
  /\ \A g \in 0..Top : \A i \in DOMAIN LinesOf(fs[g]) :
        LinesOf(fs[g])[i].n = LinesOf(fs[g])[1].n + i - 1 /\ LinesOf(fs[g])[i].n <= n
  /\ \A g, h \in 0..Top : g < h =>
        \A i \in DOMAIN LinesOf(fs[g]), j \in DOMAIN LinesOf(fs[h]) :
           LinesOf(fs[h])[j].n < LinesOf(fs[g])[i].n
  /\ LinesOf(fs[0]) # << >> => LinesOf(fs[0])[Len(LinesOf(fs[0]))].n = n
LinesInOrder == WholeFiles(gens, written)

(***************************************************************************)
(* The log forgets from its old end only: the lines on disk, oldest        *)
(* generation first, are the last lines written with no gap.  A refused    *)
(* move of the active file does not change that; a refused move or removal *)
(* of an older generation does, for the next one is renamed over the file  *)
(* that stayed, or is removed in place of the older one that could not be. *)
(***************************************************************************)
OldestGoesFirst ==
  ~stuck => \A i \in DOMAIN Retained : Retained[i].n = written - Len(Retained) + i

(***************************************************************************)
(* While nothing is refused the active file passes MaxSize only by a line  *)
(* that alone is longer, no generation past MaxFiles is left, and all      *)
(* files together exceed MaxTotal only by as much.                         *)
(***************************************************************************)
WithinLimits ==
  open /\ ~refused /\ ~stuck =>
    /\ size <= MaxSize \/ Len(Lines(0)) = 1
    /\ \A g \in (MaxFiles + 1)..Top : gens[g] = Absent
    /\ Weigh(Retained) <= (IF MaxTotal > MaxSize THEN MaxTotal ELSE MaxSize)
                          + (IF size > MaxSize THEN size - MaxSize ELSE 0)

(***************************************************************************)
(* A tail of n lines that fits the window of one file is exactly the last  *)
(* n lines of the files kept, however a rotation spread them over the      *)
(* generations and whichever of them are missing.                          *)
(***************************************************************************)
TailIsTheEnd ==
  open => \A n \in 1..MaxLines :
            LET want == Ending(UpTo(gens, MaxFiles + 1), n)
            IN  Weigh(want) < tailWindow => Tail0(n) = want

(***************************************************************************)
(* The log on disk is in the order it was written, a bounded end of it     *)
(* without gaps, and Tail reads it.                                        *)
(***************************************************************************)
LogKeepsTheEnd == LinesInOrder /\ OldestGoesFirst /\ WithinLimits /\ TailIsTheEnd

=============================================================================
