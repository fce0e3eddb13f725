------------------------------- MODULE Store -------------------------------
(***************************************************************************)
(* The profile store (core/profile/store.go): a list in memory under one   *)
(* lock and one file replaced as a whole, with a crash at any point and a  *)
(* save that may fail.  Every operation changes memory first, saves, and   *)
(* takes the change back when the save fails.                              *)
(***************************************************************************)
EXTENDS Integers, Sequences, FiniteSets, SequencesExt

CONSTANTS Ids,          \* profile ids
          MaxRev,       \* how often a profile is rebuilt by a refresh
          MaxStoreOps   \* operations per behaviour

ASSUME StoreAssumption == Ids # {} /\ MaxRev \in Nat /\ MaxStoreOps \in Nat

VARIABLES profiles,     \* the list in memory
          stored,       \* the list in profiles.json
          op,           \* the operation holding the lock
          ops           \* operations so far

storeVars == <<profiles, stored, op, ops>>

Profiles == [id : Ids, rev : 0..MaxRev]
Idle == [kind |-> "none", at |-> 0, before |-> << >>]

StoreInit == profiles = << >> /\ stored = << >> /\ op = Idle /\ ops = 0

indexOf(id) == IF \E i \in DOMAIN profiles : profiles[i].id = id
               THEN CHOOSE i \in DOMAIN profiles : profiles[i].id = id
               ELSE 0

\* A change in memory, the lock held and the save still to come.
Change(kind, i, list) ==
  /\ op = Idle /\ ops < MaxStoreOps
  /\ profiles' = list
  /\ op' = [kind |-> kind, at |-> i, before |-> profiles]
  /\ ops' = ops + 1
  /\ UNCHANGED stored

Add(p) == indexOf(p.id) = 0 /\ Change("add", Len(profiles) + 1, Append(profiles, p))
Update(p) == indexOf(p.id) # 0 /\ Change("update", indexOf(p.id),
                                         [profiles EXCEPT ![indexOf(p.id)] = p])
RemoveProfile(id) == indexOf(id) # 0 /\ Change("remove", indexOf(id), RemoveAt(profiles, indexOf(id)))

\* save: the new file is renamed over the old one as a whole.
save == /\ op.kind \in {"add", "update", "remove"}
        /\ stored' = profiles
        /\ op' = [op EXCEPT !.kind = "saved"]
        /\ UNCHANGED <<profiles, ops>>

Return == /\ op.kind = "saved"
          /\ op' = Idle
          /\ UNCHANGED <<profiles, stored, ops>>

\* Mutant: a profile whose removal could not be saved comes back at the end.
RollbackAtEnd(kind, i, was) ==
  CASE kind = "add" -> SubSeq(profiles, 1, Len(profiles) - 1)
    [] kind = "update" -> [profiles EXCEPT ![i] = was]
    [] OTHER -> Append(profiles, was)
Rollback(kind, i, was) ==
  CASE kind = "add" -> SubSeq(profiles, 1, Len(profiles) - 1)
    [] kind = "update" -> [profiles EXCEPT ![i] = was]
    [] OTHER -> InsertAt(profiles, i, was)

saveFails ==
  /\ op.kind \in {"add", "update", "remove"}
  /\ profiles' = Rollback(op.kind, op.at,
                          IF op.kind = "add" THEN profiles[op.at] ELSE op.before[op.at])
  /\ op' = Idle
  /\ UNCHANGED <<stored, ops>>

\* The daemon dies and the next one opens the store.
Reopen == /\ profiles' = stored
          /\ op' = Idle
          /\ UNCHANGED <<stored, ops>>

StoreNext == \/ \E p \in Profiles : Add(p) \/ Update(p)
             \/ \E id \in Ids : RemoveProfile(id)
             \/ save \/ Return \/ saveFails \/ Reopen

(***************************************************************************)
(* Whenever the lock is free the list in memory is the list on disk, order *)
(* included, each profile once: no failed save, and no crash between the   *)
(* change, the rename and the return, leaves the two apart.  While an      *)
(* operation runs the file is what it was before or what it will be.       *)
(***************************************************************************)
StoreMatchesDisk ==
  /\ op = Idle => profiles = stored
  /\ op # Idle => stored \in {op.before, profiles}
  /\ \A i, j \in DOMAIN profiles : profiles[i].id = profiles[j].id => i = j

=============================================================================
