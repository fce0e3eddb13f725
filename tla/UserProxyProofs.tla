--------------------------- MODULE UserProxyProofs ---------------------------
(***************************************************************************)
(* The per-user system proxy, for every set of users and sessions and any  *)
(* number of edits, logons and faults: the service forgets no lease and    *)
(* an applied proxy has one (LeaseFollowsProxy), and where no lease is     *)
(* left the settings are the user's own (RestoredIsTheUsers).              *)
(*                                                                         *)
(* The first is about who works for whom: a helper the service waits for   *)
(* works for its owner (Attached), one that a dead service left behind     *)
(* keeps the new service waiting, which by then can have chosen only one   *)
(* user (Orphaned).  The second is about what a lease allows to tell:      *)
(* Kept says which fields of the settings are ours and what the user's     *)
(* value is, whatever the user has edited and whichever fields of a write  *)
(* made it, and HelperKnows what a helper has still to rely on when it     *)
(* comes back to what it read before.                                      *)
(***************************************************************************)
EXTENDS UserProxy, TLAPS

Own == [flags : {"direct", "proxy"}, server : {"none", "corp"},
        bypass : {"none", "intranet", "loopback"}]
LeaseT == [held : {TRUE}, before : Settings, applied : {Applied}, confirmed : BOOLEAN] \cup {NoLease}
Pcs == {"load", "snapshot", "write", "verify", "confirm", "restore", "writeback", "readback", "ok", "err"}
Working == [pc : Pcs, after : {"ok", "snapshot", "err"}, user : Users, session : Sessions,
            want : Settings, seen : Own, attached : BOOLEAN]

UserShape ==
    /\ settings \in [Users -> Settings] /\ wish \in [Users -> Own]
    /\ lease \in [Users -> LeaseT]
    /\ helper \in Working \cup {NoHelper}
SeatShape ==
    /\ live \in [Sessions -> Users \cup {NoUser}]
    /\ console \in Sessions \cup {0}
    /\ console # 0 => live[console] # NoUser
ServiceShape ==
    /\ owner \in [sid : Users, session : Sessions] \cup {NoOwner}
    /\ armed \in BOOLEAN /\ applied \in BOOLEAN /\ (armed <=> owner # NoOwner)
    /\ dpc \in {"idle", "enable", "disable", "retry", "arm"} /\ then \in {"none", "enable"}
    /\ dpc \in {"enable", "disable", "retry"} => owner # NoOwner
    /\ served \subseteq Users
Shape == UserShape /\ SeatShape /\ ServiceShape

----------------------------------------------------------------------------
\* A helper at work, and what it knows of the lease.
HelperHolds ==
    /\ helper.pc = "snapshot" => ~lease[helper.user].held
    /\ helper.pc \in {"write", "verify", "confirm", "writeback", "readback"} => lease[helper.user].held

\* The helper the service waits for works for the owner, and its success is
\* what the service takes it for.
Attached ==
    helper.pc # "off" /\ helper.attached =>
        /\ helper.user = owner.sid
        /\ dpc \in {"enable", "disable", "retry"}
        /\ dpc = "enable" =>
              /\ helper.pc = "ok" => lease[helper.user].held /\ lease[helper.user].confirmed
              /\ helper.pc \in {"restore", "writeback", "readback"} => helper.after # "ok"
        /\ dpc # "enable" =>
              /\ helper.pc \in {"restore", "writeback", "readback", "ok", "err"} /\ helper.after = "ok"
              /\ helper.pc = "ok" => ~lease[helper.user].held

\* While the helper of a dead service is still at work, the new one has applied
\* a proxy for its owner at most.
Orphaned == helper.pc # "off" /\ ~helper.attached => served \subseteq {owner.sid}

\* A user served and not restored is the owner, and a restore is owed.
Served == \A u \in served : lease[u].held => u = owner.sid

\* An applied proxy is at rest, with a confirmed lease of the owner, or is being
\* restored by a reconcile.
AppliedAtRest ==
    applied => /\ dpc \notin {"enable", "arm"} /\ owner # NoOwner
               /\ dpc = "idle" => /\ helper.pc = "off"
                                  /\ lease[owner.sid].held /\ lease[owner.sid].confirmed

Follows == Shape /\ HelperHolds /\ Attached /\ Orphaned /\ Served /\ AppliedAtRest

----------------------------------------------------------------------------
\* What the settings of u are, and what the user's own would be.
KeptOf(now, own, l) ==
    /\ ~l.held => now = own
    /\ l.held =>
          /\ l.before \in Own
          /\ \A f \in Fields : now[f] = own[f] \/ (now[f] = Applied[f] /\ own[f] = l.before[f])
          /\ now.server = "ours" => \A f \in Fields : now[f] = Applied[f] => own[f] = l.before[f]
          /\ now.server # "ours" /\ (l.confirmed \/ now.server # l.before.server) => now = own
Kept == \A u \in Users : KeptOf(settings[u], wish[u], lease[u])

\* What a helper relies on between two steps: before it writes, what it has read
\* or made of it; after that, what it finds.
HelperKnows ==
    /\ helper.pc = "write" =>
          /\ settings[helper.user] = wish[helper.user] /\ ~lease[helper.user].confirmed
          /\ helper.seen = lease[helper.user].before
          /\ \A f \in Fields : \/ settings[helper.user][f] = lease[helper.user].before[f]
                              \/ settings[helper.user][f] # Applied[f]
    /\ helper.pc = "confirm" /\ settings[helper.user].server # "ours" =>
          settings[helper.user] = wish[helper.user]
    /\ helper.pc = "writeback" => helper.seen = helper.want
    /\ helper.pc = "readback" => settings[helper.user] = wish[helper.user]

----------------------------------------------------------------------------
(* LeaseFollowsProxy.                                                      *)

\* A helper at work is one of Working.
LEMMA HelperIs ==
    ASSUME Follows, helper.pc # "off"
    PROVE  /\ helper \in Working /\ helper.user \in Users /\ lease[helper.user] \in LeaseT
           /\ settings \in [Users -> Settings] /\ lease \in [Users -> LeaseT]
           /\ wish \in [Users -> Own] /\ wish[helper.user] \in Own
           /\ settings[helper.user] \in Settings
    BY DEF Follows, Shape, UserShape, NoHelper, Working

\* Settings of which some fields are others are settings.
LEMMA MixedIs ==
    ASSUME NEW old \in Settings, NEW new \in Settings, NEW F
    PROVE  Mixed(old, new, F) \in Settings
<1>1. ASSUME NEW x \in [Fields -> {"direct", "proxy", "none", "corp", "ours", "intranet", "loopback"}],
             x["flags"] \in {"direct", "proxy"}, x["server"] \in {"none", "corp", "ours"},
             x["bypass"] \in {"none", "intranet", "loopback"}
      PROVE  x \in Settings
    BY <1>1 DEF Fields, Settings
<1> QED
    BY <1>1 DEF Mixed, Fields, Settings

\* Confirming a lease.
LEMMA Confirmed ==
    ASSUME NEW l \in LeaseT, l.held
    PROVE  LET m == [l EXCEPT !.confirmed = TRUE]
           IN  m \in LeaseT /\ m.held /\ m.confirmed /\ m.before = l.before
<1> DEFINE Held == [held : {TRUE}, before : Settings, applied : {Applied}, confirmed : BOOLEAN]
           m == [l EXCEPT !.confirmed = TRUE]
<1>1. l \in Held
  <2>1. ~NoLease.held
    BY DEF NoLease
  <2> QED
    BY <2>1 DEF LeaseT
<1>2. m \in Held /\ m.held /\ m.confirmed /\ m.before = l.before
    BY <1>1
<1> QED
    BY <1>2 DEF LeaseT

\* A step of the helper: it goes on for the same user, whose lease alone changes.
LEMMA HelperMoves ==
    ASSUME Follows, helper.pc # "off", NEW h \in Working, helper' = h,
           h.user = helper.user, h.attached = helper.attached,
           NEW l \in LeaseT, lease' = [lease EXCEPT ![helper.user] = l],
           settings' \in [Users -> Settings], wish' \in [Users -> Own], UNCHANGED <<seats, svc>>,
           h.pc = "snapshot" => ~l.held,
           h.pc \in {"write", "verify", "confirm", "writeback", "readback"} => l.held,
           helper.attached /\ dpc = "enable" =>
              /\ h.pc = "ok" => l.held /\ l.confirmed
              /\ h.pc \in {"restore", "writeback", "readback"} => h.after # "ok",
           helper.attached /\ dpc # "enable" =>
              /\ h.pc \in {"restore", "writeback", "readback", "ok", "err"} /\ h.after = "ok"
              /\ h.pc = "ok" => ~l.held
    PROVE  Follows'
<1> USE DEF seats, svc
<1>1. helper \in Working /\ helper.user \in Users /\ lease \in [Users -> LeaseT]
    BY HelperIs
<1>2. /\ lease' \in [Users -> LeaseT] /\ lease'[helper.user] = l
      /\ \A u \in Users : u # helper.user => lease'[u] = lease[u]
    BY <1>1
<1>3. h.pc # "off"
    BY DEF Working, Pcs
<1>4. Shape'
    BY <1>2 DEF Follows, Shape, UserShape, SeatShape, ServiceShape
<1>5. HelperHolds'
    BY <1>2 DEF HelperHolds
<1>6. Attached'
    BY <1>2 DEF Follows, Attached
<1>7. Orphaned'
    BY DEF Follows, Orphaned
<1>8. Served'
  <2>1. helper.user \in served => helper.user = owner.sid
    BY DEF Follows, Attached, Orphaned
  <2>2. \A u \in served : u \in Users
    BY DEF Follows, Shape, ServiceShape
  <2> QED
    BY <1>2, <2>1, <2>2 DEF Follows, Served
<1>9. AppliedAtRest'
    BY DEF Follows, AppliedAtRest
<1> QED
    BY <1>4, <1>5, <1>6, <1>7, <1>8, <1>9 DEF Follows

\* A step of the helper that leaves the leases alone.
LEMMA HelperGoesOn ==
    ASSUME Follows, helper.pc # "off", NEW h \in Working, helper' = h,
           h.user = helper.user, h.attached = helper.attached,
           settings' \in [Users -> Settings], wish' \in [Users -> Own],
           UNCHANGED <<lease, seats, svc>>,
           h.pc = "snapshot" => ~lease[helper.user].held,
           h.pc \in {"write", "verify", "confirm", "writeback", "readback"} => lease[helper.user].held,
           helper.attached /\ dpc = "enable" =>
              /\ h.pc = "ok" => lease[helper.user].held /\ lease[helper.user].confirmed
              /\ h.pc \in {"restore", "writeback", "readback"} => h.after # "ok",
           helper.attached /\ dpc # "enable" =>
              /\ h.pc \in {"restore", "writeback", "readback", "ok", "err"} /\ h.after = "ok"
              /\ h.pc = "ok" => ~lease[helper.user].held
    PROVE  Follows'
<1> DEFINE l == lease[helper.user]
<1>1. l \in LeaseT /\ lease' = [lease EXCEPT ![helper.user] = l]
    BY HelperIs
<1> HIDE DEF l
<1> QED
    BY <1>1, HelperMoves DEF l

\* The helper finds a lease, or none.
LEMMA LoadFollows ==
    ASSUME Follows, Load
    PROVE  Follows'
<1> DEFINE u == helper.user
<1>1. /\ helper.pc = "load" /\ UNCHANGED <<settings, wish, seats, svc>>
      /\ helper \in Working /\ u \in Users /\ lease[u] \in LeaseT
      /\ settings' \in [Users -> Settings] /\ wish' \in [Users -> Own]
    BY HelperIs DEF Load
<1>2. helper.attached => dpc = "enable"
    BY <1>1 DEF Follows, Attached
<1>3. CASE ~lease[u].held
  <2> DEFINE h == [helper EXCEPT !.pc = "snapshot"]
  <2>1. helper' = h /\ UNCHANGED lease
    BY <1>3 DEF Load, Step
  <2>2. h \in Working /\ h.pc = "snapshot" /\ h.user = u /\ h.attached = helper.attached
    BY <1>1 DEF Working, Pcs
  <2> HIDE DEF h
  <2> QED
    BY <1>1, <1>2, <1>3, <2>1, <2>2, HelperGoesOn
<1>4. CASE lease[u].held /\ helper' = [helper EXCEPT !.pc = "ok"]
  <2> DEFINE h == [helper EXCEPT !.pc = "ok"]
             l == [lease[u] EXCEPT !.confirmed = TRUE]
  <2>1. lease' = [lease EXCEPT ![u] = l]
    BY <1>1, <1>4 DEF Load, Step, Working
  <2>2. h \in Working /\ h.pc = "ok" /\ h.user = u /\ h.attached = helper.attached
    BY <1>1 DEF Working, Pcs
  <2>3. l \in LeaseT /\ l.held /\ l.confirmed
    BY <1>1, <1>4, Confirmed
  <2> HIDE DEF h, l
  <2> QED
    BY <1>1, <1>2, <1>4, <2>1, <2>2, <2>3, HelperMoves DEF h
<1>5. CASE lease[u].held /\ helper' # [helper EXCEPT !.pc = "ok"]
  <2> DEFINE h == helper'
  <2>1. UNCHANGED lease /\ (h = [helper EXCEPT !.pc = "err"] \/ h = [helper EXCEPT !.pc = "restore", !.after = "snapshot"])
    BY <1>5 DEF Load, Step
  <2>2. /\ h \in Working /\ h.user = u /\ h.attached = helper.attached
        /\ h.pc = "err" \/ (h.pc = "restore" /\ h.after = "snapshot")
    BY <1>1, <2>1 DEF Working, Pcs
  <2> HIDE DEF h
  <2> QED
    BY <1>1, <1>2, <2>1, <2>2, HelperGoesOn DEF h
<1> QED
    BY <1>3, <1>4, <1>5

\* The journal is written, or the apply ends.
LEMMA SnapshotFollows ==
    ASSUME Follows, Snapshot
    PROVE  Follows'
<1> DEFINE u == helper.user
<1>1. /\ helper.pc = "snapshot" /\ UNCHANGED <<settings, wish, seats, svc>>
      /\ helper \in Working /\ u \in Users /\ wish[u] \in Own
      /\ settings' \in [Users -> Settings] /\ wish' \in [Users -> Own] /\ settings[u] \in Settings
    BY HelperIs DEF Snapshot
<1>2. /\ helper.attached => dpc = "enable"
      /\ ~lease[u].held
    BY <1>1 DEF Follows, Attached, HelperHolds
<1>3. CASE /\ helper' = [helper EXCEPT !.pc = "write", !.seen = wish[u]]
           /\ lease' = [lease EXCEPT ![u] = NewLease(u)]
  <2> DEFINE h == [helper EXCEPT !.pc = "write", !.seen = wish[u]]
             l == NewLease(u)
  <2>1. h \in Working /\ h.pc = "write" /\ h.user = u /\ h.attached = helper.attached
    BY <1>1 DEF Working, Pcs
  <2>2. l \in LeaseT /\ l.held
    BY <1>1, <1>2 DEF LeaseT, NewLease
  <2> HIDE DEF h, l
  <2> QED
    BY <1>1, <1>2, <1>3, <2>1, <2>2, HelperMoves DEF h, l
<1>4. CASE helper' = [helper EXCEPT !.pc = "err"] /\ UNCHANGED lease
  <2> DEFINE h == [helper EXCEPT !.pc = "err"]
  <2>1. h \in Working /\ h.pc = "err" /\ h.user = u /\ h.attached = helper.attached
    BY <1>1 DEF Working, Pcs
  <2> HIDE DEF h
  <2> QED
    BY <1>1, <1>2, <1>4, <2>1, HelperGoesOn DEF h
<1> QED
    BY <1>3, <1>4 DEF Snapshot, Step

\* A write, whole or in part: settings stay settings, and what the user would
\* have is the user's own.
LEMMA OverwriteIs ==
    ASSUME Follows, helper.pc # "off", NEW new \in Settings, NEW F, Overwrite(helper.user, new, F)
    PROVE  LET u    == helper.user
               now  == Mixed(settings[u], new, F)
               left == Mixed(wish[u], helper.seen, F)
           IN  /\ settings' \in [Users -> Settings] /\ wish' \in [Users -> Own]
               /\ settings'[u] = now
               /\ wish'[u] = IF left.server = helper.seen.server THEN left
                             ELSE [now EXCEPT !.server = left.server]
               /\ \A w \in Users : w # u => settings'[w] = settings[w] /\ wish'[w] = wish[w]
<1> DEFINE u    == helper.user
           now  == Mixed(settings[u], new, F)
           left == Mixed(wish[u], helper.seen, F)
           own  == IF left.server = helper.seen.server THEN left ELSE [now EXCEPT !.server = left.server]
<1>1. /\ u \in Users /\ settings \in [Users -> Settings] /\ wish \in [Users -> Own]
      /\ settings[u] \in Settings /\ wish[u] \in Own /\ helper.seen \in Own
    BY HelperIs DEF Working
<1>2. settings' = [settings EXCEPT ![u] = now] /\ wish' = [wish EXCEPT ![u] = own]
    BY DEF Overwrite
<1>3. now \in Settings
    BY <1>1, MixedIs
<1>4. left \in Own
  <2>1. Own \subseteq Settings
    BY DEF Own, Settings
  <2>2. left \in Settings
    BY <1>1, <2>1, MixedIs
  <2>3. left["server"] = wish[u]["server"] \/ left["server"] = helper.seen["server"]
    BY DEF Mixed, Fields
  <2>4. wish[u].server \in {"none", "corp"} /\ helper.seen.server \in {"none", "corp"}
    BY <1>1 DEF Own
  <2>5. left.server \in {"none", "corp"}
    BY <2>3, <2>4
  <2> HIDE DEF left
  <2> QED
    BY <2>2, <2>5 DEF Settings, Own
<1> HIDE DEF now, left
<1>5. [now EXCEPT !.server = left.server] \in Own
    BY <1>3, <1>4 DEF Settings, Own
<1>6. own \in Own
    BY <1>4, <1>5
<1> HIDE DEF own
<1>7. /\ settings' \in [Users -> Settings] /\ wish' \in [Users -> Own]
      /\ settings'[u] = now /\ wish'[u] = own
      /\ \A w \in Users : w # u => settings'[w] = settings[w] /\ wish'[w] = wish[w]
    BY <1>1, <1>2, <1>3, <1>6
<1> QED
    BY <1>7 DEF now, left, own

\* The settings are written, wholly or in part.
LEMMA WriteFollows ==
    ASSUME Follows, Write
    PROVE  Follows'
<1> DEFINE u == helper.user
<1>1. /\ helper.pc = "write" /\ UNCHANGED <<lease, seats, svc>>
      /\ helper \in Working /\ u \in Users
    BY HelperIs DEF Write
<1>2. /\ helper.attached => dpc = "enable"
      /\ lease[u].held
    BY <1>1 DEF Follows, Attached, HelperHolds
<1>3. settings' \in [Users -> Settings] /\ wish' \in [Users -> Own]
  <2>1. Applied \in Settings
    BY DEF Applied, Settings
  <2>2. \E F : Overwrite(u, Applied, F)
    BY DEF Write
  <2> QED
    BY <1>1, <2>1, <2>2, OverwriteIs
<1> DEFINE h == helper'
<1>4. /\ h \in Working /\ h.user = u /\ h.attached = helper.attached
      /\ h.pc \in {"verify", "err"} \/ (h.pc = "restore" /\ h.after = "err")
  <2>1. \/ h = [helper EXCEPT !.pc = "verify"] \/ h = [helper EXCEPT !.pc = "err"]
        \/ h = [helper EXCEPT !.pc = "restore", !.after = "err"]
    BY DEF Write, Step, Rollback
  <2> HIDE DEF h
  <2> QED
    BY <1>1, <2>1 DEF Working, Pcs
<1> HIDE DEF h
<1> QED
    BY <1>1, <1>2, <1>3, <1>4, HelperGoesOn DEF h

\* The settings are read back.
LEMMA VerifyFollows ==
    ASSUME Follows, Verify
    PROVE  Follows'
<1> DEFINE u == helper.user
<1>1. /\ helper.pc = "verify" /\ UNCHANGED <<settings, wish, lease, seats, svc>>
      /\ helper \in Working /\ u \in Users /\ settings' \in [Users -> Settings] /\ wish' \in [Users -> Own]
    BY HelperIs DEF Verify, user
<1>2. /\ helper.attached => dpc = "enable"
      /\ lease[u].held
    BY <1>1 DEF Follows, Attached, HelperHolds
<1> DEFINE h == helper'
<1>3. /\ h \in Working /\ h.user = u /\ h.attached = helper.attached
      /\ h.pc = "confirm" \/ (h.pc = "restore" /\ h.after = "err")
  <2>1. \/ h = [helper EXCEPT !.pc = "confirm"]
        \/ h = [helper EXCEPT !.pc = "restore", !.after = "err"]
    BY DEF Verify, Step, Rollback
  <2> HIDE DEF h
  <2> QED
    BY <1>1, <2>1 DEF Working, Pcs
<1> HIDE DEF h
<1> QED
    BY <1>1, <1>2, <1>3, HelperGoesOn DEF h

\* The lease is confirmed, or the apply is rolled back.
LEMMA ConfirmFollows ==
    ASSUME Follows, Confirm
    PROVE  Follows'
<1> DEFINE u == helper.user
<1>1. /\ helper.pc = "confirm" /\ UNCHANGED <<settings, wish, seats, svc>>
      /\ helper \in Working /\ u \in Users /\ lease[u] \in LeaseT
      /\ settings' \in [Users -> Settings] /\ wish' \in [Users -> Own]
    BY HelperIs DEF Confirm
<1>2. /\ helper.attached => dpc = "enable"
      /\ lease[u].held
    BY <1>1 DEF Follows, Attached, HelperHolds
<1>3. CASE /\ helper' = [helper EXCEPT !.pc = "ok"]
           /\ lease' = [lease EXCEPT ![u].confirmed = TRUE]
  <2> DEFINE h == [helper EXCEPT !.pc = "ok"]
             l == [lease[u] EXCEPT !.confirmed = TRUE]
  <2>1. lease' = [lease EXCEPT ![u] = l]
    BY <1>3
  <2>2. h \in Working /\ h.pc = "ok" /\ h.user = u /\ h.attached = helper.attached
    BY <1>1 DEF Working, Pcs
  <2>3. l \in LeaseT /\ l.held /\ l.confirmed
    BY <1>1, <1>2, Confirmed
  <2> HIDE DEF h, l
  <2> QED
    BY <1>1, <1>2, <1>3, <2>1, <2>2, <2>3, HelperMoves DEF h
<1>4. CASE helper' = [helper EXCEPT !.pc = "restore", !.after = "err"] /\ UNCHANGED lease
  <2> DEFINE h == [helper EXCEPT !.pc = "restore", !.after = "err"]
  <2>1. /\ h \in Working /\ h.pc = "restore" /\ h.after = "err"
        /\ h.user = u /\ h.attached = helper.attached
    BY <1>1 DEF Working, Pcs
  <2> HIDE DEF h
  <2> QED
    BY <1>1, <1>2, <1>4, <2>1, HelperGoesOn DEF h
<1> QED
    BY <1>3, <1>4 DEF Confirm, Step, Rollback

\* What a restore writes back are settings.
LEMMA RestoredIs ==
    ASSUME NEW l \in LeaseT, l.held, NEW now \in Settings
    PROVE  Restored(l, now) \in Settings
<1>1. l.before \in Settings
  <2>1. ~NoLease.held
    BY DEF NoLease
  <2> QED
    BY <2>1 DEF LeaseT
<1>2. Restored(l, now) = Mixed(now, l.before, {f \in Fields : now[f] = l.applied[f]})
    BY DEF Restored, Mixed
<1> QED
    BY <1>1, <1>2, MixedIs

\* A deleted lease is not held.
LEMMA NoLeaseIs == NoLease \in LeaseT /\ ~NoLease.held
    BY DEF NoLease, LeaseT

\* A restore has nothing to do, deletes a lease that is settled, writes back
\* what is ours, or is refused.
LEMMA RestoreFollows ==
    ASSUME Follows, restoreUserProxy
    PROVE  Follows'
<1> DEFINE u == helper.user
           h == helper'
<1>1. /\ helper.pc = "restore" /\ UNCHANGED <<settings, wish, seats, svc>>
      /\ helper \in Working /\ u \in Users /\ lease[u] \in LeaseT /\ wish[u] \in Own
      /\ settings[u] \in Settings
      /\ settings' \in [Users -> Settings] /\ wish' \in [Users -> Own]
    BY HelperIs DEF restoreUserProxy
<1>2. helper.attached => (dpc = "enable" /\ helper.after # "ok") \/ (dpc # "enable" /\ helper.after = "ok")
    BY <1>1 DEF Follows, Attached
<1>3. CASE h = [helper EXCEPT !.pc = helper.after] /\ UNCHANGED lease /\ ~lease[u].held
  <2>1. h \in Working /\ h.pc = helper.after /\ h.after = helper.after /\ h.user = u /\ h.attached = helper.attached
        /\ h.pc \in {"ok", "snapshot", "err"}
    BY <1>1, <1>3 DEF Working, Pcs
  <2> HIDE DEF h
  <2> QED
    BY <1>1, <1>2, <1>3, <2>1, HelperGoesOn DEF h
<1>4. CASE h = [helper EXCEPT !.pc = helper.after] /\ Delete(u)
  <2>1. h \in Working /\ h.pc = helper.after /\ h.after = helper.after /\ h.user = u /\ h.attached = helper.attached
        /\ h.pc \in {"ok", "snapshot", "err"}
    BY <1>1, <1>4 DEF Working, Pcs
  <2>2. lease' = [lease EXCEPT ![u] = NoLease]
    BY <1>4 DEF Delete
  <2> HIDE DEF h
  <2> QED
    BY <1>1, <1>2, <1>4, <2>1, <2>2, NoLeaseIs, HelperMoves DEF h
<1>5. CASE h = [helper EXCEPT !.pc = "err"] /\ UNCHANGED lease
  <2>1. h \in Working /\ h.pc = "err" /\ h.after = helper.after /\ h.user = u /\ h.attached = helper.attached
    BY <1>1, <1>5 DEF Working, Pcs
  <2> HIDE DEF h
  <2> QED
    BY <1>1, <1>2, <1>5, <2>1, HelperGoesOn DEF h
<1>6. CASE /\ lease[u].held /\ UNCHANGED lease
           /\ h = [helper EXCEPT !.pc = "writeback", !.want = Restored(lease[u], settings[u]),
                                 !.seen = wish[u]]
  <2> DEFINE want == Restored(lease[u], settings[u])
  <2>1. want \in Settings
    BY <1>1, <1>6, RestoredIs
  <2> HIDE DEF want
  <2>2. h \in Working /\ h.pc = "writeback" /\ h.after = helper.after /\ h.user = u /\ h.attached = helper.attached
    BY <1>1, <1>6, <2>1 DEF Working, Pcs, want
  <2> HIDE DEF h
  <2> QED
    BY <1>1, <1>2, <1>6, <2>2, HelperGoesOn DEF h
<1> QED
    BY <1>1, <1>3, <1>4, <1>5, <1>6 DEF restoreUserProxy, DropLease, Step

\* What is ours is written over.
LEMMA WriteBackFollows ==
    ASSUME Follows, WriteBack
    PROVE  Follows'
<1> DEFINE u == helper.user
           h == helper'
<1>1. /\ helper.pc = "writeback" /\ UNCHANGED <<lease, seats, svc>>
      /\ helper \in Working /\ u \in Users /\ helper.want \in Settings
    BY HelperIs DEF WriteBack, Working
<1>2. /\ helper.attached => (dpc = "enable" /\ helper.after # "ok") \/ (dpc # "enable" /\ helper.after = "ok")
      /\ lease[u].held
    BY <1>1 DEF Follows, Attached, HelperHolds
<1>3. settings' \in [Users -> Settings] /\ wish' \in [Users -> Own]
  <2>1. \E F : Overwrite(u, helper.want, F)
    BY DEF WriteBack
  <2> QED
    BY <1>1, <2>1, OverwriteIs
<1>4. /\ h \in Working /\ h.user = u /\ h.attached = helper.attached /\ h.after = helper.after
      /\ h.pc \in {"readback", "err"}
  <2>1. h = [helper EXCEPT !.pc = "readback"] \/ h = [helper EXCEPT !.pc = "err"]
    BY DEF WriteBack, Step
  <2> HIDE DEF h
  <2> QED
    BY <1>1, <2>1 DEF Working, Pcs
<1> HIDE DEF h
<1> QED
    BY <1>1, <1>2, <1>3, <1>4, HelperGoesOn DEF h

\* What was written back is read back.
LEMMA ReadbackFollows ==
    ASSUME Follows, Readback
    PROVE  Follows'
<1> DEFINE u == helper.user
           h == helper'
<1>1. /\ helper.pc = "readback" /\ UNCHANGED <<settings, wish, seats, svc>>
      /\ helper \in Working /\ u \in Users /\ settings' \in [Users -> Settings] /\ wish' \in [Users -> Own]
    BY HelperIs DEF Readback
<1>2. helper.attached => (dpc = "enable" /\ helper.after # "ok") \/ (dpc # "enable" /\ helper.after = "ok")
    BY <1>1 DEF Follows, Attached
<1>3. CASE h = [helper EXCEPT !.pc = helper.after] /\ Delete(u)
  <2>1. h \in Working /\ h.pc = helper.after /\ h.after = helper.after /\ h.user = u /\ h.attached = helper.attached
        /\ h.pc \in {"ok", "snapshot", "err"}
    BY <1>1, <1>3 DEF Working, Pcs
  <2>2. lease' = [lease EXCEPT ![u] = NoLease]
    BY <1>3 DEF Delete
  <2> HIDE DEF h
  <2> QED
    BY <1>1, <1>2, <1>3, <2>1, <2>2, NoLeaseIs, HelperMoves DEF h
<1>4. CASE h = [helper EXCEPT !.pc = "err"] /\ UNCHANGED lease
  <2>1. h \in Working /\ h.pc = "err" /\ h.after = helper.after /\ h.user = u /\ h.attached = helper.attached
    BY <1>1, <1>4 DEF Working, Pcs
  <2> HIDE DEF h
  <2> QED
    BY <1>1, <1>2, <1>4, <2>1, HelperGoesOn DEF h
<1> QED
    BY <1>3, <1>4 DEF Readback, DropLease, Step

\* The helper's 12 s are over.
LEMMA HelperKilledFollows ==
    ASSUME Follows, HelperKilled
    PROVE  Follows'
<1> DEFINE h == [helper EXCEPT !.pc = "err"]
<1>1. /\ helper.pc \notin {"off", "ok", "err"} /\ helper' = h
      /\ UNCHANGED <<settings, wish, lease, seats, svc>>
      /\ helper \in Working /\ settings' \in [Users -> Settings] /\ wish' \in [Users -> Own]
    BY HelperIs DEF HelperKilled, Step, user
<1>2. helper.attached /\ dpc # "enable" => helper.after = "ok"
    BY <1>1 DEF Follows, Attached
<1>3. h \in Working /\ h.pc = "err" /\ h.after = helper.after /\ h.user = helper.user /\ h.attached = helper.attached
    BY <1>1 DEF Working, Pcs
<1> HIDE DEF h
<1> QED
    BY <1>1, <1>2, <1>3, HelperGoesOn

----------------------------------------------------------------------------
(* The service.                                                            *)

\* An owner is a user in a session.
LEMMA OwnerIs ==
    /\ \A u \in Users : \A s : [sid |-> u, session |-> s] # NoOwner
    /\ \A o \in [sid : Users, session : Sessions] : o # NoOwner
    /\ NoOwner.sid \notin Users
    BY UserProxyAssumption DEF NoOwner, NoUser

\* The console user, as an owner.
LEMMA CurrentIs ==
    ASSUME Follows, console # 0
    PROVE  Current \in [sid : Users, session : Sessions] /\ Current # NoOwner
    BY OwnerIs DEF Follows, Shape, SeatShape, Current

\* The service takes an answer while no helper is at work.
LEMMA AnswerFollows ==
    ASSUME Follows, NEW res \in {"ok", "err"}, Answer(res), helper' = NoHelper,
           UNCHANGED <<user, seats>>,
           dpc = "enable" /\ res = "ok" => lease[owner.sid].held /\ lease[owner.sid].confirmed,
           dpc # "enable" /\ res = "ok" => ~lease[owner.sid].held
    PROVE  Follows'
<1> USE DEF user, seats
<1>1. helper'.pc = "off"
    BY DEF NoHelper
<1>2. /\ dpc \in {"enable", "disable", "retry"} /\ owner # NoOwner /\ armed
      /\ dpc = "enable" => ~applied
      /\ owner \in [sid : Users, session : Sessions]
    BY DEF Answer, Follows, Shape, ServiceShape, AppliedAtRest
<1>3. UserShape' /\ SeatShape'
    BY DEF Follows, Shape, UserShape, SeatShape
<1>4. CASE dpc = "enable"
  <2>1. /\ UNCHANGED <<owner, armed, served>> /\ then' \in {"none", "enable"}
        /\ (res = "ok" /\ applied' = TRUE /\ dpc' = "idle") \/ (applied' = FALSE /\ dpc' = "disable")
    BY <1>2, <1>4 DEF Answer, Follows, Shape, ServiceShape
  <2>2. ServiceShape'
    BY <1>2, <2>1 DEF Follows, Shape, ServiceShape
  <2> QED
    BY <1>1, <1>2, <1>3, <1>4, <2>1, <2>2
    DEF Follows, Shape, HelperHolds, Attached, Orphaned, Served, AppliedAtRest
<1>5. CASE dpc # "enable" /\ res = "ok"
  <2>1. /\ owner' = NoOwner /\ armed' = FALSE /\ dpc' \in {"arm", "idle"} /\ then' = "none"
        /\ applied' = FALSE /\ UNCHANGED served
    BY <1>5 DEF Answer, Forget
  <2>2. ServiceShape'
    BY <1>2, <2>1 DEF Follows, Shape, ServiceShape
  <2>3. Served'
    BY <1>5, <2>1 DEF Follows, Served
  <2> QED
    BY <1>1, <1>2, <1>3, <2>1, <2>2, <2>3
    DEF Follows, Shape, HelperHolds, Attached, Orphaned, AppliedAtRest
<1>6. CASE dpc # "enable" /\ res = "err"
  <2>1. /\ UNCHANGED <<armed, served>> /\ then' \in {"none", "enable"}
        /\ \/ /\ owner' = [owner EXCEPT !.session = console] /\ dpc' = "retry" /\ console # 0
              /\ UNCHANGED applied
           \/ owner' = owner /\ dpc' = "idle" /\ applied' = FALSE
    BY <1>6 DEF Answer, Rebinds, Follows, Shape, ServiceShape
  <2>2. owner' \in [sid : Users, session : Sessions] /\ owner'.sid = owner.sid /\ owner' # NoOwner
    BY <1>2, <2>1, OwnerIs DEF Follows, Shape, SeatShape
  <2>3. ServiceShape'
    BY <1>2, <2>1, <2>2 DEF Follows, Shape, ServiceShape
  <2>4. Served'
    BY <2>1, <2>2 DEF Follows, Served
  <2>5. AppliedAtRest'
    BY <2>1, <2>2 DEF AppliedAtRest
  <2> QED
    BY <1>1, <1>2, <1>3, <2>1, <2>3, <2>4, <2>5
    DEF Follows, Shape, HelperHolds, Attached, Orphaned
<1> QED
    BY <1>4, <1>5, <1>6

\* A helper exits, and the service that waits for it takes its answer.
LEMMA HelperExitsFollows ==
    ASSUME Follows, HelperExits
    PROVE  Follows'
<1>1. /\ helper.pc \in {"ok", "err"} /\ helper' = NoHelper /\ UNCHANGED <<user, seats>>
      /\ helper \in Working
    BY HelperIs DEF HelperExits
<1>2. CASE helper.attached
  <2>1. Answer(helper.pc) /\ helper.user = owner.sid
    BY <1>1, <1>2 DEF HelperExits, Follows, Attached
  <2>2. /\ dpc = "enable" /\ helper.pc = "ok" => lease[owner.sid].held /\ lease[owner.sid].confirmed
        /\ dpc # "enable" /\ helper.pc = "ok" => ~lease[owner.sid].held
    BY <1>1, <1>2, <2>1 DEF Follows, Attached
  <2> QED
    BY <1>1, <2>1, <2>2, AnswerFollows
<1>3. CASE ~helper.attached
  <2>1. UNCHANGED svc /\ helper'.pc = "off"
    BY <1>1, <1>3 DEF HelperExits, NoHelper
  <2> QED
    BY <1>1, <2>1 DEF user, seats, svc, Follows, Shape, UserShape, SeatShape, ServiceShape,
       HelperHolds, Attached, Orphaned, Served, AppliedAtRest
<1> QED
    BY <1>2, <1>3

\* A helper starts as the owner, or the attempt fails.
LEMMA RunFollows ==
    ASSUME Follows, Run
    PROVE  Follows'
<1>1. /\ dpc \in {"enable", "disable", "retry"} /\ helper.pc = "off" /\ helper = NoHelper
      /\ UNCHANGED <<user, seats>> /\ owner \in [sid : Users, session : Sessions]
    BY DEF Run, Follows, Shape, UserShape, ServiceShape, Working, Pcs
<1>2. CASE proxySessionToken(owner)
  <2> DEFINE h == helper'
  <2>1. /\ h = [pc |-> IF dpc = "enable" THEN "load" ELSE "restore",
                after |-> "ok", user |-> live[owner.session], session |-> owner.session,
                want |-> Applied, seen |-> wish[live[owner.session]], attached |-> TRUE]
        /\ UNCHANGED svc /\ live[owner.session] = owner.sid
    BY <1>2 DEF Run, proxySessionToken
  <2>a. wish[owner.sid] \in Own
    BY <1>1 DEF Follows, Shape, UserShape
  <2>2. /\ h \in Working /\ h.user = owner.sid /\ h.after = "ok" /\ h.attached
        /\ h.pc = IF dpc = "enable" THEN "load" ELSE "restore"
    BY <1>1, <2>1, <2>a DEF Working, Pcs, Applied, Settings
  <2>3. Shape'
    BY <1>1, <2>1, <2>2 DEF user, seats, svc, Follows, Shape, UserShape, SeatShape, ServiceShape
  <2> HIDE DEF h
  <2>4. HelperHolds' /\ Attached' /\ Orphaned'
    BY <1>1, <2>1, <2>2 DEF svc, h, HelperHolds, Attached, Orphaned
  <2>5. Served' /\ AppliedAtRest'
    BY <1>1, <2>1 DEF user, svc, Follows, Served, AppliedAtRest
  <2> QED
    BY <2>3, <2>4, <2>5 DEF Follows
<1>3. CASE ~proxySessionToken(owner)
  <2>1. Answer("err") /\ helper' = NoHelper
    BY <1>1, <1>3 DEF Run
  <2> QED
    BY <1>1, <2>1, AnswerFollows
<1> QED
    BY <1>2, <1>3

\* An apply begins for the owner there is, or the console user.
LEMMA EnableFollows ==
    ASSUME Follows, Enable, dpc \in {"idle", "arm"}, ~applied,
           helper.pc # "off" => ~helper.attached,
           UNCHANGED <<user, seats, applied, then, helper>>
    PROVE  Follows'
<1>1. /\ owner' # NoOwner /\ owner' \in [sid : Users, session : Sessions]
      /\ owner # NoOwner => owner' = owner
      /\ armed' = TRUE /\ dpc' = "enable" /\ served' = served \cup {owner'.sid}
    BY CurrentIs DEF Enable, Follows, Shape, ServiceShape
<1>2. Shape'
    BY <1>1 DEF user, seats, Follows, Shape, UserShape, SeatShape, ServiceShape
<1>3. owner = NoOwner => \A u \in served : ~lease[u].held
    BY OwnerIs DEF Follows, Shape, ServiceShape, Served
<1>4. Served'
    BY <1>1, <1>3 DEF user, Follows, Served
<1>5. Orphaned'
    BY <1>1, OwnerIs DEF Follows, Shape, ServiceShape, Orphaned
<1>6. HelperHolds' /\ Attached' /\ AppliedAtRest'
    BY DEF user, Follows, HelperHolds, Attached, AppliedAtRest
<1> QED
    BY <1>2, <1>4, <1>5, <1>6 DEF Follows

\* A connect wants the proxy: what is owed is restored first.
LEMMA ArmFollows ==
    ASSUME Follows, armSystemProxy
    PROVE  Follows'
<1>1. /\ dpc = "idle" /\ ~applied /\ UNCHANGED <<user, seats, applied, helper>>
      /\ helper.pc # "off" => ~helper.attached
    BY DEF armSystemProxy, Follows, Attached
<1>2. CASE armed
  <2>1. dpc' = "disable" /\ then' = "enable" /\ UNCHANGED <<owner, armed, served>>
    BY <1>2 DEF armSystemProxy
  <2> QED
    BY <1>1, <1>2, <2>1 DEF user, seats, Follows, Shape, UserShape, SeatShape, ServiceShape,
       HelperHolds, Attached, Orphaned, Served, AppliedAtRest
<1>3. CASE ~armed
  <2>1. Enable /\ UNCHANGED then
    BY <1>3 DEF armSystemProxy
  <2> QED
    BY <1>1, <2>1, EnableFollows
<1> QED
    BY <1>2, <1>3

\* The restore worked, and the proxy is applied for the console user.
LEMMA ArmAfterRestoreFollows ==
    ASSUME Follows, ArmAfterRestore
    PROVE  Follows'
<1>1. /\ dpc = "arm" /\ ~applied /\ UNCHANGED <<user, seats, applied, then, helper>>
      /\ helper.pc # "off" => ~helper.attached
    BY DEF ArmAfterRestore, Follows, Attached, AppliedAtRest
<1>2. CASE Enable
    BY <1>1, <1>2, EnableFollows
<1>3. CASE dpc' = "idle" /\ UNCHANGED <<owner, armed, served>>
    BY <1>1, <1>3 DEF user, seats, Follows, Shape, UserShape, SeatShape, ServiceShape,
       HelperHolds, Attached, Orphaned, Served, AppliedAtRest
<1> QED
    BY <1>2, <1>3 DEF ArmAfterRestore

\* A disconnect takes the proxy away.
LEMMA DisarmFollows ==
    ASSUME Follows, disarmSystemProxy
    PROVE  Follows'
<1>1. /\ dpc = "idle" /\ armed /\ UNCHANGED <<user, seats, owner, armed, served, helper>>
      /\ applied' = FALSE /\ dpc' = "disable" /\ then' = "none"
    BY DEF disarmSystemProxy
<1> QED
    BY <1>1 DEF user, seats, Follows, Shape, UserShape, SeatShape, ServiceShape,
       HelperHolds, Attached, Orphaned, Served, AppliedAtRest

\* What is owed, by this service or the one before it, is restored.
LEMMA ReconcileFollows ==
    ASSUME Follows, Reconcile
    PROVE  Follows'
<1>1. /\ dpc = "idle" /\ UNCHANGED <<user, seats, applied, served, helper>>
      /\ armed' = TRUE /\ dpc' = "disable" /\ then' = "none"
      /\ helper.pc # "off" => ~helper.attached
    BY DEF Reconcile, Follows, Attached
<1>2. /\ owner' # NoOwner /\ owner' \in [sid : Users, session : Sessions]
      /\ owner # NoOwner => owner' = owner
    BY CurrentIs DEF Reconcile, Follows, Shape, ServiceShape
<1>3. Shape'
    BY <1>1, <1>2 DEF user, seats, Follows, Shape, UserShape, SeatShape, ServiceShape
<1>4. owner = NoOwner => \A u \in served : ~lease[u].held
    BY OwnerIs DEF Follows, Shape, ServiceShape, Served
<1>5. Served'
    BY <1>1, <1>2, <1>4 DEF user, Follows, Served
<1>6. Orphaned'
    BY <1>1, <1>2, OwnerIs DEF Follows, Shape, ServiceShape, Orphaned
<1>7. HelperHolds' /\ Attached' /\ AppliedAtRest'
    BY <1>1, <1>2 DEF user, Follows, HelperHolds, Attached, AppliedAtRest
<1> QED
    BY <1>3, <1>5, <1>6, <1>7 DEF Follows

\* The service dies, and its helper goes on.
LEMMA ServiceDiesFollows ==
    ASSUME Follows, ServiceDies
    PROVE  Follows'
<1>1. /\ UNCHANGED <<user, seats>> /\ served' = {}
      /\ owner' = NoOwner /\ armed' = FALSE /\ applied' = FALSE /\ dpc' = "idle" /\ then' = "none"
    BY DEF ServiceDies
<1>2. ServiceShape' /\ SeatShape'
    BY <1>1 DEF seats, Follows, Shape, SeatShape, ServiceShape
<1>3. CASE helper.pc = "off"
  <2>1. helper' = helper
    BY <1>3 DEF ServiceDies
  <2> QED
    BY <1>1, <1>2, <1>3, <2>1 DEF user, Follows, Shape, UserShape, HelperHolds, Attached, Orphaned,
       Served, AppliedAtRest
<1>4. CASE helper.pc # "off"
  <2> DEFINE h == [helper EXCEPT !.attached = FALSE]
  <2>1. helper' = h
    BY <1>4 DEF ServiceDies
  <2>2. h \in Working /\ ~h.attached /\ h.pc = helper.pc /\ h.user = helper.user
    BY <1>4, HelperIs DEF Working
  <2> HIDE DEF h
  <2> QED
    BY <1>1, <1>2, <2>1, <2>2 DEF user, Follows, Shape, UserShape, HelperHolds, Attached, Orphaned,
       Served, AppliedAtRest
<1> QED
    BY <1>3, <1>4

----------------------------------------------------------------------------
(* The machine and its users.                                              *)

\* A user logs on, and is at the console.
LEMMA LogonFollows ==
    ASSUME Follows, Logon
    PROVE  Follows'
<1>1. UNCHANGED <<user, svc, helper>>
    BY DEF Logon
<1>2. SeatShape'
    BY UserProxyAssumption DEF Logon, NoUser, Follows, Shape, SeatShape
<1> QED
    BY <1>1, <1>2 DEF user, svc, Follows, Shape, UserShape, ServiceShape, HelperHolds, Attached,
       Orphaned, Served, AppliedAtRest

\* A user logs off, and a helper in the session is ended with it.
LEMMA LogoffFollows ==
    ASSUME Follows, Logoff
    PROVE  Follows'
<1>1. UNCHANGED <<user, svc>>
    BY DEF Logoff
<1>2. SeatShape'
    BY UserProxyAssumption DEF Logoff, Follows, Shape, SeatShape
<1>3. CASE helper' = helper
    BY <1>1, <1>2, <1>3 DEF user, svc, Follows, Shape, UserShape, ServiceShape, HelperHolds,
       Attached, Orphaned, Served, AppliedAtRest
<1>4. CASE helper' # helper
  <2> DEFINE h == [helper EXCEPT !.pc = "err"]
  <2>1. helper.pc \notin {"off", "ok", "err"} /\ helper' = h
    BY <1>4 DEF Logoff
  <2>2. /\ h \in Working /\ h.pc = "err" /\ h.user = helper.user /\ h.after = helper.after
        /\ h.attached = helper.attached
    BY <2>1, HelperIs DEF Working, Pcs
  <2> HIDE DEF h
  <2>3. UserShape'
    BY <1>1, <2>1, <2>2 DEF user, Follows, Shape, UserShape
  <2>4. Attached'
    BY <1>1, <2>1, <2>2 DEF svc, Follows, Attached
  <2> QED
    BY <1>1, <1>2, <2>1, <2>2, <2>3, <2>4 DEF user, svc, Follows, Shape, ServiceShape, HelperHolds,
       Orphaned, Served, AppliedAtRest
<1> QED
    BY <1>3, <1>4

\* Another session comes to the console.
LEMMA SwitchFollows ==
    ASSUME Follows, Switch
    PROVE  Follows'
<1>1. UNCHANGED <<user, svc, helper>> /\ SeatShape'
    BY DEF Switch, Follows, Shape, SeatShape
<1> QED
    BY <1>1 DEF user, svc, Follows, Shape, UserShape, ServiceShape, HelperHolds, Attached, Orphaned,
       Served, AppliedAtRest

\* One field of the settings is another.
LEMMA FieldEdited ==
    ASSUME NEW x \in Settings, NEW f \in Fields, NEW v \in Choices[f]
    PROVE  LET y == [x EXCEPT ![f] = v]
           IN  /\ y \in Settings /\ y[f] = v /\ \A g \in Fields : g # f => y[g] = x[g]
               /\ f = "server" => y \in Own
               /\ x \in Own => y \in Own
<1>1. CASE f = "flags"
    BY <1>1 DEF Settings, Own, Choices, Fields
<1>2. CASE f = "server"
    BY <1>2 DEF Settings, Own, Choices, Fields
<1>3. CASE f = "bypass"
    BY <1>3 DEF Settings, Own, Choices, Fields
<1> QED
    BY <1>1, <1>2, <1>3 DEF Fields

\* A user edits a field, and with the server takes over the others.
EditOf(u, f, v, x, y) ==
    /\ settings' = [settings EXCEPT ![u] = x] /\ wish' = [wish EXCEPT ![u] = y]
    /\ x \in Settings /\ y \in Own
    /\ x[f] = v /\ \A g \in Fields : g # f => x[g] = settings[u][g]
    /\ f = "server" => y = x
    /\ f # "server" => y[f] = v /\ \A g \in Fields : g # f => y[g] = wish[u][g]

\* An edit is one of these.
LEMMA EditIs ==
    ASSUME Follows, Edit
    PROVE  /\ UNCHANGED <<lease, seats, svc, helper>>
           /\ \E u \in Users, f \in Fields : \E v \in Choices[f] : \E x, y : EditOf(u, f, v, x, y)
<1>1. PICK u \in Users, f \in Fields : \E v \in Choices[f] :
        /\ settings' = [settings EXCEPT ![u][f] = v]
        /\ wish' = [wish EXCEPT ![u] = IF f = "server" THEN settings'[u] ELSE [@ EXCEPT ![f] = v]]
    BY DEF Edit
<1>2. PICK v \in Choices[f] :
        /\ settings' = [settings EXCEPT ![u][f] = v]
        /\ wish' = [wish EXCEPT ![u] = IF f = "server" THEN settings'[u] ELSE [@ EXCEPT ![f] = v]]
    BY <1>1
<1> DEFINE x == [settings[u] EXCEPT ![f] = v]
           w == [wish[u] EXCEPT ![f] = v]
           y == IF f = "server" THEN x ELSE w
<1>3. /\ settings \in [Users -> Settings] /\ wish \in [Users -> Own]
      /\ settings[u] \in Settings /\ wish[u] \in Own /\ wish[u] \in Settings
    BY DEF Follows, Shape, UserShape, Own, Settings
<1>4. settings' = [settings EXCEPT ![u] = x]
    BY <1>2
<1>5. wish' = [wish EXCEPT ![u] = y]
  <2>1. settings'[u] = x
    BY <1>3, <1>4
  <2> QED
    BY <1>2, <2>1
<1>6. /\ x \in Settings /\ x[f] = v /\ \A g \in Fields : g # f => x[g] = settings[u][g]
      /\ f = "server" => x \in Own
    BY <1>3, FieldEdited
<1>7. w \in Own /\ w[f] = v /\ \A g \in Fields : g # f => w[g] = wish[u][g]
    BY <1>3, FieldEdited
<1> HIDE DEF x, w
<1>8. EditOf(u, f, v, x, y)
    BY <1>4, <1>5, <1>6, <1>7 DEF EditOf
<1> HIDE DEF y
<1> QED
    BY <1>8 DEF Edit

\* A user edits the settings.
LEMMA EditFollows ==
    ASSUME Follows, Edit
    PROVE  Follows'
<1>1. UNCHANGED <<lease, seats, svc, helper>>
    BY EditIs
<1>2. PICK u \in Users, x \in Settings, y \in Own :
        settings' = [settings EXCEPT ![u] = x] /\ wish' = [wish EXCEPT ![u] = y]
    BY EditIs DEF EditOf
<1>3. UserShape'
    BY <1>1, <1>2 DEF Follows, Shape, UserShape
<1> QED
    BY <1>1, <1>3 DEF seats, svc, Follows, Shape, SeatShape, ServiceShape, HelperHolds, Attached,
       Orphaned, Served, AppliedAtRest

----------------------------------------------------------------------------
\* Nobody is logged on, and nothing is owed.
LEMMA InitFollows == Init => Follows
<1> SUFFICES ASSUME Init PROVE Follows
    OBVIOUS
<1>1. helper.pc = "off" /\ helper = NoHelper /\ owner = NoOwner /\ ~applied /\ served = {}
    BY DEF Init, NoHelper
<1>2. UserShape
  <2>1. Initial \subseteq Settings /\ Initial \subseteq Own
    BY DEF Initial, Settings, Own
  <2> QED
    BY <1>1, <2>1, NoLeaseIs DEF Init, UserShape
<1>3. SeatShape /\ ServiceShape
    BY <1>1 DEF Init, SeatShape, ServiceShape
<1> QED
    BY <1>1, <1>2, <1>3 DEF Follows, Shape, HelperHolds, Attached, Orphaned, Served, AppliedAtRest

\* Every step keeps it.
LEMMA NextFollows == Follows /\ [Next]_vars => Follows'
<1> SUFFICES ASSUME Follows, [Next]_vars PROVE Follows'
    OBVIOUS
<1>1. CASE UNCHANGED vars
    BY <1>1 DEF vars, user, seats, svc, Follows, Shape, UserShape, SeatShape, ServiceShape,
       HelperHolds, Attached, Orphaned, Served, AppliedAtRest
<1>2. CASE HelperStep
    BY <1>2, LoadFollows, SnapshotFollows, WriteFollows, VerifyFollows, ConfirmFollows,
       RestoreFollows, WriteBackFollows, ReadbackFollows DEF HelperStep
<1>3. CASE HelperKilled \/ HelperExits \/ ServiceDies
    BY <1>3, HelperKilledFollows, HelperExitsFollows, ServiceDiesFollows
<1>4. CASE Run \/ armSystemProxy \/ ArmAfterRestore \/ disarmSystemProxy \/ Reconcile
    BY <1>4, RunFollows, ArmFollows, ArmAfterRestoreFollows, DisarmFollows, ReconcileFollows
<1>5. CASE Logon \/ Logoff \/ Switch \/ Edit
    BY <1>5, LogonFollows, LogoffFollows, SwitchFollows, EditFollows
<1> QED
    BY <1>1, <1>2, <1>3, <1>4, <1>5 DEF Next

\* The service forgets no lease, and what it has applied can be undone after a
\* death at any moment (proxy.go, session_proxy.go), also when a write of
\* the settings stops half way.
THEOREM LeaseIsNotForgotten == Spec => []LeaseFollowsProxy
<1>1. Spec => []Follows
    BY InitFollows, NextFollows, PTL DEF Spec
<1>2. Follows => LeaseFollowsProxy
  <2> SUFFICES ASSUME Follows PROVE LeaseFollowsProxy
    OBVIOUS
  <2>1. NothingLeftBehind
    BY OwnerIs DEF Follows, Shape, ServiceShape, Served, NothingLeftBehind
  <2>2. AppliedIsJournaled
    BY OwnerIs DEF Follows, Shape, ServiceShape, AppliedAtRest, AppliedIsJournaled
  <2> QED
    BY <2>1, <2>2 DEF LeaseFollowsProxy
<1> QED
    BY <1>1, <1>2, PTL

----------------------------------------------------------------------------
(* RestoredIsTheUsers.                                                     *)

\* Settings are the same if their fields are.
LEMMA SameFields ==
    ASSUME NEW x \in Settings, NEW y \in Settings, \A f \in Fields : x[f] = y[f]
    PROVE  x = y
    BY DEF Settings, Fields

\* A user's own settings are settings, and are not ours.
LEMMA OwnIs ==
    /\ Own \subseteq Settings /\ Applied \in Settings
    /\ \A x \in Own : x.server # "ours"
    /\ Applied.server = "ours"
    BY DEF Own, Settings, Applied

\* A held lease remembers what was there, and what was applied.
LEMMA LeaseIs ==
    ASSUME NEW l \in LeaseT, l.held
    PROVE  l.before \in Settings /\ l.applied = Applied /\ l.confirmed \in BOOLEAN
<1>1. ~NoLease.held
    BY DEF NoLease
<1> QED
    BY <1>1 DEF LeaseT

\* A step of the helper keeps what it keeps for its own user.
LEMMA KeptOfOthers ==
    ASSUME Follows, Kept, NEW v \in Users,
           \A u \in Users : u # v => settings'[u] = settings[u] /\ wish'[u] = wish[u] /\ lease'[u] = lease[u],
           KeptOf(settings'[v], wish'[v], lease'[v])
    PROVE  Kept'
    BY DEF Kept

\* What neither touches the settings nor the leases, and leaves no helper in
\* the middle of its work but where it is.
LEMMA UserIsLeft ==
    ASSUME Kept, HelperKnows, UNCHANGED user,
           helper' = helper \/ helper'.pc \notin {"write", "confirm", "writeback", "readback"}
    PROVE  Kept' /\ HelperKnows'
    BY DEF user, Kept, HelperKnows

\* Confirming a lease of settings that are ours takes nothing from the user.
LEMMA LoadRestores ==
    ASSUME Follows, Kept, HelperKnows, Load
    PROVE  Kept' /\ HelperKnows'
<1> DEFINE u == helper.user
<1>1. /\ helper.pc = "load" /\ UNCHANGED <<settings, wish>>
      /\ helper \in Working /\ u \in Users /\ lease[u] \in LeaseT /\ lease \in [Users -> LeaseT]
    BY HelperIs DEF Load
<1>2. helper'.pc \in {"snapshot", "ok", "err", "restore"}
    BY <1>1 DEF Load, Step, Working
<1>3. CASE UNCHANGED lease
    BY <1>1, <1>2, <1>3, UserIsLeft DEF user
<1>4. CASE /\ lease[u].held /\ settings[u] = lease[u].applied
           /\ lease' = [lease EXCEPT ![u].confirmed = TRUE]
  <2> DEFINE l == [lease[u] EXCEPT !.confirmed = TRUE]
  <2>1. l.held /\ l.before = lease[u].before
    BY <1>1, <1>4, Confirmed
  <2>2. lease'[u] = l /\ \A w \in Users : w # u => lease'[w] = lease[w]
    BY <1>1, <1>4
  <2> HIDE DEF l
  <2>3. settings[u].server = "ours"
    BY <1>1, <1>4, LeaseIs, OwnIs
  <2>4. KeptOf(settings'[u], wish[u], lease'[u])
    BY <1>1, <1>4, <2>1, <2>2, <2>3 DEF Kept, KeptOf
  <2> QED
    BY <1>1, <1>2, <2>2, <2>4, KeptOfOthers DEF HelperKnows
<1> QED
    BY <1>1, <1>3, <1>4 DEF Load

\* A new lease has the settings there are, which are the user's own.
LEMMA SnapshotRestores ==
    ASSUME Follows, Kept, HelperKnows, Snapshot
    PROVE  Kept' /\ HelperKnows'
<1> DEFINE u == helper.user
<1>1. /\ helper.pc = "snapshot" /\ UNCHANGED <<settings, wish>>
      /\ helper \in Working /\ u \in Users /\ lease \in [Users -> LeaseT]
      /\ wish[u] \in Own
    BY HelperIs DEF Snapshot
<1>2. settings[u] = wish[u]
    BY <1>1 DEF Follows, HelperHolds, Kept, KeptOf
<1>3. CASE /\ helper' = [helper EXCEPT !.pc = "write", !.seen = wish[u]]
           /\ lease' = [lease EXCEPT ![u] = NewLease(u)]
  <2> DEFINE l == NewLease(u)
  <2>1. l.held /\ l.before = settings[u] /\ ~l.confirmed
    BY DEF NewLease
  <2>2. lease'[u] = l /\ \A w \in Users : w # u => lease'[w] = lease[w]
    BY <1>1, <1>3
  <2> HIDE DEF l
  <2>3. KeptOf(settings'[u], wish[u], lease'[u])
    BY <1>1, <1>2, <2>1, <2>2, OwnIs DEF KeptOf
  <2>4. helper'.pc = "write" /\ helper'.user = u /\ helper'.seen = wish[u]
    BY <1>1, <1>3 DEF Working
  <2> QED
    BY <1>1, <1>2, <2>1, <2>2, <2>3, <2>4, KeptOfOthers DEF HelperKnows
<1>4. CASE helper' = [helper EXCEPT !.pc = "err"] /\ UNCHANGED lease
  <2>1. helper'.pc = "err"
    BY <1>1, <1>4 DEF Working
  <2> QED
    BY <1>1, <1>4, <2>1, UserIsLeft DEF user
<1> QED
    BY <1>3, <1>4 DEF Snapshot, Step

\* Whichever fields are written, what was read in them is in the lease.
LEMMA WriteRestores ==
    ASSUME Follows, Kept, HelperKnows, Write
    PROVE  Kept' /\ HelperKnows'
<1> DEFINE u == helper.user
           l == lease[u]
           was == settings[u]
           now == settings'[u]
           own == wish'[u]
<1>1. /\ helper.pc = "write" /\ UNCHANGED lease
      /\ helper \in Working /\ u \in Users /\ was \in Settings /\ was \in Own
      /\ l.held /\ ~l.confirmed /\ was = wish[u] /\ helper.seen = l.before
      /\ l.before \in Own
      /\ \A f \in Fields : was[f] = l.before[f] \/ was[f] # Applied[f]
    BY HelperIs DEF Write, Follows, HelperHolds, HelperKnows, Kept, KeptOf
<1>2. PICK F \in SUBSET Fields : Overwrite(u, Applied, F)
    BY DEF Write
<1> DEFINE left == Mixed(was, l.before, F)
<1>3. /\ now = Mixed(was, Applied, F)
      /\ own = IF left.server = l.before.server THEN left ELSE [now EXCEPT !.server = left.server]
      /\ \A w \in Users : w # u => settings'[w] = settings[w] /\ wish'[w] = wish[w]
  <2>1. Applied \in Settings /\ helper.pc # "off"
    BY <1>1, OwnIs
  <2>2. Mixed(was, Applied, F) = Mixed(settings[u], Applied, F) /\ left = Mixed(wish[u], helper.seen, F)
    BY <1>1
  <2> HIDE DEF left
  <2>3. /\ now = Mixed(settings[u], Applied, F)
        /\ own = IF left.server = helper.seen.server THEN left ELSE [now EXCEPT !.server = left.server]
        /\ \A w \in Users : w # u => settings'[w] = settings[w] /\ wish'[w] = wish[w]
    <3>1. LET w == Mixed(wish[u], helper.seen, F)
          IN  /\ now = Mixed(settings[u], Applied, F)
              /\ own = IF w.server = helper.seen.server THEN w ELSE [Mixed(settings[u], Applied, F) EXCEPT !.server = w.server]
              /\ \A v \in Users : v # u => settings'[v] = settings[v] /\ wish'[v] = wish[v]
      BY <1>2, <2>1, OverwriteIs
    <3> QED
      BY <2>2, <3>1
  <2> QED
    BY <1>1, <2>2, <2>3
<1>4. now \in Settings /\ left \in Settings
    BY <1>1, <1>3, MixedIs, OwnIs
<1>5. /\ \A f \in F : now[f] = Applied[f] /\ left[f] = l.before[f]
      /\ \A f \in Fields \ F : now[f] = was[f] /\ left[f] = was[f]
    BY <1>3 DEF Mixed
<1>6. /\ "server" \in F => now.server = "ours" /\ left.server = l.before.server
      /\ "server" \notin F => now.server = was.server /\ left.server = was.server
  <2>1. "server" \in Fields
    BY DEF Fields
  <2>2. /\ "server" \in F => now["server"] = Applied["server"] /\ left["server"] = l.before["server"]
        /\ "server" \notin F => now["server"] = was["server"] /\ left["server"] = was["server"]
    BY <1>5, <2>1
  <2> QED
    BY <2>2, OwnIs
<1>7. was.server # "ours"
    BY <1>1, OwnIs
<1> HIDE DEF now, left, own, was, l
<1>8. KeptOf(now, own, l)
  <2>1. CASE left.server = l.before.server
    <3>1. own = left
      BY <1>3, <2>1
    <3>2. \A f \in Fields : now[f] = own[f] \/ (now[f] = Applied[f] /\ own[f] = l.before[f])
      BY <1>5, <3>1
    <3>3. \A f \in Fields : now[f] = Applied[f] => own[f] = l.before[f]
      BY <1>1, <1>5, <3>1
    <3>4. ~(now.server # "ours" /\ now.server # l.before.server)
      BY <1>6, <2>1
    <3> QED
      BY <1>1, <3>2, <3>3, <3>4 DEF KeptOf
  <2>2. CASE left.server # l.before.server
    <3>1. left.server = now.server /\ now.server # "ours"
      BY <1>6, <1>7, <2>2
    <3>2. own = [now EXCEPT !.server = now.server]
      BY <1>3, <2>2, <3>1
    <3>3. own = now
      BY <1>4, <3>2 DEF Settings
    <3> QED
      BY <1>1, <3>1, <3>3 DEF KeptOf
  <2> QED
    BY <2>1, <2>2
<1>9. Kept'
    BY <1>1, <1>3, <1>8, KeptOfOthers DEF now, own, l
<1>10. helper'.pc \in {"verify", "restore", "err"}
    BY <1>1 DEF Write, Step, Rollback, Working
<1> QED
    BY <1>9, <1>10 DEF HelperKnows

\* Settings just read back as ours have our server.
LEMMA VerifyRestores ==
    ASSUME Follows, Kept, HelperKnows, Verify
    PROVE  Kept' /\ HelperKnows'
<1>1. UNCHANGED <<settings, wish, lease>> /\ helper \in Working
    BY HelperIs DEF Verify, user
<1>2. Kept'
    BY <1>1 DEF Kept
<1>3. CASE settings[helper.user] = Applied /\ helper' = [helper EXCEPT !.pc = "confirm"]
  <2>1. helper'.pc = "confirm" /\ helper'.user = helper.user
    BY <1>1, <1>3 DEF Working
  <2> QED
    BY <1>1, <1>2, <1>3, <2>1, OwnIs DEF HelperKnows
<1>4. CASE helper' = [helper EXCEPT !.pc = "restore", !.after = "err"]
  <2>1. helper'.pc = "restore"
    BY <1>1, <1>4 DEF Working
  <2> QED
    BY <1>2, <2>1 DEF HelperKnows
<1> QED
    BY <1>3, <1>4 DEF Verify, Step, Rollback

\* A confirmed lease of settings that are not ours is one of a user who has
\* taken them over since they were read.
LEMMA ConfirmRestores ==
    ASSUME Follows, Kept, HelperKnows, Confirm
    PROVE  Kept' /\ HelperKnows'
<1> DEFINE u == helper.user
<1>1. /\ helper.pc = "confirm" /\ UNCHANGED <<settings, wish>>
      /\ helper \in Working /\ u \in Users /\ lease[u] \in LeaseT /\ lease \in [Users -> LeaseT]
    BY HelperIs DEF Confirm
<1>2. /\ lease[u].held
      /\ settings[u].server # "ours" => settings[u] = wish[u]
    BY <1>1 DEF Follows, HelperHolds, HelperKnows
<1>3. helper'.pc \in {"ok", "restore"}
    BY <1>1 DEF Confirm, Step, Rollback, Working
<1>4. CASE UNCHANGED lease
    BY <1>1, <1>3, <1>4 DEF Kept, HelperKnows
<1>5. CASE lease' = [lease EXCEPT ![u].confirmed = TRUE]
  <2> DEFINE l == [lease[u] EXCEPT !.confirmed = TRUE]
  <2>1. l.held /\ l.before = lease[u].before
    BY <1>1, <1>2, Confirmed
  <2>2. lease'[u] = l /\ \A w \in Users : w # u => lease'[w] = lease[w]
    BY <1>1, <1>5
  <2> HIDE DEF l
  <2>3. KeptOf(settings'[u], wish[u], lease'[u])
    BY <1>1, <1>2, <2>1, <2>2 DEF Kept, KeptOf
  <2> QED
    BY <1>1, <1>3, <2>2, <2>3, KeptOfOthers DEF HelperKnows
<1> QED
    BY <1>4, <1>5 DEF Confirm

\* What a restore writes back is what the user would have, and a lease it drops
\* is of settings that are the user's own.
LEMMA RestoreRestores ==
    ASSUME Follows, Kept, HelperKnows, restoreUserProxy, "restore" \notin PartialWrites
    PROVE  Kept' /\ HelperKnows'
<1> DEFINE u == helper.user
           l == lease[u]
           now == settings[u]
           own == wish[u]
<1>1. /\ helper.pc = "restore" /\ UNCHANGED wish
      /\ helper \in Working /\ u \in Users /\ l \in LeaseT /\ lease \in [Users -> LeaseT]
      /\ settings \in [Users -> Settings] /\ now \in Settings /\ own \in Own
    BY HelperIs DEF restoreUserProxy
<1>2. KeptOf(now, own, l)
    BY <1>1 DEF Kept
<1>3. CASE helper'.pc \in {"ok", "snapshot", "err"} /\ UNCHANGED <<settings, lease>>
    BY <1>1, <1>3, UserIsLeft DEF user
<1>4. CASE /\ l.held /\ Foreign(l, now) /\ Settled(l, now)
           /\ Delete(u) /\ UNCHANGED settings /\ helper'.pc \in {"ok", "snapshot", "err"}
  <2>1. l.before \in Own /\ l.applied = Applied /\ now.server # "ours"
    BY <1>1, <1>2, <1>4, LeaseIs, OwnIs DEF KeptOf, Foreign
  <2>2. ASSUME l.confirmed \/ now.server # l.before.server PROVE now = own
    <3>1. now = own
      BY <1>2, <1>4, <2>1, <2>2 DEF KeptOf
    <3> QED
      BY <3>1
  <2>3. ASSUME now = l.before PROVE now = own
    <3>1. \A f \in Fields : now[f] = own[f]
      BY <1>2, <1>4, <2>3 DEF KeptOf
    <3>2. now = own
      BY <1>1, <3>1, SameFields, OwnIs
    <3> QED
      BY <3>2
  <2>4. now = own
    BY <1>4, <2>2, <2>3 DEF Settled
  <2>5. lease'[u] = NoLease /\ \A w \in Users : w # u => lease'[w] = lease[w]
    BY <1>1, <1>4 DEF Delete
  <2>6. KeptOf(settings'[u], wish[u], lease'[u])
    BY <1>4, <2>4, <2>5, NoLeaseIs DEF KeptOf
  <2> QED
    BY <1>1, <1>4, <2>5, <2>6, KeptOfOthers DEF HelperKnows
<1>5. ASSUME l.held, ~Foreign(l, now)
      PROVE  Restored(l, now) = own /\ Restored(l, now) # now
  <2> DEFINE want == Restored(l, now)
  <2>1. l.before \in Own /\ l.applied = Applied /\ now.server = "ours"
    BY <1>1, <1>2, <1>5, LeaseIs, OwnIs DEF KeptOf, Foreign
  <2>2. want \in Settings
    BY <1>1, <1>5, RestoredIs
  <2>3. \A f \in Fields : want[f] = own[f]
    BY <1>2, <1>5, <2>1 DEF KeptOf, Restored
  <2> HIDE DEF want
  <2>4. want = own
    BY <1>1, <2>2, <2>3, SameFields, OwnIs
  <2>5. want # now
    BY <1>1, <2>1, <2>4, OwnIs
  <2> QED
    BY <2>4, <2>5 DEF want
<1>6. CASE /\ l.held /\ ~Foreign(l, now) /\ UNCHANGED <<settings, lease>>
           /\ helper' = [helper EXCEPT !.pc = "writeback", !.want = Restored(l, now), !.seen = own]
  <2>1. Restored(l, now) = own
    BY <1>5, <1>6
  <2>2. helper'.pc = "writeback" /\ helper'.want = own /\ helper'.seen = own
    BY <1>1, <1>6, <2>1 DEF Working
  <2> QED
    BY <1>1, <1>6, <2>2 DEF Kept, HelperKnows
<1> QED
  <2>1. helper.after \in {"ok", "snapshot", "err"}
    BY <1>1 DEF Working
  <2>2. ASSUME NEW p \in {"ok", "snapshot", "err"}, helper' = [helper EXCEPT !.pc = p]
        PROVE  helper'.pc \in {"ok", "snapshot", "err"}
    BY <1>1, <2>2 DEF Working
  <2> QED
    BY <1>1, <1>3, <1>4, <1>5, <1>6, <2>1, <2>2 DEF restoreUserProxy, DropLease, Step

\* What is written back is what the user would have, less what it goes over.
LEMMA WriteBackRestores ==
    ASSUME Follows, Kept, HelperKnows, WriteBack, "restore" \notin PartialWrites
    PROVE  Kept' /\ HelperKnows'
<1> DEFINE u == helper.user
           l == lease[u]
<1>1. /\ helper.pc = "writeback" /\ UNCHANGED lease
      /\ Overwrite(u, helper.want, Fields) /\ helper' = [helper EXCEPT !.pc = "readback"]
      /\ helper \in Working /\ u \in Users /\ helper.want \in Settings /\ helper.want \in Own
      /\ helper.seen = helper.want /\ l.held /\ l.before \in Own
      /\ settings[u] \in Settings /\ wish[u] \in Settings
    BY HelperIs, OwnIs DEF WriteBack, Step, Working, Follows, HelperHolds, HelperKnows, Kept, KeptOf
<1>2. Mixed(settings[u], helper.want, Fields) = helper.want /\ Mixed(wish[u], helper.want, Fields) = helper.want
  <2>1. ASSUME NEW x \in Settings PROVE Mixed(x, helper.want, Fields) = helper.want
    <3>1. Mixed(x, helper.want, Fields) \in Settings
      BY <1>1, MixedIs
    <3>2. \A f \in Fields : Mixed(x, helper.want, Fields)[f] = helper.want[f]
      BY DEF Mixed
    <3> QED
      BY <1>1, <3>1, <3>2, SameFields
  <2> QED
    BY <1>1, <2>1
<1>3. /\ settings'[u] = helper.want /\ wish'[u] = helper.want
      /\ \A w \in Users : w # u => settings'[w] = settings[w] /\ wish'[w] = wish[w]
    BY <1>1, <1>2, OverwriteIs, ZenonT(30)
<1>4. KeptOf(helper.want, helper.want, l)
    BY <1>1, OwnIs DEF KeptOf
<1>5. helper'.pc = "readback" /\ helper'.user = u
    BY <1>1 DEF Working
<1> QED
    BY <1>1, <1>3, <1>4, <1>5, KeptOfOthers DEF HelperKnows

\* What is read back is the user's own, whatever the user has done meanwhile.
LEMMA ReadbackRestores ==
    ASSUME Follows, Kept, HelperKnows, Readback
    PROVE  Kept' /\ HelperKnows'
<1> DEFINE u == helper.user
<1>1. /\ helper.pc = "readback" /\ UNCHANGED <<settings, wish>>
      /\ helper \in Working /\ u \in Users /\ lease \in [Users -> LeaseT]
    BY HelperIs DEF Readback
<1>2. settings[u] = wish[u]
    BY <1>1 DEF HelperKnows
<1>3. helper'.pc \in {"ok", "snapshot", "err"}
    BY <1>1 DEF Readback, DropLease, Step, Working
<1>4. CASE UNCHANGED lease
    BY <1>1, <1>3, <1>4, UserIsLeft DEF user
<1>5. CASE Delete(u)
  <2>1. lease'[u] = NoLease /\ \A w \in Users : w # u => lease'[w] = lease[w]
    BY <1>1, <1>5 DEF Delete
  <2>2. KeptOf(settings'[u], wish[u], lease'[u])
    BY <1>1, <1>2, <2>1, NoLeaseIs DEF KeptOf
  <2> QED
    BY <1>1, <1>3, <2>1, <2>2, KeptOfOthers DEF HelperKnows
<1> QED
    BY <1>4, <1>5 DEF Readback, DropLease

\* A user's edit is the user's own, and with the server so is the rest.
LEMMA EditRestores ==
    ASSUME Follows, Kept, HelperKnows, Edit
    PROVE  Kept' /\ HelperKnows'
<1>1. UNCHANGED <<lease, helper>>
    BY EditIs
<1>2. PICK u \in Users, f \in Fields : \E v \in Choices[f] : \E x, y : EditOf(u, f, v, x, y)
    BY EditIs
<1>3. PICK v \in Choices[f] : \E x, y : EditOf(u, f, v, x, y)
    BY <1>2
<1>a. PICK x, y : EditOf(u, f, v, x, y)
    BY <1>3
<1> DEFINE now == settings[u]
           own == wish[u]
           l == lease[u]
<1>4. /\ settings'[u] = x /\ wish'[u] = y /\ x \in Settings /\ y \in Own /\ y \in Settings
      /\ \A w \in Users : w # u => settings'[w] = settings[w] /\ wish'[w] = wish[w]
      /\ now \in Settings /\ own \in Own /\ own \in Settings
    BY <1>a, OwnIs DEF EditOf, Follows, Shape, UserShape
<1>5. v # Applied[f] /\ (f = "server" => v # "ours")
    BY DEF Choices, Applied, Fields
<1>6. now = own => x = y
  <2>1. ASSUME now = own PROVE \A g \in Fields : x[g] = y[g]
    BY <1>a, <2>1 DEF EditOf
  <2> QED
    BY <1>4, <2>1, SameFields
<1>7. /\ f = "server" => x = y /\ x.server # "ours"
      /\ f # "server" => x.server = now.server
  <2>1. /\ f = "server" => x = y /\ x["server"] = v
        /\ f # "server" => x["server"] = now["server"]
    BY <1>a DEF EditOf, Fields
  <2> QED
    BY <1>5, <2>1
<1>8. KeptOf(now, own, l)
    BY DEF Kept
<1>9. KeptOf(x, y, l)
  <2>1. CASE now = own \/ f = "server"
    <3>1. x = y
      BY <1>6, <1>7, <2>1
    <3>2. y.server # "ours"
      BY <1>4, OwnIs
    <3> QED
      BY <1>4, <1>8, <3>1, <3>2 DEF KeptOf
  <2>2. CASE now # own /\ f # "server"
    <3>1. l.held /\ l.before \in Own
      BY <1>8, <2>2 DEF KeptOf
    <3>2. /\ x[f] = v /\ y[f] = v
          /\ \A g \in Fields : g # f => x[g] = now[g] /\ y[g] = own[g]
      BY <1>a, <2>2 DEF EditOf
    <3>3. \A g \in Fields : x[g] = y[g] \/ (x[g] = Applied[g] /\ y[g] = l.before[g])
      BY <1>8, <3>1, <3>2 DEF KeptOf
    <3>4. x.server = "ours" => \A g \in Fields : x[g] = Applied[g] => y[g] = l.before[g]
      BY <1>5, <1>7, <1>8, <2>2, <3>1, <3>2 DEF KeptOf
    <3>5. ~(x.server # "ours" /\ (l.confirmed \/ x.server # l.before.server))
      BY <1>7, <1>8, <2>2, <3>1 DEF KeptOf
    <3> QED
      BY <3>1, <3>3, <3>4, <3>5 DEF KeptOf
  <2> QED
    BY <2>1, <2>2
<1>10. Kept'
    BY <1>1, <1>4, <1>9 DEF Kept
<1>11. HelperKnows'
  <2>1. CASE helper.pc \notin {"write", "confirm", "readback"}
    BY <1>1, <2>1 DEF HelperKnows
  <2>2. CASE helper.pc \in {"write", "confirm", "readback"} /\ helper.user # u
    <3>1. helper.user \in Users
      BY <2>2, HelperIs
    <3> QED
      BY <1>1, <1>4, <2>2, <3>1 DEF HelperKnows
  <2>3. CASE helper.pc \in {"confirm", "readback"} /\ helper.user = u
    <3>1. x.server # "ours" \/ helper.pc = "readback" => x = y
      BY <1>6, <1>7, <2>3 DEF HelperKnows
    <3> QED
      BY <1>1, <1>4, <2>3, <3>1 DEF HelperKnows
  <2>4. CASE helper.pc = "write" /\ helper.user = u
    <3>1. x = y
      BY <1>6, <2>4 DEF HelperKnows
    <3>2. \A g \in Fields : x[g] = l.before[g] \/ x[g] # Applied[g]
      BY <1>a, <1>5, <2>4 DEF EditOf, HelperKnows
    <3> QED
      BY <1>1, <1>4, <2>4, <3>1, <3>2 DEF HelperKnows
  <2> QED
    BY <2>1, <2>2, <2>3, <2>4
<1> QED
    BY <1>10, <1>11

\* Every step keeps what the settings are and what a helper relies on, if a
\* restore does not stop half way.
LEMMA NextRestores ==
    ASSUME "restore" \notin PartialWrites, Follows, Kept, HelperKnows, [Next]_vars
    PROVE  Kept' /\ HelperKnows'
<1>1. CASE UNCHANGED vars \/ Logon \/ Switch \/ armSystemProxy \/ ArmAfterRestore \/ disarmSystemProxy
           \/ Reconcile
  <2>1. UNCHANGED user /\ UNCHANGED helper
    BY <1>1 DEF vars, Logon, Switch, armSystemProxy, ArmAfterRestore, disarmSystemProxy, Reconcile
  <2> QED
    BY <2>1, UserIsLeft
<1>2. CASE HelperKilled \/ HelperExits \/ Run \/ Logoff
  <2>1. UNCHANGED user
    BY <1>2 DEF HelperKilled, HelperExits, Run, Logoff
  <2>2. helper' = helper \/ helper'.pc \notin {"write", "confirm", "writeback", "readback"}
    <3>1. CASE HelperKilled \/ Logoff
      <4>1. helper' = helper \/ (helper.pc # "off" /\ helper' = [helper EXCEPT !.pc = "err"])
        BY <3>1 DEF HelperKilled, Logoff, Step
      <4> QED
        BY <4>1, HelperIs DEF Working
    <3>2. CASE HelperExits \/ Run
      BY <3>2 DEF HelperExits, Run, NoHelper
    <3> QED
      BY <1>2, <3>1, <3>2
  <2> QED
    BY <2>1, <2>2, UserIsLeft
<1>3. CASE ServiceDies
  <2>1. UNCHANGED user
    BY <1>3 DEF ServiceDies
  <2>2. helper' = helper \/ (/\ helper'.pc = helper.pc /\ helper'.user = helper.user
                            /\ helper'.seen = helper.seen /\ helper'.want = helper.want)
    BY <1>3, HelperIs DEF ServiceDies, Working
  <2> QED
    BY <2>1, <2>2 DEF user, Kept, HelperKnows
<1>4. CASE HelperStep
    BY <1>4, LoadRestores, SnapshotRestores, WriteRestores, VerifyRestores, ConfirmRestores,
       RestoreRestores, WriteBackRestores, ReadbackRestores DEF HelperStep
<1>5. CASE Edit
    BY <1>5, EditRestores
<1> QED
    BY <1>1, <1>2, <1>3, <1>4, <1>5 DEF Next

\* Where no lease is left the settings are the user's own: what we wrote is
\* gone and every edit is there that no write went over after the helper had
\* read, whatever helper was killed, write stopped half way or service died
\* (user_proxy_lease.go).  A restore that stops half way is the exception.
THEOREM LeaseGivesBack == "restore" \notin PartialWrites => (Spec => []RestoredIsTheUsers)
<1> SUFFICES ASSUME "restore" \notin PartialWrites PROVE Spec => []RestoredIsTheUsers
    OBVIOUS
<1>1. Init => Kept /\ HelperKnows
    BY NoLeaseIs DEF Init, Kept, KeptOf, HelperKnows, NoHelper
<1>2. Follows /\ Kept /\ HelperKnows /\ [Next]_vars => Kept' /\ HelperKnows'
    BY NextRestores
<1>3. Kept => RestoredIsTheUsers
    BY DEF Kept, KeptOf, RestoredIsTheUsers
<1> QED
    BY <1>1, <1>2, <1>3, InitFollows, NextFollows, PTL DEF Spec
=============================================================================
