-------------------------- MODULE ProtectionProofs --------------------------
(***************************************************************************)
(* Theorems about what may leave outside the tunnel: of HostGuard, for     *)
(* every set of LUIDs and of addresses, and of ConfigBuild, for every set  *)
(* of cases.                                                               *)
(***************************************************************************)
EXTENDS HostGuard, ConfigBuild, TLAPS, FiniteSetTheorems, SequenceTheorems,
        WellFoundedInduction

\* The strengthening: an operation in flight shows as "applying", a committed
\* one has left its policy in the kernel, and a free Guard.op carries nothing.
OpInv ==
    /\ op.kind = "none" => op = NoOp
    /\ op.kind # "none" => guard.status = "applying"
    /\ op.phase = "committed" => kernel = Commits(op)

IInv == TypeOK /\ OpInv /\ EnforcementIsReal /\ NoStalePermit

\* What the operators of GuardOps return, field by field.
LEMMA GuardOpsFacts ==
  ASSUME NEW g \in Guards, NEW t \in Tunnels \cup {NoTunnel}
  PROVE  /\ Pending(g) \in Guards /\ Fail(g) \in Guards
         /\ Confirm(g, t) \in Guards /\ ConfirmOff(g) \in Guards
         /\ Accepted(g) \in Guards /\ Interrupted(g) \in Guards
         /\ Pending(g).status = "applying" /\ Pending(g).enforced = g.enforced
         /\ Fail(g).status = "error" /\ Fail(g).enforced = g.enforced
         /\ Accepted(g).enforced = g.enforced /\ Accepted(g).tunnel = g.tunnel
         /\ Accepted(g).status = "active" \/ Accepted(g) = g
         /\ Interrupted(g).enforced = g.enforced
         /\ Interrupted(g).tunnel = g.tunnel
         /\ Interrupted(g).status = "blocked" \/ Interrupted(g) = g
  BY DEF Pending, Fail, Confirm, ConfirmOff, Accepted, Interrupted, Guards, Statuses

\* The values the operations start from have their types.
LEMMA ValueFacts ==
  /\ NewGuard(TRUE) \in Guards
  /\ NoOp \in Ops /\ NoOp.kind = "none" /\ NoOp.phase = "call"
  /\ NoOp.tunnel = NoTunnel
  /\ NewGuard(TRUE).status = "off" /\ NewGuard(TRUE).enforced = FALSE
  /\ Absent \in Kernels /\ Partial \in Kernels
  /\ \A l \in Luids \cup {0} : Installed(l) \in Kernels
  BY DEF NewGuard, Guards, Statuses, NoOp, Ops, Absent, Partial, Installed, Kernels

\* The guard starts with nothing reported and nothing in flight.
LEMMA InitIInv == Init => IInv
<1> SUFFICES ASSUME Init PROVE IInv
  OBVIOUS
<1>1. TypeOK
  <2>1. kernel \in Kernels
    BY ValueFacts DEF Init
  <2>2. watch \in [tunnel : Tunnels \cup {NoTunnel}, luid : Luids \cup {0},
                   pc : {"idle", "resolve", "compare", "absent"}]
    BY DEF Init, NoWatch
  <2> QED
    BY <2>1, <2>2, ValueFacts DEF Init, TypeOK
<1>2. OpInv /\ EnforcementIsReal /\ NoStalePermit
  BY ValueFacts DEF Init, OpInv, EnforcementIsReal, NoStalePermit
<1> QED
  BY <1>1, <1>2 DEF IInv

\* Every step of the guard, of a TunnelPresent() call and of the environment
\* preserves the types.
LEMMA TypeStep == TypeOK /\ OpInv /\ [Next]_vars => TypeOK'
<1> SUFFICES ASSUME TypeOK, OpInv, [Next]_vars PROVE TypeOK'
  OBVIOUS
<1> USE GuardOpsFacts, ValueFacts DEF TypeOK
<1>1. CASE Recover
  <2>1. [guard EXCEPT !.enforced = kernel.complete] \in Guards
    BY DEF Guards, Kernels
  <2>2. [NoOp EXCEPT !.kind = "replace"] \in Ops
    BY DEF Ops
  <2> QED
    BY <1>1, <2>1, <2>2 DEF Recover
<1>2. CASE Prepare \/ Release
  BY <1>2 DEF Prepare, Release, Ops
<1>3. CASE Reject \/ VerifyTunnelFails
  BY <1>3 DEF Reject, VerifyTunnelFails
<1>4. CASE \E systemProxy \in BOOLEAN : VerifyTunnel(systemProxy)
  <2>1. PICK sp \in BOOLEAN : VerifyTunnel(sp)
    BY <1>4
  <2>2. PICK p \in Ptrs :
          op' = [NoOp EXCEPT !.kind = "replace",
                   !.tunnel = [ptr |-> p, luid |-> IF sp THEN 0 ELSE iface]]
    BY <2>1 DEF VerifyTunnel
  <2>3. [ptr |-> p, luid |-> IF sp THEN 0 ELSE iface] \in Tunnels
    BY DEF Tunnels
  <2>4. op' \in Ops
    BY <2>2, <2>3 DEF Ops
  <2> QED
    BY <2>1, <2>4 DEF VerifyTunnel
<1>5. CASE NativeCall
  <2>1. op' \in Ops
    BY <1>5 DEF NativeCall, Ops
  <2>2. LuidOf(op.tunnel) \in Luids \cup {0}
    BY DEF Ops, Tunnels, LuidOf
  <2>3. kernel' \in Kernels
    BY <1>5, <2>2 DEF NativeCall, Commits
  <2> QED
    BY <1>5, <2>1, <2>3 DEF NativeCall
<1>6. CASE Finish
  <2>1. op.tunnel \in Tunnels \cup {NoTunnel}
    BY DEF Ops
  <2> QED
    BY <1>6, <2>1 DEF Finish, Returned
<1>7. CASE EngineAccepted \/ EngineInterrupted
  BY <1>7 DEF EngineAccepted, EngineInterrupted
<1>8. CASE TunnelPresentLoad
  <2>1. guard.tunnel \in Tunnels \cup {NoTunnel}
    BY DEF Guards
  <2> QED
    BY <1>8, <2>1 DEF TunnelPresentLoad, NoWatch
<1>9. CASE TunnelPresentResolve
  <2>1. PICK l \in {iface, 0} : watch' = [watch EXCEPT !.luid = l, !.pc = "compare"]
    BY <1>9 DEF TunnelPresentResolve
  <2>2. l \in Luids \cup {0}
    OBVIOUS
  <2> QED
    BY <1>9, <2>1, <2>2 DEF TunnelPresentResolve
<1>10. CASE TunnelPresentAnswer
  BY <1>10 DEF TunnelPresentAnswer, NoWatch
<1>11. CASE WatchActs
  BY <1>11 DEF WatchActs, NoWatch
<1>12. CASE AdapterChanges
  BY <1>12 DEF AdapterChanges
<1>13. CASE Crash
  BY <1>13 DEF Crash, NoWatch
<1>14. CASE UNCHANGED vars
  BY <1>14 DEF vars
<1> QED
  BY <1>1, <1>2, <1>3, <1>4, <1>5, <1>6, <1>7, <1>8, <1>9, <1>10, <1>11,
     <1>12, <1>13, <1>14 DEF Next

\* Every step preserves what ties the report to the kernel.
LEMMA ReportStep ==
  IInv /\ [Next]_vars => OpInv' /\ EnforcementIsReal' /\ NoStalePermit'
<1> SUFFICES ASSUME IInv, [Next]_vars
             PROVE  OpInv' /\ EnforcementIsReal' /\ NoStalePermit'
  OBVIOUS
<1> USE GuardOpsFacts, ValueFacts
        DEF IInv, TypeOK, OpInv, EnforcementIsReal, NoStalePermit, Free
<1>1. CASE Recover
  <2>1. CASE kernel.present /\ up' = "serving"
             /\ guard' = Pending([guard EXCEPT !.enforced = kernel.complete])
             /\ op' = [NoOp EXCEPT !.kind = "replace"] /\ UNCHANGED kernel
    <3>1. [guard EXCEPT !.enforced = kernel.complete] \in Guards
      BY DEF Guards, Kernels
    <3>2. guard'.enforced = kernel.complete /\ guard'.status = "applying"
      BY <2>1, <3>1 DEF Guards
    <3>3. op'.phase = "call" /\ op'.kind = "replace"
      BY <2>1 DEF Ops
    <3> QED
      BY <2>1, <3>2, <3>3
  <2>2. CASE op' = op /\ kernel' = kernel
             /\ (guard' = Fail(guard) \/ guard' = ConfirmOff(guard))
    BY <1>1, <2>2 DEF Recover, ConfirmOff
  <2> QED
    BY <1>1, <2>1, <2>2 DEF Recover
<1>2. CASE Prepare \/ Release
  BY <1>2 DEF Prepare, Release, Ops
<1>3. CASE Reject \/ VerifyTunnelFails
  BY <1>3 DEF Reject, VerifyTunnelFails
<1>4. CASE \E systemProxy \in BOOLEAN : VerifyTunnel(systemProxy)
  BY <1>4 DEF VerifyTunnel, Ops
<1>5. CASE NativeCall
  BY <1>5 DEF NativeCall, Commits, Ops
<1>6. CASE Finish
  <2>1. CASE op.phase = "failed"
    <3>1. guard' = Fail(guard) /\ op' = NoOp /\ kernel' = kernel
      BY <1>6, <2>1 DEF Finish, Returned
    <3>2. guard'.status = "error" /\ guard'.enforced = guard.enforced
      BY <3>1
    <3> QED
      BY <2>1, <3>1, <3>2
  <2>2. CASE op.phase = "committed" /\ op.kind = "replace"
    BY <1>6, <2>2 DEF Finish, Returned, Confirm, Commits, Installed
  <2>3. CASE op.phase = "committed" /\ op.kind # "replace"
    BY <1>6, <2>3 DEF Finish, Returned, ConfirmOff
  <2> QED
    BY <1>6, <2>1, <2>2, <2>3 DEF Finish
<1>7. CASE EngineAccepted \/ EngineInterrupted
  <2>1. guard'.enforced = guard.enforced /\ guard'.tunnel = guard.tunnel
    BY <1>7 DEF EngineAccepted, EngineInterrupted
  <2>2. guard'.status = guard.status
        \/ guard.status \in {"blocked", "active"}
    BY <1>7 DEF EngineAccepted, EngineInterrupted, Accepted, Interrupted
  <2> QED
    BY <1>7, <2>1, <2>2 DEF EngineAccepted, EngineInterrupted
<1>8. CASE TunnelPresentLoad \/ TunnelPresentResolve \/ TunnelPresentAnswer
  BY <1>8 DEF TunnelPresentLoad, TunnelPresentResolve, TunnelPresentAnswer
<1>9. CASE WatchActs
  <2>1. guard' = guard \/ guard.status = "active"
    BY <1>9 DEF WatchActs, Interrupted
  <2> QED
    BY <1>9, <2>1 DEF WatchActs
<1>10. CASE AdapterChanges
  BY <1>10 DEF AdapterChanges
<1>11. CASE Crash
  BY <1>11 DEF Crash
<1>12. CASE UNCHANGED vars
  BY <1>12 DEF vars
<1> QED
  BY <1>1, <1>2, <1>3, <1>4, <1>5, <1>6, <1>7, <1>8, <1>9, <1>10, <1>11,
     <1>12 DEF Next

\* The inductive invariant holds in every reachable state.
THEOREM GuardInvariant == Spec => []IInv
<1>1. IInv /\ [Next]_vars => IInv'
  BY TypeStep, ReportStep DEF IInv
<1> QED
  BY InitIInv, <1>1, PTL DEF Spec

\* The guard's report is never more than the kernel enforces, whatever calls
\* fail and wherever the daemon crashes (guard.go: confirm, fail, Recover).
THEOREM GuardEnforcement == Spec => []EnforcementIsReal
<1>1. IInv => EnforcementIsReal
  BY DEF IInv
<1> QED
  BY GuardInvariant, <1>1, PTL

\* A blocked or active guard permits exactly the tunnel it verified.
THEOREM GuardPermit == Spec => []NoStalePermit
<1>1. IInv => NoStalePermit
  BY DEF IInv
<1> QED
  BY GuardInvariant, <1>1, PTL

\* Only Release() takes a blocking policy out of the kernel.
THEOREM GuardFailClosed == Spec => FailClosed
<1>1. IInv /\ [Next]_vars =>
        [kernel.complete /\ ~kernel'.complete => op.kind = "remove"]_vars
  <2> SUFFICES ASSUME IInv, Next, kernel' # kernel, kernel.complete,
                      ~kernel'.complete
               PROVE  op.kind = "remove"
    BY DEF vars
  <2>1. NativeCall
    BY DEF Next, Recover, Prepare, Reject, VerifyTunnelFails, VerifyTunnel,
           Release, Finish, EngineAccepted, EngineInterrupted,
           TunnelPresentLoad, TunnelPresentResolve, TunnelPresentAnswer,
           WatchActs, AdapterChanges, Crash
  <2> QED
    BY <2>1 DEF NativeCall, Commits, Installed, IInv, TypeOK, Ops, Free, OpInv
<1> QED
  BY GuardInvariant, <1>1, PTL DEF Spec, FailClosed

\* The values of the guard's state are the ones guard.go gives them, through
\* failed calls, crashes and recoveries.
THEOREM GuardTypes == Spec => []TypeOK
<1>1. IInv => TypeOK
  BY DEF IInv
<1> QED
  BY GuardInvariant, <1>1, PTL

-----------------------------------------------------------------------------
(* What TunnelPresent() answers.                                            *)

\* A TunnelPresent() call that is under way looks at a tunnel, never at the
\* absence of one: it returned early when the guard had none.
WatchesATunnel == watch.pc # "idle" => watch.tunnel \in Tunnels

\* The call loads a tunnel once and keeps it until it has answered.
LEMMA WatchStep ==
  TypeOK /\ WatchesATunnel /\ [Next]_vars => WatchesATunnel'
<1> SUFFICES ASSUME TypeOK, WatchesATunnel, [Next]_vars PROVE WatchesATunnel'
  OBVIOUS
<1> USE DEF WatchesATunnel
<1>1. CASE TunnelPresentLoad
  <2>1. guard.tunnel \in Tunnels
    BY <1>1 DEF TunnelPresentLoad, LuidOf, TypeOK, Guards
  <2> QED
    BY <1>1, <2>1 DEF TunnelPresentLoad, NoWatch
<1>2. CASE TunnelPresentResolve
  BY <1>2 DEF TunnelPresentResolve, TypeOK
<1>3. CASE watch' = NoWatch
  BY <1>3 DEF NoWatch
<1>4. CASE TunnelPresentAnswer /\ watch' # NoWatch
  BY <1>4 DEF TunnelPresentAnswer, TypeOK
<1>5. CASE UNCHANGED watch
  BY <1>5
<1> QED
  BY <1>1, <1>2, <1>3, <1>4, <1>5
     DEF Next, vars, Recover, Prepare, Reject, VerifyTunnelFails, VerifyTunnel,
         Release, NativeCall, Finish, EngineAccepted, EngineInterrupted,
         WatchActs, AdapterChanges, Crash

\* The adapter is reported gone only if what was seen is not the adapter of
\* the tunnel in force when the answer is given, whatever verified another
\* tunnel while the lookup ran (guard.go: TunnelPresent).
THEOREM GuardNoFalseAbsence == Spec => NoFalseAbsence
<1>1. Init => WatchesATunnel
  BY DEF Init, NoWatch, WatchesATunnel
<1>2. TypeOK /\ WatchesATunnel /\ [Next]_vars =>
        [watch.pc = "compare" /\ watch'.pc = "absent" =>
           watch.luid # LuidOf(guard.tunnel)]_vars
  <2> SUFFICES ASSUME WatchesATunnel, Next, watch.pc = "compare",
                      watch'.pc = "absent"
               PROVE  watch.luid # LuidOf(guard.tunnel)
    OBVIOUS
  <2>0. watch' # watch /\ watch' # NoWatch
    BY DEF NoWatch
  <2>1. TunnelPresentAnswer
    BY <2>0
       DEF Next, Recover, Prepare, Reject, VerifyTunnelFails, VerifyTunnel,
           Release, NativeCall, Finish, EngineAccepted, EngineInterrupted,
           TunnelPresentLoad, TunnelPresentResolve, WatchActs, AdapterChanges,
           Crash
  <2>2. SaysAbsent
    BY <2>0, <2>1 DEF TunnelPresentAnswer
  <2>3. watch.tunnel # NoTunnel
    BY NoTunnelAssumption DEF WatchesATunnel, Tunnels
  <2> QED
    BY <2>2, <2>3 DEF SaysAbsent, LuidOf
<1> QED
  BY GuardTypes, WatchStep, <1>1, <1>2, PTL DEF Spec, NoFalseAbsence

-----------------------------------------------------------------------------
(***************************************************************************)
(* The config of a connect attempt, for every set of cases.                *)
(*                                                                         *)
(* The two lists of rules first: each is a concatenation of optional rules *)
(* and what it decides is worked out rule by rule from the last one, into  *)
(* one conditional for the route and one for the resolver.                 *)
(***************************************************************************)

\* The least element of a set of numbers is in it and below every other.
LEMMA MinNat ==
  ASSUME NEW S \in SUBSET Nat, S # {}
  PROVE  /\ Min(S) \in S
         /\ \A y \in S : Min(S) <= y
<1>1. PICK x \in S : \A y \in S : ~(<<y, x>> \in OpToRel(<, Nat))
  BY NatLessThanWellFounded, WFMin
<1>2. ASSUME NEW y \in S PROVE x <= y
  <2>1. x \in Nat /\ y \in Nat /\ <<y, x>> \in Nat \X Nat /\ <<y, x>>[1] = y /\ <<y, x>>[2] = x
    OBVIOUS
  <2>2. y < x => <<y, x>> \in OpToRel(<, Nat)
    BY <2>1, Zenon DEF OpToRel
  <2>3. ~(y < x)
    BY <1>1, <2>2, Zenon
  <2> QED
    BY <2>1, <2>3
<1> QED
  BY <1>2 DEF Min

\* What one rule leaves of the outcome x of the rules behind it.
Decide(c, r, f, x) == IF c /\ Matches(r, f) THEN r.to ELSE x

\* The first match of a list with a given final, and the rule-sets it names,
\* as operators of the list alone.
Outcome(list, x, f) == FirstMatch([rules |-> list, final |-> x], f)
Refs(list, x) == Referenced([rules |-> list, final |-> x])

\* A list of one optional rule decides as that rule does.
LEMMA FirstOfNone ==
  ASSUME NEW S, NEW r \in S, NEW c, NEW x, NEW f
  PROVE  Outcome(emit(c, r), x, f)
           = Decide(c, r, f, x)
<1>. USE DEF Decide, Outcome
<1>. DEFINE s == emit(c, r)
            hits == {i \in DOMAIN s : Matches(s[i], f)}
<1>1. CASE c /\ Matches(r, f)
  <2>1. hits = {1} /\ s[1] = r
    BY <1>1 DEF emit
  <2>2. Min(hits) = 1
    BY <2>1, MinNat
  <2> QED
    BY <2>1, <2>2, <1>1 DEF FirstMatch
<1>2. CASE ~(c /\ Matches(r, f))
  <2>1. hits = {}
    BY <1>2 DEF emit
  <2> QED
    BY <2>1, <1>2 DEF FirstMatch
<1> QED
  BY <1>1, <1>2

\* An optional rule at the end decides what the rules before it leave open.
LEMMA FirstOfMore ==
  ASSUME NEW S, NEW s \in Seq(S), NEW r \in S, NEW c, NEW x, NEW f
  PROVE  Outcome(s \o emit(c, r), x, f)
           = Outcome(s, Decide(c, r, f, x), f)
<1>. USE DEF Decide, Outcome
<1>. DEFINE t == s \o emit(c, r)
            hs == {i \in DOMAIN s : Matches(s[i], f)}
            ht == {i \in DOMAIN t : Matches(t[i], f)}
<1>0. Len(s) \in Nat /\ DOMAIN s = 1..Len(s) /\ emit(c, r) \in Seq(S)
  BY DEF emit
<1>1. CASE c
  <2>1. t = Append(s, r)
    BY <1>1 DEF emit
  <2>2. DOMAIN t = 1..(Len(s) + 1) /\ t[Len(s) + 1] = r /\ \A i \in 1..Len(s) : t[i] = s[i]
    BY <2>1
  <2>3. ht = hs \cup (IF Matches(r, f) THEN {Len(s) + 1} ELSE {})
    <3>1. \A i : i \in ht <=> i \in hs \cup (IF Matches(r, f) THEN {Len(s) + 1} ELSE {})
      <4> TAKE i
      <4>1. CASE i = Len(s) + 1
        <5>1. i \in DOMAIN t /\ t[i] = r /\ i \notin DOMAIN s
          BY <4>1, <2>2, <1>0
        <5> QED
          BY <5>1, <4>1
      <4>2. CASE i # Len(s) + 1
        <5>1. i \in DOMAIN t <=> i \in DOMAIN s
          BY <4>2, <2>2, <1>0
        <5>2. i \in DOMAIN s => t[i] = s[i]
          BY <2>2, <1>0
        <5> QED
          BY <5>1, <5>2, <4>2
      <4> QED
        BY <4>1, <4>2
    <3> QED
      BY <3>1
  <2>4. CASE hs # {}
    <3>1. hs \in SUBSET Nat /\ ht \in SUBSET Nat /\ ht # {}
      BY <2>4, <2>3, <1>0
    <3>2. Min(hs) \in hs /\ Min(ht) \in ht
          /\ (\A y \in hs : Min(hs) <= y) /\ (\A y \in ht : Min(ht) <= y)
      BY <3>1, <2>4, MinNat
    <3>3. Min(hs) <= Len(s) /\ Min(hs) \in ht /\ Min(hs) \in 1..Len(s)
      BY <3>2, <2>3, <1>0
    <3>. HIDE DEF hs, ht
    <3>4. Min(ht) <= Min(hs) /\ Min(ht) \in Nat /\ Min(ht) # Len(s) + 1
      <4>1. Min(hs) \in Nat /\ Min(ht) \in Nat
        BY <3>1, <3>2
      <4>2. Min(ht) <= Min(hs)
        BY <3>2, <3>3
      <4> QED
        BY <4>1, <4>2, <3>3, <1>0
      <3>5. Min(ht) \in hs
      BY <3>2, <3>4, <2>3
    <3>6. Min(ht) = Min(hs)
      <4>1. Min(hs) <= Min(ht) /\ Min(ht) <= Min(hs) /\ Min(hs) \in Nat /\ Min(ht) \in Nat
        BY <3>2, <3>4, <3>5, <3>1
      <4> QED
        BY <4>1
    <3>7. t[Min(hs)] = s[Min(hs)]
      BY <3>3, <2>2
    <3>. USE DEF hs, ht
    <3> QED
      BY <3>6, <3>7, <3>1, <2>4 DEF FirstMatch
  <2>5. CASE hs = {} /\ Matches(r, f)
    <3>1. ht = {Len(s) + 1}
      BY <2>5, <2>3
    <3>2. Min(ht) = Len(s) + 1
      <4>1. ht \in SUBSET Nat /\ ht # {}
        BY <3>1, <1>0, SMTT(30)
      <4>2. Min(ht) \in ht
        BY <4>1, MinNat
      <4> QED
        BY <4>2, <3>1
    <3>3. Outcome(t, x, f) = t[Min(ht)].to
      BY <3>1 DEF FirstMatch
    <3>4. Outcome(s, r.to, f) = r.to
      BY <2>5 DEF FirstMatch
    <3>5. Decide(c, r, f, x) = r.to /\ t[Min(ht)] = r
      BY <3>2, <2>5, <2>2, <1>1
    <3> HIDE DEF Decide, Outcome, t, ht
    <3>6. Outcome(t, x, f) = Outcome(s, Decide(c, r, f, x), f)
      BY <3>3, <3>4, <3>5
    <3> QED
      BY <3>6 DEF t
  <2>6. CASE hs = {} /\ ~Matches(r, f)
    <3>1. ht = {}
      BY <2>6, <2>3
    <3> QED
      BY <3>1, <2>6 DEF FirstMatch
  <2> QED
    BY <2>4, <2>5, <2>6
<1>2. CASE ~c
  <2>1. t = s
    BY <1>2, <1>0 DEF emit
  <2> QED
    BY <2>1, <1>2
<1> QED
  BY <1>1, <1>2

\* A list names what its rules name: one more rule adds its own rule-sets.
LEMMA RefsOfMore ==
  ASSUME NEW S, NEW s \in Seq(S), NEW r \in S, NEW c, NEW x
  PROVE  Refs(s \o emit(c, r), x)
           = Refs(s, x) \cup (IF c /\ r.by = "rule_set" THEN r.of ELSE {})
<1>. USE DEF Refs
<1>. DEFINE t == s \o emit(c, r)
<1>0. Len(s) \in Nat /\ DOMAIN s = 1..Len(s)
  OBVIOUS
<1>1. CASE c
  <2>1. t = Append(s, r)
    BY <1>1 DEF emit
  <2>2. DOMAIN t = 1..(Len(s) + 1) /\ t[Len(s) + 1] = r /\ \A i \in 1..Len(s) : t[i] = s[i]
    BY <2>1
  <2>3. DOMAIN t = DOMAIN s \cup {Len(s) + 1}
    BY <2>2, <1>0
  <2>4. \A e : e \in Referenced([rules |-> t, final |-> x])
                 <=> \E i \in DOMAIN t : t[i].by = "rule_set" /\ e \in t[i].of
    BY DEF Referenced
  <2>5. \A e : e \in Referenced([rules |-> s, final |-> x])
                 <=> \E i \in DOMAIN s : s[i].by = "rule_set" /\ e \in s[i].of
    BY DEF Referenced
  <2>6. \A e : (\E i \in DOMAIN t : t[i].by = "rule_set" /\ e \in t[i].of)
                 <=> \/ \E i \in DOMAIN s : s[i].by = "rule_set" /\ e \in s[i].of
                     \/ r.by = "rule_set" /\ e \in r.of
    BY <2>2, <2>3, <1>0
  <2> QED
    BY <2>4, <2>5, <2>6, <1>1
<1>2. CASE ~c
  <2>1. t = s
    BY <1>2 DEF emit
  <2> QED
    BY <2>1, <1>2
<1> QED
  BY <1>1, <1>2

\* A list of one optional rule names that rule's rule-sets.
LEMMA RefsOfNone ==
  ASSUME NEW r, NEW c, NEW x
  PROVE  Refs(emit(c, r), x) = IF c /\ r.by = "rule_set" THEN r.of ELSE {}
  BY DEF Refs, Referenced, emit

\* A rule about anything but a rule-set names none.
LEMMA RefsOfOther ==
  ASSUME NEW S, NEW s \in Seq(S), NEW r \in S, NEW c, NEW x, r.by # "rule_set"
  PROVE  Refs(s \o emit(c, r), x) = Refs(s, x)
<1>1. Refs(s \o emit(c, r), x) = Refs(s, x) \cup (IF c /\ r.by = "rule_set" THEN r.of ELSE {})
  BY RefsOfMore
<1>2. Refs(s, x) \cup {} = Refs(s, x)
  OBVIOUS
<1> QED
  BY <1>1, <1>2

\* A connection's name lies under one of the suffixes.
Within(f, suffixes) == SuffixesOf(f.domain) \cap suffixes # {}

\* Where a connection leaves: the rules of RouteRules in their order.
LEMMA RouteDecides ==
  ASSUME NEW o, NEW p, NEW x, NEW f \in Flows
  PROVE  Outcome(RouteRules(o, p), x, f) =
              IF includeOnly(o) /\ f.app \in o.apps THEN "proxy"
              ELSE IF f.app \in directSplitApps(o) THEN "direct"
              ELSE IF voiceDirectActive(o) /\ f.voice THEN "direct"
              ELSE IF Within(f, directRuleSuffixes(o)) THEN "direct"
              ELSE IF Within(f, zapretDirectSuffixes(o)) THEN "direct"
              ELSE IF Within(f, proxySuffixesWithPresets(o)) THEN "proxy"
              ELSE IF ~includeOnly(o) /\ smartGeoActive(o, p) /\ (f.ip = "ru" \/ InRuleSet("geosite-ru", f)) THEN "direct"
              ELSE IF lanBypassActive(o) /\ f.ip = "private" THEN "direct"
              ELSE x
<1>. DEFINE c1 == includeOnly(o)
            r1 == route("app", o.apps, "proxy")
            c2 == directSplitApps(o) # {}
            r2 == route("app", directSplitApps(o), "direct")
            c3 == voiceDirectActive(o)
            r3 == route("voice", {}, "direct")
            c4 == directRuleSuffixes(o) # {}
            r4 == route("domain", directRuleSuffixes(o), "direct")
            c5 == zapretDirectSuffixes(o) # {}
            r5 == route("domain", zapretDirectSuffixes(o), "direct")
            c6 == proxySuffixesWithPresets(o) # {}
            r6 == route("domain", proxySuffixesWithPresets(o), "proxy")
            c7 == ~includeOnly(o) /\ smartGeoActive(o, p)
            r7 == route("rule_set", {"geoip-ru", "geosite-ru"}, "direct")
            c8 == lanBypassActive(o)
            r8 == route("private", {}, "direct")
            S == {r1, r2, r3, r4, r5, r6, r7, r8}
            l1 == emit(c1, r1)
            l2 == l1 \o emit(c2, r2)
            l3 == l2 \o emit(c3, r3)
            l4 == l3 \o emit(c4, r4)
            l5 == l4 \o emit(c5, r5)
            l6 == l5 \o emit(c6, r6)
            l7 == l6 \o emit(c7, r7)
            l8 == l7 \o emit(c8, r8)
            x8 == Decide(c8, r8, f, x)
            x7 == Decide(c7, r7, f, x8)
            x6 == Decide(c6, r6, f, x7)
            x5 == Decide(c5, r5, f, x6)
            x4 == Decide(c4, r4, f, x5)
            x3 == Decide(c3, r3, f, x4)
            x2 == Decide(c2, r2, f, x3)
            x1 == Decide(c1, r1, f, x2)
<1>1. RouteRules(o, p) = l8
  BY DEF RouteRules
<1>2. InRuleSet("geoip-ru", f) <=> f.ip = "ru"
  BY DEF InRuleSet
<1>3. /\ (Matches(r1, f) <=> f.app \in o.apps)
      /\ (Matches(r2, f) <=> f.app \in directSplitApps(o))
      /\ (Matches(r3, f) <=> f.voice)
      /\ (Matches(r4, f) <=> Within(f, directRuleSuffixes(o)))
      /\ (Matches(r5, f) <=> Within(f, zapretDirectSuffixes(o)))
      /\ (Matches(r6, f) <=> Within(f, proxySuffixesWithPresets(o)))
      /\ (Matches(r7, f) <=> f.ip = "ru" \/ InRuleSet("geosite-ru", f))
      /\ (Matches(r8, f) <=> f.ip = "private")
  <2>1. Matches(r1, f) <=> f.app \in o.apps
    BY DEF Matches, route, dnsRejectRule, Within, Flows
  <2>2. Matches(r2, f) <=> f.app \in directSplitApps(o)
    BY DEF Matches, route, dnsRejectRule, Within, Flows
  <2>3. Matches(r3, f) <=> f.voice
    BY DEF Matches, route, dnsRejectRule, Within, Flows
  <2>4. Matches(r4, f) <=> Within(f, directRuleSuffixes(o))
    BY DEF Matches, route, dnsRejectRule, Within, Flows
  <2>5. Matches(r5, f) <=> Within(f, zapretDirectSuffixes(o))
    BY DEF Matches, route, dnsRejectRule, Within, Flows
  <2>6. Matches(r6, f) <=> Within(f, proxySuffixesWithPresets(o))
    BY DEF Matches, route, dnsRejectRule, Within, Flows
  <2>7. Matches(r7, f) <=> f.ip = "ru" \/ InRuleSet("geosite-ru", f)
    BY <1>2 DEF Matches, route
  <2>8. Matches(r8, f) <=> f.ip = "private"
    BY DEF Matches, route, dnsRejectRule, Within, Flows
  <2>. QED
    BY <2>1, <2>2, <2>3, <2>4, <2>5, <2>6, <2>7, <2>8
<1>4. /\ r1.to = "proxy"
      /\ r2.to = "direct"
      /\ r3.to = "direct"
      /\ r4.to = "direct"
      /\ r5.to = "direct"
      /\ r6.to = "proxy"
      /\ r7.to = "direct"
      /\ r8.to = "direct"
  BY DEF route, dnsRejectRule
<1>5. r1 \in S /\ r2 \in S /\ r3 \in S /\ r4 \in S /\ r5 \in S /\ r6 \in S /\ r7 \in S /\ r8 \in S
  OBVIOUS
<1>. HIDE DEF c1, r1, c2, r2, c3, r3, c4, r4, c5, r5, c6, r6, c7, r7, c8, r8, S
<1>6. l1 \in Seq(S) /\ l2 \in Seq(S) /\ l3 \in Seq(S) /\ l4 \in Seq(S) /\ l5 \in Seq(S) /\ l6 \in Seq(S) /\ l7 \in Seq(S)
  <2>1. emit(c1, r1) \in Seq(S) /\ emit(c2, r2) \in Seq(S) /\ emit(c3, r3) \in Seq(S) /\ emit(c4, r4) \in Seq(S) /\ emit(c5, r5) \in Seq(S) /\ emit(c6, r6) \in Seq(S) /\ emit(c7, r7) \in Seq(S)
    BY <1>5 DEF emit
  <2>. QED
    BY <2>1
<1>7. \A s \in Seq(S), r \in S : \A c, y : Outcome(s \o emit(c, r), y, f)
        = Outcome(s, Decide(c, r, f, y), f)
  BY FirstOfMore
<1>8. Outcome(l8, x, f) = x1
  <2>. HIDE DEF l1, l2, l3, l4, l5, l6, l7, l8, x1, x2, x3, x4, x5, x6, x7, x8
  <2>1. Outcome(l8, x, f) = Outcome(l7, x8, f)
    BY <1>5, <1>6, <1>7 DEF l8, x8
  <2>2. Outcome(l7, x8, f) = Outcome(l6, x7, f)
    BY <1>5, <1>6, <1>7 DEF l7, x7
  <2>3. Outcome(l6, x7, f) = Outcome(l5, x6, f)
    BY <1>5, <1>6, <1>7 DEF l6, x6
  <2>4. Outcome(l5, x6, f) = Outcome(l4, x5, f)
    BY <1>5, <1>6, <1>7 DEF l5, x5
  <2>5. Outcome(l4, x5, f) = Outcome(l3, x4, f)
    BY <1>5, <1>6, <1>7 DEF l4, x4
  <2>6. Outcome(l3, x4, f) = Outcome(l2, x3, f)
    BY <1>5, <1>6, <1>7 DEF l3, x3
  <2>7. Outcome(l2, x3, f) = Outcome(l1, x2, f)
    BY <1>5, <1>6, <1>7 DEF l2, x2
  <2>8. Outcome(l1, x2, f) = x1
    BY <1>5, FirstOfNone DEF l1, x1
  <2>. QED
    BY <2>1, <2>2, <2>3, <2>4, <2>5, <2>6, <2>7, <2>8
<1>9. x1 = IF includeOnly(o) /\ f.app \in o.apps THEN "proxy"
              ELSE IF f.app \in directSplitApps(o) THEN "direct"
              ELSE IF voiceDirectActive(o) /\ f.voice THEN "direct"
              ELSE IF Within(f, directRuleSuffixes(o)) THEN "direct"
              ELSE IF Within(f, zapretDirectSuffixes(o)) THEN "direct"
              ELSE IF Within(f, proxySuffixesWithPresets(o)) THEN "proxy"
              ELSE IF ~includeOnly(o) /\ smartGeoActive(o, p) /\ (f.ip = "ru" \/ InRuleSet("geosite-ru", f)) THEN "direct"
              ELSE IF lanBypassActive(o) /\ f.ip = "private" THEN "direct"
              ELSE x
  BY <1>3, <1>4, Zenon DEF Decide, c1, c2, c3, c4, c5, c6, c7, c8, Within
<1> QED
  BY <1>1, <1>8, <1>9, Zenon

\* The rule-sets RouteRules names.
LEMMA RouteNames ==
  ASSUME NEW o, NEW p, NEW x
  PROVE  Refs(RouteRules(o, p), x) = IF ~includeOnly(o) /\ smartGeoActive(o, p) THEN {"geoip-ru", "geosite-ru"} ELSE {}
<1>. DEFINE c1 == includeOnly(o)
            r1 == route("app", o.apps, "proxy")
            c2 == directSplitApps(o) # {}
            r2 == route("app", directSplitApps(o), "direct")
            c3 == voiceDirectActive(o)
            r3 == route("voice", {}, "direct")
            c4 == directRuleSuffixes(o) # {}
            r4 == route("domain", directRuleSuffixes(o), "direct")
            c5 == zapretDirectSuffixes(o) # {}
            r5 == route("domain", zapretDirectSuffixes(o), "direct")
            c6 == proxySuffixesWithPresets(o) # {}
            r6 == route("domain", proxySuffixesWithPresets(o), "proxy")
            c7 == ~includeOnly(o) /\ smartGeoActive(o, p)
            r7 == route("rule_set", {"geoip-ru", "geosite-ru"}, "direct")
            c8 == lanBypassActive(o)
            r8 == route("private", {}, "direct")
            S == {r1, r2, r3, r4, r5, r6, r7, r8}
            l1 == emit(c1, r1)
            l2 == l1 \o emit(c2, r2)
            l3 == l2 \o emit(c3, r3)
            l4 == l3 \o emit(c4, r4)
            l5 == l4 \o emit(c5, r5)
            l6 == l5 \o emit(c6, r6)
            l7 == l6 \o emit(c7, r7)
            l8 == l7 \o emit(c8, r8)
<1>1. RouteRules(o, p) = l8
  BY DEF RouteRules
<1>4. /\ r1.by = "app"
      /\ r2.by = "app"
      /\ r3.by = "voice"
      /\ r4.by = "domain"
      /\ r5.by = "domain"
      /\ r6.by = "domain"
      /\ r7.by = "rule_set" /\ r7.of = {"geoip-ru", "geosite-ru"}
      /\ r8.by = "private"
  BY DEF route, dnsRejectRule
<1>5. r1 \in S /\ r2 \in S /\ r3 \in S /\ r4 \in S /\ r5 \in S /\ r6 \in S /\ r7 \in S /\ r8 \in S
  OBVIOUS
<1>. HIDE DEF c1, r1, c2, r2, c3, r3, c4, r4, c5, r5, c6, r6, c7, r7, c8, r8, S
<1>6. l1 \in Seq(S) /\ l2 \in Seq(S) /\ l3 \in Seq(S) /\ l4 \in Seq(S) /\ l5 \in Seq(S) /\ l6 \in Seq(S) /\ l7 \in Seq(S)
  <2>1. emit(c1, r1) \in Seq(S) /\ emit(c2, r2) \in Seq(S) /\ emit(c3, r3) \in Seq(S) /\ emit(c4, r4) \in Seq(S) /\ emit(c5, r5) \in Seq(S) /\ emit(c6, r6) \in Seq(S) /\ emit(c7, r7) \in Seq(S)
    BY <1>5 DEF emit
  <2>. QED
    BY <2>1
<1>7. \A s \in Seq(S), r \in S : \A c : r.by # "rule_set" => Refs(s \o emit(c, r), x) = Refs(s, x)
  BY RefsOfOther
<1>8. \A s \in Seq(S), r \in S : \A c : r.by = "rule_set"
        => Refs(s \o emit(c, r), x) = Refs(s, x) \cup (IF c THEN r.of ELSE {})
  BY RefsOfMore
<1>. HIDE DEF l1, l2, l3, l4, l5, l6, l7, l8
<1>9. Refs(l8, x) = Refs(l7, x)
  BY <1>4, <1>5, <1>6, <1>7 DEF l8
<1>10. Refs(l7, x) = Refs(l6, x) \cup (IF c7 THEN r7.of ELSE {})
  BY <1>4, <1>5, <1>6, <1>8 DEF l7
<1>11. Refs(l6, x) = Refs(l5, x)
  BY <1>4, <1>5, <1>6, <1>7 DEF l6
<1>12. Refs(l5, x) = Refs(l4, x)
  BY <1>4, <1>5, <1>6, <1>7 DEF l5
<1>13. Refs(l4, x) = Refs(l3, x)
  BY <1>4, <1>5, <1>6, <1>7 DEF l4
<1>14. Refs(l3, x) = Refs(l2, x)
  BY <1>4, <1>5, <1>6, <1>7 DEF l3
<1>15. Refs(l2, x) = Refs(l1, x)
  BY <1>4, <1>5, <1>6, <1>7 DEF l2
<1>16. Refs(l1, x) = {}
  BY <1>4, RefsOfNone DEF l1
<1> QED
  BY <1>1, <1>9, <1>10, <1>11, <1>12, <1>13, <1>14, <1>15, <1>16, <1>4 DEF c1, c2, c3, c4, c5, c6, c7, c8

\* Who resolves a name: the rules of dnsRules in their order.
LEMMA DNSDecides ==
  ASSUME NEW o, NEW p, NEW x, NEW f \in Flows
  PROVE  Outcome(dnsRules(o, p), x, f) =
              IF adBlockActive(o, p) /\ InRuleSet("geosite-ads", f) THEN "reject"
              ELSE IF includeOnly(o) /\ f.app \in o.apps THEN "dns-remote"
              ELSE IF f.app \in directSplitApps(o) THEN "dns-direct"
              ELSE IF Within(f, directRuleSuffixes(o)) THEN "dns-direct"
              ELSE IF Within(f, zapretDirectSuffixes(o)) THEN "dns-direct"
              ELSE IF Within(f, proxySuffixesWithPresets(o)) THEN "dns-remote"
              ELSE IF smartGeoActive(o, p) /\ InRuleSet("geosite-ru", f) THEN "dns-direct"
              ELSE x
<1>. DEFINE c1 == adBlockActive(o, p)
            r1 == dnsRejectRule("geosite-ads")
            c2 == includeOnly(o)
            r2 == route("app", o.apps, "dns-remote")
            c3 == directSplitApps(o) # {}
            r3 == route("app", directSplitApps(o), "dns-direct")
            c4 == directRuleSuffixes(o) # {}
            r4 == route("domain", directRuleSuffixes(o), "dns-direct")
            c5 == zapretDirectSuffixes(o) # {}
            r5 == route("domain", zapretDirectSuffixes(o), "dns-direct")
            c6 == proxySuffixesWithPresets(o) # {}
            r6 == route("domain", proxySuffixesWithPresets(o), "dns-remote")
            c7 == smartGeoActive(o, p)
            r7 == route("rule_set", {"geosite-ru"}, "dns-direct")
            S == {r1, r2, r3, r4, r5, r6, r7}
            l1 == emit(c1, r1)
            l2 == l1 \o emit(c2, r2)
            l3 == l2 \o emit(c3, r3)
            l4 == l3 \o emit(c4, r4)
            l5 == l4 \o emit(c5, r5)
            l6 == l5 \o emit(c6, r6)
            l7 == l6 \o emit(c7, r7)
            x7 == Decide(c7, r7, f, x)
            x6 == Decide(c6, r6, f, x7)
            x5 == Decide(c5, r5, f, x6)
            x4 == Decide(c4, r4, f, x5)
            x3 == Decide(c3, r3, f, x4)
            x2 == Decide(c2, r2, f, x3)
            x1 == Decide(c1, r1, f, x2)
<1>1. dnsRules(o, p) = l7
  BY DEF dnsRules
<1>3. /\ (Matches(r1, f) <=> InRuleSet("geosite-ads", f))
      /\ (Matches(r2, f) <=> f.app \in o.apps)
      /\ (Matches(r3, f) <=> f.app \in directSplitApps(o))
      /\ (Matches(r4, f) <=> Within(f, directRuleSuffixes(o)))
      /\ (Matches(r5, f) <=> Within(f, zapretDirectSuffixes(o)))
      /\ (Matches(r6, f) <=> Within(f, proxySuffixesWithPresets(o)))
      /\ (Matches(r7, f) <=> InRuleSet("geosite-ru", f))
  <2>1. Matches(r1, f) <=> InRuleSet("geosite-ads", f)
    BY DEF Matches, route, dnsRejectRule, Within, Flows
  <2>2. Matches(r2, f) <=> f.app \in o.apps
    BY DEF Matches, route, dnsRejectRule, Within, Flows
  <2>3. Matches(r3, f) <=> f.app \in directSplitApps(o)
    BY DEF Matches, route, dnsRejectRule, Within, Flows
  <2>4. Matches(r4, f) <=> Within(f, directRuleSuffixes(o))
    BY DEF Matches, route, dnsRejectRule, Within, Flows
  <2>5. Matches(r5, f) <=> Within(f, zapretDirectSuffixes(o))
    BY DEF Matches, route, dnsRejectRule, Within, Flows
  <2>6. Matches(r6, f) <=> Within(f, proxySuffixesWithPresets(o))
    BY DEF Matches, route, dnsRejectRule, Within, Flows
  <2>7. Matches(r7, f) <=> InRuleSet("geosite-ru", f)
    BY DEF Matches, route, dnsRejectRule, Within, Flows
  <2>. QED
    BY <2>1, <2>2, <2>3, <2>4, <2>5, <2>6, <2>7
<1>4. /\ r1.to = "reject"
      /\ r2.to = "dns-remote"
      /\ r3.to = "dns-direct"
      /\ r4.to = "dns-direct"
      /\ r5.to = "dns-direct"
      /\ r6.to = "dns-remote"
      /\ r7.to = "dns-direct"
  BY DEF route, dnsRejectRule
<1>5. r1 \in S /\ r2 \in S /\ r3 \in S /\ r4 \in S /\ r5 \in S /\ r6 \in S /\ r7 \in S
  OBVIOUS
<1>. HIDE DEF c1, r1, c2, r2, c3, r3, c4, r4, c5, r5, c6, r6, c7, r7, S
<1>6. l1 \in Seq(S) /\ l2 \in Seq(S) /\ l3 \in Seq(S) /\ l4 \in Seq(S) /\ l5 \in Seq(S) /\ l6 \in Seq(S)
  <2>1. emit(c1, r1) \in Seq(S) /\ emit(c2, r2) \in Seq(S) /\ emit(c3, r3) \in Seq(S) /\ emit(c4, r4) \in Seq(S) /\ emit(c5, r5) \in Seq(S) /\ emit(c6, r6) \in Seq(S)
    BY <1>5 DEF emit
  <2>. QED
    BY <2>1
<1>7. \A s \in Seq(S), r \in S : \A c, y : Outcome(s \o emit(c, r), y, f)
        = Outcome(s, Decide(c, r, f, y), f)
  BY FirstOfMore
<1>8. Outcome(l7, x, f) = x1
  <2>. HIDE DEF l1, l2, l3, l4, l5, l6, l7, x1, x2, x3, x4, x5, x6, x7
  <2>1. Outcome(l7, x, f) = Outcome(l6, x7, f)
    BY <1>5, <1>6, <1>7 DEF l7, x7
  <2>2. Outcome(l6, x7, f) = Outcome(l5, x6, f)
    BY <1>5, <1>6, <1>7 DEF l6, x6
  <2>3. Outcome(l5, x6, f) = Outcome(l4, x5, f)
    BY <1>5, <1>6, <1>7 DEF l5, x5
  <2>4. Outcome(l4, x5, f) = Outcome(l3, x4, f)
    BY <1>5, <1>6, <1>7 DEF l4, x4
  <2>5. Outcome(l3, x4, f) = Outcome(l2, x3, f)
    BY <1>5, <1>6, <1>7 DEF l3, x3
  <2>6. Outcome(l2, x3, f) = Outcome(l1, x2, f)
    BY <1>5, <1>6, <1>7 DEF l2, x2
  <2>7. Outcome(l1, x2, f) = x1
    BY <1>5, FirstOfNone DEF l1, x1
  <2>. QED
    BY <2>1, <2>2, <2>3, <2>4, <2>5, <2>6, <2>7
<1>9. x1 = IF adBlockActive(o, p) /\ InRuleSet("geosite-ads", f) THEN "reject"
              ELSE IF includeOnly(o) /\ f.app \in o.apps THEN "dns-remote"
              ELSE IF f.app \in directSplitApps(o) THEN "dns-direct"
              ELSE IF Within(f, directRuleSuffixes(o)) THEN "dns-direct"
              ELSE IF Within(f, zapretDirectSuffixes(o)) THEN "dns-direct"
              ELSE IF Within(f, proxySuffixesWithPresets(o)) THEN "dns-remote"
              ELSE IF smartGeoActive(o, p) /\ InRuleSet("geosite-ru", f) THEN "dns-direct"
              ELSE x
  BY <1>3, <1>4, Zenon DEF Decide, c1, c2, c3, c4, c5, c6, c7, Within
<1> QED
  BY <1>1, <1>8, <1>9, Zenon

\* The rule-sets dnsRules names.
LEMMA DNSNames ==
  ASSUME NEW o, NEW p, NEW x
  PROVE  Refs(dnsRules(o, p), x) = (IF adBlockActive(o, p) THEN {"geosite-ads"} ELSE {})
                \cup (IF smartGeoActive(o, p) THEN {"geosite-ru"} ELSE {})
<1>. DEFINE c1 == adBlockActive(o, p)
            r1 == dnsRejectRule("geosite-ads")
            c2 == includeOnly(o)
            r2 == route("app", o.apps, "dns-remote")
            c3 == directSplitApps(o) # {}
            r3 == route("app", directSplitApps(o), "dns-direct")
            c4 == directRuleSuffixes(o) # {}
            r4 == route("domain", directRuleSuffixes(o), "dns-direct")
            c5 == zapretDirectSuffixes(o) # {}
            r5 == route("domain", zapretDirectSuffixes(o), "dns-direct")
            c6 == proxySuffixesWithPresets(o) # {}
            r6 == route("domain", proxySuffixesWithPresets(o), "dns-remote")
            c7 == smartGeoActive(o, p)
            r7 == route("rule_set", {"geosite-ru"}, "dns-direct")
            S == {r1, r2, r3, r4, r5, r6, r7}
            l1 == emit(c1, r1)
            l2 == l1 \o emit(c2, r2)
            l3 == l2 \o emit(c3, r3)
            l4 == l3 \o emit(c4, r4)
            l5 == l4 \o emit(c5, r5)
            l6 == l5 \o emit(c6, r6)
            l7 == l6 \o emit(c7, r7)
<1>1. dnsRules(o, p) = l7
  BY DEF dnsRules
<1>4. /\ r1.by = "rule_set" /\ r1.of = {"geosite-ads"}
      /\ r2.by = "app"
      /\ r3.by = "app"
      /\ r4.by = "domain"
      /\ r5.by = "domain"
      /\ r6.by = "domain"
      /\ r7.by = "rule_set" /\ r7.of = {"geosite-ru"}
  BY DEF route, dnsRejectRule
<1>5. r1 \in S /\ r2 \in S /\ r3 \in S /\ r4 \in S /\ r5 \in S /\ r6 \in S /\ r7 \in S
  OBVIOUS
<1>. HIDE DEF c1, r1, c2, r2, c3, r3, c4, r4, c5, r5, c6, r6, c7, r7, S
<1>6. l1 \in Seq(S) /\ l2 \in Seq(S) /\ l3 \in Seq(S) /\ l4 \in Seq(S) /\ l5 \in Seq(S) /\ l6 \in Seq(S)
  <2>1. emit(c1, r1) \in Seq(S) /\ emit(c2, r2) \in Seq(S) /\ emit(c3, r3) \in Seq(S) /\ emit(c4, r4) \in Seq(S) /\ emit(c5, r5) \in Seq(S) /\ emit(c6, r6) \in Seq(S)
    BY <1>5 DEF emit
  <2>. QED
    BY <2>1
<1>7. \A s \in Seq(S), r \in S : \A c : r.by # "rule_set" => Refs(s \o emit(c, r), x) = Refs(s, x)
  BY RefsOfOther
<1>8. \A s \in Seq(S), r \in S : \A c : r.by = "rule_set"
        => Refs(s \o emit(c, r), x) = Refs(s, x) \cup (IF c THEN r.of ELSE {})
  BY RefsOfMore
<1>. HIDE DEF l1, l2, l3, l4, l5, l6, l7
<1>9. Refs(l7, x) = Refs(l6, x) \cup (IF c7 THEN r7.of ELSE {})
  BY <1>4, <1>5, <1>6, <1>8 DEF l7
<1>10. Refs(l6, x) = Refs(l5, x)
  BY <1>4, <1>5, <1>6, <1>7 DEF l6
<1>11. Refs(l5, x) = Refs(l4, x)
  BY <1>4, <1>5, <1>6, <1>7 DEF l5
<1>12. Refs(l4, x) = Refs(l3, x)
  BY <1>4, <1>5, <1>6, <1>7 DEF l4
<1>13. Refs(l3, x) = Refs(l2, x)
  BY <1>4, <1>5, <1>6, <1>7 DEF l3
<1>14. Refs(l2, x) = Refs(l1, x)
  BY <1>4, <1>5, <1>6, <1>7 DEF l2
<1>15. Refs(l1, x) = IF c1 THEN r1.of ELSE {}
  BY <1>4, RefsOfNone DEF l1
<1> QED
  BY <1>1, <1>9, <1>10, <1>11, <1>12, <1>13, <1>14, <1>15, <1>4 DEF c1, c2, c3, c4, c5, c6, c7

\* Options once their mode and split are known ones.
Normalized == [mode : Modes, split : Splits, apps : SUBSET STRING, kill : BOOLEAN,
               lan : BOOLEAN, zapret : BOOLEAN, covered : SUBSET STRING, unblock : BOOLEAN,
               games : BOOLEAN, voice : BOOLEAN, adblock : BOOLEAN, direct : SUBSET STRING,
               proxy : SUBSET STRING, presets : SUBSET presetRuSuffixes, fragment : BOOLEAN]

\* Normalize returns options of a known mode and split.
LEMMA NormalizeFacts ==
  ASSUME NEW o \in Options
  PROVE  Normalize(o) \in Normalized
<1>1. \A T \in SUBSET STRING : normalizeApps(T) \in SUBSET STRING
  BY DEF normalizeApps
<1>2. \A T \in SUBSET STRING : normalizeSuffixes(T) \in SUBSET STRING
  BY DEF normalizeSuffixes
<1>3. /\ o.apps \in SUBSET STRING /\ o.direct \in SUBSET STRING
      /\ o.proxy \in SUBSET STRING /\ o.covered \in SUBSET STRING
  BY DEF Options
<1>4. /\ (IF o.mode \in Modes THEN o.mode ELSE "smart") \in Modes
      /\ (IF o.split \in Splits THEN o.split ELSE "off") \in Splits
  BY DEF Modes, Splits
<1>5. /\ normalizeApps(o.apps) \in SUBSET STRING /\ normalizeSuffixes(o.direct) \in SUBSET STRING
      /\ normalizeSuffixes(o.proxy) \in SUBSET STRING
      /\ normalizeSuffixes(o.covered) \in SUBSET STRING
  BY <1>1, <1>2, <1>3
<1> QED
  BY <1>4, <1>5 DEF Normalize, Options, Normalized

\* The two lists agree: what the route rules send to the proxy the dns rules
\* do not resolve directly, when two of the three looks at the directory saw
\* the same files and every rule-set named is defined.
LEMMA ListsAgree ==
  ASSUME NEW o, NEW p1, NEW p2, NEW p3, p1 = p2 \/ p2 = p3, NEW f \in Flows,
         Refs(dnsRules(o, p1), dnsFinal(o)) \subseteq RouteRuleSets(o, p3),
         Outcome(RouteRules(o, p2), FinalOutbound(o), f) = "proxy"
  PROVE  Outcome(dnsRules(o, p1), dnsFinal(o), f) # "dns-direct"
<1>. DEFINE A == includeOnly(o) /\ f.app \in o.apps
            B == f.app \in directSplitApps(o)
            D == Within(f, directRuleSuffixes(o))
            Z == Within(f, zapretDirectSuffixes(o))
            P == Within(f, proxySuffixesWithPresets(o))
            R == InRuleSet("geosite-ru", f)
<1>1. smartGeoActive(o, p1) => smartGeoActive(o, p2)
  <2>1. smartGeoActive(o, p1) => "geosite-ru" \in Refs(dnsRules(o, p1), dnsFinal(o))
    <3>1. Refs(dnsRules(o, p1), dnsFinal(o)) = (IF adBlockActive(o, p1) THEN {"geosite-ads"} ELSE {})
            \cup (IF smartGeoActive(o, p1) THEN {"geosite-ru"} ELSE {})
      BY DNSNames
    <3> QED
      BY <3>1
  <2>2. "geosite-ru" \in RouteRuleSets(o, p3) => smartGeoActive(o, p3)
    BY DEF RouteRuleSets
  <2> QED
    BY <2>1, <2>2
<1>3. ~A => ~B /\ ~D /\ ~Z
  BY RouteDecides
<1>4. ~A => P \/ (~(~includeOnly(o) /\ smartGeoActive(o, p2) /\ R) /\ FinalOutbound(o) = "proxy")
  BY RouteDecides
<1>5. FinalOutbound(o) = "proxy" => ~includeOnly(o) /\ dnsFinal(o) = "dns-remote"
  BY DEF FinalOutbound, dnsFinal
<1>6. Outcome(dnsRules(o, p1), dnsFinal(o), f) = "dns-direct" =>
        ~A /\ (B \/ D \/ Z \/ (~P /\ smartGeoActive(o, p1) /\ R) \/ (~P /\ dnsFinal(o) = "dns-direct"))
  BY DNSDecides
<1>. HIDE DEF A, B, D, Z, P, R
<1> QED
  BY <1>1, <1>3, <1>4, <1>5, <1>6

\* Under the kill switch no preset, pin, bypass or LAN exception adds a rule.
LEMMA KilledPins ==
  ASSUME NEW o \in Normalized, o.kill, NEW p
  PROVE  RouteRules(Stripped(o), p) = RouteRules(o, p)
<1>. DEFINE s == Stripped(o)
<1>1. /\ s.mode = o.mode /\ s.split = o.split /\ s.apps = o.apps /\ s.kill = o.kill
      /\ s.unblock = o.unblock /\ s.proxy = o.proxy
  BY DEF Stripped, Normalized
<1>. HIDE DEF s
<1>2. ~directPinAllowed(s) /\ ~directPinAllowed(o)
  BY <1>1 DEF directPinAllowed
<1>3. ~gamesDirectActive(s) /\ ~gamesDirectActive(o)
  BY <1>2 DEF gamesDirectActive
<1>4. directSplitApps(s) = directSplitApps(o)
  BY <1>1, <1>3 DEF directSplitApps, splitAppsWithPresets
<1>5. includeOnly(s) <=> includeOnly(o)
  BY <1>1 DEF includeOnly
<1>6. voiceDirectActive(s) <=> voiceDirectActive(o)
  BY <1>2 DEF voiceDirectActive
<1>7. lanBypassActive(s) <=> lanBypassActive(o)
  BY <1>2 DEF lanBypassActive
<1>8. directRuleSuffixes(s) = directRuleSuffixes(o)
  BY <1>2 DEF directRuleSuffixes
<1>9. zapretDirectSuffixes(s) = zapretDirectSuffixes(o)
  BY <1>2 DEF zapretDirectSuffixes
<1>10. proxySuffixesWithPresets(s) = proxySuffixesWithPresets(o)
  BY <1>1, <1>9 DEF proxySuffixesWithPresets, proxyRuleSuffixes, unblockActive, rulesActive
<1>11. smartGeoActive(s, p) <=> smartGeoActive(o, p)
  BY <1>1 DEF smartGeoActive
<1>12. /\ \A r : emit(includeOnly(s), r) = emit(includeOnly(o), r)
       /\ \A r : emit(voiceDirectActive(s), r) = emit(voiceDirectActive(o), r)
       /\ \A r : emit(lanBypassActive(s), r) = emit(lanBypassActive(o), r)
       /\ \A r : emit(~includeOnly(s) /\ smartGeoActive(s, p), r)
                   = emit(~includeOnly(o) /\ smartGeoActive(o, p), r)
  BY <1>5, <1>6, <1>7, <1>11 DEF emit
<1>13. RouteRules(s, p) = RouteRules(o, p)
  BY <1>1, <1>4, <1>8, <1>9, <1>10, <1>12, Zenon DEF RouteRules
<1> QED
  BY <1>13 DEF s

\* The only ways out of the tunnel for a service of the preset.
LEMMA BlockedServicesStay ==
  ASSUME NEW o \in Normalized, o.unblock, o.mode # "direct", NEW p, NEW x, NEW f \in Flows,
         f.domain \in blockedServiceSuffixes, Outcome(RouteRules(o, p), x, f) = "direct"
  PROVE  \/ o.zapret /\ ~o.kill /\ coveredByZapret(coverage(o), f.domain)
         \/ ~o.kill /\ ((f.voice /\ o.voice) \/ coveredByZapret(o.direct, f.domain))
         \/ f.app \in o.apps /\ o.split = "exclude"
         \/ f.app \in gameProcesses /\ o.games /\ ~o.kill
<1>0. f.domain \in SuffixesOf(f.domain) /\ SuffixesOf(f.domain) \subseteq blockedServiceSuffixes
  BY DEF SuffixesOf, blockedServiceSuffixes
<1>1. Within(f, proxySuffixesWithPresets(o)) \/ Within(f, zapretDirectSuffixes(o))
  <2>1. ASSUME ~coveredByZapret(zapretDirectSuffixes(o), f.domain)
        PROVE  f.domain \in proxySuffixesWithPresets(o)
    BY <2>1 DEF proxySuffixesWithPresets, unblockActive
  <2> QED
    BY <2>1, <1>0 DEF coveredByZapret, Within
<1>2. \/ f.app \in directSplitApps(o)
      \/ voiceDirectActive(o) /\ f.voice
      \/ Within(f, directRuleSuffixes(o))
      \/ Within(f, zapretDirectSuffixes(o))
  <2>. DEFINE B == f.app \in directSplitApps(o)
              V == voiceDirectActive(o) /\ f.voice
              D == Within(f, directRuleSuffixes(o))
              Z == Within(f, zapretDirectSuffixes(o))
              P == Within(f, proxySuffixesWithPresets(o))
  <2>1. ~B /\ ~V /\ ~D /\ ~Z /\ P => Outcome(RouteRules(o, p), x, f) = "proxy"
    BY RouteDecides
  <2>. HIDE DEF B, V, D, Z, P
  <2>2. B \/ V \/ D \/ Z
    BY <2>1, <1>1 DEF Z, P
  <2> QED
    BY <2>2 DEF B, V, D, Z
<1>3. CASE f.app \in directSplitApps(o)
  BY <1>3 DEF directSplitApps, splitAppsWithPresets, gamesDirectActive, directPinAllowed,
              normalizeApps, gameProcesses
<1>4. CASE voiceDirectActive(o) /\ f.voice
  BY <1>4 DEF voiceDirectActive, directPinAllowed
<1>5. CASE Within(f, directRuleSuffixes(o))
  <2>1. PICK s \in SuffixesOf(f.domain) : s \in directRuleSuffixes(o)
    BY <1>5 DEF Within
  <2>2. ~o.kill /\ s \in o.direct \cup o.presets
    BY <2>1 DEF directRuleSuffixes, directPinAllowed, normalizeSuffixes
  <2>3. s \notin o.presets
    BY <1>0 DEF Normalized, blockedServiceSuffixes, presetRuSuffixes
  <2> QED
    BY <2>1, <2>2, <2>3 DEF coveredByZapret
<1>6. CASE Within(f, zapretDirectSuffixes(o))
  <2>1. PICK s \in SuffixesOf(f.domain) : s \in zapretDirectSuffixes(o)
    BY <1>6 DEF Within
  <2>2. o.zapret /\ ~o.kill /\ SuffixesOf(s) \cap coverage(o) # {}
    BY <2>1 DEF zapretDirectSuffixes, directPinAllowed, coveredByZapret
  <2>3. SuffixesOf(s) \subseteq SuffixesOf(f.domain)
    BY <2>1 DEF SuffixesOf
  <2> QED
    BY <2>2, <2>3 DEF coveredByZapret
<1> QED
  BY <1>2, <1>3, <1>4, <1>5, <1>6

\* What each block was built from: dns from p, rules from q, sets from what is
\* readable now.  Without a change they are the same files; one change falls
\* before the route block or after it.
BlocksInv ==
  /\ opts \in Options /\ servers \in Seq(Nodes) /\ present \in SUBSET RuleSets /\ changes \in Nat
  /\ pc \in {"idle", "nodes", "refused", "failed", "dns", "route", "sets", "done"}
  /\ pc = "route" => \E p \in SUBSET RuleSets : /\ dns = DNS(O, p)
                                                /\ changes = 0 => p = present
  /\ pc \in {"sets", "done"} =>
       \E p, q \in SUBSET RuleSets :
         /\ dns = DNS(O, p)
         /\ rules = [rules |-> RouteRules(O, q), final |-> FinalOutbound(O)]
         /\ pc = "done" => sets = RouteRuleSets(O, present)
         /\ changes = 0 => p = present /\ q = present
         /\ changes <= 1 => p = q \/ q = present

\* The blocks are consistent before anything is built.
LEMMA BlocksInit == AttemptInit => BlocksInv
  BY ConfigAssumption DEF AttemptInit, BlocksInv

\* Every step keeps the blocks consistent with the files they were built from.
LEMMA BlocksStep == BlocksInv /\ [AttemptNext]_attemptVars => BlocksInv'
<1> SUFFICES ASSUME BlocksInv, [AttemptNext]_attemptVars PROVE BlocksInv'
  OBVIOUS
<1>1. ASSUME NEW e, NEW c, Connect(e, c) PROVE BlocksInv'
  BY <1>1 DEF Connect, BlocksInv, O
<1>2. CASE BuildOutbounds
  BY <1>2 DEF BuildOutbounds, BlocksInv, O
<1>3. CASE BuildDNS
  <2>1. pc = "dns" /\ pc' = "route" /\ dns' = DNS(O, present)
    BY <1>3 DEF BuildDNS, O
  <2> QED
    BY <1>3, <2>1 DEF BuildDNS, BlocksInv, O
<1>4. CASE routeBlock
  <2>1. PICK p \in SUBSET RuleSets : dns = DNS(O, p) /\ (changes = 0 => p = present)
    BY <1>4 DEF routeBlock, BlocksInv
  <2>2. rules' = [rules |-> RouteRules(O, present), final |-> FinalOutbound(O)] /\ O' = O
    BY <1>4 DEF routeBlock, O
  <2>3. pc' = "sets" /\ dns' = dns /\ UNCHANGED <<opts, servers, present, changes>>
    BY <1>4 DEF routeBlock
  <2>. HIDE DEF O
  <2> QED
    BY <2>1, <2>2, <2>3 DEF BlocksInv
<1>5. CASE BuildRuleSets
  <2>1. PICK p, q \in SUBSET RuleSets :
          /\ dns = DNS(O, p)
          /\ rules = [rules |-> RouteRules(O, q), final |-> FinalOutbound(O)]
          /\ changes = 0 => p = present /\ q = present
          /\ changes <= 1 => p = q \/ q = present
    BY <1>5 DEF BuildRuleSets, BlocksInv
  <2>2. sets' = RouteRuleSets(O, present) /\ O' = O /\ pc' = "done"
    BY <1>5 DEF BuildRuleSets, O
  <2>3. UNCHANGED <<opts, servers, present, changes, dns, rules>>
    BY <1>5 DEF BuildRuleSets
  <2>. HIDE DEF O
  <2> QED
    BY <2>1, <2>2, <2>3 DEF BlocksInv
<1>6. CASE FilesChange
  <2>1. /\ pc \in {"dns", "route", "sets"} /\ changes' = changes + 1 /\ changes \in Nat
        /\ present' \in SUBSET RuleSets
        /\ UNCHANGED <<opts, servers, pc, dns, rules, sets>> /\ O' = O
    BY <1>6 DEF FilesChange, BlocksInv, O
  <2>. HIDE DEF O
  <2>2. changes' # 0 /\ changes' \in Nat /\ (changes' <= 1 => changes = 0)
    BY <2>1
  <2>3. CASE pc = "dns"
    BY <2>1, <2>2, <2>3 DEF BlocksInv
  <2>4. CASE pc = "route"
    <3>1. PICK p \in SUBSET RuleSets : dns = DNS(O, p)
      BY <2>4 DEF BlocksInv
    <3> QED
      BY <2>1, <2>2, <2>4, <3>1 DEF BlocksInv
  <2>5. CASE pc = "sets"
    <3>1. PICK p, q \in SUBSET RuleSets :
            /\ dns = DNS(O, p)
            /\ rules = [rules |-> RouteRules(O, q), final |-> FinalOutbound(O)]
            /\ changes = 0 => p = present /\ q = present
      BY <2>5 DEF BlocksInv
    <3>2. changes' <= 1 => p = q
      BY <3>1, <2>2
    <3> QED
      BY <2>1, <2>2, <2>5, <3>1, <3>2 DEF BlocksInv
  <2> QED
    BY <2>1, <2>3, <2>4, <2>5
<1>7. CASE UNCHANGED attemptVars
  BY <1>7 DEF attemptVars, BlocksInv, O
<1> QED
  BY <1>1, <1>2, <1>3, <1>4, <1>5, <1>6, <1>7 DEF AttemptNext

\* BlocksInv holds of every attempt.
LEMMA BlocksHold == AttemptSpec => []BlocksInv
  BY BlocksInit, BlocksStep, PTL DEF AttemptSpec

\* Consistent blocks mean what the options say.
LEMMA BlocksMean ==
  ASSUME BlocksInv
  PROVE  NoDNSLeak /\ DirectIsMeant /\ RuleSetsDefined
<1>0. CASE pc # "done"
  BY <1>0 DEF NoDNSLeak, DirectIsMeant, KillSwitchPins, BlockedServicesCarried, RuleSetsDefined,
              Loadable, Built
<1>. SUFFICES ASSUME pc = "done" PROVE NoDNSLeak /\ DirectIsMeant /\ RuleSetsDefined
  BY <1>0
<1>1. PICK p, q \in SUBSET RuleSets :
        /\ dns = DNS(O, p)
        /\ rules = [rules |-> RouteRules(O, q), final |-> FinalOutbound(O)]
        /\ sets = RouteRuleSets(O, present)
        /\ changes = 0 => p = present /\ q = present
        /\ changes <= 1 => p = q \/ q = present
  BY DEF BlocksInv
<1>2. O \in Normalized
  BY NormalizeFacts DEF BlocksInv, O
<1>. HIDE DEF O
<1>3. ASSUME NEW f
      PROVE  /\ Leaves(f) = Outcome(RouteRules(O, q), FinalOutbound(O), f)
             /\ Resolver(f) = Outcome(dnsRules(O, p), dnsFinal(O), f)
  BY <1>1 DEF Leaves, Resolver, Outcome, DNS
<1>4. /\ Referenced(dns) = Refs(dnsRules(O, p), dnsFinal(O))
      /\ Referenced(rules) = Refs(RouteRules(O, q), FinalOutbound(O))
  BY <1>1 DEF Refs, DNS
<1>5. NoDNSLeak
  <2> SUFFICES ASSUME Loadable, changes <= 1, NEW f \in Flows, Leaves(f) = "proxy"
               PROVE  Resolver(f) # "dns-direct"
    BY DEF NoDNSLeak
  <2>1. Refs(dnsRules(O, p), dnsFinal(O)) \subseteq RouteRuleSets(O, present)
    BY <1>1, <1>4 DEF Loadable
  <2>2. Outcome(RouteRules(O, q), FinalOutbound(O), f) = "proxy"
    BY <1>3
  <2>3. p = q \/ q = present
    BY <1>1
  <2> QED
    BY <1>3, <2>1, <2>2, <2>3, ListsAgree
<1>6. KillSwitchPins
  <2> SUFFICES ASSUME changes = 0, O.kill, NEW f \in Flows, Leaves(f) = "direct"
               PROVE  FirstMatch([rules |-> RouteRules(Stripped(O), present),
                                  final |-> rules.final], f) = "direct"
    BY DEF KillSwitchPins
  <2>1. RouteRules(Stripped(O), present) = RouteRules(O, q) /\ rules.final = FinalOutbound(O)
    BY <1>1, <1>2, KilledPins
  <2> QED
    BY <2>1, <1>3 DEF Outcome
<1>7. BlockedServicesCarried
  BY <1>2, <1>3, BlockedServicesStay DEF BlockedServicesCarried
<1>8. RuleSetsDefined
  <2> SUFFICES ASSUME changes = 0 PROVE Loadable
    BY DEF RuleSetsDefined
  <2>1. p = present /\ q = present
    BY <1>1
  <2>2. /\ Referenced(dns) = (IF adBlockActive(O, present) THEN {"geosite-ads"} ELSE {})
                               \cup (IF smartGeoActive(O, present) THEN {"geosite-ru"} ELSE {})
        /\ Referenced(rules) = IF ~includeOnly(O) /\ smartGeoActive(O, present)
                               THEN {"geoip-ru", "geosite-ru"} ELSE {}
    BY <1>4, <2>1, DNSNames, RouteNames
  <2>3. Referenced(dns) \cup Referenced(rules) \subseteq RouteRuleSets(O, present)
    BY <2>2 DEF RouteRuleSets
  <2> QED
    BY <1>1, <2>3 DEF Loadable, Built
<1> QED
  BY <1>5, <1>6, <1>7, <1>8 DEF DirectIsMeant

\* For every options, profile and set of rule-set files: a connection carried
\* by the tunnel is never resolved by the direct resolver, in any config
\* sing-box loads and over any single change of the files (RouteRules, dnsRules).
THEOREM NoDNSLeakHolds == AttemptSpec => []NoDNSLeak
  BY BlocksHold, BlocksMean, PTL

\* For every options and files: under the kill switch, and for the blocked
\* services, traffic leaves outside the tunnel only where the options mean it
\* to (directPinAllowed, proxySuffixesWithPresets).
THEOREM DirectIsMeantHolds == AttemptSpec => []DirectIsMeant
  BY BlocksHold, BlocksMean, PTL

-----------------------------------------------------------------------------
(***************************************************************************)
(* The names: the builder's walk over the nodes and the control layer's    *)
(* copy of it over the servers go in step.                                 *)
(***************************************************************************)

\* The counts of a naming walk: finitely many tags, each used at least once.
Counts(seen) ==
  /\ IsFiniteSet(DOMAIN seen) /\ DOMAIN seen \subseteq Names
  /\ \A t \in DOMAIN seen : seen[t] \in Nat \ {0}

\* Numbering a name gives a name, and different numbers different ones.
LEMMA NumberedFacts ==
  ASSUME NEW base \in Names
  PROVE  /\ \A k \in Nat : Numbered(base, k) \in Names
         /\ \A j, k \in Nat : Numbered(base, j) = Numbered(base, k) => j = k
<1>1. ASSUME NEW k \in Nat PROVE Numbered(base, k) \in Names
  BY SMTT(30) DEF Numbered, Names
<1>2. ASSUME NEW j \in Nat, NEW k \in Nat, Numbered(base, j) = Numbered(base, k) PROVE j = k
  <2>1. base.nums \in Seq(Nat)
    BY DEF Names
  <2>2. Append(base.nums, j) = Append(base.nums, k)
    <3>1. \A m : Numbered(base, m).nums = Append(base.nums, m)
      BY DEF Numbered, Names
    <3> QED
      BY <3>1, <1>2
  <2>3. \A m \in Nat : Append(base.nums, m)[Len(base.nums) + 1] = m
    BY <2>1
  <2> QED
    BY <2>2, <2>3
<1> QED
  BY <1>1, <1>2

\* The number uniq appends exists and is free: among one more candidate than
\* there are tags in use, some candidate is in no use.
LEMMA SuffixIsFree ==
  ASSUME NEW seen, Counts(seen), NEW base \in Names
  PROVE  /\ Suffix(seen, base) \in Nat \ {0}
         /\ Numbered(base, Suffix(seen, base)) \in Names
         /\ Numbered(base, Suffix(seen, base)) \notin DOMAIN seen
<1>. DEFINE n == Cardinality(DOMAIN seen)
            c == Count(seen, base)
            free == {k \in 1..(n + c + 2) : k > c /\ Count(seen, Numbered(base, k)) = 0}
            top == c + n + 1
            K == (c + 1)..top
            f == [k \in K |-> Numbered(base, k)]
<1>1. n \in Nat /\ c \in Nat
  BY FS_CardinalityType DEF Counts, Count
<1>2. free # {}
  <2>1. SUFFICES ASSUME free = {} PROVE FALSE
    OBVIOUS
  <2>2. \A k \in K : Numbered(base, k) \in DOMAIN seen
    <3>1. ASSUME NEW k \in K PROVE Numbered(base, k) \in DOMAIN seen
      <4>1. k \in 1..(n + c + 2) /\ k > c
        BY <1>1
      <4>2. Count(seen, Numbered(base, k)) # 0
        BY <4>1, <2>1
      <4> QED
        BY <4>2 DEF Count
    <3> QED
      BY <3>1
  <2>3. IsFiniteSet(K) /\ Cardinality(K) = n + 1
    <3>1. c + 1 \in Int /\ top \in Int /\ ~(c + 1 > top) /\ top - (c + 1) + 1 = n + 1
      BY <1>1
    <3>. HIDE DEF top
    <3> QED
      BY <3>1, FS_Interval
  <2>4. f \in [K -> DOMAIN seen]
    BY <2>2
  <2>5. PICK x, y \in K : x # y /\ f[x] = f[y]
    <3>1. IsFiniteSet(DOMAIN seen) /\ Cardinality(DOMAIN seen) < Cardinality(K)
      BY <1>1, <2>3 DEF Counts
    <3>. HIDE DEF f, K
    <3> QED
      BY <2>3, <2>4, <3>1, FS_PigeonHole
  <2>6. x \in Nat /\ y \in Nat
    BY <1>1
  <2> QED
    BY <2>5, <2>6, NumberedFacts
<1>3. free \in SUBSET Nat
  BY <1>1
<1>4. Suffix(seen, base) = Min(free)
  BY DEF Suffix
<1>5. Min(free) \in free
  BY <1>2, <1>3, MinNat
<1>6. Suffix(seen, base) \in Nat \ {0} /\ Count(seen, Numbered(base, Suffix(seen, base))) = 0
  BY <1>1, <1>4, <1>5
<1> QED
  BY <1>6, NumberedFacts DEF Count, Counts

\* uniq returns a tag nobody has; taking it records it, giving it back leaves
\* the tags that were in use before.
LEMMA TagIsFresh ==
  ASSUME NEW seen, Counts(seen), NEW base \in Names
  PROVE  /\ uniq(seen, base) \in Names
         /\ uniq(seen, base) \notin DOMAIN seen
         /\ Counts(Take(seen, base))
         /\ DOMAIN Take(seen, base) = DOMAIN seen \cup {uniq(seen, base)}
         /\ Counts(GiveBack(Take(seen, base), uniq(seen, base)))
         /\ DOMAIN GiveBack(Take(seen, base), uniq(seen, base)) = DOMAIN seen
<1>. DEFINE t == uniq(seen, base)
            taken == Take(seen, base)
<1>1. t \in Names /\ t \notin DOMAIN seen
  BY SuffixIsFree DEF uniq, Count, Counts
<1>2. DOMAIN taken = DOMAIN seen \cup {t} /\ \A u \in DOMAIN taken : taken[u] \in Nat \ {0}
  <2>1. CASE Count(seen, base) = 0
    BY <2>1 DEF Take, uniq, Counts, Put
  <2>2. CASE Count(seen, base) # 0
    <3>1. base \in DOMAIN seen /\ Suffix(seen, base) \in Nat \ {0}
      BY <2>2, SuffixIsFree DEF Count
    <3> QED
      BY <2>2, <3>1 DEF Take, uniq, Counts, Put
  <2> QED
    BY <2>1, <2>2
<1>3. Counts(taken)
  BY <1>1, <1>2, FS_AddElement DEF Counts
<1>4. DOMAIN GiveBack(taken, t) = DOMAIN seen
      /\ \A u \in DOMAIN seen : GiveBack(taken, t)[u] = taken[u]
  BY <1>1, <1>2 DEF GiveBack
<1>5. Counts(GiveBack(taken, t))
  BY <1>2, <1>4 DEF Counts
<1> QED
  BY <1>1, <1>2, <1>3, <1>4, <1>5

\* Induction over the numbers, for a set of them.
LEMMA Induct ==
  ASSUME NEW P \in SUBSET Nat, 0 \in P, \A n \in P : n + 1 \in P
  PROVE  P = Nat
<1>1. SUFFICES ASSUME Nat \ P # {} PROVE FALSE
  OBVIOUS
<1>2. Min(Nat \ P) \in Nat \ P /\ \A y \in Nat \ P : Min(Nat \ P) <= y
  BY <1>1, MinNat
<1>3. PICK m \in Nat \ P : \A y \in Nat \ P : m <= y
  BY <1>2
<1>4. m # 0 /\ m - 1 \in Nat /\ ~(m <= m - 1) /\ m - 1 + 1 = m
  BY <1>3
<1>5. m - 1 \in P
  BY <1>3, <1>4
<1> QED
  BY <1>3, <1>4, <1>5

\* buildNodes is the end of a walk that renders the nodes one by one.
LEMMA BuilderWalks ==
  ASSUME NEW nodes \in Seq(Nodes)
  PROVE  \E walk : /\ DOMAIN walk = 0..Len(nodes)
                   /\ walk[0] = Walked
                   /\ \A i \in 1..Len(nodes) : walk[i] = buildNode(walk[i - 1], nodes[i], i)
                   /\ buildNodes(nodes) = walk[Len(nodes)]
<1>. DEFINE n == Len(nodes)
            Step(f, k) == [i \in 0..k |-> IF i = 0 THEN Walked ELSE buildNode(f[i - 1], nodes[i], i)]
            P == {k \in Nat : \E f : f = Step(f, k)}
<1>1. 0 \in P
  <2>1. Step(Step(<< >>, 0), 0) = Step(<< >>, 0)
    OBVIOUS
  <2> QED
    BY <2>1
<1>2. ASSUME NEW k \in P PROVE k + 1 \in P
  <2>1. PICK f : f = Step(f, k)
    OBVIOUS
  <2>. DEFINE g == Step(f, k + 1)
  <2>2. \A i \in 0..k : g[i] = f[i]
    BY <2>1
  <2>3. \A i \in 1..(k + 1) : i - 1 \in 0..k
    OBVIOUS
  <2>4. \A i \in 0..(k + 1) : g[i] = Step(g, k + 1)[i]
    <3>1. ASSUME NEW i \in 0..(k + 1) PROVE g[i] = Step(g, k + 1)[i]
      <4>1. CASE i = 0
        BY <4>1
      <4>2. CASE i # 0
        <5>1. i - 1 \in 0..k
          BY <4>2
        <5>2. g[i - 1] = f[i - 1]
          BY <5>1, <2>2
        <5>3. g[i] = buildNode(f[i - 1], nodes[i], i)
          BY <4>2
        <5>4. Step(g, k + 1)[i] = buildNode(g[i - 1], nodes[i], i)
          <6>. HIDE DEF g
          <6> QED
            BY <4>2
        <5> QED
          BY <5>2, <5>3, <5>4
      <4> QED
        BY <4>1, <4>2
    <3> QED
      BY <3>1
  <2>5. g = Step(g, k + 1)
    BY <2>4
  <2>. HIDE DEF g, Step
  <2> QED
    BY <2>5
<1>3. n \in P
  <2>. HIDE DEF P
  <2>1. P \in SUBSET Nat
    BY DEF P
  <2>2. P = Nat
    BY <1>1, <1>2, <2>1, Induct
  <2>3. n \in Nat
    OBVIOUS
  <2> QED
    BY <2>2, <2>3
<1>. DEFINE walk == CHOOSE f : f = Step(f, n)
<1>4. walk = Step(walk, n)
  BY <1>3
<1>5. buildNodes(nodes) = walk[n]
  BY DEF buildNodes
<1>6. /\ DOMAIN walk = 0..n /\ walk[0] = Walked
      /\ \A i \in 1..n : walk[i] = buildNode(walk[i - 1], nodes[i], i)
  <2>. HIDE DEF walk
  <2>1. n \in Nat
    OBVIOUS
  <2>. HIDE DEF n
  <2> QED
    BY <1>4, <2>1
<1>. HIDE DEF walk
<1> QED
  BY <1>5, <1>6

\* The control layer's walk before the first server.
Unnamed == [seen |-> << >>, tags |-> << >>]

\* serverTags is the end of a walk that names the servers one by one.
LEMMA ServerWalks ==
  ASSUME NEW nodes \in Seq(Nodes)
  PROVE  \E walk : /\ DOMAIN walk = 0..Len(nodes)
                   /\ walk[0] = Unnamed
                   /\ \A i \in 1..Len(nodes) : walk[i] = serverTag(walk[i - 1], nodes[i], i)
                   /\ serverTags(nodes) = walk[Len(nodes)].tags
<1>. DEFINE n == Len(nodes)
            Step(f, k) == [i \in 0..k |-> IF i = 0 THEN Unnamed ELSE serverTag(f[i - 1], nodes[i], i)]
            P == {k \in Nat : \E f : f = Step(f, k)}
<1>1. 0 \in P
  <2>1. Step(Step(<< >>, 0), 0) = Step(<< >>, 0)
    OBVIOUS
  <2> QED
    BY <2>1
<1>2. ASSUME NEW k \in P PROVE k + 1 \in P
  <2>1. PICK f : f = Step(f, k)
    OBVIOUS
  <2>. DEFINE g == Step(f, k + 1)
  <2>2. \A i \in 0..k : g[i] = f[i]
    BY <2>1
  <2>3. \A i \in 1..(k + 1) : i - 1 \in 0..k
    OBVIOUS
  <2>4. \A i \in 0..(k + 1) : g[i] = Step(g, k + 1)[i]
    <3>1. ASSUME NEW i \in 0..(k + 1) PROVE g[i] = Step(g, k + 1)[i]
      <4>1. CASE i = 0
        BY <4>1
      <4>2. CASE i # 0
        <5>1. i - 1 \in 0..k
          BY <4>2
        <5>2. g[i - 1] = f[i - 1]
          BY <5>1, <2>2
        <5>3. g[i] = serverTag(f[i - 1], nodes[i], i)
          BY <4>2
        <5>4. Step(g, k + 1)[i] = serverTag(g[i - 1], nodes[i], i)
          <6>. HIDE DEF g
          <6> QED
            BY <4>2
        <5> QED
          BY <5>2, <5>3, <5>4
      <4> QED
        BY <4>1, <4>2
    <3> QED
      BY <3>1
  <2>5. g = Step(g, k + 1)
    BY <2>4
  <2>. HIDE DEF g, Step
  <2> QED
    BY <2>5
<1>3. n \in P
  <2>. HIDE DEF P
  <2>1. P \in SUBSET Nat
    BY DEF P
  <2>2. P = Nat
    BY <1>1, <1>2, <2>1, Induct
  <2>3. n \in Nat
    OBVIOUS
  <2> QED
    BY <2>2, <2>3
<1>. DEFINE walk == CHOOSE f : f = Step(f, n)
<1>4. walk = Step(walk, n)
  BY <1>3
<1>5. serverTags(nodes) = walk[n].tags
  BY DEF serverTags, Unnamed
<1>6. /\ DOMAIN walk = 0..n /\ walk[0] = Unnamed
      /\ \A i \in 1..n : walk[i] = serverTag(walk[i - 1], nodes[i], i)
  <2>. HIDE DEF walk
  <2>1. n \in Nat
    OBVIOUS
  <2>. HIDE DEF n
  <2> QED
    BY <1>4, <2>1
<1>. HIDE DEF walk
<1> QED
  BY <1>5, <1>6

\* What the builder emits, and what it remembers of a selectable node.
Objects == [tag : Names, type : Protocols \cup {"wireguard"}, credentials : Credentials,
            tls : TLSBlocks, transport : Transports]
Selected == [index : Nat, tag : Names]

\* Appending adds one element to a sequence's range.
LEMMA RangeOfMore ==
  ASSUME NEW S, NEW s \in Seq(S), NEW x \in S
  PROVE  Append(s, x) \in Seq(S) /\ Range(Append(s, x)) = Range(s) \cup {x}
<1>1. DOMAIN s = 1..Len(s) /\ Len(s) \in Nat
  OBVIOUS
<1>2. /\ DOMAIN Append(s, x) = 1..(Len(s) + 1) /\ Append(s, x)[Len(s) + 1] = x
      /\ \A i \in 1..Len(s) : Append(s, x)[i] = s[i]
  OBVIOUS
<1>3. DOMAIN Append(s, x) = DOMAIN s \cup {Len(s) + 1}
  BY <1>1, <1>2
<1>. DEFINE t == Append(s, x)
<1>4. /\ DOMAIN t = DOMAIN s \cup {Len(s) + 1} /\ t[Len(s) + 1] = x
      /\ \A i \in DOMAIN s : t[i] = s[i]
  BY <1>1, <1>2, <1>3
<1>5. t \in Seq(S)
  OBVIOUS
<1>. HIDE DEF t
<1> QED
  BY <1>4, <1>5 DEF Range, t

\* Whatever a valid node asks for, the object rendered from it is one sing-box
\* can construct if the node is well-formed, under the tag it was given.
LEMMA ObjectFacts ==
  ASSUME NEW n \in Nodes, validateNode(n), NEW tag \in Names
  PROVE  /\ wireguardEndpoint(n, tag) \in Objects
         /\ wireguardEndpoint(n, tag).tag = tag
         /\ WellFormed(n) => Decodes(wireguardEndpoint(n, tag))
         /\ n.protocol \in Streams => /\ Outbound(n, tag) \in Objects
                                      /\ Outbound(n, tag).tag = tag
                                      /\ WellFormed(n) => Decodes(Outbound(n, tag))
<1>1. /\ wireguardEndpoint(n, tag) \in Objects
      /\ wireguardEndpoint(n, tag).tag = tag
      /\ WellFormed(n) => Decodes(wireguardEndpoint(n, tag))
  <2>0. n.credentials \in Credentials
    BY DEF Nodes
  <2>1. NoTLS \in TLSBlocks /\ NoTLS.reality = "none"
    BY DEF NoTLS, TLSBlocks
  <2>2. "" \in Transports
    BY DEF Transports, NativeTransports
  <2>. HIDE DEF NoTLS
  <2> QED
    BY <2>0, <2>1, <2>2 DEF wireguardEndpoint, Objects, Decodes, WellFormed
<1>2. ASSUME n.protocol \in Streams
      PROVE  /\ Outbound(n, tag) \in Objects
             /\ Outbound(n, tag).tag = tag
             /\ WellFormed(n) => Decodes(Outbound(n, tag))
  <2>. DEFINE o == Outbound(n, tag)
              tls == CASE n.protocol = "shadowsocks" -> NoTLS
                       [] n.protocol \in {"vless", "vmess"} -> tlsObject(n.tls)
                       [] OTHER -> IF n.tls.on THEN tlsObject(n.tls) ELSE PlainTLS
              tr == IF n.protocol \in {"vless", "vmess", "trojan"} THEN transportObject(n.transport)
                    ELSE ""
  <2>1. n.tls \in TLSBlocks /\ n.transport \in Transports /\ n.tls.reality # "keyless"
      /\ n.credentials \in Credentials
    BY DEF Nodes, validateNode
  <2>2. /\ NoTLS \in TLSBlocks /\ NoTLS.reality = "none" /\ ~NoTLS.on
        /\ PlainTLS \in TLSBlocks /\ PlainTLS.reality = "none" /\ PlainTLS.on
    BY DEF NoTLS, PlainTLS, TLSBlocks
  <2>3. /\ tlsObject(n.tls) \in TLSBlocks
        /\ tlsObject(n.tls).on <=> n.tls.on
        /\ tlsObject(n.tls).reality # "none" => tlsObject(n.tls).reality = n.tls.reality /\ tlsObject(n.tls).utls
    BY <2>1, <2>2 DEF tlsObject, TLSBlocks
  <2>4. /\ tls \in TLSBlocks
        /\ tls.reality # "none" => tls.reality = n.tls.reality /\ tls.utls
        /\ n.protocol \in {"trojan", "hysteria2"} => tls.on
        /\ n.protocol \in {"vless", "vmess"} => (tls.on <=> n.tls.on)
    <3>1. CASE n.protocol = "shadowsocks"
      BY <3>1, <2>2
    <3>2. CASE n.protocol \in {"vless", "vmess"}
      BY <3>2, <2>3
    <3>3. CASE n.protocol \in {"trojan", "hysteria2"}
      BY <3>3, <2>2, <2>3
    <3> QED
      BY <1>2, <3>1, <3>2, <3>3 DEF Streams
  <2>5. /\ tr \in Transports /\ tr # "kcp"
        /\ tr = "quic" => \/ n.protocol \in {"vless", "vmess"} /\ n.tls.on
                          \/ n.protocol = "trojan"
    BY <2>1 DEF validateNode, NativeTransports, Transports, transportObject
  <2>6. o = [tag |-> tag, type |-> n.protocol, credentials |-> n.credentials, tls |-> tls,
             transport |-> tr]
    BY DEF Outbound
  <2>7. n.protocol \in Protocols
    BY <1>2 DEF Protocols
  <2>8. WellFormed(n) => n.credentials # "malformed" /\ n.tls.reality \in {"none", "keyed"}
    BY <2>1 DEF WellFormed, TLSBlocks
  <2>. HIDE DEF tls, tr
  <2>9. o \in Objects /\ o.tag = tag
    BY <2>1, <2>4, <2>5, <2>6, <2>7 DEF Objects
  <2>10. /\ o.type = n.protocol /\ o.credentials = n.credentials /\ o.tls = tls /\ o.transport = tr
    BY <2>6
  <2>. HIDE DEF o
  <2>11. WellFormed(n) => Decodes(o)
    BY <2>4, <2>5, <2>8, <2>10 DEF Decodes
  <2> QED
    BY <2>9, <2>11 DEF o
<1> QED
  BY <1>1, <1>2

\* The builder's walk w and the control layer's walk v after the first i
\* servers ss agree on every tag, and no tag is used twice.
Agree(w, v, ss, i) ==
  /\ w = [seen |-> w.seen, outs |-> w.outs, endpoints |-> w.endpoints, sel |-> w.sel]
  /\ v = [seen |-> v.seen, tags |-> v.tags]
  /\ w.seen = v.seen /\ Counts(w.seen)
  /\ w.sel \in Seq(Selected) /\ w.outs \in Seq(Objects) /\ w.endpoints \in Seq(Objects)
  /\ \A s \in Range(w.sel) : /\ s.index \in DOMAIN v.tags /\ v.tags[s.index] = s.tag
                             /\ s.tag \in DOMAIN w.seen /\ s.tag # Blank
  /\ \A s, t \in Range(w.sel) : s.tag = t.tag => s = t
  /\ DOMAIN v.tags = {j \in 1..i : renderable(ss[j])}
  /\ \A j \in DOMAIN v.tags : \E s \in Range(w.sel) : s.index = j
  /\ {o.tag : o \in Range(w.outs) \cup Range(w.endpoints)} = {s.tag : s \in Range(w.sel)}
  /\ \A o \in Range(w.outs) \cup Range(w.endpoints) :
       Decodes(o) \/ \E j \in DOMAIN v.tags : v.tags[j] = o.tag /\ ~WellFormed(ss[j])

\* No node is ever given the empty tag, which stands for no server.
LEMMA TagsAreNotBlank ==
  ASSUME NEW seen, Counts(seen), NEW name \in Names
  PROVE  sanitizeTag(name) \in Names /\ uniq(seen, sanitizeTag(name)) # Blank
<1>. DEFINE base == sanitizeTag(name)
<1>1. base \in Names /\ base # Blank
  <2>1. Blank \in Names /\ Blank = [text |-> "", nums |-> << >>]
    <3>1. << >> \in Seq(Nat)
      OBVIOUS
    <3> QED
      BY <3>1, TextAssumption DEF Blank, Names
  <2>2. [Blank EXCEPT !.text = "node"].text = "node"
    BY DEF Blank
  <2> QED
    BY <2>1, <2>2, TextAssumption DEF sanitizeTag, Names
<1>2. \A k \in Nat : Numbered(base, k) # Blank
  <2>1. base.nums \in Seq(Nat)
    BY <1>1 DEF Names
  <2>2. ASSUME NEW k \in Nat PROVE Append(base.nums, k) # << >>
    BY <2>1
  <2>3. ASSUME NEW k PROVE Numbered(base, k).nums = Append(base.nums, k)
    BY <1>1 DEF Numbered, Names
  <2>4. Blank.nums = << >>
    BY DEF Blank
  <2> QED
    BY <2>2, <2>3, <2>4
<1> QED
  BY <1>1, <1>2, SuffixIsFree DEF uniq

\* What buildNode does with a node, by its protocol and validity.
LEMMA BuilderStep ==
  ASSUME NEW w, w = [seen |-> w.seen, outs |-> w.outs, endpoints |-> w.endpoints, sel |-> w.sel],
         NEW n \in Nodes, NEW i
  PROVE  LET base == sanitizeTag(n.name)
             tag == uniq(w.seen, base)
             taken == Take(w.seen, base)
         IN  /\ n.protocol = "" => buildNode(w, n, i) = w
             /\ n.protocol # "" /\ ~renderable(n) =>
                  buildNode(w, n, i) = [seen |-> GiveBack(taken, tag), outs |-> w.outs,
                                        endpoints |-> w.endpoints, sel |-> w.sel]
             /\ renderable(n) /\ n.protocol = "amneziawg" =>
                  buildNode(w, n, i) =
                    [seen |-> taken, outs |-> w.outs,
                     endpoints |-> Append(w.endpoints, wireguardEndpoint(n, tag)),
                     sel |-> Append(w.sel, [index |-> i, tag |-> tag])]
             /\ renderable(n) /\ n.protocol \in Streams =>
                  buildNode(w, n, i) =
                    [seen |-> taken, outs |-> Append(w.outs, Outbound(n, tag)),
                     endpoints |-> w.endpoints,
                     sel |-> Append(w.sel, [index |-> i, tag |-> tag])]
<1>. DEFINE base == sanitizeTag(n.name)
            tag == uniq(w.seen, base)
            taken == Take(w.seen, base)
            W(a, b, c, d) == [seen |-> a, outs |-> b, endpoints |-> c, sel |-> d]
<1>1. CASE n.protocol = ""
  BY <1>1 DEF buildNode, renderable, Streams
<1>2. ASSUME n.protocol # "", ~renderable(n)
      PROVE  buildNode(w, n, i) = W(GiveBack(taken, tag), w.outs, w.endpoints, w.sel)
  <2>1. ~validateNode(n) \/ (n.protocol # "amneziawg" /\ n.protocol \notin Streams)
    BY <1>2 DEF renderable, knownProtocol
  <2>2. buildNode(w, n, i) = [[w EXCEPT !.seen = taken] EXCEPT !.seen = GiveBack([w EXCEPT !.seen = taken].seen, tag)]
    BY <1>2, <2>1 DEF buildNode
  <2>. HIDE DEF tag, taken
  <2>3. [w EXCEPT !.seen = taken].seen = taken
    OBVIOUS
  <2> QED
    BY <2>2, <2>3
<1>3. ASSUME renderable(n), n.protocol = "amneziawg"
      PROVE  buildNode(w, n, i) = W(taken, w.outs, Append(w.endpoints, wireguardEndpoint(n, tag)),
                                    Append(w.sel, [index |-> i, tag |-> tag]))
  <2>1. validateNode(n)
    BY <1>3 DEF renderable
  <2>2. buildNode(w, n, i) = [[[w EXCEPT !.seen = taken] EXCEPT !.sel = Append(@, [index |-> i, tag |-> tag])]
                                EXCEPT !.endpoints = Append(@, wireguardEndpoint(n, tag))]
    BY <1>3, <2>1 DEF buildNode, Streams
  <2>. HIDE DEF tag, taken
  <2> QED
    BY <2>2
<1>4. ASSUME renderable(n), n.protocol \in Streams
      PROVE  buildNode(w, n, i) = W(taken, Append(w.outs, Outbound(n, tag)), w.endpoints,
                                    Append(w.sel, [index |-> i, tag |-> tag]))
  <2>1. validateNode(n) /\ n.protocol # "amneziawg" /\ n.protocol # ""
    BY <1>4 DEF renderable, Streams
  <2>2. buildNode(w, n, i) = [[[w EXCEPT !.seen = taken] EXCEPT !.sel = Append(@, [index |-> i, tag |-> tag])]
                                EXCEPT !.outs = Append(@, Outbound(n, tag))]
    BY <1>4, <2>1 DEF buildNode
  <2>. HIDE DEF tag, taken
  <2> QED
    BY <2>2
<1>5. n.protocol = "" => ~renderable(n)
  BY DEF renderable
<1>. HIDE DEF tag, taken
<1> QED
  BY <1>1, <1>2, <1>3, <1>4, <1>5 DEF tag, taken

\* What the control layer's copy does with the same server.
LEMMA ServerStep ==
  ASSUME NEW v, v = [seen |-> v.seen, tags |-> v.tags], NEW s \in Nodes, NEW i
  PROVE  LET base == sanitizeTag(s.name)
             tag == uniq(v.seen, base)
             taken == Take(v.seen, base)
         IN  /\ s.protocol = "" => serverTag(v, s, i) = v
             /\ s.protocol # "" /\ ~renderable(s) =>
                  serverTag(v, s, i) = [seen |-> GiveBack(taken, tag), tags |-> v.tags]
             /\ renderable(s) => serverTag(v, s, i) = [seen |-> taken, tags |-> Put(v.tags, i, tag)]
<1>. DEFINE base == sanitizeTag(s.name)
            tag == uniq(v.seen, base)
            taken == Take(v.seen, base)
<1>1. CASE s.protocol = ""
  BY <1>1 DEF serverTag, renderable
<1>2. ASSUME s.protocol # "", ~renderable(s)
      PROVE  serverTag(v, s, i) = [seen |-> GiveBack(taken, tag), tags |-> v.tags]
  <2>1. serverTag(v, s, i) = [v EXCEPT !.seen = GiveBack(taken, tag)]
    BY <1>2 DEF serverTag, renderable
  <2>. HIDE DEF tag, taken
  <2> QED
    BY <2>1
<1>3. ASSUME renderable(s)
      PROVE  serverTag(v, s, i) = [seen |-> taken, tags |-> Put(v.tags, i, tag)]
  <2>1. serverTag(v, s, i) = [v EXCEPT !.seen = taken, !.tags = Put(@, i, tag)]
    BY <1>3 DEF serverTag, renderable
  <2>. HIDE DEF tag, taken
  <2> QED
    BY <2>1
<1>4. s.protocol = "" => ~renderable(s)
  BY DEF renderable
<1>. HIDE DEF tag, taken
<1> QED
  BY <1>1, <1>2, <1>3, <1>4 DEF tag, taken

\* The two walks still agree after one more node.
LEMMA AgreeStep ==
  ASSUME NEW ss \in Seq(Nodes), NEW i \in Nat, i + 1 \in DOMAIN ss, NEW w, NEW v, Agree(w, v, ss, i),
         NEW n \in Nodes, n.name = ss[i + 1].name, n.protocol = ss[i + 1].protocol,
         validateNode(n) <=> validateNode(ss[i + 1]), WellFormed(n) <=> WellFormed(ss[i + 1])
  PROVE  Agree(buildNode(w, n, i + 1), serverTag(v, ss[i + 1], i + 1), ss, i + 1)
<1>. DEFINE s == ss[i + 1]
            base == sanitizeTag(n.name)
            tag == uniq(w.seen, base)
            taken == Take(w.seen, base)
            w1 == buildNode(w, n, i + 1)
            v1 == serverTag(v, s, i + 1)
            new == [index |-> i + 1, tag |-> tag]
            vbase == sanitizeTag(s.name)
            vtag == uniq(v.seen, vbase)
            vtaken == Take(v.seen, vbase)
<1>1. s \in Nodes /\ (renderable(n) <=> renderable(s))
  <2>1. s \in Nodes
    OBVIOUS
  <2>2. n.protocol = s.protocol /\ (validateNode(n) <=> validateNode(s))
    OBVIOUS
  <2>. HIDE DEF s
  <2> QED
    BY <2>1, <2>2 DEF renderable
<1>2. base \in Names /\ tag \in Names /\ tag # Blank /\ tag \notin DOMAIN w.seen
      /\ Counts(taken) /\ DOMAIN taken = DOMAIN w.seen \cup {tag}
      /\ Counts(GiveBack(taken, tag)) /\ DOMAIN GiveBack(taken, tag) = DOMAIN w.seen
  <2>1. n.name \in Names
    BY DEF Nodes
  <2>2. Counts(w.seen)
    BY DEF Agree
  <2>3. base \in Names /\ tag # Blank
    BY <2>1, <2>2, TagsAreNotBlank
  <2>. HIDE DEF base
  <2> QED
    BY <2>2, <2>3, TagIsFresh
<1>3. vbase = base /\ vtag = tag /\ vtaken = taken
  BY DEF Agree
<1>10. /\ n.protocol = "" => w1 = w
       /\ n.protocol # "" /\ ~renderable(n) =>
            w1 = [seen |-> GiveBack(taken, tag), outs |-> w.outs,
                  endpoints |-> w.endpoints, sel |-> w.sel]
       /\ renderable(n) /\ n.protocol = "amneziawg" =>
            w1 = [seen |-> taken, outs |-> w.outs,
                  endpoints |-> Append(w.endpoints, wireguardEndpoint(n, tag)),
                  sel |-> Append(w.sel, new)]
       /\ renderable(n) /\ n.protocol \in Streams =>
            w1 = [seen |-> taken, outs |-> Append(w.outs, Outbound(n, tag)),
                  endpoints |-> w.endpoints, sel |-> Append(w.sel, new)]
  <2>1. w = [seen |-> w.seen, outs |-> w.outs, endpoints |-> w.endpoints, sel |-> w.sel]
    BY DEF Agree
  <2> QED
    BY <2>1, BuilderStep
<1>11. /\ s.protocol = "" => v1 = v
       /\ s.protocol # "" /\ ~renderable(s) =>
            v1 = [seen |-> GiveBack(vtaken, vtag), tags |-> v.tags]
       /\ renderable(s) => v1 = [seen |-> vtaken, tags |-> Put(v.tags, i + 1, vtag)]
  <2>1. v = [seen |-> v.seen, tags |-> v.tags]
    BY DEF Agree
  <2>. HIDE DEF s
  <2> QED
    BY <1>1, <2>1, ServerStep
<1>12. n.protocol = s.protocol /\ w.seen = v.seen
  BY DEF Agree
<1>. HIDE DEF vbase, vtag, vtaken
<1>4. i + 1 \notin 1..i /\ 1..(i + 1) = 1..i \cup {i + 1}
  OBVIOUS
<1>5. ASSUME ~renderable(s)
      PROVE  {j \in 1..(i + 1) : renderable(ss[j])} = {j \in 1..i : renderable(ss[j])}
  BY <1>4, <1>5
<1>6. ASSUME renderable(s)
      PROVE  {j \in 1..(i + 1) : renderable(ss[j])} = {j \in 1..i : renderable(ss[j])} \cup {i + 1}
  BY <1>4, <1>6
<1>7. CASE s.protocol = ""
  <2>1. w1 = w /\ v1 = v /\ ~renderable(s)
    <3>. HIDE DEF w1, v1, s
    <3> QED
      BY <1>7, <1>10, <1>11, <1>12 DEF renderable
  <2>. HIDE DEF w1, v1, s
  <2> QED
    BY <2>1, <1>5, ZenonT(30) DEF Agree, w1, v1, s
<1>8. CASE s.protocol # "" /\ ~renderable(s)
  <2>. DEFINE back == GiveBack(taken, tag)
  <2>1. /\ w1 = [seen |-> back, outs |-> w.outs, endpoints |-> w.endpoints, sel |-> w.sel]
        /\ v1 = [seen |-> back, tags |-> v.tags]
    <3>. HIDE DEF w1, v1, s, tag, taken
    <3> QED
      BY <1>1, <1>3, <1>8, <1>10, <1>11, <1>12
  <2>2. Counts(back) /\ DOMAIN back = DOMAIN w.seen
    BY <1>2
  <2>. HIDE DEF w1, v1, s, back
  <2>3. /\ w1.seen = back /\ w1.outs = w.outs /\ w1.endpoints = w.endpoints /\ w1.sel = w.sel
        /\ v1.seen = back /\ v1.tags = v.tags
    BY <2>1
  <2>4. /\ w1 = [seen |-> w1.seen, outs |-> w1.outs, endpoints |-> w1.endpoints, sel |-> w1.sel]
        /\ v1 = [seen |-> v1.seen, tags |-> v1.tags]
    BY <2>1
  <2>5. Counts(w1.seen) /\ w1.seen = v1.seen /\ DOMAIN w1.seen = DOMAIN w.seen
    BY <2>2, <2>3
  <2>6. DOMAIN v1.tags = {j \in 1..(i + 1) : renderable(ss[j])}
    BY <2>3, <1>5, <1>8 DEF Agree
  <2>. DEFINE u == w1
              x == v1
  <2>. HIDE DEF u, x
  <2>7. \A o \in Range(u.outs) \cup Range(u.endpoints) :
          Decodes(o) \/ \E j \in DOMAIN x.tags : x.tags[j] = o.tag /\ ~WellFormed(ss[j])
    BY <2>3 DEF Agree, u, x
  <2>8. /\ {o.tag : o \in Range(u.outs) \cup Range(u.endpoints)} = {e.tag : e \in Range(u.sel)}
        /\ u.sel \in Seq(Selected) /\ u.outs \in Seq(Objects) /\ u.endpoints \in Seq(Objects)
    BY <2>3 DEF Agree, u, x
  <2>9. Agree(u, x, ss, i + 1)
    BY <2>3, <2>4, <2>5, <2>6, <2>7, <2>8, ZenonT(30) DEF Agree, u, x
  <2> QED
    BY <2>9 DEF w1, v1, s, u, x
<1>9. CASE renderable(s)
  <2>1. n.protocol = "amneziawg" \/ n.protocol \in Streams
    BY <1>1, <1>9 DEF renderable, knownProtocol
  <2>2. validateNode(n)
    BY <1>1, <1>9 DEF renderable
  <2>3. PICK o \in Objects :
           /\ w1 = [seen |-> taken, outs |-> w1.outs, endpoints |-> w1.endpoints,
                    sel |-> Append(w.sel, new)]
           /\ \/ w1.outs = Append(w.outs, o) /\ w1.endpoints = w.endpoints
              \/ w1.outs = w.outs /\ w1.endpoints = Append(w.endpoints, o)
           /\ o.tag = tag /\ (WellFormed(n) => Decodes(o))
    <3>1. CASE n.protocol = "amneziawg"
      <4>. DEFINE o == wireguardEndpoint(n, tag)
      <4>1. o \in Objects /\ o.tag = tag /\ (WellFormed(n) => Decodes(o))
        BY <1>2, <2>2, ObjectFacts
      <4>2. w1 = [seen |-> taken, outs |-> w.outs, endpoints |-> Append(w.endpoints, o),
                  sel |-> Append(w.sel, new)]
        <5>. HIDE DEF w1, s, tag, taken, new
        <5> QED
          BY <1>1, <1>9, <1>10, <3>1
      <4>. HIDE DEF o, w1, new, tag, taken
      <4> QED
        BY <4>1, <4>2
    <3>2. CASE n.protocol \in Streams
      <4>. DEFINE o == Outbound(n, tag)
      <4>1. o \in Objects /\ o.tag = tag /\ (WellFormed(n) => Decodes(o))
        BY <1>2, <2>2, <3>2, ObjectFacts
      <4>2. w1 = [seen |-> taken, outs |-> Append(w.outs, o), endpoints |-> w.endpoints,
                  sel |-> Append(w.sel, new)]
        <5>. HIDE DEF w1, s, tag, taken, new
        <5> QED
          BY <1>1, <1>9, <1>10, <3>2
      <4>. HIDE DEF o, w1, new, tag, taken
      <4> QED
        BY <4>1, <4>2
    <3> QED
      BY <2>1, <3>1, <3>2
  <2>4. v1 = [seen |-> taken, tags |-> Put(v.tags, i + 1, tag)]
    <3>. HIDE DEF v1, s, tag, taken
    <3> QED
      BY <1>3, <1>9, <1>11
  <2>5. new \in Selected /\ new.index = i + 1 /\ new.tag = tag
    BY <1>2 DEF Selected
  <2>6. /\ w1.sel \in Seq(Selected) /\ Range(w1.sel) = Range(w.sel) \cup {new}
    <3>1. w1.sel = Append(w.sel, new)
      BY <2>3
    <3>. HIDE DEF new, w1
    <3> QED
      BY <3>1, <2>5, RangeOfMore DEF Agree
  <2>7. /\ w1.outs \in Seq(Objects) /\ w1.endpoints \in Seq(Objects)
        /\ Range(w1.outs) \cup Range(w1.endpoints) = Range(w.outs) \cup Range(w.endpoints) \cup {o}
    <3>1. w.outs \in Seq(Objects) /\ w.endpoints \in Seq(Objects)
      BY DEF Agree
    <3>. HIDE DEF new, w1
    <3>2. CASE w1.outs = Append(w.outs, o) /\ w1.endpoints = w.endpoints
      <4>1. w1.outs \in Seq(Objects) /\ Range(w1.outs) = Range(w.outs) \cup {o}
        BY <3>1, <3>2, RangeOfMore
      <4> QED
        BY <4>1, <3>1, <3>2
    <3>3. CASE w1.outs = w.outs /\ w1.endpoints = Append(w.endpoints, o)
      <4>1. w1.endpoints \in Seq(Objects) /\ Range(w1.endpoints) = Range(w.endpoints) \cup {o}
        BY <3>1, <3>3, RangeOfMore
      <4> QED
        BY <4>1, <3>1, <3>3
    <3> QED
      BY <2>3, <3>2, <3>3
  <2>8. /\ DOMAIN v1.tags = DOMAIN v.tags \cup {i + 1}
        /\ v1.tags[i + 1] = tag
        /\ \A j \in DOMAIN v.tags : j # i + 1 => v1.tags[j] = v.tags[j]
    BY <2>4 DEF Put
  <2>9. i + 1 \notin DOMAIN v.tags
    BY <1>4 DEF Agree
  <2>10. w1.seen = taken /\ v1.seen = taken
    BY <2>3, <2>4
  <2>. HIDE DEF new, w1, v1, tag, taken, base, s
  <2>11. \A e \in Range(w1.sel) : /\ e.index \in DOMAIN v1.tags /\ v1.tags[e.index] = e.tag
                                 /\ e.tag \in DOMAIN w1.seen /\ e.tag # Blank
    BY <1>2, <2>5, <2>6, <2>8, <2>9, <2>10 DEF Agree
  <2>12. \A e, f \in Range(w1.sel) : e.tag = f.tag => e = f
    BY <1>2, <2>5, <2>6 DEF Agree
  <2>13. \A j \in DOMAIN v1.tags : \E e \in Range(w1.sel) : e.index = j
    BY <2>5, <2>6, <2>8 DEF Agree
  <2>14. DOMAIN v1.tags = {j \in 1..(i + 1) : renderable(ss[j])}
    BY <2>8, <1>6, <1>9 DEF Agree
  <2>15. {x.tag : x \in Range(w1.outs) \cup Range(w1.endpoints)} = {e.tag : e \in Range(w1.sel)}
    <3>1. {x.tag : x \in Range(w.outs) \cup Range(w.endpoints)} = {e.tag : e \in Range(w.sel)}
      BY DEF Agree
    <3>2. {x.tag : x \in Range(w1.outs) \cup Range(w1.endpoints)}
            = {x.tag : x \in Range(w.outs) \cup Range(w.endpoints)} \cup {tag}
      BY <2>3, <2>7
    <3>3. {e.tag : e \in Range(w1.sel)} = {e.tag : e \in Range(w.sel)} \cup {tag}
      BY <2>5, <2>6
    <3> QED
      BY <3>1, <3>2, <3>3
  <2>16. \A x \in Range(w1.outs) \cup Range(w1.endpoints) :
           Decodes(x) \/ \E j \in DOMAIN v1.tags : v1.tags[j] = x.tag /\ ~WellFormed(ss[j])
    <3>1. ASSUME NEW x \in Range(w.outs) \cup Range(w.endpoints)
          PROVE  Decodes(x) \/ \E j \in DOMAIN v1.tags : v1.tags[j] = x.tag /\ ~WellFormed(ss[j])
      BY <2>8, <2>9 DEF Agree
    <3>2. Decodes(o) \/ \E j \in DOMAIN v1.tags : v1.tags[j] = o.tag /\ ~WellFormed(ss[j])
      BY <2>3, <2>8
    <3> QED
      BY <2>7, <3>1, <3>2
  <2>17. /\ w1 = [seen |-> w1.seen, outs |-> w1.outs, endpoints |-> w1.endpoints, sel |-> w1.sel]
         /\ v1 = [seen |-> v1.seen, tags |-> v1.tags]
    BY <2>3, <2>4
  <2>18. Agree(w1, v1, ss, i + 1)
    BY <1>2, <2>6, <2>7, <2>10, <2>11, <2>12, <2>13, <2>14, <2>15, <2>16, <2>17 DEF Agree
  <2> QED
    BY <2>18 DEF w1, v1, s
<1> QED
  BY <1>7, <1>8, <1>9

\* Two lists of nodes that every naming walk treats alike.
Alike(ns, ss) ==
  /\ ns \in Seq(Nodes) /\ Len(ns) = Len(ss)
  /\ \A i \in 1..Len(ss) : /\ ns[i].name = ss[i].name /\ ns[i].protocol = ss[i].protocol
                           /\ validateNode(ns[i]) <=> validateNode(ss[i])
                           /\ WellFormed(ns[i]) <=> WellFormed(ss[i])

\* The global fragment switch changes nothing a naming walk looks at.
LEMMA FragmentedAlike ==
  ASSUME NEW ss \in Seq(Nodes)
  PROVE  Alike(ss, ss) /\ Alike(forceFragment(ss), ss)
<1>1. Alike(ss, ss)
  BY DEF Alike
<1>2. ASSUME NEW n \in Nodes
      PROVE  LET m == [n EXCEPT !.tls.fragment = TRUE]
             IN  /\ m \in Nodes /\ m.name = n.name /\ m.protocol = n.protocol
                 /\ validateNode(m) <=> validateNode(n)
                 /\ WellFormed(m) <=> WellFormed(n)
  <2>. DEFINE t == [n.tls EXCEPT !.fragment = TRUE]
              m == [n EXCEPT !.tls = t]
  <2>1. n.tls \in TLSBlocks
    BY DEF Nodes
  <2>2. t \in TLSBlocks /\ t.on = n.tls.on /\ t.reality = n.tls.reality
    BY <2>1 DEF TLSBlocks
  <2>. HIDE DEF t
  <2>3. /\ m.name = n.name /\ m.protocol = n.protocol /\ m.port = n.port /\ m.tls = t
        /\ m.credentials = n.credentials /\ m.plugin = n.plugin /\ m.transport = n.transport
    BY DEF Nodes
  <2>4. m \in Nodes
    BY <2>2 DEF Nodes
  <2>5. validateNode(m) <=> validateNode(n)
    <3>. HIDE DEF m
    <3> QED
      BY <2>2, <2>3 DEF validateNode
  <2>6. WellFormed(m) <=> WellFormed(n)
    <3>. HIDE DEF m
    <3> QED
      BY <2>2, <2>3 DEF WellFormed
  <2> QED
    BY <2>3, <2>4, <2>5, <2>6 DEF t
<1>. DEFINE ff == forceFragment(ss)
            F(n) == [n EXCEPT !.tls.fragment = TRUE]
<1>3. DOMAIN ff = 1..Len(ss) /\ \A i \in 1..Len(ss) : ff[i] = F(ss[i])
  <2>1. DOMAIN ss = 1..Len(ss)
    OBVIOUS
  <2>2. ff = [i \in DOMAIN ss |-> F(ss[i])]
    BY DEF forceFragment
  <2>. HIDE DEF ff, F
  <2> QED
    BY <2>1, <2>2
<1>4. \A n \in Nodes : /\ F(n) \in Nodes /\ F(n).name = n.name /\ F(n).protocol = n.protocol
                       /\ validateNode(F(n)) <=> validateNode(n)
                       /\ WellFormed(F(n)) <=> WellFormed(n)
  BY <1>2
<1>5. \A i \in 1..Len(ss) : ss[i] \in Nodes
  OBVIOUS
<1>. HIDE DEF ff, F
<1>6. ff \in Seq(Nodes) /\ Len(ff) = Len(ss)
  <2>1. \A i \in 1..Len(ss) : ff[i] \in Nodes
    BY <1>3, <1>4, <1>5
  <2>2. ff = [i \in 1..Len(ss) |-> ff[i]]
    BY <1>3 DEF ff, forceFragment
  <2>3. Len(ss) \in Nat
    OBVIOUS
  <2> QED
    BY <2>1, <2>2, <2>3
<1> QED
  BY <1>1, <1>3, <1>4, <1>5, <1>6 DEF Alike, ff

\* The builder and the control layer, each walking its own list, agree to
\* the end.
LEMMA WalksAgree ==
  ASSUME NEW ss \in Seq(Nodes), NEW ns, Alike(ns, ss)
  PROVE  \E v : v.tags = serverTags(ss) /\ Agree(buildNodes(ns), v, ss, Len(ss))
<1>. DEFINE n == Len(ss)
<1>0. ns \in Seq(Nodes) /\ Len(ns) = n /\ n \in Nat
  BY DEF Alike
<1>1. PICK bw : /\ bw[0] = Walked
                /\ \A i \in 1..n : bw[i] = buildNode(bw[i - 1], ns[i], i)
                /\ buildNodes(ns) = bw[n]
  BY <1>0, BuilderWalks
<1>2. PICK sw : /\ sw[0] = Unnamed
                /\ \A i \in 1..n : sw[i] = serverTag(sw[i - 1], ss[i], i)
                /\ serverTags(ss) = sw[n].tags
  BY ServerWalks
<1>. DEFINE P == {i \in Nat : i <= n => Agree(bw[i], sw[i], ss, i)}
<1>3. 0 \in P
  <2>1. Counts(<< >>)
    BY FS_EmptySet DEF Counts
  <2>2. Range(<< >>) = {}
    BY DEF Range
  <2>3. \A j \in 1..0 : FALSE
    OBVIOUS
  <2>4. << >> \in Seq(Selected) /\ << >> \in Seq(Objects) /\ DOMAIN << >> = {}
    OBVIOUS
  <2>5. Agree(Walked, Unnamed, ss, 0)
    BY <2>1, <2>2, <2>3, <2>4 DEF Agree, Walked, Unnamed
  <2> QED
    BY <1>1, <1>2, <2>5
<1>4. ASSUME NEW i \in P PROVE i + 1 \in P
  <2>1. SUFFICES ASSUME i + 1 <= n PROVE Agree(bw[i + 1], sw[i + 1], ss, i + 1)
    OBVIOUS
  <2>2. i \in Nat /\ i + 1 \in 1..n /\ i + 1 - 1 = i /\ i <= n
    BY <1>0, <2>1
  <2>3. Agree(bw[i], sw[i], ss, i)
    BY <2>2
  <2>4. /\ ns[i + 1] \in Nodes /\ ns[i + 1].name = ss[i + 1].name
        /\ ns[i + 1].protocol = ss[i + 1].protocol
        /\ validateNode(ns[i + 1]) <=> validateNode(ss[i + 1])
        /\ WellFormed(ns[i + 1]) <=> WellFormed(ss[i + 1])
    BY <2>2, <1>0 DEF Alike
  <2>5. i + 1 \in DOMAIN ss
    BY <2>2
  <2>6. Agree(buildNode(bw[i], ns[i + 1], i + 1), serverTag(sw[i], ss[i + 1], i + 1), ss, i + 1)
    BY <2>2, <2>3, <2>4, <2>5, AgreeStep
  <2>7. /\ bw[i + 1] = buildNode(bw[i], ns[i + 1], i + 1)
        /\ sw[i + 1] = serverTag(sw[i], ss[i + 1], i + 1)
    BY <1>1, <1>2, <2>2
  <2> QED
    BY <2>6, <2>7
<1>5. n \in P
  <2>. HIDE DEF P, n
  <2>1. P \in SUBSET Nat
    BY DEF P
  <2> QED
    BY <1>0, <1>3, <1>4, <2>1, Induct
<1> QED
  BY <1>0, <1>1, <1>2, <1>5

\* What the two walks leave behind, whatever nodes they were given: one tag
\* per renderable server, no tag of two servers, and objects sing-box loads
\* but for those of a malformed server.
LEMMA TagsNameTheirServer ==
  ASSUME NEW ss \in Seq(Nodes), NEW ns, Alike(ns, ss)
  PROVE  LET b == buildNodes(ns)
             tags == serverTags(ss)
             objects == Range(b.outs) \cup Range(b.endpoints)
         IN  /\ DOMAIN tags = buildCandidates(ss, 0)
             /\ b.sel \in Seq(Selected)
             /\ \A s \in Range(b.sel) : s.index \in DOMAIN tags /\ tags[s.index] = s.tag
             /\ \A j \in DOMAIN tags : /\ {s.index : s \in {t \in Range(b.sel) : t.tag = tags[j]}} = {j}
                                       /\ tags[j] \in {s.tag : s \in Range(b.sel)}
                                       /\ tags[j] # NoTag
             /\ {o.tag : o \in objects} = {tags[j] : j \in DOMAIN tags}
             /\ \A o \in objects :
                  Decodes(o) \/ \E j \in DOMAIN tags : tags[j] = o.tag /\ ~WellFormed(ss[j])
<1>. DEFINE b == buildNodes(ns)
            tags == serverTags(ss)
            objects == Range(b.outs) \cup Range(b.endpoints)
            sel == Range(b.sel)
<1>1. PICK v : v.tags = tags /\ Agree(b, v, ss, Len(ss))
  BY WalksAgree
<1>2. /\ b.sel \in Seq(Selected)
      /\ \A s \in sel : s.index \in DOMAIN tags /\ tags[s.index] = s.tag /\ s.tag # Blank
      /\ \A s, t \in sel : s.tag = t.tag => s = t
      /\ DOMAIN tags = {j \in 1..Len(ss) : renderable(ss[j])}
      /\ \A j \in DOMAIN tags : \E s \in sel : s.index = j
      /\ {o.tag : o \in objects} = {s.tag : s \in sel}
      /\ \A o \in objects :
           Decodes(o) \/ \E j \in DOMAIN tags : tags[j] = o.tag /\ ~WellFormed(ss[j])
  <2>. HIDE DEF b, tags
  <2> QED
    BY <1>1 DEF Agree
<1>3. DOMAIN tags = buildCandidates(ss, 0)
  <2>. HIDE DEF tags
  <2>1. DOMAIN ss = 1..Len(ss)
    OBVIOUS
  <2> QED
    BY <1>2, <2>1 DEF buildCandidates
<1>. HIDE DEF b, tags, sel, objects
<1>4. ASSUME NEW j \in DOMAIN tags
      PROVE  /\ {s.index : s \in {t \in sel : t.tag = tags[j]}} = {j}
             /\ tags[j] \in {s.tag : s \in sel}
             /\ tags[j] # NoTag
  <2>1. PICK s \in sel : s.index = j
    BY <1>2
  <2>2. s.tag = tags[j] /\ s.tag # Blank
    BY <1>2, <2>1
  <2>3. {t \in sel : t.tag = tags[j]} = {s}
    BY <1>2, <2>1, <2>2
  <2> QED
    BY <2>1, <2>2, <2>3 DEF NoTag
<1>5. {s.tag : s \in sel} = {tags[j] : j \in DOMAIN tags}
  BY <1>2, <1>4
<1> QED
  BY <1>2, <1>3, <1>4, <1>5 DEF b, tags, sel, objects

\* The selector is the one Build emits for the attempt, whether or not every
\* connection is fragmented, and the attempt is for a server that renders.
SelectorInv ==
  /\ servers \in Seq(Nodes)
  /\ pc = "nodes" => want \in buildCandidates(servers, 0) /\ selector = NoSelector
  /\ pc = "idle" => selector = NoSelector
  /\ selector.ok =>
       /\ want \in buildCandidates(servers, 0)
       /\ \E ns : /\ Alike(ns, servers)
                  /\ selector = BuildSelector(ns, TagOf(want), resolveMultihop(chain))

\* Nothing is selected before the attempt starts.
LEMMA SelectorInit == AttemptInit => SelectorInv
  BY ConfigAssumption DEF AttemptInit, SelectorInv, NoSelector

\* Every step keeps the selector the one Build emits for the attempt.
LEMMA SelectorStep == SelectorInv /\ [AttemptNext]_attemptVars => SelectorInv'
<1> SUFFICES ASSUME SelectorInv, [AttemptNext]_attemptVars PROVE SelectorInv'
  OBVIOUS
<1>0. ~NoSelector.ok
  BY DEF NoSelector
<1>1. ASSUME NEW e, NEW c, Connect(e, c) PROVE SelectorInv'
  <2>1. /\ pc = "idle" /\ selector = NoSelector /\ UNCHANGED <<servers, selector>>
    BY <1>1 DEF Connect, SelectorInv
  <2>2. \/ pc' = "nodes" /\ want' \in buildCandidates(servers, 0)
        \/ pc' = "refused"
    <3>1. \A node : buildCandidates(servers, node) \subseteq buildCandidates(servers, 0)
      BY DEF buildCandidates
    <3> QED
      BY <1>1, <3>1 DEF Connect
  <2> QED
    BY <1>0, <2>1, <2>2 DEF SelectorInv
<1>2. CASE BuildOutbounds
  <2>1. /\ UNCHANGED <<servers, chain, want>> /\ want \in buildCandidates(servers, 0)
        /\ pc' \in {"dns", "failed"}
    BY <1>2 DEF BuildOutbounds, SelectorInv
  <2>2. TagOf(want)' = TagOf(want) /\ resolveMultihop(chain)' = resolveMultihop(chain)
    BY <2>1 DEF TagOf, resolveMultihop
  <2>3. ASSUME selector'.ok
        PROVE  \E ns : /\ Alike(ns, servers)
                       /\ selector' = BuildSelector(ns, TagOf(want), resolveMultihop(chain))
    <3>1. selector' = BuildSelector(IF opts.fragment THEN forceFragment(servers) ELSE servers,
                                    TagOf(want), resolveMultihop(chain))
      BY <1>0, <1>2, <2>3 DEF BuildOutbounds
    <3> QED
      BY <3>1, FragmentedAlike DEF SelectorInv
  <2> QED
    BY <2>1, <2>2, <2>3 DEF SelectorInv
<1>3. ASSUME UNCHANGED <<servers, want, chain, selector>>, pc' \notin {"nodes", "idle"}
      PROVE  SelectorInv'
  <2>1. TagOf(want)' = TagOf(want) /\ resolveMultihop(chain)' = resolveMultihop(chain)
    BY <1>3 DEF TagOf, resolveMultihop
  <2> QED
    BY <1>3, <2>1 DEF SelectorInv
<1>4. CASE BuildDNS
  BY <1>3, <1>4 DEF BuildDNS
<1>5. CASE routeBlock
  BY <1>3, <1>5 DEF routeBlock
<1>6. CASE BuildRuleSets
  BY <1>3, <1>6 DEF BuildRuleSets
<1>7. CASE FilesChange
  BY <1>3, <1>7 DEF FilesChange
<1>8. CASE UNCHANGED attemptVars
  <2>1. TagOf(want)' = TagOf(want) /\ resolveMultihop(chain)' = resolveMultihop(chain)
    BY <1>8 DEF TagOf, resolveMultihop, attemptVars
  <2> QED
    BY <1>8, <2>1 DEF SelectorInv, attemptVars
<1> QED
  BY <1>1, <1>2, <1>4, <1>5, <1>6, <1>7, <1>8 DEF AttemptNext

\* SelectorInv holds of every attempt.
LEMMA SelectorHolds == AttemptSpec => []SelectorInv
  BY SelectorInit, SelectorStep, PTL DEF AttemptSpec

\* A server's tag, when it has one, is the name of that server alone.
LEMMA TagOfOne ==
  ASSUME servers \in Seq(Nodes)
  PROVE  /\ \A j \in buildCandidates(servers, 0) : /\ TagOf(j) # NoTag
                                                   /\ BuiltFrom(TagOf(j)) = {j}
         /\ \A j : TagOf(j) # NoTag => j \in buildCandidates(servers, 0)
<1>1. Alike(servers, servers)
  BY FragmentedAlike
<1>. DEFINE tags == serverTags(servers)
<1>2. DOMAIN tags = buildCandidates(servers, 0)
  BY <1>1, TagsNameTheirServer, ZenonT(30)
<1>4. ASSUME NEW j \in DOMAIN tags
      PROVE  {s.index : s \in {t \in Range(buildNodes(servers).sel) : t.tag = tags[j]}} = {j}
  <2>1. j \in DOMAIN serverTags(servers)
    OBVIOUS
  <2>2. {s.index : s \in {t \in Range(buildNodes(servers).sel) : t.tag = serverTags(servers)[j]}} = {j}
    BY <1>1, <2>1, TagsNameTheirServer, ZenonT(30)
  <2> QED
    BY <2>2
<1>5. \A j \in DOMAIN tags : tags[j] # NoTag
  BY <1>1, TagsNameTheirServer, ZenonT(30)
<1>3. \A j : TagOf(j) = IF j \in DOMAIN tags THEN tags[j] ELSE NoTag
  BY DEF TagOf
<1>. HIDE DEF tags
<1> QED
  BY <1>2, <1>3, <1>4, <1>5 DEF BuiltFrom

\* Bad nodes cost nothing but themselves.
LEMMA BadNodesOut ==
  ASSUME SelectorInv
  PROVE  BadNodesAreLeftOut
<1> SUFFICES ASSUME selector.ok
             PROVE  /\ \A o \in selector.objects :
                         Decodes(o) \/ \E i \in DOMAIN servers : TagOf(i) = o.tag /\ ~WellFormed(servers[i])
                    /\ {o.tag : o \in selector.objects} = {TagOf(i) : i \in buildCandidates(servers, 0)}
  BY DEF BadNodesAreLeftOut
<1>1. PICK ns : /\ Alike(ns, servers)
                /\ selector = BuildSelector(ns, TagOf(want), resolveMultihop(chain))
  BY DEF SelectorInv
<1>. DEFINE b == buildNodes(ns)
            tags == serverTags(servers)
            objects == Range(b.outs) \cup Range(b.endpoints)
<1>2. servers \in Seq(Nodes)
  BY DEF SelectorInv
<1>3. /\ DOMAIN tags = buildCandidates(servers, 0)
      /\ {o.tag : o \in objects} = {tags[j] : j \in DOMAIN tags}
      /\ \A o \in objects :
           Decodes(o) \/ \E j \in DOMAIN tags : tags[j] = o.tag /\ ~WellFormed(servers[j])
  BY <1>1, <1>2, TagsNameTheirServer
<1>4. selector.objects = objects
  <2>1. ~NoSelector.ok
    BY DEF NoSelector
  <2>. HIDE DEF b
  <2>2. selector # NoSelector
    BY <2>1
  <2> QED
    BY <1>1, <2>2 DEF BuildSelector, b
<1>5. \A j \in DOMAIN tags : TagOf(j) = tags[j]
  BY DEF TagOf
<1>6. buildCandidates(servers, 0) \subseteq DOMAIN servers
  BY DEF buildCandidates
<1>. HIDE DEF objects, tags
<1> QED
  BY <1>3, <1>4, <1>5, <1>6

\* Each probe port is pinned to the server its binding names.
LEMMA ProbesAreRight ==
  ASSUME servers \in Seq(Nodes)
  PROVE  ProbesNameTheirServer
<1> SUFFICES ASSUME NEW base \in 0..MaxPort,
                    NEW j \in DOMAIN BuildProbe(servers, base), NEW k \in DOMAIN BuildProbe(servers, base)
             PROVE  LET bindings == BuildProbe(servers, base)
                    IN  /\ bindings[k].port \in 1..MaxPort
                        /\ BuiltFrom(TagOf(bindings[k].index)) = BuiltFrom(bindings[k].tag)
                        /\ bindings[j].port = bindings[k].port => j = k
  BY DEF ProbesNameTheirServer
<1>. DEFINE sel == buildNodes(servers).sel
            tags == serverTags(servers)
            bindings == BuildProbe(servers, base)
<1>1. /\ sel \in Seq(Selected)
      /\ \A s \in Range(sel) : s.index \in DOMAIN tags /\ tags[s.index] = s.tag
  BY FragmentedAlike, TagsNameTheirServer
<1>2. MaxPort \in Nat /\ base \in Nat
  BY PortAssumption
<1>3. bindings = IF base \in 1..MaxPort /\ sel # << >> /\ base + Len(sel) - 1 <= MaxPort
                 THEN [i \in DOMAIN sel |-> [port |-> base + i - 1, tag |-> sel[i].tag, index |-> sel[i].index]]
                 ELSE << >>
  BY DEF BuildProbe
<1>4. j \in DOMAIN bindings /\ k \in DOMAIN bindings
  OBVIOUS
<1>5. \A i : i \in DOMAIN tags => TagOf(i) = tags[i]
  BY DEF TagOf
<1>. HIDE DEF sel, bindings, tags
<1>6. /\ base \in 1..MaxPort /\ base + Len(sel) - 1 <= MaxPort
      /\ bindings = [i \in DOMAIN sel |-> [port |-> base + i - 1, tag |-> sel[i].tag, index |-> sel[i].index]]
  <2>1. DOMAIN << >> = {}
    OBVIOUS
  <2> QED
    BY <1>3, <1>4, <2>1
<1>7. DOMAIN sel = 1..Len(sel) /\ Len(sel) \in Nat /\ j \in DOMAIN sel /\ k \in DOMAIN sel
  BY <1>1, <1>4, <1>6
<1>8. /\ bindings[k].port = base + k - 1 /\ bindings[k].tag = sel[k].tag
      /\ bindings[k].index = sel[k].index /\ bindings[j].port = base + j - 1
  BY <1>6, <1>7
<1>9. TagOf(sel[k].index) = sel[k].tag
  <2>1. sel[k] \in Range(sel)
    BY <1>7 DEF Range
  <2> QED
    BY <1>1, <1>5, <2>1
<1>10. base + k - 1 \in 1..MaxPort /\ (base + j - 1 = base + k - 1 => j = k)
  BY <1>2, <1>6, <1>7
<1> QED
  BY <1>8, <1>9, <1>10 DEF bindings

\* The packets of the attempt pass the servers that were meant.
LEMMA RightExits ==
  ASSUME SelectorInv
  PROVE  RightExit
<1>0. servers \in Seq(Nodes)
  BY DEF SelectorInv
<1>1. pc = "nodes" => ProbesNameTheirServer
  BY <1>0, ProbesAreRight
<1>2. ASSUME selector.ok
      PROVE  /\ [k \in DOMAIN Hops(selector) |-> BuiltFrom(Hops(selector)[k])]
                  = IF chain.on THEN <<{chain.entry}, {chain.exit}>> ELSE <<{want}>>
             /\ selector.default \in Range(selector.members)
  <2>1. PICK ns : /\ Alike(ns, servers)
                  /\ selector = BuildSelector(ns, TagOf(want), resolveMultihop(chain))
    BY <1>2 DEF SelectorInv
  <2>2. want \in buildCandidates(servers, 0)
    BY <1>2 DEF SelectorInv
  <2>. DEFINE b == buildNodes(ns)
              hop == resolveMultihop(chain)
              tags == [k \in DOMAIN b.sel |-> b.sel[k].tag]
              selected == TagOf(want)
              def == IF selected \in Range(tags) THEN selected ELSE tags[1]
              objects == Range(b.outs) \cup Range(b.endpoints)
  <2>3. selector # NoSelector
    BY <1>2 DEF NoSelector
  <2>4. \/ /\ ~hop.on
           /\ selector = [ok |-> TRUE, objects |-> objects, members |-> tags, default |-> def,
                          detour |-> << >>]
        \/ /\ hop.on /\ validateMultihopOutbounds(b.outs, hop.entry, hop.exit)
           /\ selector = [ok |-> TRUE, objects |-> objects, members |-> <<hop.exit>>,
                          default |-> hop.exit, detour |-> [t \in {hop.exit} |-> hop.entry]]
    BY <2>1, <2>3 DEF BuildSelector
  <2>5. hop.on = chain.on /\ hop.entry = TagOf(chain.entry) /\ hop.exit = TagOf(chain.exit)
    BY DEF resolveMultihop
  <2>6. selected \in Range(tags)
    <3>. DEFINE names == serverTags(servers)
    <3>1. /\ DOMAIN names = buildCandidates(servers, 0)
          /\ \A j \in DOMAIN names : names[j] \in {s.tag : s \in Range(b.sel)}
      BY <1>0, <2>1, TagsNameTheirServer
    <3>2. selected \in {s.tag : s \in Range(b.sel)}
      BY <2>2, <3>1 DEF TagOf
    <3>. HIDE DEF b
    <3> QED
      BY <3>2 DEF Range
  <2>. HIDE DEF b, hop, selected, tags
  <2>7. ASSUME ~hop.on,
               selector = [ok |-> TRUE, objects |-> objects, members |-> tags, default |-> selected,
                           detour |-> << >>]
        PROVE  /\ [k \in DOMAIN Hops(selector) |-> BuiltFrom(Hops(selector)[k])] = <<{want}>>
               /\ selector.default \in Range(selector.members)
    <3>1. selector.detour = << >> /\ selector.default = selected /\ selector.members = tags
      BY <2>7
    <3>2. Hops(selector) = <<selected>>
      BY <3>1 DEF Hops
    <3>3. BuiltFrom(selected) = {want}
      BY <1>0, <2>2, TagOfOne DEF selected
    <3>4. DOMAIN <<selected>> = {1} /\ <<selected>>[1] = selected
      OBVIOUS
    <3>5. [k \in DOMAIN Hops(selector) |-> BuiltFrom(Hops(selector)[k])] = <<{want}>>
      <4>1. [k \in DOMAIN Hops(selector) |-> BuiltFrom(Hops(selector)[k])] = [k \in {1} |-> {want}]
        BY <3>2, <3>3, <3>4
      <4>2. [k \in {1} |-> {want}] = <<{want}>>
        OBVIOUS
      <4> QED
        BY <4>1, <4>2
    <3> QED
      BY <2>6, <3>1, <3>5
  <2>8. ASSUME hop.on, validateMultihopOutbounds(b.outs, hop.entry, hop.exit),
               selector = [ok |-> TRUE, objects |-> objects, members |-> <<hop.exit>>,
                           default |-> hop.exit, detour |-> [t \in {hop.exit} |-> hop.entry]]
        PROVE  /\ [k \in DOMAIN Hops(selector) |-> BuiltFrom(Hops(selector)[k])]
                    = <<{chain.entry}, {chain.exit}>>
               /\ selector.default \in Range(selector.members)
    <3>. DEFINE x == hop.exit
                n == hop.entry
    <3>1. /\ selector.detour = [t \in {x} |-> n] /\ selector.default = x
          /\ selector.members = <<x>>
      BY <2>8
    <3>2. Hops(selector) = <<n, x>>
      <4>. HIDE DEF x, n
      <4> QED
        BY <3>1 DEF Hops
    <3>3. n # NoTag /\ x # NoTag
      BY <2>8 DEF validateMultihopOutbounds
    <3>4. BuiltFrom(n) = {chain.entry} /\ BuiltFrom(x) = {chain.exit}
      BY <1>0, <2>5, <3>3, TagOfOne
    <3>. HIDE DEF x, n
    <3>5. x \in Range(<<x>>)
      <4>1. 1 \in DOMAIN <<x>> /\ <<x>>[1] = x
        OBVIOUS
      <4> QED
        BY <4>1 DEF Range
    <3>6. DOMAIN <<n, x>> = {1, 2} /\ <<n, x>>[1] = n /\ <<n, x>>[2] = x
      OBVIOUS
    <3>7. [k \in DOMAIN Hops(selector) |-> BuiltFrom(Hops(selector)[k])]
            = <<{chain.entry}, {chain.exit}>>
      <4>. DEFINE F == [k \in DOMAIN Hops(selector) |-> BuiltFrom(Hops(selector)[k])]
      <4>1. DOMAIN F = 1..2 /\ F[1] = {chain.entry} /\ F[2] = {chain.exit}
        BY <3>2, <3>4, <3>6
      <4>2. F = [k \in 1..2 |-> F[k]]
        BY <4>1
      <4>. HIDE DEF F
      <4>3. F = [k \in 1..2 |-> IF k = 1 THEN {chain.entry} ELSE {chain.exit}]
        BY <4>1, <4>2
      <4>4. [k \in 1..2 |-> IF k = 1 THEN {chain.entry} ELSE {chain.exit}]
              = <<{chain.entry}, {chain.exit}>>
        OBVIOUS
      <4> QED
        BY <4>3, <4>4 DEF F
    <3> QED
      BY <3>1, <3>5, <3>7
  <2> QED
    BY <2>4, <2>5, <2>6, <2>7, <2>8
<1> QED
  BY <1>1, <1>2 DEF RightExit

\* For every profile and every attempt at it: sing-box can construct what Build
\* emits, unless it is of a node with a malformed key, which the code lets
\* through; every renderable server is in it under the name the control layer
\* uses, and the packets pass the servers that were meant, entry before exit
\* under a chain (BuildSelector, buildNodes, serverTags, BuildProbe).
THEOREM ConfigWorksHolds == AttemptSpec => []ConfigWorks
<1>1. BlocksInv /\ SelectorInv => ConfigWorks
  BY BlocksMean, BadNodesOut, RightExits DEF ConfigWorks
<1> QED
  BY <1>1, BlocksHold, SelectorHolds, PTL

=============================================================================
