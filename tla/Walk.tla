-------------------------------- MODULE Walk --------------------------------
(***************************************************************************)
(* What a connect promises about the exits it tries, without saying in     *)
(* which order: every candidate at most once, none skipped, and giving up  *)
(* only when none is left.  Session walks its candidates exactly this way  *)
(* (loop[g].todo); Fallback shows that the ordered machine of              *)
(* core/fallback does so too.                                              *)
(***************************************************************************)
EXTENDS Naturals

CONSTANT Attempts

VARIABLES
    walking,     \* a walk is in flight
    candidates,  \* the attempts it was given
    todo,        \* those it has not given up on
    failed,      \* how many attempts have failed
    outcome      \* how the last walk ended

Init == ~walking /\ candidates = {} /\ todo = {} /\ failed = 0 /\ outcome = "none"

\* A connect hands the walk its candidates, never an empty set.
Start(S) ==
    /\ ~walking /\ S # {}
    /\ walking' = TRUE /\ candidates' = S /\ todo' = S /\ failed' = 0
    /\ outcome' = "none"

\* One candidate failed; it is not tried again and all the others still are.
Drop ==
    /\ walking
    /\ \E n \in todo : todo' = todo \ {n}
    /\ failed' = failed + 1
    /\ UNCHANGED <<walking, candidates, outcome>>

\* A candidate came up, all have failed, or a newer connect took over.
End ==
    /\ walking
    /\ \/ todo # {} /\ outcome' = "connected"
       \/ failed > 0 /\ todo = {} /\ outcome' = "exhausted"
       \/ outcome' = "superseded"
    /\ walking' = FALSE /\ candidates' = {} /\ todo' = {} /\ failed' = 0

Next == (\E S \in SUBSET Attempts : Start(S)) \/ Drop \/ End

Spec == Init /\ [][Next]_<<walking, candidates, todo, failed, outcome>>
=============================================================================
