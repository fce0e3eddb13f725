------------------------------ MODULE MCFiles ------------------------------
(* The three file-backed parts of the daemon, each run on its own. *)
EXTENDS Store, Saves, LogRotate

VARIABLE part  \* the part this behaviour runs
vars == <<part, storeVars, savesVars, logVars>>

Init == /\ part \in {"store", "saves", "log"}
        /\ StoreInit /\ SavesInit /\ LogInit
        /\ (part = "saves" \/ file = NoSettings)
        /\ (part = "log" \/ written = 0)

Next == /\ UNCHANGED part
        /\ \/ part = "store" /\ StoreNext /\ UNCHANGED <<savesVars, logVars>>
           \/ part = "saves" /\ SavesNext /\ UNCHANGED <<storeVars, logVars>>
           \/ part = "log" /\ LogNext /\ UNCHANGED <<storeVars, savesVars>>

Spec == Init /\ [][Next]_vars
=============================================================================
