--------------------------- MODULE KadDhtAbstract ---------------------------
(***************************************************************************)
(* What a KadDhtDiscoverer promises (spec 4.3): its status moves           *)
(* NotInitialized -> Initializing -> Initialized or Error, and to Stopped  *)
(* on an explicit stop from any state.  Bootstrap in any state but Stopped *)
(* starts at most one background discovery task over the discoverer's     *)
(* life; a Bootstrap after a failed initialization may try again.         *)
(***************************************************************************)

VARIABLES
    status,     \* the discoverer's state
    task        \* whether the background discovery task has been started

vars == <<status, task>>

Statuses == {"NotInitialized", "Initializing", "Initialized", "Error", "Stopped"}

Init ==
    /\ status = "NotInitialized"
    /\ task = FALSE

BeginInit ==
    /\ status \in {"NotInitialized", "Error"}
    /\ status' = "Initializing"
    /\ UNCHANGED task

InitSucceeds ==
    /\ status = "Initializing"
    /\ status' = "Initialized"
    /\ task' = TRUE

InitFails ==
    /\ status = "Initializing"
    /\ status' = "Error"
    /\ UNCHANGED task

Stop ==
    /\ status # "Stopped"
    /\ status' = "Stopped"
    /\ UNCHANGED task

Next == BeginInit \/ InitSucceeds \/ InitFails \/ Stop

Spec == Init /\ [][Next]_vars

=============================================================================
