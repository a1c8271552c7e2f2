---------------------------- MODULE ConfigStore ----------------------------
(***************************************************************************)
(* What the settings manager's storage promises: one file per component,    *)
(* replaced at one instant.  A save that answers ESP_OK has replaced the    *)
(* file by exactly what it was given, one that fails has changed nothing,   *)
(* and a reset in the middle leaves the old file or the new one.  Files are *)
(* lost or damaged only once a factory reset has begun to erase.            *)
(***************************************************************************)
CONSTANTS Comp, File, Missing, Torn, NULL

VARIABLES
    store,    \* the file of each component
    call,     \* the save in progress, or NULL
    erased    \* a factory reset has touched the partition

vars == <<store, call, erased>>

Init ==
    /\ store = [c \in Comp |-> Missing]
    /\ call = NULL
    /\ erased = FALSE

Begin(c, f) ==
    /\ call = NULL
    /\ call' = [c |-> c, file |-> f, state |-> "pending"]
    /\ UNCHANGED <<store, erased>>

Commit ==
    /\ call # NULL
    /\ call.state = "pending"
    /\ store' = [store EXCEPT ![call.c] = call.file]
    /\ call' = [call EXCEPT !.state = "ok"]
    /\ UNCHANGED erased

Fail ==
    /\ call # NULL
    /\ call.state = "pending"
    /\ call' = [call EXCEPT !.state = "failed"]
    /\ UNCHANGED <<store, erased>>

\* The save returns, or a reset cuts it short.
End ==
    /\ call # NULL
    /\ call' = NULL
    /\ UNCHANGED <<store, erased>>

Erase ==
    /\ call = NULL
    /\ erased' = TRUE
    /\ UNCHANGED <<store, call>>

Lose ==
    /\ erased
    /\ call = NULL
    /\ \E lost, torn \in SUBSET Comp :
         store' = [c \in Comp |-> IF c \in lost THEN Missing
                                  ELSE IF c \in torn THEN Torn ELSE store[c]]
    /\ UNCHANGED <<call, erased>>

Next ==
    \/ \E c \in Comp, f \in File : Begin(c, f)
    \/ Commit \/ Fail \/ End \/ Erase \/ Lose

Spec == Init /\ [][Next]_vars
=============================================================================
