------------------------------ MODULE Delivery ------------------------------
(***************************************************************************)
(* What dispatch_on_main_thread promises, whatever the platform: a         *)
(* runnable handed over by any thread is run once, and is run in the end   *)
(* unless the main loop stops.                                             *)
(***************************************************************************)
CONSTANT Items  \* the runnables; each is handed over at most once

VARIABLES
    waiting,  \* handed over, not yet run
    run,      \* run on the main thread
    stopped   \* the main loop is gone

vars == <<waiting, run, stopped>>

Init ==
    /\ waiting = {}
    /\ run = {}
    /\ stopped = FALSE

\* dispatch_on_main_thread returned.
Post(i) ==
    /\ ~stopped
    /\ i \notin waiting \cup run
    /\ waiting' = waiting \cup {i}
    /\ UNCHANGED <<run, stopped>>

\* The main loop runs a runnable; the order is its own.
Run(i) ==
    /\ ~stopped
    /\ i \in waiting
    /\ waiting' = waiting \ {i}
    /\ run' = run \cup {i}
    /\ UNCHANGED stopped

\* The application exits; what is waiting is lost with it.
Stop ==
    /\ ~stopped
    /\ stopped' = TRUE
    /\ UNCHANGED <<waiting, run>>

Next == Stop \/ \E i \in Items : Post(i) \/ Run(i)

SafeSpec == Init /\ [][Next]_vars

Spec == SafeSpec /\ \A i \in Items : WF_vars(Run(i))

=============================================================================
