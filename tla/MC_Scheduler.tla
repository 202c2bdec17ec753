---------------------------- MODULE MC_Scheduler ----------------------------
(***************************************************************************)
(* What runs tasks, side by side for TLC: the queue that the background    *)
(* executors of the platforms take runnables from, on its own, and the     *)
(* scheduler of the tests.  A behaviour is one of one of them.             *)
(*                                                                         *)
(* The scheduler has two tasks of a session and one of the background.     *)
(* Order and parking do not meet in the code, so they are not combined.    *)
(***************************************************************************)
EXTENDS TestScheduler, PriorityQueue

CONSTANTS a, b, c, s1

VARIABLE part  \* the one that moves

TaskSessions == (a :> s1) @@ (b :> s1) @@ (c :> None)

SchedulerModes == {<<FALSE, FALSE>>, <<TRUE, FALSE>>, <<FALSE, TRUE>>}

SameSession == Permutations({a, b})

\* Where real time passes, one timer is enough to race it.
FewTimers == allow_parking => made <= 1

AllInit ==
    /\ part \in {"queue", "scheduler"} /\ Init
    /\ SchedulerInit /\ (part = "queue" => ~randomize_order /\ ~allow_parking)

AllNext ==
    /\ UNCHANGED part
    /\ \/ part = "queue" /\ Next /\ UNCHANGED schedulerVars
       \/ part = "scheduler" /\ SchedulerNext /\ FewTimers' /\ UNCHANGED vars

AllSpec == AllInit /\ [][AllNext]_<<vars, schedulerVars, part>>

=============================================================================
