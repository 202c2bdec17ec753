--------------------------- MODULE TestScheduler ---------------------------
(***************************************************************************)
(* The deterministic scheduler of tests (scheduler/src/test_scheduler.rs): *)
(* one thread that runs the tasks of all sessions and of the background,   *)
(* on a clock of its own.  Test code and tasks call it from each other:    *)
(* run, advance_clock and block step it, a step runs a task, and a task    *)
(* may block and step it again.  The model keeps that call stack.          *)
(*                                                                         *)
(* With allow_parking, block waits for real time and for other threads;    *)
(* one other thread completes External and wakes who waits for it.         *)
(***************************************************************************)
EXTENDS Integers, SequencesExt, FiniteSetsExt

CONSTANTS
    Tasks,
    Sessions, None,
    SessionOf,   \* the session of a task, None in the background
    External,    \* what another thread completes
    Modes,       \* the configurations <<randomize_order, allow_parking>> to look at
    Durations,
    MaxTimers, MaxClock, MaxDepth   \* bounds: timers made, time, call stack

ASSUME SessionAssumption == SessionOf \in [Tasks -> Sessions \cup {None}] /\ None \notin Sessions
ASSUME ModeAssumption == Modes \subseteq BOOLEAN \X BOOLEAN
ASSUME DurationAssumption == Durations \subseteq Nat

VARIABLES
    runnables,          \* queued tasks
    timers,             \* [expiration, id], sorted
    blocked_sessions,
    is_main_thread,
    unparked,
    randomize_order, allow_parking,
    clock,
    stack,              \* the calls under way, innermost last
    task,               \* "new", "queued", "running", "idle" or "done"
    waits,              \* what an idle task waits for
    made,               \* timers made
    event,              \* progress of the other thread
    earlier,            \* history: pairs of queued tasks, the first scheduled before the second
    panicked

schedulerVars == <<runnables, timers, blocked_sessions, is_main_thread, unparked,
                   randomize_order, allow_parking, clock, stack, task, waits, made, event,
                   earlier, panicked>>

TaskFrames == [kind : {"task"}, task : Tasks, was : BOOLEAN]
BlockFrames ==
    [kind : {"block"}, session : Sessions \cup {None}, target : Tasks \cup Nat \cup {External},
     timed : BOOLEAN, pc : {"poll", "step", "check", "parked"},
     stepped : {"not tried", "yes", "no"}, awoken : BOOLEAN]
CallFrames ==
    [kind : {"run", "run_timers", "expire"}] \cup [kind : {"advance"}, next_now : Nat]
Frames == TaskFrames \cup BlockFrames \cup CallFrames

SchedulerTypeOK ==
    /\ runnables \in Seq(Tasks)
    /\ timers \in Seq([expiration : Nat, id : Nat])
    /\ blocked_sessions \in Seq(Sessions)
    /\ is_main_thread \in BOOLEAN /\ unparked \in BOOLEAN
    /\ randomize_order \in BOOLEAN /\ allow_parking \in BOOLEAN
    /\ clock \in Nat
    /\ stack \in Seq(Frames)
    /\ task \in [Tasks -> {"new", "queued", "running", "idle", "done"}]
    /\ made \in Nat
    /\ event \in {"before", "completed", "flagged", "woke"}
    /\ earlier \subseteq Tasks \X Tasks
    /\ panicked \in BOOLEAN

SchedulerInit ==
    /\ runnables = <<>> /\ timers = <<>> /\ blocked_sessions = <<>>
    /\ is_main_thread = TRUE /\ unparked = FALSE
    /\ \E mode \in Modes : randomize_order = mode[1] /\ allow_parking = mode[2]
    /\ clock = 0
    /\ stack = <<>>
    /\ task = [t \in Tasks |-> "new"] /\ waits = [t \in Tasks |-> None]
    /\ made = 0 /\ event = "before"
    /\ earlier = {} /\ panicked = FALSE

-----------------------------------------------------------------------------
Top == stack[Len(stack)]
Push(frame) == Len(stack) + 1 < MaxDepth /\ stack' = Append(stack, frame)
Return == stack' = Front(stack)
SetTop(frame) == stack' = [stack EXCEPT ![Len(stack)] = frame]

\* Test code or a task has control.
InCode == ~panicked /\ (stack # <<>> => Top.kind = "task")
InTask == ~panicked /\ stack # <<>> /\ Top.kind = "task"
In(kind) == ~panicked /\ stack # <<>> /\ Top.kind = kind

\* A timer is done when it has left the list and dropped its sender.
IsReady(target) ==
    \/ target \in Tasks /\ task[target] = "done"
    \/ target = External /\ event # "before"
    \/ /\ target \notin Tasks \cup {External}
       /\ \A n \in DOMAIN timers : timers[n].id # target

IsBlockOn(frame, target) == frame.kind = "block" /\ frame.target = target

\* A Task, a Timer or a receiver is owned, and awaited, in one place.
IsAwaited(target) ==
    \/ \E t \in Tasks : task[t] = "idle" /\ waits[t] = target
    \/ \E n \in DOMAIN stack : IsBlockOn(stack[n], target)

Targets == Tasks \cup 1..made \cup (IF allow_parking THEN {External} ELSE {})
CanAwait(target) ==
    /\ target \in Tasks => task[target] # "new"
    /\ ~IsReady(target) /\ ~IsAwaited(target)

-----------------------------------------------------------------------------
(* schedule_local and schedule_background_with_priority.                   *)

\* Behind the others of its session, or at the end.
MayInsert(t, ix) ==
    IF randomize_order
    THEN SessionOf[t] # None =>
            \A n \in DOMAIN runnables : SessionOf[runnables[n]] = SessionOf[t] => n < ix
    ELSE ix = Len(runnables) + 1

Queued == {t \in Tasks : task[t] = "queued"}

Schedule(t) ==
    /\ \E ix \in 1..(Len(runnables) + 1) :
          MayInsert(t, ix) /\ runnables' = InsertAt(runnables, ix, t)
    /\ earlier' = earlier \cup (Queued \X {t})

\* The task that waits for the target, if one does, and the stack with the
\* waker of a block called.
WaitingFor(target) == {t \in Tasks : task[t] = "idle" /\ waits[t] = target}
Awoken(frames, target) ==
    [n \in DOMAIN frames |->
        IF IsBlockOn(frames[n], target) THEN [frames[n] EXCEPT !.awoken = TRUE] ELSE frames[n]]

\* TracingWaker::wake and the waker of a task, for what the target wakes.
\* states are the tasks and frames the stack as the caller leaves them.
CallWakers(target, states, frames) ==
    /\ stack' = Awoken(frames, target)
    /\ \/ /\ WaitingFor(target) = {}
          /\ unparked' = (unparked \/ \E n \in DOMAIN frames : IsBlockOn(frames[n], target))
          /\ task' = states
          /\ UNCHANGED <<runnables, waits, earlier>>
       \/ \E t \in WaitingFor(target) :
             /\ Schedule(t)
             /\ unparked' = TRUE
             /\ task' = [states EXCEPT ![t] = "queued"]
             /\ waits' = [waits EXCEPT ![t] = None]

-----------------------------------------------------------------------------
(* What test code and tasks do.                                            *)

Unmoved == UNCHANGED <<randomize_order, allow_parking, panicked>>

Spawn(t) ==
    /\ InCode
    /\ task[t] = "new"
    /\ Schedule(t)
    /\ task' = [task EXCEPT ![t] = "queued"]
    /\ unparked' = TRUE
    /\ Unmoved
    /\ UNCHANGED <<timers, blocked_sessions, is_main_thread, clock, stack, waits, made, event>>

\* timer.
NewTimer(d) ==
    /\ made < MaxTimers
    /\ made' = made + 1
    /\ \E ix \in 1..(Len(timers) + 1) :
          /\ \A n \in DOMAIN timers : n < ix <=> timers[n].expiration <= clock + d
          /\ timers' = InsertAt(timers, ix, [expiration |-> clock + d, id |-> made + 1])

\* The poll of a task ends and is_main_thread is restored.
EndPoll == is_main_thread' = Top.was

MakeTimer(d) ==
    /\ InCode
    /\ NewTimer(d)
    /\ Unmoved
    /\ UNCHANGED <<runnables, blocked_sessions, is_main_thread, unparked, clock, stack, task,
                   waits, event, earlier>>

Await(target) ==
    /\ InTask
    /\ target # Top.task
    /\ CanAwait(target)
    /\ task' = [task EXCEPT ![Top.task] = "idle"]
    /\ waits' = [waits EXCEPT ![Top.task] = target]
    /\ EndPoll /\ Return
    /\ Unmoved
    /\ UNCHANGED <<runnables, timers, blocked_sessions, unparked, clock, made, event, earlier>>

\* Yield wakes its task in the poll.
YieldNow ==
    /\ InTask
    /\ Schedule(Top.task)
    /\ task' = [task EXCEPT ![Top.task] = "queued"]
    /\ unparked' = TRUE
    /\ EndPoll /\ Return
    /\ Unmoved
    /\ UNCHANGED <<timers, blocked_sessions, clock, waits, made, event>>

Finish ==
    /\ InTask
    /\ CallWakers(Top.task, [task EXCEPT ![Top.task] = "done"], Front(stack))
    /\ EndPoll
    /\ Unmoved
    /\ UNCHANGED <<timers, blocked_sessions, clock, made, event>>

\* LocalExecutor::block_on and block_with_timeout, and the block of Scope's
\* drop, which has no session.
Block(session, target, timed) ==
    /\ InCode
    /\ CanAwait(target)
    /\ InTask => target # Top.task
    /\ Push([kind |-> "block", session |-> session, target |-> target, timed |-> timed,
             pc |-> "poll", stepped |-> "not tried", awoken |-> FALSE])
    /\ blocked_sessions' = IF session = None THEN blocked_sessions
                           ELSE Append(blocked_sessions, session)
    /\ Unmoved
    /\ UNCHANGED <<runnables, timers, is_main_thread, unparked, clock, task, waits, made,
                   event, earlier>>

\* run, run_with_clock_advancement and advance_clock, called by test code.
Call(frame) ==
    /\ ~panicked /\ stack = <<>>
    /\ Push(frame)
    /\ Unmoved
    /\ UNCHANGED <<runnables, timers, blocked_sessions, is_main_thread, unparked, clock, task,
                   waits, made, event, earlier>>

-----------------------------------------------------------------------------
(* step_filtered.  The steppers are the calls of run, advance_clock and    *)
(* block that are about to call it, and test code by tick.                 *)

Stepping ==
    \/ \E kind \in {"run", "run_timers", "advance"} : In(kind)
    \/ In("block") /\ Top.pc = "step"

Elapsed == timers # <<>> /\ Head(timers).expiration <= clock
OthersElapsed == Len(timers) > 1 /\ timers[2].expiration <= clock

\* The first runnable of each session that is not blocked, and everything of
\* the background.
Candidates(background_only) ==
    {n \in DOMAIN runnables :
        LET s == SessionOf[runnables[n]]
        IN s = None \/ ( /\ ~background_only
                         /\ s \notin ToSet(blocked_sessions)
                         /\ \A k \in 1..(n - 1) : SessionOf[runnables[k]] # s )}

\* What the caller is when it has stepped with success.
Stepped(frames) ==
    [n \in DOMAIN frames |->
        IF n = Len(frames) /\ frames[n].kind = "block"
        THEN [frames[n] EXCEPT !.stepped = "yes"] ELSE frames[n]]

\* The elapsed timers are drained together, and dropped one after the other;
\* each drop wakes who waits for the timer.
DropTimer(frames) ==
    /\ CallWakers(Head(timers).id, task,
                  IF OthersElapsed THEN Append(frames, [kind |-> "expire"]) ELSE frames)
    /\ timers' = Tail(timers)
    /\ Unmoved
    /\ UNCHANGED <<blocked_sessions, is_main_thread, clock, made, event>>

ExpireTimers == Elapsed /\ DropTimer(Stepped(stack))
DropNext == In("expire") /\ Elapsed /\ DropTimer(Front(stack))

RunCandidate(background_only) ==
    /\ ~Elapsed
    /\ Len(stack) < MaxDepth
    /\ \E n \in Candidates(background_only) :
          LET t == runnables[n]
          IN /\ ~randomize_order => n = Min(Candidates(background_only))
             /\ runnables' = RemoveAt(runnables, n)
             /\ earlier' = {p \in earlier : t \notin {p[1], p[2]}}
             /\ task' = [task EXCEPT ![t] = "running"]
             /\ stack' = Append(Stepped(stack), [kind |-> "task", task |-> t,
                                                 was |-> is_main_thread])
             /\ is_main_thread' = (SessionOf[t] # None)
    /\ Unmoved
    /\ UNCHANGED <<timers, blocked_sessions, unparked, clock, waits, made, event>>

StepExpires == Stepping /\ ExpireTimers
StepRuns == Stepping /\ RunCandidate(FALSE)

Tick(background_only) ==
    /\ ~panicked /\ stack = <<>>
    /\ ExpireTimers \/ RunCandidate(background_only)

NothingToStep == ~Elapsed /\ Candidates(FALSE) = {}

Quiescent == UNCHANGED <<runnables, timers, is_main_thread, task, waits, made, event, earlier>>

\* advance_clock_to_next_timer: Instant subtraction saturates at zero.
ToTimer == IF Head(timers).expiration > clock THEN Head(timers).expiration ELSE clock

AdvanceToNextTimer ==
    /\ ~panicked /\ stack = <<>> /\ timers # <<>>
    /\ clock' = ToTimer
    /\ Unmoved /\ Quiescent
    /\ UNCHANGED <<blocked_sessions, unparked, stack>>

\* run and run_with_clock_advancement when a step finds nothing.
RunEnds ==
    /\ In("run") \/ In("run_timers")
    /\ NothingToStep
    /\ IF In("run_timers") /\ timers # <<>>
       THEN clock' = ToTimer /\ UNCHANGED stack
       ELSE Return /\ UNCHANGED clock
    /\ Unmoved /\ Quiescent
    /\ UNCHANGED <<blocked_sessions, unparked>>

\* Mutant of AdvanceClock: does not stop at the timers.
AdvanceClockAtOnce ==
    /\ In("advance")
    /\ NothingToStep
    /\ clock' = Top.next_now /\ Return
    /\ Unmoved /\ Quiescent
    /\ UNCHANGED <<blocked_sessions, unparked>>

\* advance_clock after a run: on to the next timer that is due, or to the
\* end, which a nested block may have passed already.
AdvanceClock ==
    /\ In("advance")
    /\ NothingToStep
    /\ IF timers # <<>> /\ Head(timers).expiration <= Top.next_now
       THEN clock' = ToTimer /\ UNCHANGED stack
       ELSE clock' = Max({clock, Top.next_now}) /\ Return
    /\ Unmoved /\ Quiescent
    /\ UNCHANGED <<blocked_sessions, unparked>>

-----------------------------------------------------------------------------
(* block and park.                                                         *)

\* Mutant of EndBlock: pops a session also when the block pushed none.
EndBlockAlways ==
    /\ Return
    /\ blocked_sessions' = IF blocked_sessions = <<>> THEN <<>> ELSE Front(blocked_sessions)
    /\ UNCHANGED clock

EndBlock ==
    /\ Return
    /\ blocked_sessions' = IF Top.session = None THEN blocked_sessions
                           ELSE Front(blocked_sessions)
    /\ UNCHANGED clock

BlockPoll ==
    /\ In("block") /\ Top.pc = "poll"
    /\ IF IsReady(Top.target) THEN EndBlock
       ELSE /\ SetTop([Top EXCEPT !.pc = "step"])
            /\ UNCHANGED <<blocked_sessions, clock>>
    /\ Unmoved /\ Quiescent /\ UNCHANGED unparked

\* A block with a timeout has a random number of turns.
BlockOutOfTicks ==
    /\ In("block") /\ Top.pc = "poll" /\ Top.timed
    /\ EndBlock
    /\ Unmoved /\ Quiescent /\ UNCHANGED unparked

\* The inner loop ends by chance or when a step finds nothing.
BlockStopsStepping ==
    /\ In("block") /\ Top.pc = "step"
    /\ \/ SetTop([Top EXCEPT !.pc = "check"])
       \/ /\ NothingToStep
          /\ SetTop([Top EXCEPT !.pc = "check",
                                !.stepped = IF @ = "not tried" THEN "no" ELSE @])
    /\ Unmoved /\ Quiescent
    /\ UNCHANGED <<blocked_sessions, clock, unparked>>

Again == [Top EXCEPT !.pc = "poll", !.stepped = "not tried", !.awoken = FALSE]

MakesProgress == Top.stepped # "no" \/ Top.awoken

\* After the inner loop: another turn, a jump to the next timer, or park.
BlockCheck ==
    /\ In("block") /\ Top.pc = "check"
    /\ IF MakesProgress
       THEN SetTop(Again) /\ UNCHANGED <<blocked_sessions, clock, panicked>>
       ELSE IF ~allow_parking /\ timers # <<>>
       THEN SetTop(Again) /\ clock' = ToTimer /\ UNCHANGED <<blocked_sessions, panicked>>
       ELSE IF allow_parking
       THEN /\ SetTop([Top EXCEPT !.pc = "parked", !.awoken = FALSE])
            /\ UNCHANGED <<blocked_sessions, clock, panicked>>
       ELSE IF Top.timed
       THEN EndBlock /\ UNCHANGED panicked
       ELSE panicked' = TRUE /\ UNCHANGED <<stack, blocked_sessions, clock>>
    /\ Quiescent
    /\ UNCHANGED <<unparked, randomize_order, allow_parking>>

\* park looks every 100 ms, after the clock was advanced by what passed.
ParkReturns ==
    /\ In("block") /\ Top.pc = "parked"
    /\ Elapsed \/ unparked
    /\ unparked' = (unparked /\ Elapsed)
    /\ SetTop([Again EXCEPT !.awoken = Top.awoken])
    /\ Unmoved /\ Quiescent
    /\ UNCHANGED <<blocked_sessions, clock>>

ParkTimePasses ==
    /\ In("block") /\ Top.pc = "parked"
    /\ clock < MaxClock
    /\ clock' = clock + 1
    /\ Unmoved /\ Quiescent
    /\ UNCHANGED <<blocked_sessions, unparked, stack>>

\* The deadline of the block, or the hard one of 15 seconds, which is a
\* panic.  A thread that has begun to wake this one does not take that long.
ParkDeadline ==
    /\ In("block") /\ Top.pc = "parked"
    /\ ~Elapsed /\ ~unparked /\ event \notin {"completed", "flagged"}
    /\ IF Top.timed THEN EndBlock /\ UNCHANGED panicked
       ELSE panicked' = TRUE /\ UNCHANGED <<stack, blocked_sessions, clock>>
    /\ Quiescent
    /\ UNCHANGED <<unparked, randomize_order, allow_parking>>

-----------------------------------------------------------------------------
(* The other thread completes External and wakes.                          *)

Elsewhere ==
    /\ ~panicked
    /\ UNCHANGED <<timers, blocked_sessions, is_main_thread, clock, made, panicked,
                   randomize_order, allow_parking>>

ExternalCompletes ==
    /\ allow_parking /\ event = "before"
    /\ event' = "completed"
    /\ Elsewhere
    /\ UNCHANGED <<runnables, unparked, stack, task, waits, earlier>>

\* Mutant of ExternalWakes: the waker of a block leaves the flag alone.
ExternalWakesUnflagged ==
    /\ event = "completed"
    /\ IF WaitingFor(External) # {}
       THEN event' = "woke" /\ CallWakers(External, task, stack)
       ELSE /\ event' = IF IsAwaited(External) THEN "flagged" ELSE "woke"
            /\ UNCHANGED <<runnables, unparked, stack, task, waits, earlier>>
    /\ Elsewhere

\* A waiting task is scheduled from there; the waker of a block sets
\* unparked first.
ExternalWakes ==
    /\ event = "completed"
    /\ IF WaitingFor(External) # {}
       THEN event' = "woke" /\ CallWakers(External, task, stack)
       ELSE /\ event' = IF IsAwaited(External) THEN "flagged" ELSE "woke"
            /\ unparked' = (unparked \/ IsAwaited(External))
            /\ UNCHANGED <<runnables, stack, task, waits, earlier>>
    /\ Elsewhere

\* and then awoken.
ExternalSetsAwoken ==
    /\ event = "flagged"
    /\ event' = "woke"
    /\ stack' = Awoken(stack, External)
    /\ Elsewhere
    /\ UNCHANGED <<runnables, unparked, task, waits, earlier>>

SchedulerNext ==
    \/ \E t \in Tasks : Spawn(t)
    \/ \E d \in Durations : clock + d <= MaxClock /\ MakeTimer(d)
    \/ \E target \in Targets : Await(target)
    \/ YieldNow
    \/ Finish
    \/ \E s \in Sessions \cup {None}, target \in Targets, timed \in BOOLEAN :
          Block(s, target, timed)
    \/ Call([kind |-> "run"])
    \/ Call([kind |-> "run_timers"])
    \/ \E d \in Durations : clock + d <= MaxClock
                            /\ Call([kind |-> "advance", next_now |-> clock + d])
    \/ \E background_only \in BOOLEAN : Tick(background_only)
    \/ AdvanceToNextTimer
    \/ StepExpires \/ DropNext \/ StepRuns \/ RunEnds \/ AdvanceClock
    \/ BlockPoll \/ BlockOutOfTicks \/ BlockStopsStepping \/ BlockCheck
    \/ ParkReturns \/ ParkTimePasses \/ ParkDeadline
    \/ ExternalCompletes \/ ExternalWakes \/ ExternalSetsAwoken

SchedulerSpec == SchedulerInit /\ [][SchedulerNext]_schedulerVars

-----------------------------------------------------------------------------
\* "Runnables scheduled here run in order": the queue holds the runnables
\* of a session in the order they were scheduled, wherever the random
\* positions put them, so the first of a session is its oldest.
SessionInOrder ==
    \A m, n \in DOMAIN runnables :
        /\ <<runnables[m], runnables[n]>> \in earlier
        /\ SessionOf[runnables[m]] # None
        /\ SessionOf[runnables[m]] = SessionOf[runnables[n]]
        => m < n

\* While code of a session blocks, no task of that session runs inside the
\* block, whatever other blocks begin and end in there.
BlockedIsQuiet ==
    \A m, n \in DOMAIN stack :
        /\ m < n
        /\ stack[m].kind = "block" /\ stack[m].session # None
        /\ stack[n].kind = "task"
        => SessionOf[stack[n].task] # stack[m].session

\* A session is serial, however its tasks block and are scheduled: in order,
\* and none inside a block of another.
SessionIsSerial == SessionInOrder /\ BlockedIsQuiet

\* Without parking, time is virtual and no timer is late: the clock never
\* passes the expiration of one that was not dropped.
TimersOnTime ==
    ~allow_parking => \A n \in DOMAIN timers : timers[n].expiration >= clock

\* "If the future is unable to make progress [...] and no other tasks or
\* timers remain, we panic": a block panics only when its future is not
\* ready, and no timer and no task it may run could change that.
PanicsOnlyWhenStuck ==
    panicked => /\ ~IsReady(Top.target)
                /\ Candidates(FALSE) = {}
                /\ allow_parking \/ timers = <<>>

=============================================================================
