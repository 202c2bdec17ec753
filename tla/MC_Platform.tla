---------------------------- MODULE MC_Platform ----------------------------
(***************************************************************************)
(* What lies between the application and the platforms, side by side for   *)
(* TLC.  The ways a runnable reaches the thread that runs it: the worker   *)
(* pool, and the wake-ups of the main threads of Linux, the web and        *)
(* Windows.  The X11 clipboard, drags handed to the platform, and the      *)
(* requests for frames.  They share no state: a behaviour is one of one of *)
(* them.                                                                   *)
(***************************************************************************)
EXTENDS WorkerPool, CalloopChannel, MainThreadMailbox, WindowsWake,
        X11Clipboard, DragHandoff, FrameLoop

VARIABLE part  \* the one that moves

dispatcherVars == <<poolVars, channelVars, mailboxVars, wakeVars>>
windowingVars == <<clipboardVars, dragVars, frameVars>>

AllInit ==
    /\ part \in {"pool", "calloop", "mailbox", "windows",
                 "clipboard", "drag", "frames"}
    /\ PoolInit /\ ChannelInit /\ MailboxInit /\ WakeInit
    /\ ClipboardInit /\ DragInit
    /\ FrameInit /\ (part # "frames" => backend = CHOOSE b \in Backends : TRUE)

DispatchersNext ==
    \/ /\ part = "pool" /\ PoolNext
       /\ UNCHANGED <<channelVars, mailboxVars, wakeVars>>
    \/ /\ part = "calloop" /\ ChannelNext
       /\ UNCHANGED <<poolVars, mailboxVars, wakeVars>>
    \/ /\ part = "mailbox" /\ MailboxNext
       /\ UNCHANGED <<poolVars, channelVars, wakeVars>>
    \/ /\ part = "windows" /\ WakeNext
       /\ UNCHANGED <<poolVars, channelVars, mailboxVars>>

WindowingNext ==
    \/ part = "clipboard" /\ ClipboardNext /\ UNCHANGED <<dragVars, frameVars>>
    \/ part = "drag" /\ DragNext /\ UNCHANGED <<clipboardVars, frameVars>>
    \/ part = "frames" /\ FrameNext /\ UNCHANGED <<clipboardVars, dragVars>>

AllNext ==
    /\ UNCHANGED part
    /\ \/ DispatchersNext /\ UNCHANGED windowingVars
       \/ WindowingNext /\ UNCHANGED dispatcherVars

\* The threads and loops of the one that moves go on.  Of the others only the
\* mailbox's loop and the requests for frames have a step to take, and are not
\* asked to: MailboxFairness and FrameFairness, while it is their turn.
AllFairness ==
    /\ PoolFairness /\ ChannelFairness /\ WakeFairness /\ ClipboardFairness
    /\ \A t \in Posters : WF_mailboxVars(Store(t)) /\ WF_mailboxVars(Notify(t))
    /\ WF_mailboxVars(part = "mailbox" /\ Rearm)
    /\ WF_mailboxVars(part = "mailbox" /\ MailboxEmpty)
    /\ WF_mailboxVars(part = "mailbox" /\ WaitAsync)
    /\ \A i \in Jobs : WF_mailboxVars(Execute(i))
    /\ WF_frameVars(part = "frames" /\ (Draw \/ Present \/ CompleteFrame \/ EndOwnDraw))
    /\ SF_frameVars(part = "frames" /\ frame = "idle" /\ Platform)
    /\ WF_frameVars(part = "frames" /\ TimePasses)

AllSpec ==
    AllInit /\ [][AllNext]_<<dispatcherVars, windowingVars, part>> /\ AllFairness

=============================================================================
