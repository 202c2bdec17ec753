---------------------------- MODULE X11Clipboard ----------------------------
(***************************************************************************)
(* The X11 clipboard (gpui_linux/src/linux/x11/clipboard.rs): the main     *)
(* thread writes, a thread of its own serves the requests of other         *)
(* clients, and dropping the clipboard hands the contents over to the      *)
(* clipboard manager, within 100 ms.  The X server knows who owns the      *)
(* selection and delivers events to the serving thread in order, late.     *)
(*                                                                         *)
(* One selection, and one format beside TARGETS: nothing tells apart the   *)
(* three selections or the formats.                                        *)
(***************************************************************************)
EXTENDS Naturals, Sequences

CONSTANTS
    Contents,   \* what may be written
    NoContents,
    Clients,    \* other clients of the X server
    Manager,    \* the clipboard manager, one more
    MaxEvents   \* bound on the events not served yet

VARIABLES
    x_owner,         \* the X server: "us", "other" or "nobody"
    x_events,        \* events for the serving thread
    data,            \* Selection.data
    writer,          \* the main thread: [pc, value]
    handover_state, written, notified,
    server_thread,   \* "running" or "stopped"
    manager,         \* what the manager has yet to do in a handover
    waiting          \* clients that wait for an answer, and the manager

clipboardVars == <<x_owner, x_events, data, writer, handover_state, written, notified,
                   server_thread, manager, waiting>>

Requestors == Clients \cup {Manager}

ClipboardInit ==
    /\ x_owner = "nobody" /\ x_events = <<>>
    /\ data = NoContents
    /\ writer = [pc |-> "idle", value |-> NoContents]
    /\ handover_state = "Idle" /\ written = FALSE /\ notified = FALSE
    /\ server_thread = "running"
    /\ manager = {}
    /\ waiting = {}

\* The X server appends an event to the connection of the serving thread.
QueueEvent(event) == Len(x_events) < MaxEvents /\ x_events' = Append(x_events, event)

-----------------------------------------------------------------------------
(* write.                                                                  *)

\* SetSelectionOwner is in effect before the data is there.
WriteOwns(v) ==
    /\ writer.pc = "idle"
    /\ writer' = [pc |-> "owned", value |-> v]
    /\ x_owner' = "us"
    /\ UNCHANGED <<x_events, data, handover_state, written, notified, server_thread, manager,
                   waiting>>

WriteData ==
    /\ writer.pc = "owned"
    /\ writer' = [writer EXCEPT !.pc = "idle"]
    /\ data' = writer.value
    /\ UNCHANGED <<x_owner, x_events, handover_state, written, notified, server_thread,
                   manager, waiting>>

-----------------------------------------------------------------------------
(* Other clients (external).                                               *)

TakeSelection ==
    /\ x_owner = "us" /\ server_thread = "running"
    /\ x_owner' = "other"
    /\ QueueEvent([type |-> "SelectionClear"])
    /\ UNCHANGED <<data, writer, handover_state, written, notified, server_thread, manager,
                   waiting>>

\* ConvertSelection is passed on to the owner of the moment.
Request(c, target) ==
    /\ x_owner = "us" /\ server_thread = "running"
    /\ c \notin waiting
    /\ IF c = Manager THEN target \in manager /\ manager' = manager \ {target}
                      ELSE UNCHANGED manager
    /\ waiting' = waiting \cup {c}
    /\ QueueEvent([type |-> "SelectionRequest", from |-> c, target |-> target])
    /\ UNCHANGED <<x_owner, data, writer, handover_state, written, notified, server_thread>>

\* The manager reports that it is done, some before they ask for anything.
ManagerNotifies ==
    /\ "notify" \in manager /\ server_thread = "running"
    /\ manager' = manager \ {"notify"}
    /\ QueueEvent([type |-> "SelectionNotify"])
    /\ UNCHANGED <<x_owner, data, writer, handover_state, written, notified, server_thread,
                   waiting>>

-----------------------------------------------------------------------------
(* serve_requests.                                                         *)

\* handover_state is a mutex: free unless the drop is about to set it, which
\* is one step of the model, or keeps it.
Serving == server_thread = "running" /\ x_events # <<>> /\ writer.pc # "joining locked"

\* handover_finished, once the contents were written and the manager has
\* reported.  Anybody's request counts as the contents written.
Finished(w, n) ==
    IF handover_state = "InProgress" /\ w /\ n THEN "Finished" ELSE handover_state

\* Someone else owns the selection now: the data is deleted.
ServeClear ==
    /\ Serving /\ Head(x_events).type = "SelectionClear"
    /\ x_events' = Tail(x_events)
    /\ data' = NoContents
    /\ UNCHANGED <<x_owner, writer, handover_state, written, notified, server_thread, manager,
                   waiting>>

\* Mutant of Answer: a request without data is not answered.
AnswerIfData(c, target) ==
    waiting' = IF data # NoContents \/ target = "TARGETS" THEN waiting \ {c} ELSE waiting

\* handle_selection_request: the targets, the data, or a refusal; always a
\* SelectionNotify.
Answer(c, target) == waiting' = waiting \ {c}

ServeRequest ==
    /\ Serving /\ Head(x_events).type = "SelectionRequest"
    /\ x_events' = Tail(x_events)
    /\ Answer(Head(x_events).from, Head(x_events).target)
    /\ written' = (written \/ ( /\ handover_state = "InProgress"
                                /\ Head(x_events).target # "TARGETS" ))
    /\ handover_state' = Finished(written', notified)
    /\ UNCHANGED <<x_owner, data, writer, notified, server_thread, manager>>

ServeNotify ==
    /\ Serving /\ Head(x_events).type = "SelectionNotify"
    /\ x_events' = Tail(x_events)
    /\ notified' = (notified \/ handover_state = "InProgress")
    /\ handover_state' = Finished(written, notified')
    /\ UNCHANGED <<x_owner, data, writer, written, server_thread, manager, waiting>>

ServeDestroy ==
    /\ Serving /\ Head(x_events).type = "DestroyNotify"
    /\ x_events' = Tail(x_events)
    /\ server_thread' = "stopped"
    /\ UNCHANGED <<x_owner, data, writer, handover_state, written, notified, manager, waiting>>

-----------------------------------------------------------------------------
(* Drop for Clipboard, the last owner; the main thread stays in it.        *)

\* ask_clipboard_manager_to_request_our_data: is there anything to hand
\* over, and then, with handover_state locked, the request to the manager,
\* which may not be there.
DropAsks ==
    /\ writer.pc = "idle"
    /\ IF x_owner # "us" \/ data = NoContents
       THEN writer' = [writer EXCEPT !.pc = "destroy"] /\ UNCHANGED <<handover_state, manager>>
       ELSE /\ writer' = [writer EXCEPT !.pc = "handing over"]
            /\ handover_state' = "InProgress"
            /\ manager' \in {{}, {"TARGETS", "data", "notify"}}
    /\ UNCHANGED <<x_owner, x_events, data, written, notified, server_thread, waiting>>

\* The wait ends by handover_finished or after 100 ms.
DropHandedOver ==
    /\ writer.pc = "handing over"
    /\ writer' = [writer EXCEPT !.pc = "destroy"]
    /\ UNCHANGED <<x_owner, x_events, data, handover_state, written, notified, server_thread,
                   manager, waiting>>

\* Mutant of DropDestroys: joins with handover_state locked.
DropDestroysLocked ==
    /\ writer.pc = "destroy"
    /\ x_events' = Append(x_events, [type |-> "DestroyNotify"])
    /\ x_owner' = IF x_owner = "us" THEN "nobody" ELSE x_owner
    /\ writer' = [writer EXCEPT !.pc = "joining locked"]
    /\ UNCHANGED <<data, handover_state, written, notified, server_thread, manager, waiting>>

\* The window is destroyed, and with it the selection.
DropDestroys ==
    /\ writer.pc = "destroy"
    /\ x_events' = Append(x_events, [type |-> "DestroyNotify"])
    /\ x_owner' = IF x_owner = "us" THEN "nobody" ELSE x_owner
    /\ writer' = [writer EXCEPT !.pc = "joining"]
    /\ UNCHANGED <<data, handover_state, written, notified, server_thread, manager, waiting>>

DropJoins ==
    /\ writer.pc = "joining" /\ server_thread = "stopped"
    /\ writer' = [writer EXCEPT !.pc = "gone"]
    /\ UNCHANGED <<x_owner, x_events, data, handover_state, written, notified, server_thread,
                   manager, waiting>>

Serve == ServeClear \/ ServeRequest \/ ServeNotify \/ ServeDestroy
DropGoesOn == DropHandedOver \/ DropDestroys \/ DropJoins

ClipboardNext ==
    \/ \E v \in Contents : WriteOwns(v)
    \/ WriteData
    \/ TakeSelection \/ ManagerNotifies
    \/ \E c \in Requestors, target \in {"TARGETS", "data"} : Request(c, target)
    \/ ServeClear \/ ServeRequest \/ ServeNotify \/ ServeDestroy
    \/ DropAsks \/ DropHandedOver \/ DropDestroys \/ DropJoins

\* Threads run; the manager does what it began.
ClipboardFairness ==
    /\ WF_clipboardVars(Serve) /\ WF_clipboardVars(WriteData)
    /\ WF_clipboardVars(DropGoesOn)

ClipboardSpec == ClipboardInit /\ [][ClipboardNext]_clipboardVars /\ ClipboardFairness

-----------------------------------------------------------------------------
\* A client that asks for the contents gets an answer, if only a refusal:
\* also when the data was cleared, rewritten or handed over meanwhile.
RequestIsAnswered == \A c \in Requestors : c \in waiting ~> c \notin waiting

\* Dropping the clipboard ends, with a clipboard manager that answers in any
\* order, slowly or not at all: the drop and the serving thread never wait
\* for each other.
DropEnds == writer.pc \in {"handing over", "destroy"} ~> writer.pc = "gone"

=============================================================================
