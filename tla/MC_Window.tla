----------------------------- MODULE MC_Window -----------------------------
(***************************************************************************)
(* What a window's contents rest on, side by side for TLC: subscriptions,  *)
(* the views it draws again or recycles, the order of what it paints, and  *)
(* lists.  They share no state: a behaviour is one of one of them.         *)
(***************************************************************************)
EXTENDS SubscriberSet, ViewCache, Scene, ListState

CONSTANTS observed, released, root_view, p1, p2, i1, i2

VARIABLE part  \* the one that moves

\* One key observed with retain, as observers and event_listeners are, and
\* one with remove, as release_listeners are.
MCKeys == {observed, released}
MCQuiet == {released}

MCPanels == <<p1, p2>>
MCHome == [i \in Items |-> IF i = i1 THEN p1 ELSE p2]
\* What panels show is read inside them.
ReadsOwn == {<<p1, i1>>, <<i2, p2>>}

\* A quad and sprites of two textures, in bounds that overlap or touch.
MCRects == {<<0, 1>>, <<0, 2>>, <<1, 3>>}
MCPrims == {<<1, 0, 0>>, <<2, 1, 1>>, <<2, 2, 2>>}

allVars == <<subscriberVars, viewVars, sceneVars, listVars, part>>

AllInit ==
    /\ part \in {"subscribers", "views", "scene", "list"}
    /\ IF part = "subscribers" THEN SubscriberInit
       ELSE SubscriberInit /\ key = [i \in SubscriberIds |-> observed]
    /\ ViewInit /\ SceneInit
    /\ ListInit /\ (part # "list" => alignment = "top")

AllNext ==
    /\ UNCHANGED part
    /\ \/ part = "subscribers" /\ SubscriberNext /\ UNCHANGED <<viewVars, sceneVars, listVars>>
       \/ part = "views" /\ ViewNext /\ UNCHANGED <<subscriberVars, sceneVars, listVars>>
       \/ part = "scene" /\ SceneNext /\ UNCHANGED <<subscriberVars, viewVars, listVars>>
       \/ part = "list" /\ ListNext /\ UNCHANGED <<subscriberVars, viewVars, sceneVars>>

AllSpec == AllInit /\ [][AllNext]_allVars

=============================================================================
