---------------------------- MODULE MC_ViewCache ----------------------------
(* ViewCache with two panels, and a root that reads one that it may show.  *)
EXTENDS ViewCache

CONSTANTS root, p1, p2, i1, i2

MCPanels == <<p1, p2>>
MCHome == [i \in Items |-> IF i = i1 THEN p1 ELSE p2]
ReadsPanel == {<<root, p1>>}
=============================================================================
