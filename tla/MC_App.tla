------------------------------- MODULE MC_App -------------------------------
(* App on small sets: each configuration picks the part of the application  *)
(* whose interleavings it is about.                                         *)
EXTENDS App

CONSTANTS e1, e2, w1, w2, g1

NoPlain == {}
Refreshing == {"refresh"}
Emitting == {"emit"}
=============================================================================
