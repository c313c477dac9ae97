------------------------------ MODULE MCServer ------------------------------
(* Server for TLC: threads, states and statuses are model values; the       *)
(* bounds are given in the .cfg files.                                      *)
EXTENDS Server

CONSTANTS t1, t2, s1, s2, x0, x1, untold, null

OneThread == {t1}
TwoThreads == {t1, t2}
TwoStates == {s1, s2}
EmptyOnly == {x0}
Statuses == {"starting", "online"}
TwoExtras == {x0, x1}
NoneClashing == {}
OneClashing == {x1}
NoCallers == {}
=============================================================================
