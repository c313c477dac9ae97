---------------------------- MODULE MCConnection ----------------------------
(* Connection for TLC: which ends send a health message on a connection is  *)
(* given here, the other constants in the .cfg files.                       *)
EXTENDS Connection

FromBoth == [e \in End |-> 1]
FromNone == [e \in End |-> 0]
FromServer == [FromBoth EXCEPT !["client"] = 0]
=============================================================================
