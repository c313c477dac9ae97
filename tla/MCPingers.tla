----------------------------- MODULE MCPingers ------------------------------
(* Pingers for TLC: the pings of each site are given here, the other        *)
(* bounds in the .cfg files.                                                *)
EXTENDS Pingers

Forward == {2, 4}
ManyAndNone == <<3, 0>>
OneAndNone == <<1, 0>>
=============================================================================
