------------------------------- MODULE MCRing -------------------------------
(* Ring for TLC: the values are model values given in MCRing.cfg.          *)
EXTENDS Ring
=============================================================================
