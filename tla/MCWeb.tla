------------------------------- MODULE MCWeb -------------------------------
(***************************************************************************)
(* Web for TLC.  As in the code the list is as long as the inbox.          *)
(***************************************************************************)
EXTENDS Web

CONSTANTS m1, b, p1, g1, g2, r1
=============================================================================
