-------------------------- MODULE MCInputIntercept --------------------------
(***************************************************************************)
(* InputIntercept for TLC.  'n' and '.' are one letter that the cipher     *)
(* moves and one character that it leaves alone.                           *)
(***************************************************************************)
EXTENDS InputIntercept

CONSTANTS k1, k2, s1
=============================================================================
