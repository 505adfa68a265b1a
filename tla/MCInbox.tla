------------------------------ MODULE MCInbox ------------------------------
(***************************************************************************)
(* Inbox for TLC.  Two connections race for one slot of the kernel and,    *)
(* with an entry that was left there, for the last one of the list.        *)
(***************************************************************************)
EXTENDS Inbox

CONSTANTS c1, c2, a1, p1
=============================================================================
