----------------------------- MODULE MCPeerLink -----------------------------
(***************************************************************************)
(* PeerLink for TLC.  An inbox of one slot makes 429 answers common; two   *)
(* messages are enough for one to follow another on a connection that the  *)
(* server has closed.                                                      *)
(***************************************************************************)
EXTENDS PeerLink
=============================================================================
