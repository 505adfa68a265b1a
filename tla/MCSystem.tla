------------------------------ MODULE MCSystem ------------------------------
(***************************************************************************)
(* System for TLC.  run.sh is run twice, so that the second run meets what *)
(* the first has left: a module, nodes, a daemon, an open terminal.        *)
(***************************************************************************)
EXTENDS System

CONSTANTS t1, ip1, ip2

\* For a table of two: no address, one, two, two and more, one address twice; lines
\* that are skipped before, between and after them; an overlong comment.
Skipped == "blank or comment"
Long == "ip too long"
Files ==
  { <<>>, <<Skipped, ip1>>, <<ip1, Long, ip2>>, <<ip2, ip1, Skipped, ip2>>,
    <<ip1, ip1, Long, Skipped>>, <<Skipped, "rest", ip1>> }
=============================================================================
