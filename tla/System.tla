------------------------------- MODULE System -------------------------------
(***************************************************************************)
(* One machine: run.sh (re)loads the kernel module, makes the device       *)
(* nodes and starts the daemon, while the user types, opens the inbox      *)
(* terminal and presses Ctrl-C, and peers connect.  Composes               *)
(* KeycipherModule and Daemon; the daemon's send thread is the reader of   *)
(* /dev/keycipher_out.                                                     *)
(***************************************************************************)
EXTENDS Integers, SequencesExt

CONSTANTS Terminals,      \* inbox_terminal processes
          FIFO_SIZE, MAX_PEERS, Ips,
          Confs,          \* contents of peers.conf
          MaxConns, MaxSignals,
          MaxRuns         \* bound on the times run.sh is run

VARIABLES mstate, mpc, reg, ready, files, used, key, misused,
          dpc, hpc, running, srv_running, ctx, listen_fd, accepting, conns,
          conf, pos, peers, listed, peer_fd, sigs, spoiled,
          script,         \* where run.sh is, "off" before its first run
          runs,           \* times it was started
          loaded,         \* the run that loaded the module that is there
          node            \* /dev/keycipher_*: "none", "match" or, with another
                          \* major number than the module's, "other"

K == INSTANCE KeycipherModule WITH OutUsers <- {"daemon"}, InUsers <- Terminals
D == INSTANCE Daemon

ASSUME SystemAssumption ==
  /\ "daemon" \notin Terminals
  /\ FIFO_SIZE \in Nat \ {0} /\ MAX_PEERS \in Nat \ {0}
  /\ {MaxConns, MaxSignals, MaxRuns} \subseteq Nat

ASSUME ConfsAssumption ==
  /\ Ips \cap {"blank or comment", "ip too long", "rest"} = {}
  /\ Confs \subseteq Seq(D!Pieces)

mvars == <<mstate, mpc, reg, ready, files, used, key, misused>>
dvars == <<dpc, hpc, running, srv_running, ctx, listen_fd, accepting, conns,
           conf, pos, peers, listed, peer_fd, sigs, spoiled>>
svars == <<script, runs, loaded, node>>
vars == <<mvars, dvars, svars>>

Init ==
  /\ K!Init /\ D!Init
  /\ script = "off" /\ runs = 0 /\ loaded = 0 /\ node = "none"

(***************************************************************************)
(* run.sh: set -e ends it at the first command that fails.                 *)
(***************************************************************************)
begin ==
  /\ script \in {"off", "done", "failed"} /\ runs < MaxRuns
  /\ script' = "pkill" /\ runs' = runs + 1
  /\ UNCHANGED <<mvars, dvars, loaded, node>>

\* pkill keycipher_daemon || true, and sleep 1, which is not waiting for its end.
pkill ==
  /\ script = "pkill"
  /\ \/ D!signal
     \/ (dpc = "off" \/ sigs = MaxSignals) /\ UNCHANGED dvars
  /\ script' = "rmmod"
  /\ UNCHANGED <<mvars, runs, loaded, node>>

\* rmmod keycipher_mod || true
rmmod ==
  /\ script = "rmmod"
  /\ \/ K!rmmod /\ script' = "unload"
     \/ (mstate = "absent" \/ files # {}) /\ script' = "insmod" /\ UNCHANGED mvars
  /\ UNCHANGED <<dvars, runs, loaded, node>>

rmmod_returns ==
  /\ script = "unload" /\ mstate = "absent"
  /\ script' = "insmod"
  /\ UNCHANGED <<mvars, dvars, runs, loaded, node>>

\* Mutant: run.sh goes on when insmod reports that the module exists.
insmod_KeepsOld ==
  /\ script = "insmod"
  /\ \/ K!insmod /\ script' = "load" /\ loaded' = runs
     \/ mstate # "absent" /\ script' = "nodes" /\ UNCHANGED <<mvars, loaded>>
  /\ UNCHANGED <<dvars, runs, node>>

\* insmod: EEXIST when rmmod was refused.
insmod ==
  /\ script = "insmod"
  /\ \/ K!insmod /\ script' = "load" /\ loaded' = runs
     \/ mstate # "absent" /\ script' = "failed" /\ UNCHANGED <<mvars, loaded>>
  /\ UNCHANGED <<dvars, runs, node>>

\* Mutant: only the success of insmod is waited for.
insmod_returns_OnlyLive ==
  /\ script = "load" /\ mstate = "live"
  /\ script' = "nodes"
  /\ UNCHANGED <<mvars, dvars, runs, loaded, node>>

insmod_returns ==
  /\ script = "load"
  /\ \/ mstate = "live" /\ script' = "nodes"
     \/ mstate = "absent" /\ script' = "failed"
  /\ UNCHANGED <<mvars, dvars, runs, loaded, node>>

\* The major number from /proc/devices, rm -f, mknod and chmod.
mknod ==
  /\ script = "nodes"
  /\ script' = IF "region" \in reg THEN "start" ELSE "failed"
  /\ node' = IF "region" \in reg THEN "match" ELSE node
  /\ UNCHANGED <<mvars, dvars, runs, loaded>>

\* A make or the generation of the certificate fails.
build_fails ==
  /\ script \in {"rmmod", "start"}
  /\ script' = "failed"
  /\ UNCHANGED <<mvars, dvars, runs, loaded, node>>

\* The daemon in the background.  The builds have given an old one time to end:
\* two daemons at once are not modelled.
start_daemon ==
  /\ script = "start" /\ D!start
  /\ script' = "done"
  /\ UNCHANGED <<mvars, runs, loaded, node>>

script_step ==
  \/ pkill \/ rmmod \/ rmmod_returns \/ insmod \/ insmod_returns
  \/ mknod \/ build_fails \/ start_daemon

(***************************************************************************)
(* The module                                                              *)
(***************************************************************************)
\* alloc_chrdev_region takes any major number: the nodes that an earlier run has
\* left may fit it or not.
init_step ==
  /\ K!keycipher_init
  /\ IF mpc = "region" /\ node # "none" THEN node' \in {"match", "other"}
                                        ELSE UNCHANGED node
  /\ UNCHANGED <<dvars, script, runs, loaded>>

module_step ==
  \/ init_step
  \/ /\ \/ K!proc_stats_init \/ K!input_intercept_init \/ K!init_fails
        \/ K!input_intercept_exit \/ K!remove
     /\ UNCHANGED <<dvars, svars>>

\* The inbox terminal.
terminal(u) ==
  /\ \/ node = "match" /\ K!keycipher_open(u)
     \/ K!keycipher_release(u)
     \/ K!call_too_early(u)
  /\ UNCHANGED <<dvars, svars>>

type_line == K!input_event_handler /\ UNCHANGED <<dvars, svars>>

line_stored == K!fifo_write_wakes /\ UNCHANGED <<dvars, svars>>

(***************************************************************************)
(* The daemon                                                              *)
(***************************************************************************)
\* direct_send_loop opens /dev/keycipher_out, or ends when it cannot.
start_threads ==
  /\ D!start_threads
  /\ IF node = "match" /\ "cdev_out" \in reg /\ mstate # "going"
     THEN K!keycipher_open("daemon") ELSE UNCHANGED mvars
  /\ UNCHANGED svars

\* The end of the process closes its device file.
process_ends ==
  /\ D!startup_fails \/ D!main_returns \/ D!killed
  /\ IF "daemon" \in files THEN K!keycipher_release("daemon") ELSE UNCHANGED mvars
  /\ UNCHANGED svars

main_step == D!main_step /\ UNCHANGED <<mvars, svars>>

send_step ==
  /\ K!keycipher_out_read("daemon") \/ K!call_too_early("daemon")
  /\ UNCHANGED <<dvars, svars>>

other_threads == D!thread_step /\ UNCHANGED <<mvars, svars>>

ctrl_c == D!signal /\ UNCHANGED <<mvars, svars>>

Next ==
  \/ begin \/ script_step
  \/ module_step \/ type_line \/ line_stored
  \/ \E u \in Terminals : terminal(u)
  \/ start_threads \/ process_ends \/ main_step \/ send_step
  \/ other_threads \/ ctrl_c

Spec == Init /\ [][Next]_vars

\* Processes, insmod and rmmod run on; nobody must press a key or Ctrl-C, connect
\* or run the script again.
Fairness ==
  /\ WF_vars(script_step) /\ WF_vars(module_step)
  /\ WF_vars(start_threads \/ process_ends \/ main_step)
  /\ WF_vars(send_step) /\ WF_vars(line_stored)

FairSpec == Spec /\ Fairness

(***************************************************************************)
(* Properties                                                              *)
(***************************************************************************)
\* A module that is gone has left nothing registered, whichever call of
\* keycipher_init failed and whichever label it went to.
CleanAbsence == mstate = "absent" => reg = {}

\* In the first run of run.sh nothing reaches a FIFO before fifo_init, and no file
\* is open when an init that failed frees the module: the devices exist before the
\* FIFOs are ready, but no node leads to them yet.  (A later run finds the nodes of
\* the earlier one, and may.)
FirstLoadIsSafe == runs = 1 => ~misused

\* "Reload kernel module cleanly": a run that gets to its end has the module
\* loaded that it has inserted itself, with nodes that lead to it.
ReloadIsClean == script = "done" => mstate = "live" /\ loaded = runs /\ node = "match"

\* The addresses among the first i lines of c.
rank(c, i) == Cardinality({j \in 1..i : c[j] \in Ips})

\* When peer_manager_init returns, the k-th peer is the k-th address of peers.conf,
\* up to MAX_PEERS, however blank lines, comments and lines that are too long lie
\* between them; as long as no signal has emptied the table meanwhile and no
\* comment is too long for the line buffer.
PeersAreConfigured ==
  dpc = "ssl" /\ sigs = 0 /\ (\A i \in DOMAIN conf : conf[i] # "rest") =>
    /\ \A i \in DOMAIN conf : conf[i] \in Ips /\ rank(conf, i) <= MAX_PEERS =>
                                peers[rank(conf, i)] = conf[i]
    /\ Len(peers) = IF rank(conf, Len(conf)) < MAX_PEERS THEN rank(conf, Len(conf))
                                                         ELSE MAX_PEERS

\* Until a signal comes, nothing uses a freed context or another thread's
\* descriptor, and server_init and the connections under way hold one reference
\* to the context each: what starts in any order takes nothing from the others.
CleanUntilSignalled ==
  sigs = 0 => ~spoiled /\ (accepting \/ conns > 0 => ctx = 1 + conns)

\* The script ends, done or failed, unless rmmod waits for a keyboard event that
\* sleeps on a full outbox with no daemon left to read it.
ScriptEnds ==
  script \notin {"off", "done", "failed"}
     ~> \/ script \in {"done", "failed"}
        \/ key = "asleep" /\ "daemon" \notin files

\* A keyboard whose event handler sleeps on the full outbox comes back as long as
\* the daemon has the outbox open.
KeyboardComesBack == key = "asleep" ~> key = "idle" \/ "daemon" \notin files

\* A daemon that has been signalled, at whatever stage, ends.
DaemonStops == dpc # "off" /\ sigs > 0 ~> dpc = "off"

\* server.c: "shut down server cleanly".  No context is used after it has been
\* freed, and no descriptor closed that has become another thread's.
StopIsClean == ~spoiled
=============================================================================
