------------------------------- MODULE Daemon -------------------------------
(***************************************************************************)
(* The daemon as a process (userspace/main.c): start, signals and stop,    *)
(* with server_init, server_accept_loop and server_stop                    *)
(* (userspace/network/server.c) and the loading of peers.conf              *)
(* (userspace/network/peer_manager.c).                                     *)
(*                                                                         *)
(* A signal is handled by the main thread, wherever it is: between two of  *)
(* its stages here.  Its handler stops the server and main stops it again. *)
(***************************************************************************)
EXTENDS Integers, SequencesExt

CONSTANTS MAX_PEERS,
          Ips,           \* addresses in peers.conf
          Confs,         \* what peers.conf may hold, in the pieces fgets returns
          MaxConns,      \* bound on connections served at once
          MaxSignals     \* bound on the signals a daemon is sent

VARIABLES dpc,           \* stage of main, "off" without a daemon
          hpc,           \* stage of signal_handler, "none" outside it
          running,       \* main.c's running
          srv_running,   \* server.c's running
          ctx,           \* references to *ssl_ctx: NULL, or 0 when it is freed
          listen_fd,     \* "unset", "open", "closed", or "other" when its number
                         \* is by now another thread's descriptor
          accepting,     \* server_accept_loop is running
          conns,         \* connections being served
          conf,          \* what fgets returns of peers.conf, call by call, and
          pos,           \* the calls so far, as long as the file is open
          peers,         \* peers[0..peer_count-1], until they are loaded
          listed,        \* peer_count is not 0
          peer_fd,       \* the peers' sockets: "none" without connect threads,
                         \* else like listen_fd
          sigs,          \* signals so far
          spoiled        \* this process has used the freed context, or another
                         \* thread's descriptor was closed or written to

NULL == -1

table == <<conf, pos, peers, listed>>

\* fgets takes a line of MAX_LINE characters or more in pieces: the first piece of
\* an overlong comment starts with #, its last one is taken for an address unless
\* it is too long for one.
Pieces == Ips \cup {"blank or comment", "ip too long", "rest"}

(***************************************************************************)
(* The process                                                             *)
(***************************************************************************)
Init ==
  /\ dpc = "off" /\ hpc = "none"
  /\ running = TRUE /\ srv_running = TRUE
  /\ ctx = NULL /\ listen_fd = "unset" /\ accepting = FALSE /\ conns = 0
  /\ conf = <<>> /\ pos = 0 /\ peers = <<>> /\ listed = FALSE /\ peer_fd = "none"
  /\ sigs = 0 /\ spoiled = FALSE

\* The process ends, and its memory, threads and descriptors with it.
end_process ==
  /\ dpc' = "off" /\ hpc' = "none"
  /\ running' = TRUE /\ srv_running' = TRUE
  /\ ctx' = NULL /\ listen_fd' = "unset" /\ accepting' = FALSE /\ conns' = 0
  /\ conf' = <<>> /\ pos' = 0 /\ peers' = <<>> /\ listed' = FALSE /\ peer_fd' = "none"
  /\ sigs' = 0 /\ spoiled' = FALSE

at(stage) == dpc = stage /\ hpc = "none"

start ==
  /\ dpc = "off"
  /\ dpc' = "peers"
  /\ UNCHANGED <<hpc, running, srv_running, ctx, listen_fd, accepting, conns, table, peer_fd, sigs, spoiled>>

\* peer_manager_init sets peer_count to 0 and opens the file.
fopen ==
  /\ at("peers")
  /\ dpc' = "lines"
  /\ conf' \in Confs /\ pos' = 0 /\ peers' = <<>> /\ listed' = FALSE
  /\ UNCHANGED <<hpc, running, srv_running, ctx, listen_fd, accepting, conns, peer_fd, sigs, spoiled>>

add_peer(line) ==
  /\ peers' = Append(peers, line) /\ listed' = TRUE
  /\ UNCHANGED dpc

\* Mutant: off by one at MAX_PEERS.
read_line_OneMore ==
  /\ at("lines") /\ pos < Len(conf)
  /\ pos' = pos + 1
  /\ LET line == conf[pos + 1] IN
       IF line # "blank or comment" /\ Len(peers) > MAX_PEERS
       THEN dpc' = "ssl" /\ UNCHANGED <<peers, listed>>
       ELSE \/ line \in Ips \cup {"rest"} /\ add_peer(line)
            \/ line \in {"blank or comment", "ip too long"} /\ UNCHANGED <<dpc, peers, listed>>
  /\ UNCHANGED <<hpc, running, srv_running, ctx, listen_fd, accepting, conns, conf, peer_fd, sigs, spoiled>>

\* The loop of peer_manager_init: it ends at the first line for which peers[] has
\* no room, whether an address or not.
read_line ==
  /\ at("lines") /\ pos < Len(conf)
  /\ pos' = pos + 1
  /\ LET line == conf[pos + 1] IN
       IF line # "blank or comment" /\ Len(peers) >= MAX_PEERS
       THEN dpc' = "ssl" /\ UNCHANGED <<peers, listed>>
       ELSE \/ line \in Ips \cup {"rest"} /\ add_peer(line)
            \/ line \in {"blank or comment", "ip too long"} /\ UNCHANGED <<dpc, peers, listed>>
  /\ UNCHANGED <<hpc, running, srv_running, ctx, listen_fd, accepting, conns, conf, peer_fd, sigs, spoiled>>

\* fgets returns NULL.
end_of_file ==
  /\ at("lines") /\ pos = Len(conf)
  /\ dpc' = "ssl"
  /\ UNCHANGED <<hpc, running, srv_running, ctx, listen_fd, accepting, conns, table, peer_fd, sigs, spoiled>>

\* server_init: SSL_CTX_new.  Nothing here depends on the addresses from now on.
server_init_ssl ==
  /\ at("ssl")
  /\ ctx' = 1
  /\ dpc' = "listen"
  /\ conf' = <<>> /\ pos' = 0 /\ peers' = <<>>
  /\ UNCHANGED <<hpc, running, srv_running, listen_fd, accepting, conns, listed, peer_fd, sigs, spoiled>>

\* server_init: certificate and key into the context, the socket, the thread.
server_init_listen ==
  /\ at("listen")
  /\ listen_fd' = "open" /\ accepting' = srv_running
  /\ spoiled' = (spoiled \/ ctx = 0)
  /\ dpc' = "threads"
  /\ UNCHANGED <<hpc, running, srv_running, ctx, conns, table, peer_fd, sigs>>

\* peers.conf, the context, a certificate or the socket fails: main returns 1.
startup_fails ==
  /\ at("peers") \/ at("ssl") \/ at("listen")
  /\ end_process

\* The connect threads, the send thread and the API thread are started.
start_threads ==
  /\ at("threads")
  /\ dpc' = "loop"
  /\ peer_fd' = IF listed THEN "unset" ELSE "none"
  /\ UNCHANGED <<hpc, running, srv_running, ctx, listen_fd, accepting, conns, table, sigs, spoiled>>

\* Mutant: the handler leaves main's running alone.
signal_KeepsRunning ==
  /\ dpc # "off" /\ hpc = "none"
  /\ sigs < MaxSignals
  /\ sigs' = sigs + 1
  /\ hpc' = "stop"
  /\ UNCHANGED <<dpc, running, srv_running, ctx, listen_fd, accepting, conns, table, peer_fd, spoiled>>

\* SIGINT or SIGTERM: signal_handler begins.
signal ==
  /\ dpc # "off" /\ hpc = "none"
  /\ sigs < MaxSignals
  /\ sigs' = sigs + 1
  /\ running' = FALSE /\ hpc' = "stop"
  /\ UNCHANGED <<dpc, srv_running, ctx, listen_fd, accepting, conns, table, peer_fd, spoiled>>

\* Before server_init has made the socket listen_fd is 0, and close takes stdin.
\* SSL_CTX_free does nothing with NULL; on a freed context its effect is
\* undefined: nothing, or the process is killed (killed).
server_stop ==
  /\ srv_running' = FALSE
  /\ listen_fd' = IF listen_fd = "unset" THEN "unset" ELSE "closed"
  /\ ctx' = IF ctx > 0 THEN ctx - 1 ELSE ctx
  /\ spoiled' = (spoiled \/ listen_fd = "other" \/ ctx = 0)

\* Only peers that are still counted are closed.
peer_manager_cleanup ==
  /\ peer_fd' = IF listed /\ peer_fd = "open" THEN "closed" ELSE peer_fd
  /\ peers' = <<>> /\ listed' = FALSE
  /\ UNCHANGED <<conf, pos>>

\* server_stop and peer_manager_cleanup in the handler, which then returns.
handler_stops ==
  /\ hpc = "stop"
  /\ server_stop /\ peer_manager_cleanup
  /\ hpc' = "none"
  /\ UNCHANGED <<dpc, running, accepting, conns, sigs>>

\* while (running) sleep(1); then main stops all of it itself.
main_stops ==
  /\ at("loop") /\ ~running
  /\ server_stop /\ peer_manager_cleanup
  /\ dpc' = "exit"
  /\ UNCHANGED <<hpc, running, accepting, conns, sigs>>

main_returns == at("exit") /\ end_process

\* A thread that has used a freed context may bring the process down.
killed == dpc # "off" /\ spoiled /\ end_process

\* Another thread's socket() or open() gets the number that close() set free.
descriptor_reused ==
  /\ dpc # "off"
  /\ \/ listen_fd = "closed" /\ listen_fd' = "other" /\ UNCHANGED peer_fd
     \/ peer_fd = "closed" /\ peer_fd' = "other" /\ UNCHANGED listen_fd
  /\ UNCHANGED <<dpc, hpc, running, srv_running, ctx, accepting, conns, table, sigs, spoiled>>

\* A connect thread connects, at first or after the send thread's write has failed.
client_connect ==
  /\ dpc # "off" /\ peer_fd \in {"unset", "closed", "other"}
  /\ peer_fd' = "open"
  /\ UNCHANGED <<dpc, hpc, running, srv_running, ctx, listen_fd, accepting, conns, table, sigs, spoiled>>

\* The send thread writes to the number that peer->ssl still holds.
client_send_message ==
  /\ dpc # "off" /\ peer_fd = "other"
  /\ spoiled' = TRUE
  /\ UNCHANGED <<dpc, hpc, running, srv_running, ctx, listen_fd, accepting, conns, table, peer_fd, sigs>>

\* server_accept_loop: accept returns a connection, even if the socket has been
\* closed while the thread slept in accept, and its thread calls SSL_new.
accept_connection ==
  /\ dpc # "off" /\ accepting /\ conns < MaxConns
  /\ conns' = conns + 1
  /\ ctx' = IF ctx > 0 THEN ctx + 1 ELSE ctx
  /\ spoiled' = (spoiled \/ ctx = 0)
  /\ accepting' = srv_running
  /\ UNCHANGED <<dpc, hpc, running, srv_running, listen_fd, table, peer_fd, sigs>>

\* accept fails on the closed socket and the loop ends.
accept_fails ==
  /\ dpc # "off" /\ accepting /\ ~srv_running
  /\ accepting' = FALSE
  /\ UNCHANGED <<dpc, hpc, running, srv_running, ctx, listen_fd, conns, table, peer_fd, sigs, spoiled>>

\* Mutant: the end of a connection frees the context as well.
connection_ends_FreesContext ==
  /\ dpc # "off" /\ conns > 0
  /\ conns' = conns - 1
  /\ ctx' = IF ctx > 1 THEN ctx - 2 ELSE 0
  /\ spoiled' = (spoiled \/ ctx = 0)
  /\ UNCHANGED <<dpc, hpc, running, srv_running, listen_fd, accepting, table, peer_fd, sigs>>

\* server_handle_connection ends with SSL_free.
connection_ends ==
  /\ dpc # "off" /\ conns > 0
  /\ conns' = conns - 1
  /\ ctx' = IF ctx > 0 THEN ctx - 1 ELSE ctx
  /\ spoiled' = (spoiled \/ ctx = 0)
  /\ UNCHANGED <<dpc, hpc, running, srv_running, listen_fd, accepting, table, peer_fd, sigs>>

\* What main does by itself; start_threads and the ways it ends are in System.
main_step ==
  \/ fopen \/ read_line \/ end_of_file
  \/ server_init_ssl \/ server_init_listen \/ handler_stops \/ main_stops

\* What the other threads do.
thread_step ==
  \/ descriptor_reused \/ client_connect \/ client_send_message \/ accept_connection
  \/ accept_fails \/ connection_ends
=============================================================================
