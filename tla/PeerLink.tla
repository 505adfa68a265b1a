------------------------------ MODULE PeerLink ------------------------------
(***************************************************************************)
(* The sending half of the daemon and the peers it talks to:               *)
(*  - direct_send_loop (userspace/messaging/direct.c), the one thread that *)
(*    takes messages from the outbox and hands each to client_broadcast;   *)
(*  - client_connect_thread (userspace/network/client.c), one for each     *)
(*    peer, which makes the connection and makes it again;                 *)
(*  - the peer's server, which serves one request on a connection, answers *)
(*    and closes it (server.c; module Inbox has the details).              *)
(*                                                                         *)
(* The two kinds of thread share peer->status and peer->ssl without a      *)
(* lock.  Peers are numbered in the order of peers[], messages in the      *)
(* order in which they leave the outbox.                                   *)
(***************************************************************************)
EXTENDS Integers, SequencesExt, FiniteSets, Functions

CONSTANTS PeerCount, MAX_MESSAGES,
          FIFO_SIZE,     \* slots of each peer's inbox
          MaxMsgs,       \* bound on the messages sent
          MaxFaults      \* bound on the failures of the network and of peers

Peers == 1..PeerCount
Msgs  == 1..MaxMsgs

ASSUME PeerAssumption ==
  /\ PeerCount \in Nat \ {0} /\ FIFO_SIZE \in Nat \ {0}
  /\ MAX_MESSAGES \in Nat \ {0}
  /\ MaxMsgs \in Nat /\ MaxFaults \in Nat

VARIABLES status,        \* peer->status
          link,          \* the connection behind peer->ssl
          cpc,           \* stage of each peer's client_connect_thread
          spc, at, msg,  \* send thread: stage, loop index, message
          held,          \* the connection in SSL_read is still peer->ssl
          outbox,        \* <<message, outbox_waiting>>
          alive,         \* the daemon has not been killed
          req,           \* request in the hands of the handler of link[p]
          orphans,       \* requests in the hands of handlers nobody listens to
          used,          \* messages in the peer's inbox
          delivered,     \* history: messages the peer has stored
          tried,         \* history: <<peer, message>> given to client_send_message
          faults         \* history: failures so far

client == <<status, cpc, spc, at, msg, held, outbox, alive, tried>>
server == <<req, orphans, used, delivered>>
vars   == <<client, link, server, faults>>

(***************************************************************************)
(* A connection is made ("handshake", "open"), receives the headers        *)
(* ("headers") and the body ("busy"), is answered and closed by the server *)
(* with a status the client has not read yet, and is then "closed".  A     *)
(* body without headers leaves the server waiting ("garbled").             *)
(***************************************************************************)
Answers    == {"200", "429", "503"}
LinkStates == {"none", "handshake", "open", "headers", "busy", "garbled", "closed"}
                \cup Answers
Statuses   == {"CONNECTED", "BLOCKED", "OFFLINE"}
InRequest  == {"write_headers", "write_body", "read", "answer", "backoff"}

\* peer_manager_init, and main before it starts the threads.
Init ==
  /\ status = [p \in Peers |-> "OFFLINE"]
  /\ link = [p \in Peers |-> "none"]
  /\ cpc = [p \in Peers |-> "connect"]
  /\ spc = "idle" /\ at = 0 /\ msg = 0 /\ held = FALSE
  /\ outbox = <<>>
  /\ alive = TRUE
  /\ req = [p \in Peers |-> 0] /\ orphans = [p \in Peers |-> <<>>]
  /\ used = [p \in Peers |-> 0] /\ delivered = [p \in Peers |-> <<>>]
  /\ tried = {} /\ faults = 0

set_status(p, s) == status' = [status EXCEPT ![p] = s]
set_link(p, s)   == link' = [link EXCEPT ![p] = s]
fault == faults < MaxFaults /\ faults' = faults + 1

(***************************************************************************)
(* client_connect_thread                                                   *)
(***************************************************************************)
thread(p, from, to) ==
  /\ alive
  /\ cpc[p] = from
  /\ cpc' = [cpc EXCEPT ![p] = to]

\* Mutant: the thread ends when the peer cannot be reached.
connect_fails_GiveUp(p) ==
  /\ fault
  /\ thread(p, "connect", "ended")
  /\ set_status(p, "OFFLINE")
  /\ UNCHANGED <<link, spc, at, msg, held, outbox, alive, tried, server>>

\* socket, inet_pton, connect or SSL_CTX_new fails.
connect_fails(p) ==
  /\ fault
  /\ thread(p, "connect", "sleep")
  /\ set_status(p, "OFFLINE")
  /\ UNCHANGED <<link, spc, at, msg, held, outbox, alive, tried, server>>

\* connect succeeds and peer->ssl = SSL_new: the old SSL object is forgotten,
\* neither shut down nor freed, and its socket is left open.
connect_ssl(p) ==
  /\ thread(p, "connect", "handshake")
  /\ set_link(p, "handshake")
  /\ held' = (held /\ at # p)
  /\ orphans' = IF link[p] = "busy" THEN [orphans EXCEPT ![p] = Append(@, req[p])]
                ELSE orphans
  /\ UNCHANGED <<status, spc, at, msg, outbox, alive, tried, req, used, delivered, faults>>

SSL_connect(p) ==
  /\ \/ /\ thread(p, "handshake", "connected")
        /\ set_link(p, "open")
        /\ UNCHANGED <<status, faults>>
     \/ /\ fault
        /\ thread(p, "handshake", "sleep")
        /\ set_link(p, "closed")
        /\ set_status(p, "OFFLINE")
  /\ UNCHANGED <<spc, at, msg, held, outbox, alive, tried, server>>

set_connected(p) ==
  /\ thread(p, "connected", "watch")
  /\ set_status(p, "CONNECTED")
  /\ UNCHANGED <<link, spc, at, msg, held, outbox, alive, tried, server, faults>>

\* Mutant: the thread connects again whatever the status.
watch_status_Ignored(p) ==
  /\ thread(p, "watch", "sleep")
  /\ UNCHANGED <<status, link, spc, at, msg, held, outbox, alive, tried, server, faults>>

\* while (peer->status == PEER_CONNECTED) sleep(1);
watch_status(p) ==
  /\ status[p] # "CONNECTED"
  /\ thread(p, "watch", "sleep")
  /\ UNCHANGED <<status, link, spc, at, msg, held, outbox, alive, tried, server, faults>>

\* sleep(5)
reconnect(p) ==
  /\ thread(p, "sleep", "connect")
  /\ UNCHANGED <<status, link, spc, at, msg, held, outbox, alive, tried, server, faults>>

(***************************************************************************)
(* direct_send_loop and client_broadcast                                   *)
(***************************************************************************)
\* read() returns a message; a full outbox list does not take it up.
read_outbox ==
  /\ alive
  /\ spc = "idle" /\ msg < MaxMsgs
  /\ msg' = msg + 1
  /\ outbox' = IF Len(outbox) < MAX_MESSAGES THEN Append(outbox, <<msg + 1, 1>>)
               ELSE outbox
  /\ spc' = "loop" /\ at' = 1
  /\ UNCHANGED <<status, cpc, held, alive, tried, link, server, faults>>

\* The body of the loop over peers[]: only a connected peer is sent to.
next_peer ==
  /\ alive
  /\ spc = "loop" /\ at <= PeerCount
  /\ IF status[at] = "CONNECTED"
     THEN /\ spc' = "write_headers"
          /\ tried' = tried \cup {<<at, msg>>}
          /\ UNCHANGED at
     ELSE at' = at + 1 /\ UNCHANGED <<spc, tried>>
  /\ UNCHANGED <<status, cpc, msg, held, outbox, alive, link, server, faults>>

\* "mark sent"
mark_sent ==
  /\ alive
  /\ spc = "loop" /\ at > PeerCount
  /\ outbox' = [i \in DOMAIN outbox |->
                  IF outbox[i][1] = msg THEN <<msg, 0>> ELSE outbox[i]]
  /\ spc' = "idle" /\ at' = 0
  /\ UNCHANGED <<status, cpc, msg, held, alive, tried, link, server, faults>>

(***************************************************************************)
(* client_send_message.  peer->ssl is loaded again by every call.          *)
(***************************************************************************)
stage(s) == alive /\ spc = s

\* The call returns with this status and the loop goes on to the next peer.
return_with(s) ==
  /\ set_status(at, s)
  /\ spc' = "loop" /\ at' = at + 1

\* A connection that will never carry a request: closed, or in the hands of
\* SSL_connect in the other thread.
Dead(p) == link[p] \in {"closed", "handshake"}

\* SSL_write of the headers.  The first bytes written after the server closed
\* are accepted by the local TCP and lost.
write_headers ==
  /\ stage("write_headers")
  /\ \/ /\ link[at] = "open"
        /\ set_link(at, "headers")
        /\ spc' = "write_body" /\ UNCHANGED <<status, at>>
     \/ /\ Dead(at)
        /\ \/ spc' = "write_body" /\ UNCHANGED <<status, at>>
           \/ return_with("OFFLINE")
        /\ UNCHANGED link
  /\ UNCHANGED <<cpc, msg, held, outbox, alive, tried, server, faults>>

\* Mutant: a failed write leaves the status as it was.
write_body_KeepStatus ==
  /\ stage("write_body")
  /\ \/ /\ link[at] \in {"open", "headers"}
        /\ set_link(at, IF link[at] = "headers" THEN "busy" ELSE "garbled")
        /\ req' = [req EXCEPT ![at] = msg]
        /\ spc' = "read" /\ UNCHANGED <<status, at, alive>>
     \/ /\ Dead(at)
        /\ \/ spc' = "read" /\ UNCHANGED <<status, at, alive>>
           \/ spc' = "loop" /\ at' = at + 1 /\ UNCHANGED <<status, alive>>
           \/ alive' = FALSE /\ UNCHANGED <<spc, status, at>>
        /\ UNCHANGED <<link, req>>
  /\ UNCHANGED <<cpc, msg, held, outbox, tried, orphans, used, delivered, faults>>

\* SSL_write of the body.  When the peer's reset has come by now, the write
\* raises SIGPIPE, which the daemon neither handles nor ignores.
write_body ==
  /\ stage("write_body")
  /\ \/ /\ link[at] \in {"open", "headers"}
        /\ set_link(at, IF link[at] = "headers" THEN "busy" ELSE "garbled")
        /\ req' = [req EXCEPT ![at] = msg]
        /\ spc' = "read" /\ UNCHANGED <<status, at, alive>>
     \/ /\ Dead(at)
        /\ \/ spc' = "read" /\ UNCHANGED <<status, at, alive>>
           \/ return_with("OFFLINE") /\ UNCHANGED alive
           \/ alive' = FALSE /\ UNCHANGED <<spc, status, at>>
        /\ UNCHANGED <<link, req>>
  /\ UNCHANGED <<cpc, msg, held, outbox, tried, orphans, used, delivered, faults>>

\* SSL_read is called on the connection that peer->ssl is now.
SSL_read ==
  /\ stage("read")
  /\ spc' = "answer" /\ held' = TRUE
  /\ UNCHANGED <<status, cpc, at, msg, outbox, alive, tried, link, server, faults>>

\* Mutant: a connection that breaks before the answer is retried like a 429.
read_answer_RetryOnError ==
  /\ stage("answer")
  /\ held' = FALSE
  /\ \/ /\ held /\ link[at] \in {"200", "503"}
        /\ set_link(at, "closed")
        /\ return_with(IF link[at] = "200" THEN "CONNECTED" ELSE "OFFLINE")
     \/ /\ ~held \/ Dead(at) \/ link[at] = "429"
        /\ set_link(at, "closed")
        /\ set_status(at, "BLOCKED")
        /\ spc' = "backoff" /\ UNCHANGED at
  /\ UNCHANGED <<cpc, msg, outbox, alive, tried, server, faults>>

\* SSL_read returns: 200, 429 (PEER_BLOCKED and sleep(1)), 503, or an error.
read_answer ==
  /\ stage("answer")
  /\ held' = FALSE
  /\ \/ /\ held /\ link[at] \in {"200", "503"}
        /\ set_link(at, "closed")
        /\ return_with(IF link[at] = "200" THEN "CONNECTED" ELSE "OFFLINE")
     \/ /\ held /\ link[at] = "429"
        /\ set_link(at, "closed")
        /\ set_status(at, "BLOCKED")
        /\ spc' = "backoff" /\ UNCHANGED at
     \/ /\ ~held \/ Dead(at)
        /\ return_with("OFFLINE")
        /\ UNCHANGED link
  /\ UNCHANGED <<cpc, msg, outbox, alive, tried, server, faults>>

\* goto retry_send, on whatever peer->ssl is: the server has closed the
\* connection that it answered on.
retry_send ==
  /\ stage("backoff")
  /\ spc' = "write_headers"
  /\ UNCHANGED <<status, cpc, at, msg, held, outbox, alive, tried, link, server, faults>>

(***************************************************************************)
(* The peers and the network                                               *)
(***************************************************************************)
\* What the inbox of p does with message m, and the answer.
take_in(p, m, answer) ==
  \/ /\ used[p] < FIFO_SIZE /\ answer = "200"
     /\ used' = [used EXCEPT ![p] = @ + 1]
     /\ delivered' = [delivered EXCEPT ![p] = Append(@, m)]
     /\ UNCHANGED faults
  \/ used[p] = FIFO_SIZE /\ answer = "429" /\ UNCHANGED <<used, delivered, faults>>
  \/ fault /\ answer = "503" /\ UNCHANGED <<used, delivered>>

\* server_handle_connection: one request, its answer, and the connection closed.
server_handle_connection(p) ==
  /\ link[p] = "busy"
  /\ \E answer \in Answers : take_in(p, req[p], answer) /\ set_link(p, answer)
  /\ UNCHANGED <<client, req, orphans>>

\* The same for a request whose sender is no longer connected.
handle_orphan(p) ==
  /\ orphans[p] # <<>>
  /\ \E i \in DOMAIN orphans[p] : \E answer \in Answers :
       /\ take_in(p, orphans[p][i], answer)
       /\ orphans' = [orphans EXCEPT ![p] = RemoveAt(@, i)]
  /\ UNCHANGED <<client, link, req>>

\* The connection breaks; a request that the server has in full lives on.
connection_lost(p) ==
  /\ fault
  /\ link[p] \in {"open", "headers", "busy", "garbled"} \cup Answers
  /\ set_link(p, "closed")
  /\ orphans' = IF link[p] = "busy" THEN [orphans EXCEPT ![p] = Append(@, req[p])]
                ELSE orphans
  /\ UNCHANGED <<client, req, used, delivered>>

\* Somebody at the peer reads a message.
peer_reads(p) ==
  /\ used[p] > 0
  /\ used' = [used EXCEPT ![p] = @ - 1]
  /\ UNCHANGED <<client, link, req, orphans, delivered, faults>>

-----------------------------------------------------------------------------
\* What a client_connect_thread does when nothing fails.
connect_step(p) ==
  \/ connect_ssl(p) \/ SSL_connect(p) \/ set_connected(p)
  \/ watch_status(p) \/ reconnect(p)

send_step ==
  \/ next_peer \/ mark_sent
  \/ write_headers \/ write_body \/ SSL_read \/ read_answer \/ retry_send

peer_step(p) == server_handle_connection(p) \/ handle_orphan(p)

Next ==
  \/ \E p \in Peers : connect_step(p) \/ connect_fails(p)
  \/ read_outbox \/ send_step
  \/ \E p \in Peers : peer_step(p) \/ connection_lost(p) \/ peer_reads(p)

Spec == Init /\ [][Next]_vars

(***************************************************************************)
(* The threads of the daemon and the handlers of its peers run on, and the *)
(* peers' users read their messages.  Nobody has to send, and nothing has  *)
(* to fail.                                                                *)
(***************************************************************************)
FairSpec ==
  /\ Spec
  /\ WF_vars(send_step)
  /\ \A p \in Peers : /\ WF_vars(connect_step(p))
                      /\ WF_vars(peer_step(p))
                      /\ WF_vars(peer_reads(p))

(***************************************************************************)
(* Properties                                                              *)
(***************************************************************************)
\* However connections break, are replaced and are retried after a 429, no peer
\* stores a message twice, and none that was not sent to it.
AtMostOnce ==
  \A p \in Peers : /\ IsInjective(delivered[p])
                   /\ \A m \in Range(delivered[p]) : <<p, m>> \in tried

\* "if their incoming FIFO is full; waiting" (PEER_BLOCKED, peer_manager.h): a
\* peer is shown as blocked only while the send thread is at work on its message;
\* a peer left in that status would never be sent to again.
BlockedIsWaiting ==
  \A p \in Peers : status[p] = "BLOCKED" => spc \in InRequest /\ at = p

\* client_connect_thread replaces peer->ssl under the send thread, but never a
\* connection on which a request is being written or an answer is to come.
NoRequestCutOff ==
  [][\A p \in Peers :
       connect_ssl(p) /\ spc \in InRequest /\ at = p => link[p] = "closed"]_vars

\* "if fails: sleep(5) and retry": a peer that has gone offline, for whatever
\* reason, is connected again, unless the daemon has been killed.
PeerComesBack ==
  \A p \in Peers : (status[p] = "OFFLINE") ~> (status[p] = "CONNECTED" \/ ~alive)

\* "1 = blocked, 0 = sent" (outbox_waiting, direct.c): a message that the outbox
\* lists as sent has reached every peer it was sent to.
SentIsDelivered ==
  \A i \in DOMAIN outbox : outbox[i][2] = 0 =>
    \A p \in Peers : <<p, outbox[i][1]>> \in tried => outbox[i][1] \in Range(delivered[p])
=============================================================================
