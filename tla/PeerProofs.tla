---------------------------- MODULE PeerProofs ----------------------------
(***************************************************************************)
(* Proofs about PeerLink, for any number of peers, messages and failures,  *)
(* and any size of the outbox list and of the peers' inboxes.              *)
(***************************************************************************)
EXTENDS PeerLink, SequenceTheorems, TLAPS

ConnStages == {"connect", "handshake", "connected", "watch", "sleep"}

TypeInv ==
  /\ status \in [Peers -> Statuses]
  /\ link \in [Peers -> LinkStates]
  /\ cpc \in [Peers -> ConnStages]
  /\ spc \in {"idle", "loop"} \cup InRequest
  /\ at \in Nat /\ msg \in Nat
  /\ req \in [Peers -> Nat]
  /\ orphans \in [Peers -> Seq(Nat)]
  /\ delivered \in [Peers -> Seq(Nat)]
  /\ tried \subseteq Peers \X Nat

\* A request is always for one of the peers.
AtInv ==
  /\ spc \in InRequest => at \in Peers
  /\ spc = "loop" => at # 0

\* The two kinds of thread in step: while the send thread is at work on p, the
\* other one has given p up only if the connection is of no use any more.
ThreadInv ==
  \A p \in Peers :
    /\ spc \in InRequest /\ at = p
         => /\ cpc[p] \in {"sleep", "connect"} => link[p] = "closed"
            /\ cpc[p] = "watch" /\ status[p] # "CONNECTED" => link[p] = "closed"
    /\ status[p] = "CONNECTED" => cpc[p] \in {"connected", "watch"}
    /\ cpc[p] = "handshake" => link[p] = "handshake"

\* Only the connection the send thread is at work on carries anything, and once a
\* request is on it the thread waits for the answer there.
LinkInv ==
  \A p \in Peers :
    /\ link[p] = "headers" => at = p /\ spc = "write_body"
    /\ link[p] \in {"busy", "garbled"} \cup Answers
         => at = p /\ spc \in {"read", "answer"} /\ (spc = "answer" => held)
    /\ link[p] \in {"busy"} \cup Answers => req[p] = msg

ClientInv == TypeInv /\ AtInv /\ BlockedIsWaiting /\ ThreadInv /\ LinkInv

LEMMA AfterFacts ==
  ASSUME NEW S, NEW s \in Seq(S), NEW k \in 1..Len(s)
  PROVE  /\ SubSeq(s, k + 1, Len(s)) \in Seq(S)
         /\ Len(SubSeq(s, k + 1, Len(s))) = Len(s) - k
         /\ \A j \in 1..Len(s) - k : SubSeq(s, k + 1, Len(s))[j] = s[k + j]
<1>1. Len(s) \in Nat /\ k \in Nat /\ k >= 1 /\ k <= Len(s)
  BY LenProperties
<1> QED BY <1>1

LEMMA RemoveFacts ==
  ASSUME NEW S, NEW s \in Seq(S), NEW i \in DOMAIN s
  PROVE  /\ RemoveAt(s, i) \in Seq(S) /\ Len(s) \in Nat /\ DOMAIN s = 1..Len(s)
         /\ DOMAIN RemoveAt(s, i) = 1..Len(s) - 1
         /\ \A j \in 1..Len(s) - 1 : RemoveAt(s, i)[j] = IF j < i THEN s[j] ELSE s[j + 1]
<1>1. Len(s) \in Nat /\ DOMAIN s = 1..Len(s) /\ s \in [1..Len(s) -> S]
  BY LenProperties
<1>2. i \in 1..Len(s) /\ i \in Nat /\ i >= 1 /\ i <= Len(s)
  BY <1>1
<1> DEFINE a == SubSeq(s, 1, i - 1)
           b == SubSeq(s, i + 1, Len(s))
<1>3. a \in Seq(S) /\ Len(a) = i - 1 /\ \A j \in 1..i - 1 : a[j] = s[j]
  BY <1>1, <1>2
<1>4. /\ b \in Seq(S) /\ Len(b) = Len(s) - i
      /\ \A j \in 1..Len(s) - i : b[j] = s[i + j]
  BY <1>2, AfterFacts
<1>5. RemoveAt(s, i) = a \o b
  BY DEF RemoveAt
<1> HIDE DEF a, b
<1>6. /\ a \o b \in Seq(S) /\ Len(a \o b) = Len(s) - 1
      /\ \A j \in 1..Len(s) - 1 : (a \o b)[j] = IF j <= i - 1 THEN a[j] ELSE b[j - (i - 1)]
  <2>1. /\ a \o b \in Seq(S) /\ Len(a \o b) = Len(a) + Len(b)
        /\ \A j \in 1..Len(a) + Len(b) : (a \o b)[j] = IF j <= Len(a) THEN a[j] ELSE b[j - Len(a)]
    BY <1>3, <1>4, ConcatProperties
  <2>2. Len(a) = i - 1 /\ Len(a) + Len(b) = Len(s) - 1
    BY <1>1, <1>2, <1>3, <1>4
  <2> QED BY <2>1, <2>2
<1>7. DOMAIN (a \o b) = 1..Len(s) - 1
  BY <1>6, LenProperties
<1>8. ASSUME NEW j \in 1..Len(s) - 1
      PROVE  (a \o b)[j] = IF j < i THEN s[j] ELSE s[j + 1]
  <2>1. CASE j <= i - 1
    BY <2>1, <1>1, <1>2, <1>3, <1>6
  <2>2. CASE ~ (j <= i - 1)
    <3>1. j - (i - 1) \in 1..Len(s) - i /\ i + (j - (i - 1)) = j + 1
      BY <2>2, <1>1, <1>2
    <3>2. b[j - (i - 1)] = s[j + 1]
      BY <3>1, <1>4
    <3>3. (a \o b)[j] = b[j - (i - 1)]
      BY <2>2, <1>6
    <3>4. ~ (j < i)
      BY <2>2, <1>1, <1>2
    <3> QED BY <3>2, <3>3, <3>4
  <2> QED BY <2>1, <2>2
<1> QED BY <1>1, <1>5, <1>6, <1>7, <1>8

(***************************************************************************)
(* The threads of the daemon                                               *)
(***************************************************************************)
LEMMA ConnectStep ==
  ASSUME ClientInv, NEW p \in Peers, connect_step(p) \/ connect_fails(p)
  PROVE  ClientInv'
<1> USE DEF ClientInv, TypeInv, AtInv, BlockedIsWaiting, ThreadInv, LinkInv,
            set_status, set_link, thread, fault, server, Statuses, LinkStates, ConnStages,
            InRequest, Answers
<1>1. CASE connect_fails(p)
  BY <1>1 DEF connect_fails
<1>2. CASE connect_ssl(p)
  <2>1. /\ alive /\ cpc[p] = "connect" /\ cpc' = [cpc EXCEPT ![p] = "handshake"]
        /\ link' = [link EXCEPT ![p] = "handshake"]
        /\ UNCHANGED <<status, spc, at, msg, tried, req, delivered>>
    BY <1>2 DEF connect_ssl
  <2>2. at # p /\ held => held'
    BY <1>2, Zenon DEF connect_ssl
  <2>3. orphans' \in [Peers -> Seq(Nat)]
    <3>1. Append(orphans[p], req[p]) \in Seq(Nat)
      BY AppendProperties
    <3> QED BY <1>2, <3>1 DEF connect_ssl
  <2>4. TypeInv' /\ AtInv' /\ BlockedIsWaiting'
    BY <2>1, <2>3
  <2>5. ThreadInv'
    BY <2>1
  <2>6. LinkInv'
    BY <2>1, <2>2
  <2> QED BY <2>4, <2>5, <2>6
<1>3. CASE SSL_connect(p)
  <2>1. /\ UNCHANGED <<spc, at, msg, held, tried, req, orphans, delivered>>
        /\ cpc[p] = "handshake"
        /\ \/ /\ cpc' = [cpc EXCEPT ![p] = "connected"] /\ link' = [link EXCEPT ![p] = "open"]
              /\ UNCHANGED status
           \/ /\ cpc' = [cpc EXCEPT ![p] = "sleep"] /\ link' = [link EXCEPT ![p] = "closed"]
              /\ status' = [status EXCEPT ![p] = "OFFLINE"]
    BY <1>3 DEF SSL_connect
  <2>2. TypeInv' /\ AtInv' /\ BlockedIsWaiting'
    BY <2>1
  <2>3. ThreadInv'
    <3>1. \A q \in Peers : q # p =>
            cpc'[q] = cpc[q] /\ link'[q] = link[q] /\ status'[q] = status[q]
      BY <2>1
    <3>2. \/ cpc'[p] = "connected" /\ status[p] # "CONNECTED" /\ status'[p] = status[p]
          \/ cpc'[p] = "sleep" /\ link'[p] = "closed" /\ status'[p] = "OFFLINE"
      BY <2>1
    <3> QED BY <2>1, <3>1, <3>2
  <2>4. LinkInv'
    BY <2>1
  <2> QED BY <2>2, <2>3, <2>4
<1>4. CASE set_connected(p)
  BY <1>4 DEF set_connected
<1>5. CASE watch_status(p)
  BY <1>5 DEF watch_status
<1>6. CASE reconnect(p)
  BY <1>6 DEF reconnect
<1> QED BY <1>1, <1>2, <1>3, <1>4, <1>5, <1>6 DEF connect_step

\* client_send_message returns: nothing of the request is left on the connection,
\* and CONNECTED is set only if the other thread has not given the peer up.
LEMMA ReturnStep ==
  ASSUME ClientInv, spc \in InRequest, NEW s \in {"CONNECTED", "OFFLINE"}, return_with(s),
         UNCHANGED <<cpc, msg, tried, req, orphans, delivered>>,
         \/ link' = link /\ link[at] \notin {"headers", "busy", "garbled"} \cup Answers
         \/ link' = [link EXCEPT ![at] = "closed"] /\ link[at] \in Answers,
         s = "CONNECTED" => link[at] = "200"
  PROVE  ClientInv'
<1> USE DEF ClientInv, return_with, set_status
<1>a. at \in Peers
  BY DEF AtInv
<1>1. TypeInv' /\ AtInv' /\ BlockedIsWaiting'
  <2>1. at' \in Nat /\ at' # 0
    BY DEF TypeInv
  <2>2. status' \in [Peers -> Statuses] /\ link' \in [Peers -> LinkStates]
    BY <1>a DEF TypeInv, Statuses, LinkStates
  <2>3. TypeInv'
    BY <2>1, <2>2 DEF TypeInv
  <2>4. AtInv'
    BY <2>1 DEF AtInv, InRequest
  <2>5. BlockedIsWaiting'
    BY <1>a DEF TypeInv, BlockedIsWaiting
  <2> QED BY <2>3, <2>4, <2>5
<1>2. \A p \in Peers : link'[p] \notin {"headers", "busy", "garbled"} \cup Answers
  <2>1. \A p \in Peers \ {at} : link[p] \notin {"headers", "busy", "garbled"} \cup Answers
    BY DEF LinkInv
  <2>2. /\ \A p \in Peers \ {at} : link'[p] = link[p]
        /\ link'[at] = link[at] \/ link'[at] = "closed"
    BY <1>a DEF TypeInv
  <2>3. link'[at] \notin {"headers", "busy", "garbled"} \cup Answers
    BY <1>a DEF TypeInv, Answers
  <2> QED BY <2>1, <2>2, <2>3
<1>3. LinkInv'
  BY <1>2 DEF LinkInv
<1>4. s = "CONNECTED" => cpc[at] \in {"connected", "watch"}
  BY <1>a DEF TypeInv, ThreadInv, ConnStages
<1>5. ThreadInv'
  <2>1. spc' \notin InRequest
    BY DEF InRequest
  <2>2. link[at] # "handshake" => cpc[at] # "handshake"
    BY <1>a DEF ThreadInv
  <2>3. \A p \in Peers : cpc[p] = "handshake" => link'[p] = "handshake"
    BY <1>a, <2>2 DEF ThreadInv, TypeInv, Answers
  <2>4. \A p \in Peers : status'[p] = "CONNECTED" => cpc[p] \in {"connected", "watch"}
    BY <1>a, <1>4 DEF ThreadInv, TypeInv
  <2> QED BY <2>1, <2>3, <2>4 DEF ThreadInv
<1> QED BY <1>1, <1>3, <1>5

LEMMA SendStep ==
  ASSUME ClientInv, read_outbox \/ send_step
  PROVE  ClientInv'
<1> USE DEF ClientInv, TypeInv, AtInv, BlockedIsWaiting, ThreadInv, LinkInv, stage,
            return_with, Dead, set_status, set_link, server, Statuses, LinkStates, ConnStages,
            InRequest, Answers
<1>n. PeerCount \in Nat /\ Peers = 1..PeerCount
  BY PeerAssumption DEF Peers
<1>1. CASE read_outbox
  BY <1>1 DEF read_outbox
<1>2. CASE next_peer
  <2>1. CASE status[at] = "CONNECTED"
    <3>1. /\ spc = "loop" /\ spc' = "write_headers" /\ tried' = tried \cup {<<at, msg>>}
          /\ UNCHANGED <<status, cpc, at, msg, held, link, req, orphans, delivered>>
          /\ at \in Peers
      BY <1>2, <2>1, <1>n DEF next_peer
    <3>2. TypeInv' /\ AtInv' /\ BlockedIsWaiting'
      BY <3>1
    <3>3. ThreadInv' /\ LinkInv'
      BY <3>1, <2>1
    <3> QED BY <3>2, <3>3
  <2>2. CASE status[at] # "CONNECTED"
    BY <1>2, <2>2 DEF next_peer
  <2> QED BY <2>1, <2>2
<1>3. CASE mark_sent
  BY <1>3 DEF mark_sent
<1>4. CASE write_headers
  <2>0. /\ spc = "write_headers" /\ at \in Peers
        /\ UNCHANGED <<cpc, msg, held, tried, req, orphans, delivered>>
    BY <1>4 DEF write_headers
  <2>1. CASE /\ link[at] = "open" /\ link' = [link EXCEPT ![at] = "headers"]
             /\ spc' = "write_body" /\ UNCHANGED <<status, at>>
    <3>1. TypeInv' /\ AtInv' /\ BlockedIsWaiting'
      BY <2>0, <2>1
    <3>2. ThreadInv'
      BY <2>0, <2>1
    <3>3. LinkInv'
      BY <2>0, <2>1
    <3> QED BY <3>1, <3>2, <3>3
  <2>2. CASE spc' = "write_body" /\ UNCHANGED <<status, at, link>>
    BY <2>0, <2>2
  <2>3. CASE return_with("OFFLINE") /\ UNCHANGED link
    BY <2>0, <2>3, ReturnStep
  <2> QED BY <1>4, <2>1, <2>2, <2>3 DEF write_headers
<1>5. CASE write_body
  <2>0. /\ spc = "write_body" /\ at \in Peers
        /\ UNCHANGED <<cpc, msg, held, tried, orphans, delivered>>
    BY <1>5 DEF write_body
  <2>1. CASE /\ link[at] \in {"open", "headers"}
             /\ link' = [link EXCEPT ![at] = IF link[at] = "headers" THEN "busy" ELSE "garbled"]
             /\ req' = [req EXCEPT ![at] = msg]
             /\ spc' = "read" /\ UNCHANGED <<status, at>>
    <3>0. \E l \in {"busy", "garbled"} : link' = [link EXCEPT ![at] = l]
      BY <2>1
    <3>1. TypeInv' /\ AtInv' /\ BlockedIsWaiting'
      BY <2>0, <2>1, <3>0
    <3>2. ThreadInv'
      BY <2>0, <2>1, <3>0
    <3>3. LinkInv'
      BY <2>0, <2>1, <3>0
    <3> QED BY <3>1, <3>2, <3>3
  <2>2. CASE Dead(at) /\ spc' = "read" /\ UNCHANGED <<status, at, link, req>>
    BY <2>0, <2>2
  <2>3. CASE Dead(at) /\ return_with("OFFLINE") /\ UNCHANGED <<link, req>>
    BY <2>0, <2>3, ReturnStep
  <2>4. CASE UNCHANGED <<spc, status, at, link, req>>
    BY <2>0, <2>4
  <2> QED BY <1>5, <2>1, <2>2, <2>3, <2>4 DEF write_body
<1>6. CASE SSL_read
  BY <1>6 DEF SSL_read
<1>7. CASE read_answer
  <2>0. /\ spc = "answer" /\ at \in Peers
        /\ UNCHANGED <<cpc, msg, tried, req, orphans, delivered>>
    BY <1>7 DEF read_answer
  <2>1. CASE /\ link[at] \in {"200", "503"} /\ link' = [link EXCEPT ![at] = "closed"]
             /\ return_with(IF link[at] = "200" THEN "CONNECTED" ELSE "OFFLINE")
    BY <2>0, <2>1, ReturnStep
  <2>2. CASE /\ link[at] = "429" /\ link' = [link EXCEPT ![at] = "closed"]
             /\ status' = [status EXCEPT ![at] = "BLOCKED"] /\ spc' = "backoff" /\ UNCHANGED at
    <3>1. TypeInv' /\ AtInv' /\ BlockedIsWaiting'
      BY <2>0, <2>2
    <3>2. ThreadInv'
      BY <2>0, <2>2
    <3>3. LinkInv'
      BY <2>0, <2>2
    <3> QED BY <3>1, <3>2, <3>3
  <2>3. CASE (~ held \/ Dead(at)) /\ return_with("OFFLINE") /\ UNCHANGED link
    BY <2>0, <2>3, ReturnStep
  <2> QED BY <1>7, <2>1, <2>2, <2>3 DEF read_answer
<1>8. CASE retry_send
  BY <1>8 DEF retry_send
<1> QED BY <1>1, <1>2, <1>3, <1>4, <1>5, <1>6, <1>7, <1>8 DEF send_step

\* What take_in adds to a peer's inbox.
LEMMA TakeFacts ==
  ASSUME TypeInv, NEW p \in Peers, NEW m \in Nat, NEW answer, take_in(p, m, answer)
  PROVE  /\ delivered' \in [Peers -> Seq(Nat)]
         /\ \/ answer = "200" /\ delivered' = [delivered EXCEPT ![p] = Append(delivered[p], m)]
            \/ answer # "200" /\ delivered' = delivered
<1>1. Append(delivered[p], m) \in Seq(Nat)
  BY AppendProperties DEF TypeInv
<1> QED BY <1>1 DEF take_in, TypeInv

LEMMA NetworkStep ==
  ASSUME ClientInv, NEW p \in Peers, peer_step(p) \/ connection_lost(p) \/ peer_reads(p)
  PROVE  ClientInv'
<1> USE DEF ClientInv, TypeInv, AtInv, BlockedIsWaiting, ThreadInv, LinkInv, fault,
            set_link, client, Statuses, LinkStates, ConnStages, InRequest, Answers
<1>1. CASE server_handle_connection(p)
  <2>1. /\ link[p] = "busy" /\ UNCHANGED <<status, cpc, spc, at, msg, held, tried, req, orphans>>
        /\ \E answer \in Answers : link' = [link EXCEPT ![p] = answer]
    BY <1>1 DEF server_handle_connection
  <2>2. delivered' \in [Peers -> Seq(Nat)]
    BY <1>1, TakeFacts DEF server_handle_connection
  <2>3. TypeInv'
    <3>1. link' \in [Peers -> LinkStates]
      BY <2>1
    <3> QED BY <2>1, <2>2, <3>1
  <2>6. AtInv' /\ BlockedIsWaiting'
    BY <2>1
  <2>4. ThreadInv'
    BY <2>1
  <2>5. LinkInv'
    BY <2>1
  <2> QED BY <2>3, <2>4, <2>5, <2>6
<1>2. CASE handle_orphan(p)
  <2>1. UNCHANGED <<status, cpc, spc, at, msg, held, tried, req, link>>
    BY <1>2 DEF handle_orphan
  <2>2. PICK i \in DOMAIN orphans[p] : \E answer \in Answers :
          /\ take_in(p, orphans[p][i], answer)
          /\ orphans' = [orphans EXCEPT ![p] = RemoveAt(orphans[p], i)]
    BY <1>2 DEF handle_orphan
  <2>3. orphans[p] \in Seq(Nat) /\ orphans[p][i] \in Nat
    BY LenProperties
  <2>4. delivered' \in [Peers -> Seq(Nat)] /\ RemoveAt(orphans[p], i) \in Seq(Nat)
    BY <2>2, <2>3, TakeFacts, RemoveFacts
  <2>5. TypeInv'
    <3>1. orphans' \in [Peers -> Seq(Nat)]
      BY <2>2, <2>4
    <3> QED BY <2>1, <2>4, <3>1
  <2> QED BY <2>1, <2>5
<1>3. CASE connection_lost(p)
  BY <1>3 DEF connection_lost
<1>4. CASE peer_reads(p)
  BY <1>4 DEF peer_reads
<1> QED BY <1>1, <1>2, <1>3, <1>4 DEF peer_step

LEMMA ClientInit == Init => ClientInv
<1> SUFFICES ASSUME Init PROVE ClientInv
  OBVIOUS
<1>1. <<>> \in Seq(Nat)
  BY EmptySeq
<1> QED BY <1>1 DEF Init, ClientInv, TypeInv, AtInv, BlockedIsWaiting, ThreadInv, LinkInv,
          Statuses, LinkStates, ConnStages, InRequest, Answers

LEMMA ClientStep == ClientInv /\ [Next]_vars => ClientInv'
<1> SUFFICES ASSUME ClientInv, [Next]_vars PROVE ClientInv'
  OBVIOUS
<1>1. CASE UNCHANGED vars
  BY <1>1 DEF ClientInv, TypeInv, AtInv, BlockedIsWaiting, ThreadInv, LinkInv, vars, client,
    server
<1> QED BY <1>1, ConnectStep, SendStep, NetworkStep DEF Next

\* No peer is left in PEER_BLOCKED: whatever client_connect_thread does to the
\* status meanwhile, it is shown only while the send thread is at work on a
\* message for that peer.
THEOREM BlockedIsWaitingHolds == Spec => []BlockedIsWaiting
<1>1. ClientInv => BlockedIsWaiting
  BY DEF ClientInv
<1> QED BY <1>1, ClientInit, ClientStep, PTL DEF Spec

\* client_connect_thread never takes a connection away from a request: when it
\* replaces peer->ssl under the send thread, the old connection is closed.
THEOREM NoRequestCutOffHolds == Spec => NoRequestCutOff
<1>1. ClientInv /\ [Next]_vars
        => [\A p \in Peers : connect_ssl(p) /\ spc \in InRequest /\ at = p
                               => link[p] = "closed"]_vars
  BY DEF ClientInv, ThreadInv, connect_ssl, thread
<1> QED BY <1>1, ClientInit, ClientStep, PTL DEF Spec, NoRequestCutOff

(***************************************************************************)
(* AtMostOnce                                                              *)
(***************************************************************************)
LEMMA AppendFacts ==
  ASSUME NEW s \in Seq(Nat), NEW m \in Nat, IsInjective(s), m \notin Range(s)
  PROVE  IsInjective(Append(s, m)) /\ Range(Append(s, m)) = Range(s) \cup {m}
<1> DEFINE t == Append(s, m)
<1>1. Len(s) \in Nat /\ DOMAIN s = 1..Len(s)
  BY LenProperties
<1>2. /\ t \in Seq(Nat) /\ Len(t) = Len(s) + 1 /\ t[Len(s) + 1] = m
      /\ \A i \in 1..Len(s) : t[i] = s[i]
  BY AppendProperties
<1>3. DOMAIN t = 1..Len(s) + 1
  BY <1>2, LenProperties
<1> HIDE DEF t
<1>4. \A i \in 1..Len(s) + 1 : i \in 1..Len(s) \/ i = Len(s) + 1
  BY <1>1
<1>5. \A i \in 1..Len(s) : s[i] # m
  BY <1>1 DEF Range
<1>6. IsInjective(t)
  BY <1>1, <1>2, <1>3, <1>4, <1>5 DEF IsInjective
<1>7. Range(t) = Range(s) \cup {m}
  <2>1. 1..Len(s) \subseteq 1..Len(s) + 1 /\ Len(s) + 1 \in 1..Len(s) + 1
    BY <1>1
  <2> QED BY <1>1, <1>2, <1>3, <1>4, <2>1 DEF Range
<1> QED BY <1>6, <1>7 DEF t

LEMMA RemoveRange ==
  ASSUME NEW s \in Seq(Nat), NEW i \in DOMAIN s, IsInjective(s)
  PROVE  /\ IsInjective(RemoveAt(s, i))
         /\ Range(RemoveAt(s, i)) = Range(s) \ {s[i]}
<1> DEFINE t == RemoveAt(s, i)
           Old(j) == IF j < i THEN j ELSE j + 1
<1>1. Len(s) \in Nat /\ DOMAIN s = 1..Len(s) /\ DOMAIN t = 1..Len(s) - 1 /\ i \in 1..Len(s)
  BY RemoveFacts
<1>2. ASSUME NEW j \in 1..Len(s) - 1
      PROVE  Old(j) \in 1..Len(s) /\ Old(j) # i /\ t[j] = s[Old(j)]
  <2>1. t[j] = IF j < i THEN s[j] ELSE s[j + 1]
    BY RemoveFacts
  <2> QED BY <1>1, <2>1
<1>3. \A j, k \in 1..Len(s) - 1 : Old(j) = Old(k) => j = k
  BY <1>1
<1>4. ASSUME NEW j \in 1..Len(s), j # i PROVE \E k \in 1..Len(s) - 1 : Old(k) = j
  <2>1. CASE j < i
    BY <2>1, <1>1
  <2>2. CASE ~ (j < i)
    <3>1. j - 1 \in 1..Len(s) - 1 /\ Old(j - 1) = j
      BY <2>2, <1>1, <1>4
    <3> QED BY <3>1
  <2> QED BY <2>1, <2>2
<1> HIDE DEF t, Old
<1>5. IsInjective(t)
  <2> SUFFICES ASSUME NEW j \in 1..Len(s) - 1, NEW k \in 1..Len(s) - 1, t[j] = t[k]
               PROVE  j = k
    BY <1>1, Zenon DEF IsInjective
  <2>1. Old(j) \in DOMAIN s /\ Old(k) \in DOMAIN s /\ s[Old(j)] = s[Old(k)]
    BY <1>1, <1>2, Zenon
  <2>2. Old(j) = Old(k)
    BY <2>1, Zenon DEF IsInjective
  <2> QED BY <2>2, <1>3, Zenon
<1>6. Range(t) = Range(s) \ {s[i]}
  <2>1. ASSUME NEW j \in DOMAIN t PROVE t[j] \in Range(s) \ {s[i]}
    BY <1>1, <1>2 DEF Range, IsInjective
  <2>2. ASSUME NEW j \in DOMAIN s, s[j] # s[i] PROVE s[j] \in Range(t)
    <3>1. PICK k \in 1..Len(s) - 1 : Old(k) = j
      BY <1>1, <1>4, <2>2
    <3> QED BY <3>1, <1>1, <1>2 DEF Range
  <2> QED BY <2>1, <2>2 DEF Range
<1> QED BY <1>5, <1>6 DEF t

\* Messages that peer p has, or whose request nobody waits for any more.
Pool(p) == Range(delivered[p]) \cup Range(orphans[p])

\* The send thread has the message to send, or to send again.
Sending(p) == /\ at = p
              /\ spc \in {"write_headers", "write_body", "backoff"} \/ link[p] = "429"

\* There is one copy of a message at a peer, at most, and none while another may
\* still be sent.
CopyInv(p) ==
  /\ IsInjective(delivered[p]) /\ IsInjective(orphans[p])
  /\ Range(delivered[p]) \cap Range(orphans[p]) = {}
  /\ link[p] = "busy" => req[p] \notin Pool(p)
  /\ Sending(p) => msg \notin Pool(p)
  /\ \A m \in Pool(p) : <<p, m>> \in tried

\* client_broadcast goes through the peers once for each message.
TriedInv ==
  /\ spc \in InRequest => <<at, msg>> \in tried
  /\ \A p \in Peers : \A m \in Nat : <<p, m>> \in tried =>
       /\ m <= msg
       /\ m = msg /\ spc = "loop" => p < at
       /\ m = msg /\ spc \in InRequest => p <= at

OnceInv == ClientInv /\ TriedInv /\ \A p \in Peers : CopyInv(p)

LEMMA PoolType ==
  ASSUME TypeInv, NEW p \in Peers
  PROVE  Pool(p) \subseteq Nat /\ delivered[p] \in Seq(Nat) /\ orphans[p] \in Seq(Nat)
<1>1. delivered[p] \in Seq(Nat) /\ orphans[p] \in Seq(Nat)
  BY DEF TypeInv
<1> QED BY <1>1, RangeOfSeq DEF Pool

\* Nothing new at the peer.
LEMMA CopyFrame ==
  ASSUME NEW p \in Peers, CopyInv(p),
         UNCHANGED <<delivered[p], orphans[p], tried, msg>>,
         link'[p] = "busy" => \/ link[p] = "busy" /\ req'[p] = req[p]
                              \/ Sending(p) /\ req'[p] = msg,
         Sending(p)' => \/ Sending(p)
                        \/ link[p] = "busy" /\ req[p] = msg
  PROVE  CopyInv(p)'
  BY DEF CopyInv, Pool

\* A connection with a request on it is gone, the request is not.
LEMMA CopyOrphan ==
  ASSUME OnceInv, NEW p \in Peers, link[p] = "busy",
         orphans' = [orphans EXCEPT ![p] = Append(orphans[p], req[p])],
         UNCHANGED <<delivered, tried, msg, spc, at>>,
         link'[p] \notin {"busy", "429"}
  PROVE  CopyInv(p)'
<1>1. /\ req[p] = msg /\ msg \in Nat /\ <<p, msg>> \in tried /\ ~ Sending(p)'
  BY DEF OnceInv, ClientInv, TypeInv, LinkInv, TriedInv, Sending, InRequest
<1>2. delivered[p] \in Seq(Nat) /\ orphans[p] \in Seq(Nat) /\ orphans'[p] = Append(orphans[p], req[p])
  BY DEF OnceInv, ClientInv, TypeInv
<1>3. CopyInv(p)
  BY DEF OnceInv
<1>4. /\ IsInjective(orphans'[p]) /\ Range(orphans'[p]) = Range(orphans[p]) \cup {req[p]}
  BY <1>1, <1>2, <1>3, AppendFacts DEF CopyInv, Pool
<1> QED BY <1>1, <1>2, <1>3, <1>4 DEF CopyInv, Pool

LEMMA OnceConnect ==
  ASSUME OnceInv, NEW p \in Peers, connect_step(p) \/ connect_fails(p)
  PROVE  TriedInv' /\ \A q \in Peers : CopyInv(q)'
<1>t. TypeInv /\ LinkInv /\ \A q \in Peers : CopyInv(q)
  BY DEF OnceInv, ClientInv
<1> USE DEF thread, set_status, set_link, fault, server
<1>1. /\ UNCHANGED <<spc, at, msg, tried, req, delivered>>
      /\ \A q \in Peers \ {p} : link'[q] = link[q] /\ orphans'[q] = orphans[q]
      /\ link'[p] = link[p] \/ link'[p] \in {"handshake", "open", "closed"}
  BY <1>t DEF connect_step, connect_fails, connect_ssl, SSL_connect, set_connected,
    watch_status, reconnect, TypeInv
<1>2. \/ orphans' = orphans
      \/ /\ link[p] = "busy" /\ link'[p] = "handshake"
         /\ orphans' = [orphans EXCEPT ![p] = Append(orphans[p], req[p])]
  BY <1>t DEF connect_step, connect_fails, connect_ssl, SSL_connect, set_connected,
    watch_status, reconnect, TypeInv
<1>3. TriedInv'
  BY <1>1 DEF OnceInv, TriedInv
<1>4. ASSUME NEW q \in Peers \ {p} PROVE CopyInv(q)'
  BY <1>1, <1>t, CopyFrame DEF Sending
<1>5. CopyInv(p)'
  <2>1. CASE orphans' = orphans
    BY <2>1, <1>1, <1>t, CopyFrame DEF Sending
  <2>2. CASE /\ link[p] = "busy" /\ link'[p] = "handshake"
             /\ orphans' = [orphans EXCEPT ![p] = Append(orphans[p], req[p])]
    BY <2>2, <1>1, CopyOrphan
  <2> QED BY <1>2, <2>1, <2>2
<1> QED BY <1>3, <1>4, <1>5

LEMMA OnceNetwork ==
  ASSUME OnceInv, NEW p \in Peers, peer_step(p) \/ connection_lost(p) \/ peer_reads(p)
  PROVE  TriedInv' /\ \A q \in Peers : CopyInv(q)'
<1>t. TypeInv /\ LinkInv /\ \A q \in Peers : CopyInv(q)
  BY DEF OnceInv, ClientInv
<1>0. delivered[p] \in Seq(Nat) /\ orphans[p] \in Seq(Nat) /\ req[p] \in Nat
  BY <1>t DEF TypeInv
<1>u. UNCHANGED <<spc, at, msg, tried, req>>
  BY DEF peer_step, server_handle_connection, handle_orphan, connection_lost, peer_reads, client
<1>q. ASSUME NEW q \in Peers \ {p}, link'[q] = link[q], orphans'[q] = orphans[q],
             delivered'[q] = delivered[q]
      PROVE  CopyInv(q)'
  BY <1>q, <1>t, <1>u, CopyFrame DEF Sending
<1>i. TriedInv'
  BY <1>u DEF OnceInv, TriedInv
<1>s. SUFFICES /\ CopyInv(p)'
               /\ \A q \in Peers \ {p} : /\ link'[q] = link[q] /\ orphans'[q] = orphans[q]
                                         /\ delivered'[q] = delivered[q]
  BY <1>q, <1>i
<1>1. CASE server_handle_connection(p)
  <2>1. PICK answer \in Answers : take_in(p, req[p], answer) /\ set_link(p, answer)
    BY <1>1 DEF server_handle_connection
  <2>2. /\ link[p] = "busy" /\ orphans' = orphans /\ link' = [link EXCEPT ![p] = answer]
    BY <1>1, <2>1 DEF server_handle_connection, set_link
  <2>3. \/ answer = "200" /\ delivered' = [delivered EXCEPT ![p] = Append(delivered[p], req[p])]
        \/ answer # "200" /\ delivered' = delivered
    BY <2>1, <1>0, <1>t, TakeFacts
  <2>4. link'[p] = answer /\ answer # "busy" /\ req[p] = msg /\ at = p
        /\ spc \in {"read", "answer"} /\ <<p, msg>> \in tried /\ req[p] \notin Pool(p)
    BY <2>2, <1>t DEF TypeInv, LinkInv, Answers, OnceInv, TriedInv, InRequest, CopyInv
  <2>5. CopyInv(p)'
    <3>1. CASE answer # "200" /\ delivered' = delivered
      BY <3>1, <2>2, <2>4, <1>t, <1>u, CopyFrame
    <3>2. CASE answer = "200" /\ delivered' = [delivered EXCEPT ![p] = Append(delivered[p], req[p])]
      <4>1. delivered'[p] = Append(delivered[p], req[p])
        BY <3>2, <1>t DEF TypeInv
      <4>2. /\ IsInjective(delivered'[p])
            /\ Range(delivered'[p]) = Range(delivered[p]) \cup {req[p]}
        BY <4>1, <2>4, <1>0, <1>t, AppendFacts DEF CopyInv, Pool
      <4>3. ~ Sending(p)'
        BY <3>2, <2>4, <1>u DEF Sending
      <4> QED BY <3>2, <4>2, <4>3, <2>2, <2>4, <1>t, <1>u DEF CopyInv, Pool
    <3> QED BY <2>3, <3>1, <3>2
  <2> QED BY <2>2, <2>3, <2>5, <1>t DEF TypeInv
<1>2. CASE handle_orphan(p)
  <2>1. PICK i \in DOMAIN orphans[p] : \E answer \in Answers :
          /\ take_in(p, orphans[p][i], answer)
          /\ orphans' = [orphans EXCEPT ![p] = RemoveAt(orphans[p], i)]
    BY <1>2 DEF handle_orphan
  <2> DEFINE m == orphans[p][i]
  <2>2. link' = link /\ m \in Nat /\ m \in Range(orphans[p])
    BY <1>2, <1>0, LenProperties DEF handle_orphan, Range
  <2>3. \/ delivered' = [delivered EXCEPT ![p] = Append(delivered[p], m)]
        \/ delivered' = delivered
    BY <2>1, <2>2, <1>t, TakeFacts
  <2>4. /\ orphans'[p] = RemoveAt(orphans[p], i)
        /\ IsInjective(orphans'[p]) /\ Range(orphans'[p]) = Range(orphans[p]) \ {m}
    BY <2>1, <1>0, <1>t, RemoveRange DEF TypeInv, CopyInv
  <2>5. /\ IsInjective(delivered'[p])
        /\ Range(delivered'[p]) \in {Range(delivered[p]), Range(delivered[p]) \cup {m}}
    <3>1. CASE delivered' = delivered
      BY <3>1, <1>t DEF CopyInv
    <3>2. CASE delivered' = [delivered EXCEPT ![p] = Append(delivered[p], m)]
      <4>1. delivered'[p] = Append(delivered[p], m)
        BY <3>2, <1>t DEF TypeInv
      <4>2. m \notin Range(delivered[p]) /\ IsInjective(delivered[p])
        BY <2>2, <1>t DEF CopyInv
      <4> HIDE DEF m
      <4> QED BY <4>1, <4>2, <2>2, <1>0, AppendFacts
    <3> QED BY <2>3, <3>1, <3>2
  <2> HIDE DEF m
  <2>6. Pool(p)' \subseteq Pool(p) /\ Range(delivered'[p]) \cap Range(orphans'[p]) = {}
    BY <2>2, <2>4, <2>5, <1>t DEF CopyInv, Pool
  <2>7. Sending(p)' => Sending(p)
    BY <2>2, <1>u DEF Sending
  <2>8. CopyInv(p)'
    BY <2>2, <2>4, <2>5, <2>6, <2>7, <1>t, <1>u DEF CopyInv
  <2>9. \A q \in Peers \ {p} : orphans'[q] = orphans[q] /\ delivered'[q] = delivered[q]
    BY <2>1, <2>3, <1>t DEF TypeInv
  <2> QED BY <2>2, <2>8, <2>9
<1>3. CASE connection_lost(p)
  <2>1. /\ delivered' = delivered /\ link' = [link EXCEPT ![p] = "closed"] /\ link'[p] = "closed"
        /\ \/ orphans' = orphans
           \/ /\ link[p] = "busy"
              /\ orphans' = [orphans EXCEPT ![p] = Append(orphans[p], req[p])]
    BY <1>3, <1>t DEF connection_lost, set_link, TypeInv
  <2>2. CopyInv(p)'
    <3>1. CASE orphans' = orphans
      BY <3>1, <2>1, <1>t, <1>u, CopyFrame DEF Sending
    <3>2. CASE link[p] = "busy" /\ orphans' = [orphans EXCEPT ![p] = Append(orphans[p], req[p])]
      BY <3>2, <2>1, <1>u, CopyOrphan
    <3> QED BY <2>1, <3>1, <3>2
  <2> QED BY <2>1, <2>2, <1>t DEF TypeInv
<1>4. CASE peer_reads(p)
  <2>1. UNCHANGED <<delivered, orphans, link>>
    BY <1>4 DEF peer_reads
  <2>2. CopyInv(p)'
    BY <2>1, <1>t, <1>u, CopyFrame DEF Sending
  <2> QED BY <2>1, <2>2
<1> QED BY <1>1, <1>2, <1>3, <1>4 DEF peer_step

LEMMA OnceSend ==
  ASSUME OnceInv, read_outbox \/ send_step
  PROVE  TriedInv' /\ \A q \in Peers : CopyInv(q)'
<1>t. TypeInv /\ LinkInv /\ AtInv /\ TriedInv /\ \A q \in Peers : CopyInv(q)
  BY DEF OnceInv, ClientInv
<1>n. at \in Nat /\ msg \in Nat /\ \A q \in Peers : q \in Nat
  BY <1>t, PeerAssumption DEF TypeInv, Peers
<1>u. UNCHANGED <<delivered, orphans>>
  BY DEF send_step, read_outbox, next_peer, mark_sent, write_headers, write_body, SSL_read,
    read_answer, retry_send, server
<1>1. CASE read_outbox
  <2>1. /\ spc' = "loop" /\ msg' = msg + 1 /\ UNCHANGED <<tried, link, req>>
    BY <1>1 DEF read_outbox, server
  <2>2. TriedInv'
    BY <2>1, <1>t, <1>n DEF TriedInv, InRequest
  <2>3. ASSUME NEW q \in Peers PROVE CopyInv(q)'
    <3>1. link[q] # "429"
      BY <1>1, <1>t DEF LinkInv, Answers, read_outbox
    <3>2. ~ Sending(q)'
      BY <2>1, <3>1 DEF Sending
    <3> QED BY <2>1, <3>2, <1>t, <1>u DEF CopyInv, Pool
  <2> QED BY <2>2, <2>3
<1>2. CASE next_peer /\ status[at] = "CONNECTED"
  <2>1. /\ spc = "loop" /\ spc' = "write_headers" /\ tried' = tried \cup {<<at, msg>>}
        /\ UNCHANGED <<at, msg, link, req>> /\ at \in Peers
    BY <1>2, <1>t, PeerAssumption DEF next_peer, server, AtInv, TypeInv, Peers
  <2>2. TriedInv'
    BY <2>1, <1>t, <1>n DEF TriedInv, InRequest
  <2>3. ASSUME NEW q \in Peers PROVE CopyInv(q)'
    <3>1. ASSUME at = q PROVE msg \notin Pool(q)
      <4>1. <<at, msg>> \notin tried
        BY <2>1, <1>t, <1>n DEF TriedInv
      <4> QED BY <3>1, <4>1, <1>t DEF CopyInv
    <3> QED BY <2>1, <3>1, <1>t, <1>u DEF CopyInv, Pool, Sending
  <2> QED BY <2>2, <2>3
<1>3. CASE next_peer /\ status[at] # "CONNECTED"
  <2>1. /\ spc = "loop" /\ spc' = "loop" /\ at' = at + 1
        /\ UNCHANGED <<tried, msg, link, req>>
    BY <1>3 DEF next_peer, server
  <2>2. TriedInv'
    BY <2>1, <1>t, <1>n DEF TriedInv, InRequest
  <2>3. ASSUME NEW q \in Peers PROVE CopyInv(q)'
    <3>1. link[q] # "429"
      BY <2>1, <1>t DEF LinkInv, Answers
    <3>2. ~ Sending(q)'
      BY <2>1, <3>1 DEF Sending
    <3> QED BY <2>1, <3>2, <1>t, <1>u, CopyFrame
  <2> QED BY <2>2, <2>3
<1>4. CASE mark_sent
  <2>1. /\ spc = "loop" /\ spc' = "idle" /\ UNCHANGED <<tried, msg, link, req>>
    BY <1>4 DEF mark_sent, server
  <2>2. TriedInv'
    BY <2>1, <1>t, <1>n DEF TriedInv, InRequest
  <2>3. ASSUME NEW q \in Peers PROVE CopyInv(q)'
    <3>1. link[q] # "429"
      BY <2>1, <1>t DEF LinkInv, Answers
    <3>2. ~ Sending(q)'
      BY <2>1, <3>1 DEF Sending
    <3> QED BY <2>1, <3>2, <1>t, <1>u, CopyFrame
  <2> QED BY <2>2, <2>3
\* A step of client_send_message: it goes on, or returns.
<1>5. CASE write_headers \/ write_body \/ SSL_read \/ read_answer \/ retry_send
  <2>1. /\ spc \in InRequest /\ at \in Peers /\ UNCHANGED <<tried, msg>>
        /\ \/ spc' \in InRequest /\ at' = at
           \/ spc' = "loop" /\ at' = at + 1
    BY <1>5, <1>t DEF write_headers, write_body, SSL_read, read_answer, retry_send, stage,
      return_with, InRequest, AtInv
  <2>2. TriedInv'
    BY <2>1, <1>t, <1>n DEF TriedInv, InRequest
  <2>3. ASSUME NEW q \in Peers \ {at} PROVE CopyInv(q)'
    <3>1. link'[q] = link[q] /\ req'[q] = req[q]
      BY <1>5, <1>t, <2>1 DEF write_headers, write_body, SSL_read, read_answer, retry_send,
        set_link, server, TypeInv
    <3>2. link[q] # "429"
      BY <2>3, <1>t DEF LinkInv, Answers
    <3>3. ~ Sending(q)'
      BY <2>1, <2>3, <3>1, <3>2 DEF Sending, InRequest
    <3> QED BY <2>1, <3>1, <3>3, <1>t, <1>u, CopyFrame
  <2>4. ASSUME NEW q \in Peers, q = at PROVE CopyInv(q)'
    <3>1. /\ link'[q] = "busy" => \/ link[q] = "busy" /\ req'[q] = req[q]
                                  \/ Sending(q) /\ req'[q] = msg
          /\ Sending(q)' => Sending(q)
      <4> USE <1>t, <1>n, <2>1, <2>4 DEF stage, set_link, return_with, server, TypeInv, Sending
      <4>1. CASE write_headers
        BY <4>1 DEF write_headers, Dead
      <4>2. CASE write_body
        BY <4>2 DEF write_body, Dead
      <4>3. CASE SSL_read \/ retry_send
        BY <4>3 DEF SSL_read, retry_send
      <4>4. CASE read_answer
        BY <4>4 DEF read_answer, Dead
      <4> QED BY <1>5, <4>1, <4>2, <4>3, <4>4
    <3> QED BY <2>1, <3>1, <1>t, <1>u, CopyFrame
  <2> QED BY <2>2, <2>3, <2>4
<1> QED BY <1>1, <1>2, <1>3, <1>4, <1>5 DEF send_step

LEMMA OnceInit == Init => OnceInv
<1> SUFFICES ASSUME Init PROVE OnceInv
  OBVIOUS
<1>1. \A p \in Peers : /\ delivered[p] = <<>> /\ orphans[p] = <<>>
                       /\ link[p] = "none" /\ spc = "idle" /\ tried = {}
  BY DEF Init
<1>2. DOMAIN <<>> = {} /\ Range(<<>>) = {} /\ IsInjective(<<>>)
  BY DEF Range, IsInjective
<1>3. \A p \in Peers : CopyInv(p)
  BY <1>1, <1>2 DEF CopyInv, Pool, Sending
<1>4. TriedInv
  BY DEF Init, TriedInv, InRequest
<1> QED BY <1>3, <1>4, ClientInit DEF OnceInv

LEMMA OnceStep == OnceInv /\ [Next]_vars => OnceInv'
<1> SUFFICES ASSUME OnceInv, [Next]_vars PROVE OnceInv'
  OBVIOUS
<1>1. ClientInv'
  BY ClientStep DEF OnceInv
<1>2. CASE UNCHANGED vars
  <2>1. UNCHANGED <<spc, at, msg, tried, req, link, delivered, orphans>>
    BY <1>2 DEF vars, client, server
  <2>2. TriedInv'
    BY <2>1 DEF OnceInv, TriedInv
  <2>3. \A p \in Peers : CopyInv(p)'
    BY <2>1, CopyFrame DEF OnceInv, Sending
  <2> QED BY <1>1, <2>2, <2>3 DEF OnceInv
<1> QED BY <1>1, <1>2, OnceConnect, OnceNetwork, OnceSend DEF Next, OnceInv

\* Whatever breaks, is replaced or is tried again after a 429: no peer stores a
\* message twice, and none that was not sent to it.  A request is written again
\* only after an answer that says it was not stored.
THEOREM AtMostOnceHolds == Spec => []AtMostOnce
<1>1. OnceInv => AtMostOnce
  BY DEF OnceInv, CopyInv, Pool, AtMostOnce
<1> QED BY <1>1, OnceInit, OnceStep, PTL DEF Spec
===========================================================================
