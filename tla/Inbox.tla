------------------------------- MODULE Inbox -------------------------------
(***************************************************************************)
(* The receiving half of the daemon on top of the kernel's inbox:          *)
(*  - server_handle_connection (userspace/network/server.c), one thread    *)
(*    for each connection, which carries one request, and                  *)
(*    chatroom_receive (userspace/messaging/chatroom.c), which it calls;   *)
(*  - the userspace copy of the inbox that the front end lists             *)
(*    (userspace/messaging/direct.c), which has no lock;                   *)
(*  - handle_read_one (userspace/api/handlers.c), run by the one API       *)
(*    thread; handle_read_all (module Web) does the same in a loop;        *)
(*  - userspace/inbox_terminal.c, a process of its own that reads the same *)
(*    device and pairs each message with a record of the queue file.       *)
(*                                                                         *)
(* A message is known by the connection it came on.  The daemon is built   *)
(* without optimisation, so inbox_count is loaded and stored as written.   *)
(***************************************************************************)
EXTENDS Integers, SequencesExt, FiniteSets

CONSTANTS Conns,         \* connections accepted, each with its message
          Api,           \* the API thread: {} or one thread
          Terminal,      \* the inbox terminal: {} or one process
          FIFO_SIZE, MAX_MESSAGES,
          Earlier,       \* messages the terminal has read before this begins:
                         \* nobody has popped them from the list
          Old, NoMsg

Readers == Api \cup Terminal
Daemon  == Conns \cup Api

ASSUME InboxAssumption ==
  /\ FIFO_SIZE \in Nat \ {0} /\ MAX_MESSAGES \in Nat \ {0}
  /\ IsFiniteSet(Conns) /\ IsFiniteSet(Readers)
  /\ Conns \cap Readers = {} /\ Api \cap Terminal = {}
  /\ Cardinality(Api) <= 1 /\ Cardinality(Terminal) <= 1
  /\ Earlier \in 0..MAX_MESSAGES
  /\ NoMsg \notin Conns /\ Old \notin Conns \cup {NoMsg}

VARIABLES queue, call, val,    \* the kernel's inbox
          enc,                 \* records of the queue file
          inbox, inbox_count,  \* the userspace copy
          pc,                  \* stage of every thread
          reg,                 \* inbox_count as a thread has loaded it
          resp,                \* status line sent on each connection
          idx,                 \* API: loop index of direct_pop_inbox_front
          waiting,             \* terminal: inbox count as it was displayed
          enc_pos,             \* terminal: records of the file read so far
          stored,              \* history: messages the kernel has stored
          crowded,             \* history: two calls of direct_add_to_inbox have
                               \* been under way at once
          pairs                \* history: <<record, message>> the terminal showed

kernel  == <<queue, call, val>>
mirror  == <<inbox, inbox_count>>
term    == <<waiting, enc_pos, pairs>>
past    == <<stored, crowded>>
vars    == <<kernel, enc, mirror, pc, reg, resp, idx, term, past>>

Kernel == INSTANCE BoundedFifo WITH Msg <- Conns, Writers <- Conns

Init ==
  /\ Kernel!Init
  /\ enc = [i \in 1..Earlier |-> Old]
  /\ inbox = [i \in 0..MAX_MESSAGES - 1 |-> IF i < Earlier THEN Old ELSE NoMsg]
  /\ inbox_count = Earlier
  /\ pc = [t \in Conns \cup Readers |-> IF t \in Conns THEN "accept" ELSE "idle"]
  /\ reg = [t \in Daemon |-> 0]
  /\ resp = [c \in Conns |-> "none"]
  /\ idx = 0
  /\ waiting = 0 /\ enc_pos = Earlier
  /\ stored = {} /\ crowded = FALSE /\ pairs = <<>>

Goto(t, stage) == pc' = [pc EXCEPT ![t] = stage]
respond(c, status) == resp' = [resp EXCEPT ![c] = status] /\ Goto(c, "done")

(***************************************************************************)
(* server_handle_connection                                                *)
(***************************************************************************)
\* The handshake, the headers and the body have come: a direct message, one
\* shorter than kernel_msg_t, a chatroom message, or a request without a usable
\* Content-Length, which is answered 400.  Or SSL_accept, SSL_read or malloc has
\* failed and the connection is closed without an answer.
recv(c) ==
  /\ pc[c] = "accept"
  /\ \/ \E kind \in {"enc", "short", "chatroom"} : Goto(c, kind) /\ UNCHANGED resp
     \/ \E answer \in {"400", "closed"} : respond(c, answer)
  /\ UNCHANGED <<kernel, enc, mirror, reg, idx, term, past>>

\* /dev/keycipher_chatroom is never made, so chatroom_receive fails to open it;
\* its -1 is answered like a full buffer.
chatroom_receive(c) ==
  /\ pc[c] = "chatroom"
  /\ respond(c, "429")
  /\ UNCHANGED <<kernel, enc, mirror, reg, idx, term, past>>

\* A short message has no record; the device cannot be opened, or refuses it
\* with -EINVAL, which is answered like a full buffer.
write_short(c) ==
  /\ pc[c] = "short"
  /\ \E answer \in {"503", "429"} : respond(c, answer)
  /\ UNCHANGED <<kernel, enc, mirror, reg, idx, term, past>>

\* Mutant: the record is forgotten.
save_record_Skipped(c) ==
  /\ pc[c] = "enc"
  /\ Goto(c, "open")
  /\ UNCHANGED <<kernel, enc, mirror, reg, resp, idx, term, past>>

\* "Save encrypted data to queue file before kernel decrypts it"
save_record(c) ==
  /\ pc[c] = "enc"
  /\ enc' = Append(enc, c)
  /\ Goto(c, "open")
  /\ UNCHANGED <<kernel, mirror, reg, resp, idx, term, past>>

open_device(c) ==
  /\ pc[c] = "open"
  /\ \/ Kernel!Invoke(c, c) /\ Goto(c, "write") /\ UNCHANGED resp
     \/ respond(c, "503") /\ UNCHANGED kernel
  /\ UNCHANGED <<enc, mirror, reg, idx, term, past>>

\* Inside keycipher_in_write: the message is stored.
kernel_store(c) ==
  /\ Kernel!Enqueue(c)
  /\ stored' = stored \cup {c}
  /\ UNCHANGED <<enc, mirror, pc, reg, resp, idx, term, crowded>>

\* down_trylock finds no free slot: all are taken by messages, by other writers
\* or by readers that have not given theirs back.
Full(c) ==
  Len(queue) + Cardinality({t \in Conns \ {c} : call[t] = "pending"})
    + Cardinality({r \in Readers : call[r] = "done"}) >= FIFO_SIZE

\* Mutant: the device is opened without O_NONBLOCK.
write_return_Blocking(c) ==
  /\ pc[c] = "write"
  /\ Kernel!Return(c) /\ Goto(c, "add") /\ UNCHANGED resp
  /\ UNCHANGED <<enc, mirror, reg, idx, term, past>>

\* Mutant: the result of write is not looked at.
write_return_Unchecked(c) ==
  /\ pc[c] = "write"
  /\ Kernel!Return(c) \/ (Full(c) /\ Kernel!Fail(c))
  /\ Goto(c, "add")
  /\ UNCHANGED <<enc, mirror, reg, resp, idx, term, past>>

\* write() returns: the message is in, or -EAGAIN and the answer is 429.
write_return(c) ==
  /\ pc[c] = "write"
  /\ \/ Kernel!Return(c) /\ Goto(c, "add") /\ UNCHANGED resp
     \/ Full(c) /\ Kernel!Fail(c) /\ respond(c, "429")
  /\ UNCHANGED <<enc, mirror, reg, idx, term, past>>

\* Calls of direct_add_to_inbox that have passed the check and not yet stored.
Adding == {c \in Conns : pc[c] \in {"add_load", "add_store", "add_copy"}}

\* Mutant: off by one.
add_check_TooLate(c) ==
  /\ pc[c] = "add"
  /\ IF inbox_count > MAX_MESSAGES
     THEN Goto(c, "reply") /\ UNCHANGED crowded
     ELSE Goto(c, "add_load") /\ crowded' = (crowded \/ Adding # {})
  /\ UNCHANGED <<kernel, enc, mirror, reg, resp, idx, term, stored>>

\* direct_add_to_inbox: if (inbox_count >= MAX_MESSAGES) return;
add_check(c) ==
  /\ pc[c] = "add"
  /\ IF inbox_count >= MAX_MESSAGES
     THEN Goto(c, "reply") /\ UNCHANGED crowded
     ELSE Goto(c, "add_load") /\ crowded' = (crowded \/ Adding # {})
  /\ UNCHANGED <<kernel, enc, mirror, reg, resp, idx, term, stored>>

\* ... inbox[inbox_count++] = *msg, in three accesses.
add_load(c) ==
  /\ pc[c] = "add_load"
  /\ reg' = [reg EXCEPT ![c] = inbox_count]
  /\ Goto(c, "add_store")
  /\ UNCHANGED <<kernel, enc, mirror, resp, idx, term, past>>

add_store(c) ==
  /\ pc[c] = "add_store"
  /\ inbox_count' = reg[c] + 1
  /\ Goto(c, "add_copy")
  /\ UNCHANGED <<kernel, enc, inbox, reg, resp, idx, term, past>>

\* A store past the array leaves the daemon's memory undefined: its threads are
\* not followed any further ("lost").
add_copy(c) ==
  /\ pc[c] = "add_copy"
  /\ IF reg[c] \in DOMAIN inbox
     THEN inbox' = [inbox EXCEPT ![reg[c]] = c] /\ Goto(c, "reply") /\ UNCHANGED kernel
     ELSE /\ pc' = [t \in DOMAIN pc |-> IF t \in Daemon THEN "lost" ELSE pc[t]]
          /\ call' = [t \in DOMAIN call |-> IF t \in Daemon THEN "idle" ELSE call[t]]
          /\ UNCHANGED <<inbox, queue, val>>
  /\ UNCHANGED <<enc, inbox_count, reg, resp, idx, term, past>>

reply(c) ==
  /\ pc[c] = "reply"
  /\ respond(c, "200")
  /\ UNCHANGED <<kernel, enc, mirror, reg, idx, term, past>>

(***************************************************************************)
(* handle_read_one                                                         *)
(***************************************************************************)
\* incoming_used in /proc/keycipher/stats.
incoming_used == Len(queue)

\* The front end asks for one message when the API thread has answered the
\* request before: the device is read, full or empty.
handle_read_one(a) ==
  /\ pc[a] = "idle"
  /\ Kernel!Invoke(a, NoMsg)
  /\ Goto(a, "read")
  /\ UNCHANGED <<enc, mirror, reg, resp, idx, term, past>>

kernel_take(r) ==
  /\ Kernel!Dequeue(r)
  /\ UNCHANGED <<enc, mirror, pc, reg, resp, idx, term, past>>

\* read() returns a message; direct_pop_inbox_front starts.
read_return(a) ==
  /\ pc[a] = "read"
  /\ Kernel!Return(a)
  /\ Goto(a, IF inbox_count = 0 THEN "idle" ELSE "shift")
  /\ idx' = 0
  /\ UNCHANGED <<enc, mirror, reg, resp, term, past>>

\* What a load of inbox[i] gives; past the array it may be anything.
entry(i) == IF i \in DOMAIN inbox THEN inbox[i] ELSE NoMsg

pop_shift(a) ==
  /\ pc[a] = "shift"
  /\ IF idx < inbox_count - 1
     THEN /\ inbox' = [inbox EXCEPT ![idx] = entry(idx + 1)]
          /\ idx' = idx + 1
          /\ UNCHANGED <<pc, reg>>
     ELSE /\ reg' = [reg EXCEPT ![a] = inbox_count]
          /\ Goto(a, "pop_store")
          /\ UNCHANGED <<inbox, idx>>
  /\ UNCHANGED <<kernel, enc, inbox_count, resp, term, past>>

pop_store(a) ==
  /\ pc[a] = "pop_store"
  /\ inbox_count' = reg[a] - 1
  /\ Goto(a, "idle")
  /\ UNCHANGED <<kernel, enc, inbox, reg, resp, idx, term, past>>

(***************************************************************************)
(* inbox_terminal                                                          *)
(***************************************************************************)
\* The count is printed; some time later the user presses Enter.
get_inbox_count(p) ==
  /\ pc[p] = "idle"
  /\ waiting' = incoming_used
  /\ Goto(p, "prompt")
  /\ UNCHANGED <<kernel, enc, mirror, reg, resp, idx, enc_pos, pairs, past>>

press_enter(p) ==
  /\ pc[p] = "prompt"
  /\ Goto(p, IF waiting = 0 THEN "idle" ELSE "fread")
  /\ UNCHANGED <<kernel, enc, mirror, reg, resp, idx, term, past>>

\* "Read matching encrypted record from queue file", then read the device.
fread_record(p) ==
  /\ pc[p] = "fread"
  /\ enc_pos' = enc_pos + 1
  /\ Kernel!Invoke(p, NoMsg)
  /\ Goto(p, "read")
  /\ UNCHANGED <<enc, mirror, reg, resp, idx, waiting, pairs, past>>

Record(i) == IF i <= Len(enc) THEN enc[i] ELSE NoMsg

show_message(p) ==
  /\ pc[p] = "read"
  /\ Kernel!Return(p)
  /\ pairs' = Append(pairs, <<Record(enc_pos), val[p]>>)
  /\ Goto(p, "idle")
  /\ UNCHANGED <<enc, mirror, reg, resp, idx, waiting, enc_pos, past>>

-----------------------------------------------------------------------------
conn_step(c) ==
  \/ recv(c) \/ chatroom_receive(c) \/ write_short(c) \/ save_record(c) \/ open_device(c) \/ kernel_store(c)
  \/ write_return(c) \/ add_check(c) \/ add_load(c) \/ add_store(c)
  \/ add_copy(c) \/ reply(c)

api_step(a) == kernel_take(a) \/ read_return(a) \/ pop_shift(a) \/ pop_store(a)

terminal_step(p) == kernel_take(p) \/ fread_record(p) \/ show_message(p)

Next ==
  \/ \E c \in Conns : conn_step(c)
  \/ \E a \in Api : handle_read_one(a) \/ api_step(a)
  \/ \E p \in Terminal : get_inbox_count(p) \/ press_enter(p) \/ terminal_step(p)

Spec == Init /\ [][Next]_vars

(***************************************************************************)
(* Threads keep running.  The front end need not ask and the user of the   *)
(* terminal need not press Enter.                                          *)
(***************************************************************************)
FairSpec ==
  /\ Spec
  /\ \A c \in Conns : WF_vars(conn_step(c))
  /\ \A a \in Api : WF_vars(api_step(a))
  /\ \A p \in Terminal : WF_vars(terminal_step(p))

(***************************************************************************)
(* Properties                                                              *)
(***************************************************************************)
\* The answer tells the sender the truth: 200 means that the kernel has stored
\* the message, every other answer that it never will.
AnswerIsTrue ==
  \A c \in Conns :
    /\ resp[c] = "200" => c \in stored
    /\ resp[c] \in {"400", "429", "503", "closed"} => c \notin stored

\* A message that can be read has its encrypted record on file already, and the
\* terminal never runs past the end of the file.
RecordBeforeMessage ==
  /\ \A i \in 1..Len(queue) : queue[i] \in Range(enc)
  /\ \A i \in 1..Len(pairs) : pairs[i][1] # NoMsg

\* Backpressure does not block the server: every connection gets an answer or is
\* closed, though the inbox be full and nobody reads it.
EveryConnectionEnds == \A c \in Conns : <>(pc[c] \in {"done", "lost"})

\* "Read matching encrypted record from queue file" (inbox_terminal.c): the text
\* shown as Encrypted is the encryption of the text shown as Plaintext.
RecordMatches == \A i \in 1..Len(pairs) : pairs[i][1] = pairs[i][2]

\* Connections and the API thread race on inbox and inbox_count, and a message
\* can be read from the kernel before it is listed.  Entries are lost or listed
\* again, but the count never goes below zero, and it passes MAX_MESSAGES, or an
\* entry is stored past the array, only after two calls of direct_add_to_inbox
\* have been under way at once.
ListInBounds ==
  /\ inbox_count >= 0
  /\ \/ crowded
     \/ /\ inbox_count <= MAX_MESSAGES
        /\ \A c \in Conns : pc[c] = "add_copy" => reg[c] \in DOMAIN inbox
        /\ \A a \in Api : pc[a] = "shift" /\ idx < inbox_count - 1
                             => idx + 1 \in DOMAIN inbox
=============================================================================
