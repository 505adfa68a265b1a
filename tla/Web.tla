-------------------------------- MODULE Web --------------------------------
(***************************************************************************)
(* The way of a received message to a user's screen: kernel inbox, the     *)
(* daemon's inbox list, the single API thread (userspace/api), the bridge  *)
(* (web/server.js) and the pages (web/public/script.js).                   *)
(*                                                                         *)
(* A page polls the list every second and shows a Read button for its      *)
(* first entry; Read takes the first message of the kernel inbox, which    *)
(* need not be that one.  Each request is a connection of its own, so the  *)
(* API thread may meet them, and the page their answers, in any order.     *)
(* Requests that the API answers at once and that change nothing (stats,   *)
(* outbox, chatroom, send) are left out.  The list is atomic here; module  *)
(* Inbox takes it apart.                                                   *)
(***************************************************************************)
EXTENDS Integers, FiniteSets, SequencesExt

CONSTANTS Messages,
          Blank,           \* messages of length 0 or MSG_MAX_LEN
          Pages,
          Polls, Reads,    \* bounds: requests that a page may have under way
          FIFO_SIZE, MAX_MESSAGES,
          NoSlot,
          Old              \* an entry that a terminal's read has left in the list

ASSUME WebAssumption ==
  /\ Blank \subseteq Messages
  /\ Polls \cap Reads = {} /\ "all" \notin Polls \cup Reads
  /\ FIFO_SIZE \in Nat \ {0} /\ MAX_MESSAGES \in Nat \ {0}

\* The requests: of the pages, and a client's POST /api/read/all.
ReadAll == <<"client", "all">>
Slots == (Pages \X (Polls \cup Reads)) \cup {ReadAll}
kind(s) == CASE s[2] \in Polls -> "messages"
             [] s[2] \in Reads -> "read"
             [] OTHER -> "all"

VARIABLES unsent,      \* messages that no peer has sent yet
          queue,       \* inbox_fifo
          adding,      \* stored there, but not yet in the list
          list,        \* direct.c's inbox
          req,         \* each request: "idle", "sent" or "answered"
          data,        \* what its answer holds
          api,         \* the request whose messages the API thread is reading
          apc,         \* where it is in its handler
          todo,        \* messages it has still to read
          shown,       \* each page: the entries it shows
          button,      \* and whether its Read button can be pressed
          seen,        \* history: messages with a text that a user was shown
          rival,       \* history: a terminal read during READ ALL
          unlisted     \* history: messages that found the list full

inboxes == <<queue, adding, list>>
thread == <<api, apc, todo>>
pages == <<shown, button>>
past == <<seen, rival, unlisted>>
vars == <<unsent, inboxes, req, data, thread, pages, past>>

Init ==
  /\ unsent = Messages
  /\ queue = <<>> /\ adding = {} /\ list \in {<<>>, <<Old>>}
  /\ req = [s \in Slots |-> "idle"] /\ data = [s \in Slots |-> <<>>]
  /\ api = NoSlot /\ apc = "accept" /\ todo = 0
  /\ shown = [p \in Pages |-> <<>>] /\ button = [p \in Pages |-> FALSE]
  /\ seen = {} /\ rival = FALSE /\ unlisted = 0

\* dlen is 0 unless 0 < len < 256: the text of a blank message is "".
msg_to_json(m) == IF m \in Blank THEN "" ELSE m
json(msgs) == [i \in DOMAIN msgs |-> msg_to_json(msgs[i])]

(***************************************************************************)
(* Connection threads of the message server, and the inbox terminal        *)
(***************************************************************************)
keycipher_in_write(m) ==
  /\ m \in unsent /\ Len(queue) < FIFO_SIZE
  /\ unsent' = unsent \ {m}
  /\ queue' = Append(queue, m) /\ adding' = adding \cup {m}
  /\ UNCHANGED <<list, req, data, thread, pages, past>>

direct_add_to_inbox(m) ==
  /\ m \in adding
  /\ adding' = adding \ {m}
  /\ IF Len(list) < MAX_MESSAGES
     THEN list' = Append(list, m) /\ UNCHANGED unlisted
     ELSE unlisted' = unlisted + 1 /\ UNCHANGED list
  /\ UNCHANGED <<unsent, queue, req, data, thread, pages, seen, rival>>

\* inbox_terminal takes a message; the daemon's list keeps its entry.
terminal_read ==
  /\ queue # <<>>
  /\ queue' = Tail(queue)
  /\ seen' = seen \cup ({Head(queue)} \ Blank)
  /\ rival' = (rival \/ api = ReadAll)
  /\ UNCHANGED <<unsent, adding, list, req, data, thread, pages, unlisted>>

(***************************************************************************)
(* Pages, and the bridge that passes their requests on                     *)
(***************************************************************************)
send(s) == req[s] = "idle" /\ req' = [req EXCEPT ![s] = "sent"]

\* loadInbox, by the timer or the bridge's message_read.
loadInbox(p, x) ==
  /\ send(<<p, x>>)
  /\ UNCHANGED <<unsent, inboxes, data, thread, pages, past>>

\* The button is pressed and disabled.
readNext(p, x) ==
  /\ button[p] /\ shown[p] # <<>>
  /\ send(<<p, x>>)
  /\ button' = [button EXCEPT ![p] = FALSE]
  /\ UNCHANGED <<unsent, inboxes, data, thread, shown, past>>

\* In the bridge the route of /api/read/:id, which comes first, takes it.
post_read_all ==
  /\ send(ReadAll)
  /\ UNCHANGED <<unsent, inboxes, data, thread, pages, past>>

\* An answer that has arrived is used up.
receive(s) ==
  /\ req[s] = "answered"
  /\ req' = [req EXCEPT ![s] = "idle"]
  /\ data' = [data EXCEPT ![s] = <<>>]

\* Mutant: the button that readNext has disabled is kept.
renderInbox_KeepsButton(p, x) ==
  /\ receive(<<p, x>>)
  /\ shown' = [shown EXCEPT ![p] = data[<<p, x>>]]
  /\ button' = [button EXCEPT ![p] = @ \/ shown[p] = <<>>]
  /\ UNCHANGED <<unsent, inboxes, thread, past>>

\* renderInbox makes a new button, even while a read of the page is under way.
renderInbox(p, x) ==
  /\ receive(<<p, x>>)
  /\ shown' = [shown EXCEPT ![p] = data[<<p, x>>]]
  /\ button' = [button EXCEPT ![p] = TRUE]
  /\ UNCHANGED <<unsent, inboxes, thread, past>>

\* if (data.data) readHistory.unshift(...): an empty text is not shown.
show_plaintext(s) ==
  /\ receive(s)
  /\ seen' = seen \cup (Range(data[s]) \ {""})
  /\ UNCHANGED <<unsent, inboxes, thread, pages, rival, unlisted>>

(***************************************************************************)
(* The API thread                                                          *)
(***************************************************************************)
\* accept and the routing: the next request to be handled.
serves(s, k) ==
  /\ apc = "accept" /\ req[s] = "sent" /\ kind(s) = k

\* dprintf and close, then the next accept.
answer(s, msgs) ==
  /\ req' = [req EXCEPT ![s] = "answered"]
  /\ data' = [data EXCEPT ![s] = json(msgs)]
  /\ api' = NoSlot /\ apc' = "accept" /\ todo' = 0

\* The handler has opened the device to read n messages.
read_messages(s, n) ==
  /\ api' = s /\ apc' = "take" /\ todo' = n
  /\ UNCHANGED <<req, data>>

\* Mutant: the messages in the kernel are returned in place of the list.
handle_get_messages_FromKernel(s) ==
  /\ serves(s, "messages")
  /\ answer(s, queue)
  /\ UNCHANGED <<unsent, inboxes, pages, past>>

handle_get_messages(s) ==
  /\ serves(s, "messages")
  /\ answer(s, list)
  /\ UNCHANGED <<unsent, inboxes, pages, past>>

handle_read_one(s) ==
  /\ serves(s, "read")
  /\ read_messages(s, 1)
  /\ UNCHANGED <<unsent, inboxes, pages, past>>

\* Mutant: the entries of the list are counted in place of the messages.
handle_read_all_CountsList(s) ==
  /\ serves(s, "all")
  /\ IF list = <<>> THEN answer(s, <<>>) ELSE read_messages(s, Len(list))
  /\ UNCHANGED <<unsent, inboxes, pages, past>>

\* The count comes from /proc/keycipher/stats.
handle_read_all(s) ==
  /\ serves(s, "all")
  /\ IF queue = <<>> THEN answer(s, <<>>) ELSE read_messages(s, Len(queue))
  /\ UNCHANGED <<unsent, inboxes, pages, past>>

\* read() sleeps while the inbox is empty.
keycipher_in_read ==
  /\ apc = "take" /\ queue # <<>>
  /\ queue' = Tail(queue)
  /\ data' = [data EXCEPT ![api] = Append(@, Head(queue))]
  /\ todo' = todo - 1 /\ apc' = "pop"
  /\ UNCHANGED <<unsent, adding, list, req, api, pages, past>>

\* Mutant: the whole list is emptied.
direct_pop_inbox_front_Clears ==
  /\ apc = "pop"
  /\ list' = <<>>
  /\ IF todo = 0 THEN answer(api, data[api]) ELSE read_messages(api, todo)
  /\ rival' = (rival /\ todo # 0)
  /\ UNCHANGED <<unsent, queue, adding, pages, seen, unlisted>>

\* The first entry goes, if there is one, and the handler reads on or answers.
direct_pop_inbox_front ==
  /\ apc = "pop"
  /\ list' = IF list = <<>> THEN list ELSE Tail(list)
  /\ IF todo = 0 THEN answer(api, data[api]) ELSE read_messages(api, todo)
  /\ rival' = (rival /\ todo # 0)
  /\ UNCHANGED <<unsent, queue, adding, pages, seen, unlisted>>

api_server_start(s) ==
  handle_get_messages(s) \/ handle_read_one(s) \/ handle_read_all(s)

read_step == keycipher_in_read \/ direct_pop_inbox_front

Next ==
  \/ \E m \in Messages : keycipher_in_write(m) \/ direct_add_to_inbox(m)
  \/ terminal_read \/ post_read_all
  \/ \E p \in Pages, x \in Polls : loadInbox(p, x) \/ renderInbox(p, x)
  \/ \E p \in Pages, x \in Reads : readNext(p, x)
  \/ \E s \in Slots : kind(s) # "messages" /\ show_plaintext(s)
  \/ \E s \in Slots : api_server_start(s)
  \/ read_step

Spec == Init /\ [][Next]_vars

\* Timers go on, connections are accepted in the order they arrive, so each one
\* in the end, threads run on, and a user presses Read as long as there is one.
Fairness ==
  /\ \A m \in Messages : WF_vars(direct_add_to_inbox(m))
  /\ \A p \in Pages, x \in Polls : WF_vars(loadInbox(p, x)) /\ WF_vars(renderInbox(p, x))
  /\ \A p \in Pages : WF_vars(\E x \in Reads : readNext(p, x))
  /\ \A s \in Slots : SF_vars(api_server_start(s)) /\ WF_vars(show_plaintext(s))
  /\ WF_vars(read_step)

FairSpec == Spec /\ Fairness

(***************************************************************************)
(* Properties                                                              *)
(***************************************************************************)
\* However reads, the terminal and new messages interleave, the list has an entry
\* for every waiting message (it may have more), so that a page has a Read button
\* for it; only a message that found the list full may lack one.
ListCoversInbox ==
  Len(list) + Cardinality(adding) + unlisted
     >= Len(queue) + (IF apc = "pop" THEN 1 ELSE 0)

\* READ ALL finds every message that it has counted, and does not sleep in read(),
\* unless a terminal took one meanwhile.
ReadAllFindsMessages == apc = "take" /\ api = ReadAll /\ queue = <<>> => rival

Waiting == apc = "take" /\ queue = <<>>

\* A message in the inbox is shown to a user who keeps pressing Read, although the
\* button's entry and the message it reads may differ.  Except a blank message, one
\* held by a READ ALL that lost another to the terminal and waits, and after a
\* message was left out of the full list.
MessageReachesUser ==
  \A m \in Messages \ Blank :
    m \in Range(queue)
       ~> m \in seen \/ unlisted > 0 \/ (Waiting /\ m \in Range(data[ReadAll]))

\* Every page keeps catching up with the list, although answers may come out of
\* order, unless the API thread sleeps in a read of the empty inbox.
PageCatchesUp == \A p \in Pages : []<>(shown[p] = json(list) \/ Waiting)

\* handlers.c: "return JSON array of messages currently in inbox".  A message that
\* stays in the inbox gets into the list that the array is made from.
InboxIsListed ==
  \A m \in Messages : m \in Range(queue) ~> m \in Range(list) \/ m \notin Range(queue)
=============================================================================
