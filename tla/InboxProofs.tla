---------------------------- MODULE InboxProofs ----------------------------
(***************************************************************************)
(* Proofs about Inbox, for any finite number of connections, any size of   *)
(* the kernel's inbox and of the list, and any backlog in the queue file.  *)
(***************************************************************************)
EXTENDS Inbox, SequenceTheorems, FiniteSetTheorems, TLAPS

Threads == Conns \cup Readers
ConnStages == {"accept", "enc", "short", "chatroom", "open", "write", "add",
               "add_load", "add_store", "add_copy", "reply", "done", "lost"}
ReaderStages == {"idle", "read", "shift", "pop_store", "prompt", "fread"}

TypeInv ==
  /\ queue \in Seq(Conns \cup {NoMsg})
  /\ call \in [Threads -> {"idle", "pending", "done"}]
  /\ val \in [Threads -> Conns \cup {NoMsg}]
  /\ enc \in Seq(Conns \cup {Old})
  /\ inbox \in [0..MAX_MESSAGES - 1 -> Conns \cup {Old, NoMsg}]
  /\ inbox_count \in Int /\ reg \in [Daemon -> Int] /\ idx \in Nat
  /\ pc \in [Threads -> ConnStages \cup ReaderStages]
  /\ resp \in [Conns -> {"none", "200", "400", "429", "503", "closed"}]
  /\ enc_pos \in Nat
  /\ pairs \in Seq((Conns \cup {Old, NoMsg}) \X (Conns \cup {NoMsg}))
  /\ stored \subseteq Conns

\* One thread reads for the front end, one process is the terminal.
LEMMA Alone ==
  /\ \A a, b \in Api : a = b
  /\ \A p, q \in Terminal : p = q
<1>1. ASSUME NEW S, IsFiniteSet(S), Cardinality(S) <= 1, NEW x \in S, NEW y \in S
      PROVE  x = y
  <2>1. IsFiniteSet(S \ {x}) /\ Cardinality(S \ {x}) = Cardinality(S) - 1
    BY <1>1, FS_RemoveElement
  <2>2. Cardinality(S) \in Nat /\ Cardinality(S \ {x}) \in Nat
    BY <1>1, <2>1, FS_CardinalityType
  <2>3. Cardinality(S \ {x}) = 0
    BY <1>1, <2>1, <2>2
  <2>4. S \ {x} = {}
    BY <2>1, <2>3, FS_EmptySet
  <2> QED BY <2>4
<1>2. IsFiniteSet(Api) /\ IsFiniteSet(Terminal)
  BY InboxAssumption, FS_Subset DEF Readers
<1> QED BY <1>1, <1>2, InboxAssumption

LEMMA ThreadSets ==
  /\ Conns \subseteq Threads /\ Api \subseteq Threads /\ Terminal \subseteq Threads
  /\ Conns \subseteq Daemon /\ Api \subseteq Daemon
  /\ Conns \cap Api = {} /\ Conns \cap Terminal = {} /\ Api \cap Terminal = {}
  /\ Kernel!Callers = Threads
  BY InboxAssumption DEF Threads, Readers, Daemon, Kernel!Callers

(***************************************************************************)
(* Type correctness                                                        *)
(***************************************************************************)
LEMMA ConnTypes ==
  ASSUME TypeInv, NEW c \in Conns, conn_step(c)
  PROVE  TypeInv'
<1> USE ThreadSets
<1>g. ASSUME NEW stage \in ConnStages, Goto(c, stage)
      PROVE  pc' \in [Threads -> ConnStages \cup ReaderStages]
  BY <1>g DEF Goto, TypeInv
<1>r. ASSUME NEW answer \in {"200", "400", "429", "503", "closed"}, respond(c, answer)
      PROVE  /\ pc' \in [Threads -> ConnStages \cup ReaderStages]
             /\ resp' \in [Conns -> {"none", "200", "400", "429", "503", "closed"}]
  BY <1>r, <1>g DEF respond, TypeInv, ConnStages
<1>1. CASE recv(c) \/ chatroom_receive(c) \/ write_short(c) \/ reply(c)
  <2>1. /\ pc' \in [Threads -> ConnStages \cup ReaderStages]
        /\ resp' \in [Conns -> {"none", "200", "400", "429", "503", "closed"}]
    <3>1. CASE \E kind \in {"enc", "short", "chatroom"} : Goto(c, kind) /\ UNCHANGED resp
      BY <3>1, <1>g DEF ConnStages, TypeInv
    <3>2. CASE \E answer \in {"200", "400", "429", "503", "closed"} : respond(c, answer)
      BY <3>2, <1>r
    <3> QED BY <1>1, <3>1, <3>2 DEF recv, chatroom_receive, write_short, reply
  <2> QED BY <1>1, <2>1
        DEF recv, chatroom_receive, write_short, reply, TypeInv, kernel, mirror, term, past
<1>2. CASE save_record(c)
  <2>1. enc' \in Seq(Conns \cup {Old})
    BY <1>2, AppendProperties DEF save_record, TypeInv
  <2> QED BY <1>2, <1>g, <2>1
        DEF save_record, TypeInv, kernel, mirror, term, past, ConnStages
<1>3. CASE open_device(c)
  <2>1. CASE Kernel!Invoke(c, c) /\ Goto(c, "write") /\ UNCHANGED resp
    BY <1>3, <2>1, <1>g
      DEF open_device, Kernel!Invoke, TypeInv, mirror, term, past, ConnStages
  <2>2. CASE respond(c, "503") /\ UNCHANGED kernel
    BY <1>3, <2>2, <1>r DEF open_device, TypeInv, kernel, mirror, term, past
  <2> QED BY <1>3, <2>1, <2>2 DEF open_device
<1>4. CASE kernel_store(c)
  <2>1. queue' \in Seq(Conns \cup {NoMsg})
    <3>1. val[c] \in Conns \cup {NoMsg}
      BY DEF TypeInv
    <3> QED BY <1>4, <3>1, AppendProperties DEF kernel_store, Kernel!Enqueue, TypeInv
  <2> QED BY <1>4, <2>1 DEF kernel_store, Kernel!Enqueue, TypeInv, mirror, term
<1>5. CASE write_return(c)
  <2>1. /\ queue' = queue
        /\ call' \in [Threads -> {"idle", "pending", "done"}]
        /\ val' \in [Threads -> Conns \cup {NoMsg}]
    BY <1>5 DEF write_return, Kernel!Return, Kernel!Fail, TypeInv
  <2>2. /\ pc' \in [Threads -> ConnStages \cup ReaderStages]
        /\ resp' \in [Conns -> {"none", "200", "400", "429", "503", "closed"}]
    BY <1>5, <1>g, <1>r DEF write_return, ConnStages, TypeInv
  <2> QED BY <1>5, <2>1, <2>2 DEF write_return, TypeInv, mirror, term, past
<1>6. CASE add_check(c)
  BY <1>6, <1>g DEF add_check, TypeInv, kernel, mirror, term, ConnStages
<1>7. CASE add_load(c)
  BY <1>7, <1>g DEF add_load, TypeInv, kernel, mirror, term, past, ConnStages
<1>8. CASE add_store(c)
  BY <1>8, <1>g DEF add_store, TypeInv, kernel, term, past, ConnStages
<1>9. CASE add_copy(c)
  <2>1. CASE inbox' = [inbox EXCEPT ![reg[c]] = c] /\ Goto(c, "reply") /\ UNCHANGED kernel
    BY <1>9, <2>1, <1>g DEF add_copy, TypeInv, kernel, term, past, ConnStages
  <2>2. CASE /\ pc' = [t \in DOMAIN pc |-> IF t \in Daemon THEN "lost" ELSE pc[t]]
             /\ call' = [t \in DOMAIN call |-> IF t \in Daemon THEN "idle" ELSE call[t]]
             /\ UNCHANGED <<inbox, queue, val>>
    BY <1>9, <2>2 DEF add_copy, TypeInv, term, past, ConnStages
  <2> QED BY <1>9, <2>1, <2>2 DEF add_copy
<1> QED BY <1>1, <1>2, <1>3, <1>4, <1>5, <1>6, <1>7, <1>8, <1>9 DEF conn_step

\* A step of the API thread or of the terminal.
ApiMove(a) == handle_read_one(a) \/ api_step(a)
TerminalMove(p) == get_inbox_count(p) \/ press_enter(p) \/ terminal_step(p)

LEMMA TakeFacts ==
  ASSUME TypeInv, NEW r \in Threads, kernel_take(r)
  PROVE  /\ call[r] = "pending" /\ call' = [call EXCEPT ![r] = "done"]
         /\ queue # <<>> /\ queue' = Tail(queue)
         /\ val' = [val EXCEPT ![r] = Head(queue)]
         /\ queue' \in Seq(Conns \cup {NoMsg}) /\ Head(queue) \in Conns \cup {NoMsg}
         /\ Len(queue) \in Nat /\ Len(queue') = Len(queue) - 1
         /\ \A i \in 1..Len(queue') : queue'[i] = queue[i + 1]
         /\ UNCHANGED <<enc, inbox, inbox_count, pc, reg, resp, idx, waiting, enc_pos,
                       pairs, stored, crowded>>
  BY HeadTailProperties, LenProperties
    DEF kernel_take, Kernel!Dequeue, TypeInv, mirror, term, past

LEMMA ApiTypes ==
  ASSUME TypeInv, NEW a \in Api, ApiMove(a)
  PROVE  TypeInv'
<1> USE ThreadSets
<1>g. ASSUME NEW stage \in ReaderStages, Goto(a, stage)
      PROVE  pc' \in [Threads -> ConnStages \cup ReaderStages]
  BY <1>g DEF Goto, TypeInv
<1>1. CASE handle_read_one(a)
  <2>1. /\ UNCHANGED queue /\ call' \in [Threads -> {"idle", "pending", "done"}]
        /\ val' \in [Threads -> Conns \cup {NoMsg}]
    BY <1>1 DEF handle_read_one, Kernel!Invoke, TypeInv
  <2> QED BY <1>1, <1>g, <2>1 DEF handle_read_one, TypeInv, mirror, term, past, ReaderStages
<1>2. CASE kernel_take(a)
  <2>1. a \in Threads
    OBVIOUS
  <2>2. /\ call' = [call EXCEPT ![a] = "done"] /\ val' = [val EXCEPT ![a] = Head(queue)]
        /\ queue' \in Seq(Conns \cup {NoMsg}) /\ Head(queue) \in Conns \cup {NoMsg}
        /\ UNCHANGED <<enc, inbox, inbox_count, pc, reg, resp, idx, enc_pos, pairs, stored>>
    BY <1>2, <2>1, TakeFacts
  <2> QED BY <2>2 DEF TypeInv
<1>3. CASE read_return(a)
  <2>1. /\ UNCHANGED queue /\ call' \in [Threads -> {"idle", "pending", "done"}]
        /\ val' \in [Threads -> Conns \cup {NoMsg}]
    BY <1>3 DEF read_return, Kernel!Return, TypeInv
  <2> QED BY <1>3, <1>g, <2>1 DEF read_return, TypeInv, mirror, term, past, ReaderStages
<1>4. CASE pop_shift(a)
  <2>1. CASE idx < inbox_count - 1 /\ inbox' = [inbox EXCEPT ![idx] = entry(idx + 1)]
             /\ idx' = idx + 1 /\ UNCHANGED <<pc, reg>>
    <3>1. entry(idx + 1) \in Conns \cup {Old, NoMsg}
      BY DEF entry, TypeInv
    <3>2. inbox' \in [0..MAX_MESSAGES - 1 -> Conns \cup {Old, NoMsg}]
      <4> DEFINE e == entry(idx + 1)
      <4>1. inbox' = [inbox EXCEPT ![idx] = e] /\ e \in Conns \cup {Old, NoMsg}
        BY <2>1, <3>1
      <4>2. inbox \in [0..MAX_MESSAGES - 1 -> Conns \cup {Old, NoMsg}]
        BY DEF TypeInv
      <4> HIDE DEF e
      <4> QED BY <4>1, <4>2
    <3>3. idx' \in Nat
      BY <2>1 DEF TypeInv
    <3> QED BY <1>4, <2>1, <3>2, <3>3 DEF pop_shift, TypeInv, kernel, term, past
  <2>2. CASE reg' = [reg EXCEPT ![a] = inbox_count] /\ Goto(a, "pop_store")
             /\ UNCHANGED <<inbox, idx>>
    BY <1>4, <1>g, <2>2 DEF pop_shift, TypeInv, kernel, term, past, ReaderStages
  <2> QED BY <1>4, <2>1, <2>2 DEF pop_shift
<1>5. CASE pop_store(a)
  BY <1>5, <1>g DEF pop_store, TypeInv, kernel, term, past, ReaderStages
<1> QED BY <1>1, <1>2, <1>3, <1>4, <1>5 DEF ApiMove, api_step

\* What show_message appends.
LEMMA ShowFacts ==
  ASSUME TypeInv, NEW p \in Terminal, show_message(p), enc_pos # 0
  PROVE  /\ Record(enc_pos) \in Conns \cup {Old, NoMsg}
         /\ enc_pos <= Len(enc) => Record(enc_pos) # NoMsg
         /\ pairs' \in Seq((Conns \cup {Old, NoMsg}) \X (Conns \cup {NoMsg}))
         /\ Len(pairs) \in Nat /\ Len(pairs') = Len(pairs) + 1
         /\ \A i \in 1..Len(pairs) : pairs'[i] = pairs[i]
         /\ pairs'[Len(pairs) + 1] = <<Record(enc_pos), val[p]>>
<1> DEFINE S == (Conns \cup {Old, NoMsg}) \X (Conns \cup {NoMsg})
<1>1. /\ enc \in Seq(Conns \cup {Old}) /\ Len(enc) \in Nat /\ enc_pos \in Nat
      /\ pairs \in Seq(S)
  BY LenProperties DEF TypeInv
<1>2. enc_pos <= Len(enc) => enc[enc_pos] \in Conns \cup {Old}
  <2>1. enc_pos <= Len(enc) => enc_pos \in 1..Len(enc)
    BY <1>1
  <2> QED BY <1>1, <2>1, ElementOfSeq
<1>3. /\ Record(enc_pos) \in Conns \cup {Old, NoMsg}
      /\ enc_pos <= Len(enc) => Record(enc_pos) # NoMsg
  BY <1>2, InboxAssumption DEF Record
<1>4. <<Record(enc_pos), val[p]>> \in S
  BY <1>3, ThreadSets DEF TypeInv
<1>5. pairs' = Append(pairs, <<Record(enc_pos), val[p]>>)
  BY DEF show_message
<1> QED BY <1>1, <1>3, <1>4, <1>5, AppendProperties, LenProperties

LEMMA TerminalTypes ==
  ASSUME TypeInv, NEW p \in Terminal, TerminalMove(p), pc[p] = "read" => enc_pos # 0
  PROVE  TypeInv'
<1> USE ThreadSets
<1>g. ASSUME NEW stage \in ReaderStages, Goto(p, stage)
      PROVE  pc' \in [Threads -> ConnStages \cup ReaderStages]
  BY <1>g DEF Goto, TypeInv
<1>1. CASE get_inbox_count(p) \/ press_enter(p)
  BY <1>1, <1>g
    DEF get_inbox_count, press_enter, TypeInv, kernel, mirror, term, past, ReaderStages
<1>2. CASE kernel_take(p)
  <2>1. p \in Threads
    OBVIOUS
  <2>2. /\ call' = [call EXCEPT ![p] = "done"] /\ val' = [val EXCEPT ![p] = Head(queue)]
        /\ queue' \in Seq(Conns \cup {NoMsg}) /\ Head(queue) \in Conns \cup {NoMsg}
        /\ UNCHANGED <<enc, inbox, inbox_count, pc, reg, resp, idx, enc_pos, pairs, stored>>
    BY <1>2, <2>1, TakeFacts
  <2> QED BY <2>2 DEF TypeInv
<1>3. CASE fread_record(p)
  <2>1. /\ UNCHANGED queue /\ call' \in [Threads -> {"idle", "pending", "done"}]
        /\ val' \in [Threads -> Conns \cup {NoMsg}]
    BY <1>3 DEF fread_record, Kernel!Invoke, TypeInv
  <2> QED BY <1>3, <1>g, <2>1 DEF fread_record, TypeInv, mirror, past, ReaderStages
<1>4. CASE show_message(p)
  <2>1. /\ UNCHANGED queue /\ call' \in [Threads -> {"idle", "pending", "done"}]
        /\ val' \in [Threads -> Conns \cup {NoMsg}]
    BY <1>4 DEF show_message, Kernel!Return, TypeInv
  <2>2. pairs' \in Seq((Conns \cup {Old, NoMsg}) \X (Conns \cup {NoMsg}))
    BY <1>4, ShowFacts DEF show_message
  <2> QED BY <1>4, <1>g, <2>1, <2>2 DEF show_message, TypeInv, mirror, past, ReaderStages
<1> QED BY <1>1, <1>2, <1>3, <1>4 DEF TerminalMove, terminal_step

(***************************************************************************)
(* What connections and readers leave alone                                *)
(***************************************************************************)
\* The API thread and the terminal touch nothing of a connection.
LEMMA ReaderFrame ==
  ASSUME TypeInv,
         \/ \E a \in Api : ApiMove(a)
         \/ \E p \in Terminal : TerminalMove(p)
  PROVE  /\ UNCHANGED <<enc, resp, stored, crowded>>
         /\ \A c \in Conns : pc'[c] = pc[c] /\ call'[c] = call[c] /\ val'[c] = val[c]
                             /\ reg'[c] = reg[c]
         /\ queue' = queue \/ (queue # <<>> /\ queue' = Tail(queue))
<1> USE ThreadSets
<1> USE DEF Goto, Kernel!Invoke, Kernel!Dequeue, Kernel!Return, TypeInv, kernel, mirror,
            term, past
<1>1. CASE \E a \in Api : ApiMove(a)
  BY <1>1 DEF ApiMove, api_step, handle_read_one, kernel_take, read_return, pop_shift,
              pop_store
<1>2. CASE \E p \in Terminal : TerminalMove(p)
  BY <1>2 DEF TerminalMove, terminal_step, get_inbox_count, press_enter, kernel_take,
              fread_record, show_message
<1> QED BY <1>1, <1>2

\* A step of a connection touches no other connection, or its daemon is lost.
LEMMA ConnFrame ==
  ASSUME TypeInv, NEW c \in Conns, conn_step(c)
  PROVE  /\ \A d \in Conns \ {c} :
              /\ call'[d] = call[d] \/ (call'[d] = "idle" /\ pc'[d] = "lost")
              /\ pc'[d] = pc[d] \/ (call'[d] = "idle" /\ pc'[d] = "lost")
              /\ val'[d] = val[d] /\ reg'[d] = reg[d] /\ resp'[d] = resp[d]
              /\ d \in stored' <=> d \in stored
         /\ \A p \in Terminal : pc'[p] = pc[p] /\ call'[p] = call[p] /\ val'[p] = val[p]
         /\ UNCHANGED <<enc_pos, pairs, idx, waiting>>
<1> USE ThreadSets
<1> USE DEF Goto, respond, Kernel!Invoke, Kernel!Enqueue, Kernel!Return, Kernel!Fail,
            TypeInv, kernel, mirror, term, past
<1>1. CASE add_copy(c)
  BY <1>1 DEF add_copy, Daemon
<1>2. CASE recv(c) \/ chatroom_receive(c) \/ write_short(c) \/ save_record(c)
           \/ open_device(c) \/ reply(c)
  BY <1>2 DEF recv, chatroom_receive, write_short, save_record, open_device, reply
<1>3. CASE kernel_store(c) \/ write_return(c)
  BY <1>3 DEF kernel_store, write_return
<1>4. CASE add_check(c) \/ add_load(c) \/ add_store(c)
  BY <1>4 DEF add_check, add_load, add_store
<1> QED BY <1>1, <1>2, <1>3, <1>4 DEF conn_step

(***************************************************************************)
(* AnswerIsTrue                                                            *)
(***************************************************************************)
\* A connection's stage tells whether its message is in the kernel, and in the
\* middle of write() the call's own state does.
ConnInv ==
  \A c \in Conns :
    /\ call[c] = "idle" <=> pc[c] # "write"
    /\ pc[c] = "write" => val[c] = c /\ (c \in stored <=> call[c] = "done")
    /\ pc[c] \in {"accept", "enc", "short", "chatroom", "open"} => c \notin stored
    /\ pc[c] \in {"add", "add_load", "add_store", "add_copy", "reply"} => c \in stored
    /\ resp[c] # "none" => pc[c] \in {"done", "lost"}

AnswerInv == TypeInv /\ ConnInv /\ AnswerIsTrue

LEMMA AnswerConn ==
  ASSUME AnswerInv, NEW c \in Conns, conn_step(c)
  PROVE  (ConnInv /\ AnswerIsTrue)'
<1> USE ThreadSets
<1>1. /\ call[c] = "idle" <=> pc[c] # "write"
      /\ pc[c] = "write" => val[c] = c /\ (c \in stored <=> call[c] = "done")
      /\ pc[c] \in {"accept", "enc", "short", "chatroom", "open"} => c \notin stored
      /\ pc[c] \in {"add", "add_load", "add_store", "add_copy", "reply"} => c \in stored
      /\ resp[c] # "none" => pc[c] \in {"done", "lost"}
      /\ resp[c] = "200" => c \in stored
      /\ resp[c] \in {"400", "429", "503", "closed"} => c \notin stored
  BY DEF AnswerInv, ConnInv, AnswerIsTrue
<1>2. /\ call'[c] = "idle" <=> pc'[c] # "write"
      /\ pc'[c] = "write" => val'[c] = c /\ (c \in stored' <=> call'[c] = "done")
      /\ pc'[c] \in {"accept", "enc", "short", "chatroom", "open"} => c \notin stored'
      /\ pc'[c] \in {"add", "add_load", "add_store", "add_copy", "reply"} => c \in stored'
      /\ resp'[c] # "none" => pc'[c] \in {"done", "lost"}
      /\ resp'[c] = "200" => c \in stored'
      /\ resp'[c] \in {"400", "429", "503", "closed"} => c \notin stored'
  <2> USE <1>1
  <2> USE DEF AnswerInv, TypeInv, Goto, respond, Kernel!Invoke, Kernel!Enqueue,
              Kernel!Return, Kernel!Fail, kernel, mirror, term, past
  <2>1. CASE recv(c)
    BY <2>1 DEF recv
  <2>2. CASE chatroom_receive(c) \/ write_short(c) \/ save_record(c) \/ reply(c)
    BY <2>2 DEF chatroom_receive, write_short, save_record, reply
  <2>3. CASE open_device(c)
    BY <2>3 DEF open_device
  <2>4. CASE kernel_store(c)
    BY <2>4 DEF kernel_store
  <2>5. CASE write_return(c)
    BY <2>5 DEF write_return
  <2>6. CASE add_check(c) \/ add_load(c) \/ add_store(c)
    BY <2>6 DEF add_check, add_load, add_store
  <2>7. CASE add_copy(c)
    BY <2>7 DEF add_copy
  <2> QED BY <2>1, <2>2, <2>3, <2>4, <2>5, <2>6, <2>7, Zenon DEF conn_step
<1>3. ASSUME NEW d \in Conns \ {c}
      PROVE  /\ call'[d] = "idle" <=> pc'[d] # "write"
             /\ pc'[d] = "write" => val'[d] = d /\ (d \in stored' <=> call'[d] = "done")
             /\ pc'[d] \in {"accept", "enc", "short", "chatroom", "open"} => d \notin stored'
             /\ pc'[d] \in {"add", "add_load", "add_store", "add_copy", "reply"}
                  => d \in stored'
             /\ resp'[d] # "none" => pc'[d] \in {"done", "lost"}
             /\ resp'[d] = "200" => d \in stored'
             /\ resp'[d] \in {"400", "429", "503", "closed"} => d \notin stored'
  BY ConnFrame DEF AnswerInv, ConnInv, AnswerIsTrue
<1> QED BY <1>2, <1>3 DEF ConnInv, AnswerIsTrue

LEMMA AnswerReader ==
  ASSUME AnswerInv,
         \/ \E a \in Api : ApiMove(a)
         \/ \E p \in Terminal : TerminalMove(p)
  PROVE  (ConnInv /\ AnswerIsTrue)'
  BY ReaderFrame DEF AnswerInv, ConnInv, AnswerIsTrue

(***************************************************************************)
(* RecordBeforeMessage                                                     *)
(***************************************************************************)
\* A record is on file before the device is opened, and only what connections
\* have stored is ever queued.
RecordInv ==
  /\ \A c \in Conns : pc[c] \in {"open", "write"} \/ c \in stored => c \in Range(enc)
  /\ \A i \in 1..Len(queue) : queue[i] \in stored

\* Connections that have saved a record and whose message is, or may still get,
\* into the kernel: each has a record of its own behind the earlier ones.
Recorded == stored \cup {c \in Conns : pc[c] \in {"open", "write"}}

\* The terminal has taken, and so has read records for, no more messages than the
\* kernel has stored, and there are as many records.
CountInv ==
  /\ Earlier + Cardinality(Recorded) <= Len(enc)
  /\ \A p \in Terminal :
       /\ Len(queue) + Len(pairs) + (IF call[p] = "done" THEN 1 ELSE 0)
            <= Cardinality(stored)
       /\ enc_pos <= Earlier + Len(pairs) + (IF pc[p] = "read" THEN 1 ELSE 0)
       /\ pc[p] = "read" => enc_pos # 0

ShownInv == \A i \in 1..Len(pairs) : pairs[i][1] # NoMsg

RecordsInv == AnswerInv /\ RecordInv /\ CountInv /\ ShownInv

\* What a connection does to the queue file and the kernel: it saves its record,
\* or stores its message, or neither.
LEMMA ConnEffect ==
  ASSUME AnswerInv, NEW c \in Conns, conn_step(c)
  PROVE  \/ /\ UNCHANGED <<enc, stored, queue>>
            /\ pc'[c] \in {"open", "write"} => pc[c] \in {"open", "write"}
         \/ /\ enc' = Append(enc, c) /\ UNCHANGED <<stored, queue>>
            /\ pc[c] \notin {"open", "write"} /\ c \notin stored
         \/ /\ queue' = Append(queue, c) /\ stored' = stored \cup {c} /\ c \notin stored
            /\ pc[c] = "write" /\ UNCHANGED <<enc, pc>>
<1> USE ThreadSets
<1> USE DEF Goto, respond, Kernel!Invoke, Kernel!Enqueue, Kernel!Return, Kernel!Fail,
            kernel, mirror, term, past
<1>t. pc \in [Threads -> ConnStages \cup ReaderStages]
  BY DEF AnswerInv, TypeInv
<1>1. CASE save_record(c)
  BY <1>1 DEF save_record, AnswerInv, ConnInv
<1>2. CASE kernel_store(c)
  BY <1>2 DEF kernel_store, AnswerInv, ConnInv
<1>3. CASE recv(c) \/ chatroom_receive(c) \/ write_short(c) \/ open_device(c) \/ reply(c)
  BY <1>3, <1>t DEF recv, chatroom_receive, write_short, open_device, reply
<1>4. CASE write_return(c) \/ add_check(c) \/ add_load(c) \/ add_store(c) \/ add_copy(c)
  BY <1>4, <1>t DEF write_return, add_check, add_load, add_store, add_copy
<1> QED BY <1>1, <1>2, <1>3, <1>4 DEF conn_step

LEMMA RecordedFacts ==
  ASSUME TypeInv
  PROVE  /\ IsFiniteSet(stored) /\ Cardinality(stored) \in Nat
         /\ IsFiniteSet(Recorded) /\ Cardinality(Recorded) \in Nat
         /\ Cardinality(stored) <= Cardinality(Recorded)
         /\ Len(enc) \in Nat /\ Len(queue) \in Nat /\ Len(pairs) \in Nat
         /\ Earlier \in Nat /\ enc_pos \in Nat
<1>1. stored \subseteq Conns /\ Recorded \subseteq Conns /\ stored \subseteq Recorded
  BY DEF TypeInv, Recorded
<1>2. IsFiniteSet(stored) /\ IsFiniteSet(Recorded)
      /\ Cardinality(stored) <= Cardinality(Recorded)
  BY <1>1, FS_Subset, InboxAssumption
<1>3. Len(enc) \in Nat /\ Len(queue) \in Nat /\ Len(pairs) \in Nat
  BY LenProperties DEF TypeInv
<1> QED BY <1>2, <1>3, FS_CardinalityType, InboxAssumption DEF TypeInv

LEMMA RecordsConn ==
  ASSUME RecordsInv, NEW c \in Conns, conn_step(c)
  PROVE  (RecordInv /\ CountInv /\ ShownInv)'
<1> USE ThreadSets
<1>t. AnswerInv /\ TypeInv /\ TypeInv'
  BY ConnTypes DEF RecordsInv, AnswerInv
<1>n. /\ Cardinality(stored) \in Nat /\ Cardinality(Recorded) \in Nat
      /\ Cardinality(stored') \in Nat /\ Cardinality(Recorded') \in Nat
      /\ IsFiniteSet(stored) /\ IsFiniteSet(Recorded) /\ IsFiniteSet(Recorded')
      /\ Len(enc) \in Nat /\ Len(queue) \in Nat /\ Len(pairs) \in Nat /\ Earlier \in Nat
  <2>1. IsFiniteSet(stored') /\ IsFiniteSet(Recorded')
    BY <1>t, FS_Subset, InboxAssumption DEF TypeInv, Recorded
  <2> QED BY <1>t, <2>1, RecordedFacts, FS_CardinalityType
<1>f. /\ \A d \in Conns \ {c} : pc'[d] = pc[d] \/ pc'[d] = "lost"
      /\ \A p \in Terminal : pc'[p] = pc[p] /\ call'[p] = call[p]
      /\ UNCHANGED <<enc_pos, pairs>>
  BY <1>t, ConnFrame
<1>i. /\ \A d \in Conns : pc[d] \in {"open", "write"} \/ d \in stored => d \in Range(enc)
      /\ \A i \in 1..Len(queue) : queue[i] \in stored
      /\ Earlier + Cardinality(Recorded) <= Len(enc)
      /\ \A p \in Terminal :
           Len(queue) + Len(pairs) + (IF call[p] = "done" THEN 1 ELSE 0)
             <= Cardinality(stored)
  BY DEF RecordsInv, RecordInv, CountInv
<1>p. /\ ShownInv'
      /\ \A p \in Terminal :
           /\ enc_pos' <= Earlier + Len(pairs') + (IF pc'[p] = "read" THEN 1 ELSE 0)
           /\ pc'[p] = "read" => enc_pos' # 0
  BY <1>f DEF RecordsInv, CountInv, ShownInv
<1>1. CASE /\ UNCHANGED <<enc, stored, queue>>
           /\ pc'[c] \in {"open", "write"} => pc[c] \in {"open", "write"}
  <2>1. Recorded' \subseteq Recorded
    BY <1>1, <1>f DEF Recorded
  <2>2. Cardinality(Recorded') <= Cardinality(Recorded)
    BY <2>1, <1>n, FS_Subset
  <2>3. RecordInv'
    BY <1>1, <1>f, <1>i DEF RecordInv
  <2>4. CountInv'
    BY <1>1, <2>2, <1>f, <1>i, <1>n, <1>p DEF CountInv
  <2> QED BY <2>3, <2>4, <1>p
<1>2. CASE /\ enc' = Append(enc, c) /\ UNCHANGED <<stored, queue>>
           /\ pc[c] \notin {"open", "write"} /\ c \notin stored
  <2>1. Recorded' \subseteq Recorded \cup {c} /\ c \notin Recorded
    BY <1>2, <1>f DEF Recorded
  <2>2. /\ IsFiniteSet(Recorded \cup {c})
        /\ Cardinality(Recorded \cup {c}) = Cardinality(Recorded) + 1
    BY <2>1, <1>n, FS_AddElement
  <2>3. Cardinality(Recorded') <= Cardinality(Recorded) + 1
    BY <2>1, <2>2, FS_Subset
  <2>4. Len(enc') = Len(enc) + 1
    BY <1>2, <1>t, AppendProperties DEF TypeInv
  <2>5. Range(enc') = Range(enc) \cup {c}
    <3>1. enc \in Seq(Conns \cup {Old}) /\ c \in Conns \cup {Old}
      BY <1>t DEF TypeInv
    <3>2. /\ enc' \in Seq(Conns \cup {Old})
          /\ \A i \in 1..Len(enc) : enc'[i] = enc[i]
          /\ enc'[Len(enc) + 1] = c
      BY <3>1, <1>2, AppendProperties
    <3>3. /\ Range(enc') = {enc'[i] : i \in 1..Len(enc')}
          /\ Range(enc) = {enc[i] : i \in 1..Len(enc)}
      BY <3>1, <3>2, RangeEquality
    <3>4. 1..Len(enc') = (1..Len(enc)) \cup {Len(enc) + 1}
      BY <2>4, <1>n
    <3>5. ASSUME NEW i \in 1..Len(enc') PROVE enc'[i] \in Range(enc) \cup {c}
      <4>1. CASE i \in 1..Len(enc)
        BY <4>1, <3>2, <3>3
      <4>2. CASE i = Len(enc) + 1
        BY <4>2, <3>2
      <4> QED BY <3>4, <4>1, <4>2
    <3>6. ASSUME NEW i \in 1..Len(enc) PROVE enc[i] \in Range(enc')
      BY <3>2, <3>3, <3>4, Zenon
    <3>7. c \in Range(enc')
      BY <3>2, <3>3, <3>4, Zenon
    <3> QED BY <3>3, <3>5, <3>6, <3>7, Zenon
  <2>6. RecordInv'
    BY <1>2, <2>5, <1>f, <1>i DEF RecordInv
  <2>7. CountInv'
    <3>1. Earlier + Cardinality(Recorded') <= Len(enc')
      BY <2>3, <2>4, <1>i, <1>n
    <3> QED BY <3>1, <1>2, <1>f, <1>i, <1>p DEF CountInv
  <2> QED BY <2>6, <2>7, <1>p
<1>3. CASE /\ queue' = Append(queue, c) /\ stored' = stored \cup {c} /\ c \notin stored
           /\ pc[c] = "write" /\ UNCHANGED <<enc, pc>>
  <2>1. Recorded' = Recorded
    BY <1>3 DEF Recorded
  <2>2. Cardinality(stored') = Cardinality(stored) + 1
    BY <1>3, <1>n, FS_AddElement
  <2>3. /\ Len(queue') = Len(queue) + 1
        /\ \A i \in 1..Len(queue) : queue'[i] = queue[i]
        /\ queue'[Len(queue) + 1] = c
    <3>1. queue \in Seq(Conns \cup {NoMsg}) /\ c \in Conns \cup {NoMsg}
      BY <1>t DEF TypeInv
    <3> QED BY <3>1, <1>3, AppendProperties
  <2>4. RecordInv'
    BY <1>3, <2>3, <1>i, <1>n DEF RecordInv
  <2>5. CountInv'
    BY <1>3, <2>1, <2>2, <2>3, <1>f, <1>i, <1>n, <1>p DEF CountInv
  <2> QED BY <2>4, <2>5, <1>p
<1> QED BY <1>t, <1>1, <1>2, <1>3, ConnEffect

LEMMA RecordsReader ==
  ASSUME RecordsInv,
         \/ \E a \in Api : ApiMove(a)
         \/ \E p \in Terminal : TerminalMove(p)
  PROVE  (RecordInv /\ CountInv /\ ShownInv)'
<1> USE ThreadSets
<1>t. TypeInv
  BY DEF RecordsInv, AnswerInv
<1>n. /\ Cardinality(stored) \in Nat /\ Cardinality(Recorded) \in Nat
      /\ Cardinality(stored) <= Cardinality(Recorded)
      /\ Len(enc) \in Nat /\ Len(queue) \in Nat /\ Len(pairs) \in Nat
      /\ Earlier \in Nat /\ enc_pos \in Nat
  BY <1>t, RecordedFacts
<1>f. /\ UNCHANGED <<enc, stored>>
      /\ \A c \in Conns : pc'[c] = pc[c]
      /\ Recorded' = Recorded
  BY <1>t, ReaderFrame DEF Recorded
<1>q. \/ queue' = queue
      \/ /\ queue # <<>> /\ Len(queue') = Len(queue) - 1
         /\ \A i \in 1..Len(queue') : queue'[i] = queue[i + 1]
  <2>1. queue' = queue \/ (queue # <<>> /\ queue' = Tail(queue))
    BY <1>t, ReaderFrame
  <2>2. queue \in Seq(Conns \cup {NoMsg})
    BY <1>t DEF TypeInv
  <2> QED BY <2>1, <2>2, HeadTailProperties
<1>i. /\ Earlier + Cardinality(Recorded) <= Len(enc)
      /\ \A p \in Terminal :
           /\ Len(queue) + Len(pairs) + (IF call[p] = "done" THEN 1 ELSE 0)
                <= Cardinality(stored)
           /\ enc_pos <= Earlier + Len(pairs) + (IF pc[p] = "read" THEN 1 ELSE 0)
           /\ pc[p] = "read" => enc_pos # 0
  BY DEF RecordsInv, CountInv
<1>r. RecordInv'
  BY <1>f, <1>q, <1>n DEF RecordsInv, RecordInv
<1>1. ASSUME NEW a \in Api, ApiMove(a)
      PROVE  CountInv' /\ ShownInv'
  <2>1. /\ UNCHANGED <<enc_pos, pairs>>
        /\ \A p \in Terminal : pc'[p] = pc[p] /\ call'[p] = call[p]
    BY <1>1, <1>t DEF ApiMove, api_step, handle_read_one, kernel_take, read_return,
         pop_shift, pop_store, Goto, Kernel!Invoke, Kernel!Dequeue, Kernel!Return,
         TypeInv, kernel, mirror, term, past
  <2>2. CountInv'
    BY <2>1, <1>f, <1>q, <1>n, <1>i DEF CountInv
  <2> QED BY <2>1, <2>2 DEF RecordsInv, ShownInv
<1>2. ASSUME NEW p \in Terminal, TerminalMove(p)
      PROVE  CountInv' /\ ShownInv'
  <2>1. \A q \in Terminal : q = p
    BY Alone
  <2>2. SUFFICES /\ Len(queue') + Len(pairs') + (IF call'[p] = "done" THEN 1 ELSE 0)
                      <= Cardinality(stored)
                 /\ enc_pos' <= Earlier + Len(pairs') + (IF pc'[p] = "read" THEN 1 ELSE 0)
                 /\ pc'[p] = "read" => enc_pos' # 0
                 /\ ShownInv'
    BY <2>1, <1>f, <1>i DEF CountInv
  <2>3. CASE get_inbox_count(p) \/ press_enter(p)
    BY <2>3, <1>t, <1>i, <1>n DEF get_inbox_count, press_enter, Goto, TypeInv, kernel, term,
         RecordsInv, ShownInv
  <2>4. CASE kernel_take(p)
    <3>1. /\ call[p] = "pending" /\ call' = [call EXCEPT ![p] = "done"]
          /\ Len(queue') = Len(queue) - 1 /\ UNCHANGED <<pc, enc_pos, pairs>>
      BY <2>4, <1>t, TakeFacts
    <3>2. call'[p] = "done"
      BY <3>1, <1>t DEF TypeInv
    <3>3. Len(queue) + Len(pairs) <= Cardinality(stored)
      BY <3>1, <1>i, <1>n
    <3>4. Len(queue') + Len(pairs') + 1 <= Cardinality(stored)
      BY <3>1, <3>3, <1>n
    <3>5. ShownInv'
      BY <3>1 DEF RecordsInv, ShownInv
    <3> QED BY <3>1, <3>2, <3>4, <3>5, <1>i
  <2>5. CASE fread_record(p)
    <3>1. /\ pc[p] = "fread" /\ pc'[p] = "read" /\ call[p] = "idle" /\ call'[p] = "pending"
          /\ enc_pos' = enc_pos + 1 /\ UNCHANGED <<queue, pairs>>
      BY <2>5, <1>t DEF fread_record, Goto, Kernel!Invoke, TypeInv
    <3> QED BY <3>1, <1>i, <1>n DEF RecordsInv, ShownInv
  <2>6. CASE show_message(p)
    <3>1. /\ pc[p] = "read" /\ call[p] = "done" /\ pc'[p] = "idle" /\ call'[p] = "idle"
          /\ UNCHANGED <<queue, enc_pos>>
      BY <2>6, <1>t DEF show_message, Goto, Kernel!Return, TypeInv
    <3>2. enc_pos # 0 /\ enc_pos <= Len(enc)
      BY <3>1, <1>i, <1>n
    <3>3. /\ Record(enc_pos) # NoMsg /\ Len(pairs') = Len(pairs) + 1
          /\ \A i \in 1..Len(pairs) : pairs'[i] = pairs[i]
          /\ pairs'[Len(pairs) + 1] = <<Record(enc_pos), val[p]>>
      BY <2>6, <3>2, <1>t, ShowFacts
    <3>4. ShownInv'
      BY <3>3, <1>n DEF RecordsInv, ShownInv
    <3> QED BY <3>1, <3>3, <3>4, <1>i, <1>n
  <2> QED BY <1>2, <2>3, <2>4, <2>5, <2>6 DEF TerminalMove, terminal_step
<1> QED BY <1>r, <1>1, <1>2

LEMMA RecordsInit == Init => RecordsInv
<1> SUFFICES ASSUME Init PROVE RecordsInv
  OBVIOUS
<1> USE ThreadSets
<1>1. /\ enc \in Seq(Conns \cup {Old}) /\ Len(enc) = Earlier /\ Earlier \in Nat
  BY InboxAssumption DEF Init
<1>2. /\ queue = <<>> /\ pairs = <<>> /\ stored = {} /\ Len(queue) = 0 /\ Len(pairs) = 0
      /\ call = [t \in Threads |-> "idle"] /\ val = [t \in Threads |-> NoMsg]
      /\ pc = [t \in Threads |-> IF t \in Conns THEN "accept" ELSE "idle"]
      /\ resp = [c \in Conns |-> "none"] /\ enc_pos = Earlier
  BY EmptySeq DEF Init, Kernel!Init, Threads
<1>3. TypeInv
  BY <1>1, <1>2, InboxAssumption, EmptySeq
    DEF Init, TypeInv, ConnStages, ReaderStages
<1>4. AnswerInv
  BY <1>2, <1>3 DEF AnswerInv, ConnInv, AnswerIsTrue
<1>5. Recorded = {} /\ Cardinality(stored) = 0 /\ Cardinality(Recorded) = 0
  BY <1>2, FS_EmptySet DEF Recorded
<1>6. RecordInv /\ CountInv /\ ShownInv
  BY <1>1, <1>2, <1>5 DEF RecordInv, CountInv, ShownInv
<1> QED BY <1>4, <1>6 DEF RecordsInv

LEMMA RecordsStep == RecordsInv /\ [Next]_vars => RecordsInv'
<1> SUFFICES ASSUME RecordsInv, [Next]_vars PROVE RecordsInv'
  OBVIOUS
<1>a. AnswerInv /\ TypeInv
  BY DEF RecordsInv, AnswerInv
<1>1. CASE \E c \in Conns : conn_step(c)
  BY <1>1, <1>a, ConnTypes, AnswerConn, RecordsConn DEF RecordsInv, AnswerInv
<1>2. ASSUME \/ \E a \in Api : ApiMove(a)
             \/ \E p \in Terminal : TerminalMove(p)
      PROVE  RecordsInv'
  <2>1. \A p \in Terminal : pc[p] = "read" => enc_pos # 0
    BY DEF RecordsInv, CountInv
  <2>2. TypeInv'
    BY <1>2, <1>a, <2>1, ApiTypes, TerminalTypes
  <2> QED BY <1>2, <1>a, <2>2, AnswerReader, RecordsReader DEF RecordsInv, AnswerInv
<1>3. CASE UNCHANGED vars
  <2>1. AnswerInv'
    BY <1>3, <1>a DEF AnswerInv, TypeInv, ConnInv, AnswerIsTrue, vars, kernel, mirror, term,
      past
  <2>2. RecordInv' /\ CountInv' /\ ShownInv'
    BY <1>3 DEF RecordsInv, RecordInv, Recorded, CountInv, ShownInv, vars, kernel, mirror,
      term, past
  <2> QED BY <2>1, <2>2 DEF RecordsInv
<1> QED BY <1>1, <1>2, <1>3 DEF Next, ApiMove, TerminalMove

\* However connections, the API thread and the terminal interleave, 200 is
\* answered only for a message that the kernel has stored, and every other answer
\* only for one that it never will.
THEOREM AnswerIsTrueHolds == Spec => []AnswerIsTrue
<1>1. RecordsInv => AnswerIsTrue
  BY DEF RecordsInv, AnswerInv
<1> QED BY <1>1, RecordsInit, RecordsStep, PTL DEF Spec

\* The queue file is always ahead of the device: what can be read has its record
\* on file, and the terminal finds a record for each message it shows, though it
\* counts them and nothing ties a record to its message.
THEOREM RecordBeforeMessageHolds == Spec => []RecordBeforeMessage
<1>1. RecordsInv => RecordBeforeMessage
  <2> SUFFICES ASSUME RecordsInv PROVE RecordBeforeMessage
    OBVIOUS
  <2>1. stored \subseteq Conns
    BY DEF RecordsInv, AnswerInv, TypeInv
  <2> QED BY <2>1 DEF RecordsInv, RecordInv, ShownInv, RecordBeforeMessage
<1> QED BY <1>1, RecordsInit, RecordsStep, PTL DEF Spec

(***************************************************************************)
(* ListInBounds                                                            *)
(***************************************************************************)
\* The count is never negative: whoever stores a lower one has loaded one that
\* was not zero, as direct_pop_inbox_front returns early on an empty list.
CountIsNatural ==
  /\ inbox_count \in Nat
  /\ \A c \in Conns : pc[c] \in {"add_store", "add_copy"} => reg[c] \in Nat
  /\ \A a \in Api : /\ pc[a] = "shift" => inbox_count # 0
                    /\ pc[a] = "pop_store" => reg[a] \in Nat \ {0}

\* While calls of direct_add_to_inbox come one at a time, the room that a call
\* has found is still there when it stores: the API thread only makes more.
RoomIsThere ==
  /\ inbox_count <= MAX_MESSAGES
  /\ \A c \in Conns : /\ pc[c] = "add_load" => inbox_count < MAX_MESSAGES
                      /\ pc[c] \in {"add_store", "add_copy"} => reg[c] < MAX_MESSAGES
  /\ \A a \in Api : pc[a] = "pop_store" => reg[a] <= MAX_MESSAGES
  /\ \A c, d \in Adding : c = d

ListInv == CountIsNatural /\ (crowded \/ RoomIsThere)

LEMMA ListInit == Init => ListInv
<1> SUFFICES ASSUME Init PROVE ListInv
  OBVIOUS
<1>1. /\ inbox_count = Earlier /\ Earlier \in Nat /\ Earlier <= MAX_MESSAGES
      /\ \A c \in Conns : pc[c] = "accept"
      /\ \A a \in Api : pc[a] = "idle"
  BY InboxAssumption, ThreadSets DEF Init, Threads
<1>2. Adding = {}
  BY <1>1 DEF Adding
<1> QED BY <1>1, <1>2 DEF ListInv, CountIsNatural, RoomIsThere

\* Every access of a connection to the list.
LEMMA ListConn ==
  ASSUME AnswerInv, ListInv, NEW c \in Conns, conn_step(c)
  PROVE  ListInv'
<1> USE ThreadSets
<1>m. MAX_MESSAGES \in Nat \ {0}
  BY InboxAssumption
<1>t. /\ inbox_count \in Int /\ reg \in [Daemon -> Int]
      /\ pc \in [Threads -> ConnStages \cup ReaderStages]
  BY DEF AnswerInv, TypeInv
<1>i. /\ inbox_count \in Nat
      /\ \A d \in Conns : pc[d] \in {"add_store", "add_copy"} => reg[d] \in Nat
      /\ \A a \in Api : /\ pc[a] = "shift" => inbox_count # 0
                        /\ pc[a] = "pop_store" => reg[a] \in Nat \ {0}
  BY DEF ListInv, CountIsNatural
<1>a. Adding = {d \in Conns : pc[d] \in {"add_load", "add_store", "add_copy"}}
  BY DEF Adding
<1>b. Adding' = {d \in Conns : pc'[d] \in {"add_load", "add_store", "add_copy"}}
  BY DEF Adding
<1>1. CASE \/ recv(c) \/ chatroom_receive(c) \/ write_short(c) \/ save_record(c)
           \/ open_device(c) \/ kernel_store(c) \/ write_return(c) \/ reply(c)
  <2>1. /\ UNCHANGED <<inbox_count, reg, crowded>>
        /\ \A d \in Threads \ {c} : pc'[d] = pc[d]
        /\ pc'[c] \notin {"add_load", "add_store", "add_copy"}
    <3> USE DEF Goto, respond
    <3>1. CASE recv(c) \/ chatroom_receive(c) \/ write_short(c) \/ save_record(c)
      BY <3>1, <1>t DEF recv, chatroom_receive, write_short, save_record, mirror, past
    <3>2. CASE open_device(c) \/ write_return(c) \/ reply(c)
      BY <3>2, <1>t DEF open_device, write_return, reply, mirror, past
    <3>3. CASE kernel_store(c)
      <4>1. pc[c] \notin {"add_load", "add_store", "add_copy"}
        BY <3>3 DEF kernel_store, Kernel!Enqueue, AnswerInv, ConnInv
      <4> QED BY <3>3, <4>1 DEF kernel_store, mirror
    <3> QED BY <1>1, <3>1, <3>2, <3>3
  <2>2. Adding' \subseteq Adding
    BY <2>1, <1>a, <1>b
  <2> QED BY <2>1, <2>2, <1>i DEF ListInv, CountIsNatural, RoomIsThere
<1>2. CASE add_check(c)
  <2>1. /\ UNCHANGED <<inbox_count, reg>> /\ pc[c] = "add"
        /\ \A d \in Threads \ {c} : pc'[d] = pc[d]
    BY <1>2, <1>t DEF add_check, Goto, mirror
  <2>2. \/ /\ pc'[c] = "reply" /\ crowded' = crowded
        \/ /\ pc'[c] = "add_load" /\ inbox_count < MAX_MESSAGES
           /\ crowded' \/ Adding = {}
           /\ crowded => crowded'
    <3>1. \/ /\ Goto(c, "reply") /\ crowded' = crowded
          \/ /\ ~ (inbox_count >= MAX_MESSAGES) /\ Goto(c, "add_load")
             /\ crowded' = (crowded \/ Adding # {})
      BY <1>2, Zenon DEF add_check
    <3>2. CASE Goto(c, "reply") /\ crowded' = crowded
      BY <3>2, <1>t DEF Goto
    <3>3. CASE /\ ~ (inbox_count >= MAX_MESSAGES) /\ Goto(c, "add_load")
               /\ crowded' = (crowded \/ Adding # {})
      <4>1. (crowded' \/ Adding = {}) /\ (crowded => crowded')
        BY <3>3, Zenon
      <4>2. pc'[c] = "add_load" /\ inbox_count < MAX_MESSAGES
        BY <3>3, <1>t, <1>m DEF Goto
      <4> QED BY <4>1, <4>2
    <3> QED BY <3>1, <3>2, <3>3
  <2>3. CountIsNatural'
    BY <2>1, <2>2, <1>i DEF CountIsNatural
  <2>4. ASSUME ~ crowded' PROVE RoomIsThere'
    <3>1. ~ crowded /\ RoomIsThere
      BY <2>2, <2>4 DEF ListInv
    <3>2. \A d, e \in Adding' : d = e
      BY <2>1, <2>2, <2>4, <3>1, <1>a, <1>b DEF RoomIsThere
    <3> QED BY <2>1, <2>2, <3>1, <3>2 DEF RoomIsThere
  <2> QED BY <2>3, <2>4 DEF ListInv
<1>3. CASE add_load(c)
  <2>1. /\ UNCHANGED <<inbox_count, crowded>>
        /\ pc[c] = "add_load" /\ pc'[c] = "add_store" /\ reg'[c] = inbox_count
        /\ \A d \in Threads \ {c} : pc'[d] = pc[d]
        /\ \A d \in Daemon \ {c} : reg'[d] = reg[d]
    BY <1>3, <1>t DEF add_load, Goto, mirror, past
  <2>2. Adding' = Adding
    BY <2>1, <1>a, <1>b
  <2> QED BY <2>1, <2>2, <1>i DEF ListInv, CountIsNatural, RoomIsThere
<1>4. CASE add_store(c)
  <2>1. /\ UNCHANGED <<reg, crowded>> /\ inbox_count' = reg[c] + 1
        /\ pc[c] = "add_store" /\ pc'[c] = "add_copy"
        /\ \A d \in Threads \ {c} : pc'[d] = pc[d]
    BY <1>4, <1>t DEF add_store, Goto, past
  <2>2. Adding' = Adding /\ c \in Adding
    BY <2>1, <1>a, <1>b
  <2>3. CountIsNatural'
    BY <2>1, <1>i DEF CountIsNatural
  <2>4. ASSUME ~ crowded' PROVE RoomIsThere'
    <3>1. RoomIsThere
      BY <2>1, <2>4 DEF ListInv
    <3>2. \A d \in Conns : pc'[d] # "add_load"
      BY <2>1, <2>2, <3>1, <1>b DEF RoomIsThere
    <3>3. inbox_count' <= MAX_MESSAGES
      BY <2>1, <3>1, <1>i, <1>m DEF RoomIsThere
    <3> QED BY <2>1, <2>2, <3>1, <3>2, <3>3 DEF RoomIsThere
  <2> QED BY <2>3, <2>4 DEF ListInv
<1>5. CASE add_copy(c)
  <2>1. /\ UNCHANGED <<inbox_count, reg, crowded>> /\ pc'[c] \in {"reply", "lost"}
        /\ \A d \in Threads \ {c} : pc'[d] = pc[d] \/ pc'[d] = "lost"
    BY <1>5, <1>t DEF add_copy, Goto, past
  <2>2. Adding' \subseteq Adding
    BY <2>1, <1>a, <1>b
  <2> QED BY <2>1, <2>2, <1>i DEF ListInv, CountIsNatural, RoomIsThere
<1> QED BY <1>1, <1>2, <1>3, <1>4, <1>5 DEF conn_step

\* Every access of the API thread.
LEMMA ListApi ==
  ASSUME TypeInv, ListInv, NEW a \in Api, ApiMove(a)
  PROVE  ListInv'
<1> USE ThreadSets
<1>m. MAX_MESSAGES \in Nat \ {0}
  BY InboxAssumption
<1>t. /\ inbox_count \in Int /\ reg \in [Daemon -> Int]
      /\ pc \in [Threads -> ConnStages \cup ReaderStages]
  BY DEF TypeInv
<1>i. /\ inbox_count \in Nat
      /\ \A d \in Conns : pc[d] \in {"add_store", "add_copy"} => reg[d] \in Nat
      /\ \A b \in Api : /\ pc[b] = "shift" => inbox_count # 0
                        /\ pc[b] = "pop_store" => reg[b] \in Nat \ {0}
  BY DEF ListInv, CountIsNatural
<1>s. \A b \in Api : b = a
  BY Alone
<1>f. /\ crowded' = crowded
      /\ \A c \in Conns : pc'[c] = pc[c] /\ reg'[c] = reg[c]
      /\ Adding' = Adding
  BY ReaderFrame DEF Adding
<1>1. CASE handle_read_one(a) \/ kernel_take(a) \/ read_return(a)
  <2>1. /\ UNCHANGED <<inbox_count, reg>>
        /\ pc'[a] # "pop_store" \/ pc'[a] = pc[a]
        /\ pc'[a] = "shift" => pc[a] = "shift" \/ inbox_count # 0
    BY <1>1, <1>t DEF handle_read_one, kernel_take, read_return, Goto, mirror
  <2> QED BY <2>1, <1>f, <1>i, <1>s DEF ListInv, CountIsNatural, RoomIsThere
<1>2. CASE pop_shift(a)
  <2>1. /\ inbox_count' = inbox_count /\ pc[a] = "shift"
        /\ \/ pc'[a] = "shift" /\ reg' = reg
           \/ pc'[a] = "pop_store" /\ reg'[a] = inbox_count
    BY <1>2, <1>t DEF pop_shift, Goto
  <2> QED BY <2>1, <1>f, <1>i, <1>s DEF ListInv, CountIsNatural, RoomIsThere
<1>3. CASE pop_store(a)
  <2>1. /\ inbox_count' = reg[a] - 1 /\ pc[a] = "pop_store" /\ pc'[a] = "idle"
        /\ reg[a] \in Nat \ {0}
    BY <1>3, <1>t, <1>i DEF pop_store, Goto
  <2>2. CountIsNatural'
    BY <2>1, <1>f, <1>i, <1>s DEF CountIsNatural
  <2>3. RoomIsThere => RoomIsThere'
    BY <2>1, <1>f, <1>s, <1>m DEF RoomIsThere
  <2> QED BY <2>2, <2>3, <1>f DEF ListInv
<1> QED BY <1>1, <1>2, <1>3 DEF ApiMove, api_step

\* The terminal is another process and has no part in the list.
LEMMA ListTerminal ==
  ASSUME TypeInv, ListInv, NEW p \in Terminal, TerminalMove(p)
  PROVE  ListInv'
<1> USE ThreadSets
<1>1. /\ UNCHANGED <<inbox_count, reg, crowded>>
      /\ \A t \in Threads \ {p} : pc'[t] = pc[t]
  BY DEF TerminalMove, terminal_step, get_inbox_count, press_enter, kernel_take,
         fread_record, show_message, Goto, TypeInv, mirror, past
<1>2. Adding' = Adding
  BY <1>1 DEF Adding
<1> QED BY <1>1, <1>2 DEF ListInv, CountIsNatural, RoomIsThere

\* The unlocked list: its count never goes below zero, and it stays within the
\* array until two calls of direct_add_to_inbox have been under way at once; the
\* API thread alone, popping while a connection adds, never takes it out.
THEOREM ListInBoundsHolds == Spec => []ListInBounds
<1>1. Init => RecordsInv /\ ListInv
  BY RecordsInit, ListInit
<1>2. RecordsInv /\ ListInv /\ [Next]_vars => RecordsInv' /\ ListInv'
  <2> SUFFICES ASSUME RecordsInv, ListInv, [Next]_vars PROVE ListInv'
    BY RecordsStep
  <2>t. TypeInv
    BY DEF RecordsInv, AnswerInv
  <2>1. CASE \E c \in Conns : conn_step(c)
    BY <2>1, ListConn DEF RecordsInv
  <2>2. CASE \E a \in Api : ApiMove(a)
    BY <2>2, <2>t, ListApi
  <2>3. CASE \E p \in Terminal : TerminalMove(p)
    BY <2>3, <2>t, ListTerminal
  <2>4. CASE UNCHANGED vars
    BY <2>4 DEF ListInv, CountIsNatural, RoomIsThere, Adding, vars, mirror, past
  <2> QED BY <2>1, <2>2, <2>3, <2>4 DEF Next, ApiMove, TerminalMove
<1>3. RecordsInv /\ ListInv => ListInBounds
  <2> SUFFICES ASSUME RecordsInv, ListInv PROVE ListInBounds
    OBVIOUS
  <2>1. /\ DOMAIN inbox = 0..MAX_MESSAGES - 1 /\ idx \in Nat /\ inbox_count \in Nat
        /\ MAX_MESSAGES \in Nat
    BY InboxAssumption DEF RecordsInv, AnswerInv, TypeInv, ListInv, CountIsNatural
  <2>2. ASSUME RoomIsThere, NEW c \in Conns, pc[c] = "add_copy"
        PROVE  reg[c] \in DOMAIN inbox
    BY <2>1, <2>2 DEF RoomIsThere, ListInv, CountIsNatural
  <2>3. ASSUME RoomIsThere, NEW a \in Api, idx < inbox_count - 1
        PROVE  idx + 1 \in DOMAIN inbox
    BY <2>1, <2>3 DEF RoomIsThere
  <2> QED BY <2>1, <2>2, <2>3 DEF ListInv, RoomIsThere, ListInBounds
<1> QED BY <1>1, <1>2, <1>3, PTL DEF Spec
=============================================================================
