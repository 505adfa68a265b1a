--------------------------- MODULE FifoRefinement ---------------------------
(***************************************************************************)
(* Proof that fifo_buffer.c, as modelled by Fifo, implements the bounded   *)
(* queue of BoundedFifo as long as nobody flushes.  fifo_write takes       *)
(* effect when it advances tail, fifo_read when it advances head; a call   *)
(* is invoked by its down, fails by its signal and returns by its up.      *)
(***************************************************************************)
EXTENDS FifoProofs

(***************************************************************************)
(* Indices                                                                 *)
(***************************************************************************)
\* What "% FIFO_SIZE" does to a number that is less than two rounds.
Wrap(x) == IF x < FIFO_SIZE THEN x ELSE x - FIFO_SIZE

LEMMA WrapFacts ==
  ASSUME NEW x \in Nat, x < 2 * FIFO_SIZE
  PROVE  x % FIFO_SIZE = Wrap(x) /\ Wrap(x) \in Slots
<1>1. FIFO_SIZE \in Nat /\ FIFO_SIZE > 0
  BY FifoAssumption
<1>2. CASE x < FIFO_SIZE
  BY <1>1, <1>2 DEF Wrap, Slots
<1>3. CASE x >= FIFO_SIZE
  <2>1. x - FIFO_SIZE \in 0 .. FIFO_SIZE - 1
    BY <1>1, <1>3
  <2>2. x = FIFO_SIZE * 1 + (x - FIFO_SIZE)
    BY <1>1
  <2> QED BY <1>1, <1>3, <2>1, <2>2 DEF Wrap, Slots
<1> QED BY <1>1, <1>2, <1>3

\* The slot of the i-th stored message.
SlotOf(i) == Wrap(head + i - 1)

\* The ring read with SlotOf, and where its ends are.
LEMMA StoredFacts ==
  ASSUME TypeOK, CountInRange
  PROVE  /\ Stored = [i \in 1..count |-> messages[SlotOf(i)]]
         /\ Stored \in Seq(Msg \cup {NoMsg})
         /\ Len(Stored) = count
<1>1. /\ FIFO_SIZE \in Nat /\ FIFO_SIZE > 0 /\ head \in Nat /\ head < FIFO_SIZE
      /\ count \in Nat /\ count <= FIFO_SIZE
      /\ messages \in [Slots -> Msg \cup {NoMsg}]
  BY FifoAssumption DEF TypeOK, CountInRange, Slots
<1>2. ASSUME NEW i \in 1..count
      PROVE  /\ (head + i - 1) % FIFO_SIZE = SlotOf(i)
             /\ messages[SlotOf(i)] \in Msg \cup {NoMsg}
  <2>1. head + i - 1 \in Nat /\ head + i - 1 < 2 * FIFO_SIZE
    BY <1>1
  <2>2. (head + i - 1) % FIFO_SIZE = SlotOf(i) /\ SlotOf(i) \in Slots
    BY <2>1, WrapFacts DEF SlotOf
  <2> QED BY <2>2, <1>1
<1>3. Stored = [i \in 1..count |-> messages[SlotOf(i)]]
  BY <1>2 DEF Stored
<1> QED BY <1>1, <1>2, <1>3

(***************************************************************************)
(* The invariant                                                           *)
(***************************************************************************)
\* tail is count slots past head, and what a call copied under the mutex still
\* is what its slot holds when it advances the index.
TailInv == tail = Wrap(head + count)
WriterCopied == \A w \in Writers : pc[w] = "advance" => messages[tail] = arg[w]
ReaderCopied == \A r \in Readers : pc[r] = "advance" => messages[head] = arg[r]

RingInv == TailInv /\ WriterCopied /\ ReaderCopied

\* A writer that has taken its unit finds a slot free, a reader one used.
LEMMA RoomIsHeld ==
  ASSUME TypeOK, SlotAccounting
  PROVE  /\ CountInRange
         /\ \A w \in Writers : w \in Holding(Writers) => count < FIFO_SIZE
         /\ \A r \in Readers : r \in Holding(Readers) => count > 0
<1>1. /\ sem["slots_free"] \in Nat /\ sem["slots_used"] \in Nat /\ count \in Int
      /\ Cardinality(Holding(Writers)) \in Nat /\ Cardinality(Giving(Writers)) \in Nat
      /\ Cardinality(Holding(Readers)) \in Nat /\ Cardinality(Giving(Readers)) \in Nat
  BY BalanceTypes
<1>2. CountInRange
  BY <1>1, FifoAssumption DEF SlotAccounting, CountInRange
<1>3. ASSUME NEW T, IsFiniteSet(T), NEW t \in Holding(T)
      PROVE  Cardinality(Holding(T)) # 0
  <2>1. Holding(T) \subseteq T
    BY DEF Holding
  <2>2. IsFiniteSet(Holding(T))
    BY <1>3, <2>1, FS_Subset
  <2>3. Holding(T) # {}
    BY <1>3
  <2> QED BY <2>2, <2>3, FS_EmptySet, Zenon
<1>4. ASSUME NEW w \in Writers, w \in Holding(Writers) PROVE count < FIFO_SIZE
  <2>1. Cardinality(Holding(Writers)) # 0
    BY <1>3, <1>4, FifoAssumption
  <2> QED BY <2>1, <1>1, FifoAssumption DEF SlotAccounting
<1>5. ASSUME NEW r \in Readers, r \in Holding(Readers) PROVE count > 0
  <2>1. Cardinality(Holding(Readers)) # 0
    BY <1>3, <1>5, FifoAssumption
  <2>2. sem["slots_used"] + Cardinality(Holding(Readers))
          + Cardinality(Giving(Writers)) = count
    BY DEF SlotAccounting
  <2>3. \A a, b, c \in Nat : a + b + c > 0 \/ b = 0
    OBVIOUS
  <2> QED BY <2>1, <2>2, <2>3, <1>1
<1> QED BY <1>2, <1>4, <1>5

LEMMA RingStep ==
  ASSUME TypeOK, MutualExclusion, SlotAccounting, RingInv, CallerStep
  PROVE  RingInv'
<1>t. /\ FIFO_SIZE \in Nat /\ FIFO_SIZE > 0
      /\ head \in Nat /\ head < FIFO_SIZE /\ tail \in Nat /\ tail < FIFO_SIZE
      /\ count \in Nat /\ count <= FIFO_SIZE
      /\ messages \in [Slots -> Msg \cup {NoMsg}] /\ head \in Slots /\ tail \in Slots
      /\ pc \in [Threads -> Stages] /\ arg \in [Callers -> Msg \cup {NoMsg}]
      /\ wait \in [Semaphores -> Seq(Callers)]
  BY RoomIsHeld, FifoAssumption DEF TypeOK, CountInRange, Slots
<1>c. /\ \A w \in Writers : w \in Callers /\ w \notin Readers
      /\ \A r \in Readers : r \in Callers /\ r \notin Writers
      /\ \A t \in Callers : t \in Threads
  BY FifoAssumption DEF Callers, Threads
\* Whoever is about to advance an index is alone in the critical section.
<1>x. ASSUME NEW t \in Callers, NEW u \in Callers,
             pc[t] \in {"copy", "advance"}, pc[u] = "advance"
      PROVE  u = t
  BY <1>x, <1>c DEF MutualExclusion, Critical
\* A step outside the critical section.
<1>o. ASSUME UNCHANGED ring,
             \A u \in Callers : pc'[u] = "advance" => pc[u] = "advance" /\ arg'[u] = arg[u]
      PROVE  RingInv'
  BY <1>o, <1>c DEF RingInv, TailInv, WriterCopied, ReaderCopied, ring, Wrap
<1>g. ASSUME NEW t \in Callers, NEW stage, stage # "advance", Goto(t, stage), UNCHANGED ring,
             \A u \in Callers : u # t => arg'[u] = arg[u]
      PROVE  RingInv'
  BY <1>g, <1>o, <1>t, <1>c DEF Goto
<1>d. ASSUME NEW t \in Callers, NEW s, down(t, s), UNCHANGED ring,
             \A u \in Callers : u # t => arg'[u] = arg[u]
      PROVE  RingInv'
  BY <1>d, <1>g DEF down
<1>1. ASSUME NEW w \in Writers, NEW m \in Msg, fifo_write_down(w, m) PROVE RingInv'
  BY <1>1, <1>t, <1>c, <1>d DEF fifo_write_down
<1>2. ASSUME NEW w \in Writers, NEW m \in Msg, in_write_trylock(w, m) PROVE RingInv'
  BY <1>2, <1>t, <1>c, <1>g DEF in_write_trylock
<1>3. ASSUME NEW w \in Writers, fifo_write_copy(w) PROVE RingInv'
  <2>1. \A u \in Callers : pc'[u] = "advance" => u = w
    BY <1>3, <1>x, <1>t, <1>c DEF fifo_write_copy, Goto
  <2>2. messages'[tail] = arg[w] /\ UNCHANGED <<head, tail, count, arg>>
    BY <1>3, <1>t DEF fifo_write_copy
  <2>3. WriterCopied' /\ ReaderCopied'
    BY <2>1, <2>2, <1>c DEF WriterCopied, ReaderCopied
  <2> QED BY <2>2, <2>3 DEF RingInv, TailInv, Wrap
<1>4. ASSUME NEW w \in Writers, fifo_write_advance(w) PROVE RingInv'
  <2>1. \A u \in Callers : pc'[u] # "advance"
    BY <1>4, <1>x, <1>t, <1>c DEF fifo_write_advance, Goto
  <2>2. WriterCopied' /\ ReaderCopied'
    BY <2>1, <1>c DEF WriterCopied, ReaderCopied
  <2>3. count < FIFO_SIZE
    <3>1. w \in Holding(Writers)
      BY <1>4 DEF fifo_write_advance, Holding
    <3> QED BY <3>1, RoomIsHeld
  <2>4. tail' = Wrap(tail + 1) /\ head' = head /\ count' = count + 1
    <3>1. tail + 1 \in Nat /\ tail + 1 < 2 * FIFO_SIZE
      BY <1>t
    <3> QED BY <1>4, <3>1, WrapFacts DEF fifo_write_advance
  <2>5. TailInv'
    BY <2>3, <2>4, <1>t DEF RingInv, TailInv, Wrap
  <2> QED BY <2>2, <2>5 DEF RingInv
<1>5. ASSUME NEW r \in Readers, fifo_read_down(r) PROVE RingInv'
  BY <1>5, <1>c, <1>d DEF fifo_read_down
<1>6. ASSUME NEW r \in Readers, fifo_read_copy(r) PROVE RingInv'
  <2>1. \A u \in Callers : pc'[u] = "advance" => u = r
    BY <1>6, <1>x, <1>t, <1>c DEF fifo_read_copy, Goto
  <2>2. arg'[r] = messages[head] /\ UNCHANGED ring
    BY <1>6, <1>t, <1>c DEF fifo_read_copy
  <2>3. WriterCopied' /\ ReaderCopied'
    BY <2>1, <2>2, <1>c DEF WriterCopied, ReaderCopied, ring
  <2> QED BY <2>2, <2>3 DEF RingInv, TailInv, Wrap, ring
<1>7. ASSUME NEW r \in Readers, fifo_read_advance(r) PROVE RingInv'
  <2>1. \A u \in Callers : pc'[u] # "advance"
    BY <1>7, <1>x, <1>t, <1>c DEF fifo_read_advance, Goto
  <2>2. WriterCopied' /\ ReaderCopied'
    BY <2>1, <1>c DEF WriterCopied, ReaderCopied
  <2>3. count > 0
    <3>1. r \in Holding(Readers)
      BY <1>7 DEF fifo_read_advance, Holding
    <3> QED BY <3>1, RoomIsHeld
  <2>4. head' = Wrap(head + 1) /\ tail' = tail /\ count' = count - 1
    <3>1. head + 1 \in Nat /\ head + 1 < 2 * FIFO_SIZE
      BY <1>t
    <3> QED BY <1>7, <3>1, WrapFacts DEF fifo_read_advance
  <2>5. TailInv'
    BY <2>3, <2>4, <1>t DEF RingInv, TailInv, Wrap
  <2> QED BY <2>2, <2>5 DEF RingInv
<1>8. ASSUME NEW t \in Callers, call_step(t) PROVE RingInv'
  <2>1. CASE signal(t)
    BY <2>1, <1>t, <1>g DEF signal
  <2>2. CASE mutex_lock(t)
    BY <2>2, <1>g DEF mutex_lock
  <2>3. CASE finish(t)
    <3>1. up(t, Gives(t)) /\ UNCHANGED ring /\ pc[t] = "up"
      BY <2>3 DEF finish
    <3>2. \A u \in Callers : u # t => arg'[u] = arg[u]
      BY <2>3, <1>t DEF finish
    <3>3. CASE Goto(t, "idle")
      BY <3>1, <3>2, <3>3, <1>g
    <3>4. CASE pc' = [pc EXCEPT ![t] = "idle", ![Head(wait[Gives(t)])] = "lock"]
      <4>1. \A u \in Callers : pc'[u] = "advance" => pc[u] = "advance" /\ u # t
        BY <3>4, <3>1, <1>t, <1>c
      <4> QED BY <4>1, <3>1, <3>2, <1>o
    <3> QED BY <3>1, <3>3, <3>4 DEF up
  <2> QED BY <1>8, <2>1, <2>2, <2>3 DEF call_step
<1> QED BY <1>1, <1>2, <1>3, <1>4, <1>5, <1>6, <1>7, <1>8
      DEF CallerStep, write_step, read_step

(***************************************************************************)
(* The steps                                                               *)
(***************************************************************************)
\* The two functions that Queue substitutes for call and val.
Calls == [t \in Callers |-> CallOf(t)]
Vals  == [t \in Callers |-> ValOf(t)]

\* The mapping that the definitions of Queue expand to.
LEMMA QueueActions ==
  /\ Queue!vars = <<Stored, Calls, Vals>>
  /\ \A t \in Callers : \A m \in Msg \cup {NoMsg} :
       /\ Calls[t] = "idle" /\ (m \in IF t \in Writers THEN Msg ELSE {NoMsg})
       /\ Calls' = [Calls EXCEPT ![t] = "pending"]
       /\ Vals' = [Vals EXCEPT ![t] = m] /\ Stored' = Stored
       => Queue!Next
  /\ \A w \in Writers :
       /\ Calls[w] = "pending" /\ Len(Stored) < FIFO_SIZE
       /\ Stored' = Append(Stored, Vals[w])
       /\ Calls' = [Calls EXCEPT ![w] = "done"] /\ Vals' = Vals
       => Queue!Next
  /\ \A r \in Readers :
       /\ Calls[r] = "pending" /\ Stored # <<>>
       /\ Vals' = [Vals EXCEPT ![r] = Head(Stored)] /\ Stored' = Tail(Stored)
       /\ Calls' = [Calls EXCEPT ![r] = "done"]
       => Queue!Next
  /\ \A t \in Callers :
       /\ Calls[t] \in {"done", "pending"}
       /\ Calls' = [Calls EXCEPT ![t] = "idle"]
       /\ Vals' = [Vals EXCEPT ![t] = NoMsg] /\ Stored' = Stored
       => Queue!Next
<1>1. Queue!vars = <<Stored, Calls, Vals>>
  BY DEF Queue!vars, Calls, Vals
<1>2. \A t \in Callers : \A m \in Msg \cup {NoMsg} :
       /\ Calls[t] = "idle" /\ (m \in IF t \in Writers THEN Msg ELSE {NoMsg})
       /\ Calls' = [Calls EXCEPT ![t] = "pending"]
       /\ Vals' = [Vals EXCEPT ![t] = m] /\ Stored' = Stored
       => Queue!Next
  BY Zenon DEF Queue!Next, Queue!Invoke, Queue!Callers, Callers, Calls, Vals
<1>3. \A w \in Writers :
       /\ Calls[w] = "pending" /\ Len(Stored) < FIFO_SIZE
       /\ Stored' = Append(Stored, Vals[w])
       /\ Calls' = [Calls EXCEPT ![w] = "done"] /\ Vals' = Vals
       => Queue!Next
  BY Zenon DEF Queue!Next, Queue!Enqueue, Calls, Vals
<1>4. \A r \in Readers :
       /\ Calls[r] = "pending" /\ Stored # <<>>
       /\ Vals' = [Vals EXCEPT ![r] = Head(Stored)] /\ Stored' = Tail(Stored)
       /\ Calls' = [Calls EXCEPT ![r] = "done"]
       => Queue!Next
  BY Zenon DEF Queue!Next, Queue!Dequeue, Calls, Vals
<1>5. \A t \in Callers :
       /\ Calls[t] \in {"done", "pending"}
       /\ Calls' = [Calls EXCEPT ![t] = "idle"]
       /\ Vals' = [Vals EXCEPT ![t] = NoMsg] /\ Stored' = Stored
       => Queue!Next
  BY Zenon DEF Queue!Next, Queue!Return, Queue!Fail, Queue!Callers, Callers, Calls, Vals
<1> QED BY <1>1, <1>2, <1>3, <1>4, <1>5

\* fifo_write's copy goes to a slot that holds no stored message; its advance
\* stores it behind the others.
LEMMA WriteEffect ==
  ASSUME TypeOK, CountInRange, TailInv, count < FIFO_SIZE, NEW w \in Writers
  PROVE  /\ fifo_write_copy(w) => Stored' = Stored
         /\ fifo_write_advance(w) => Stored' = Append(Stored, messages[tail])
<1>t. /\ FIFO_SIZE \in Nat /\ FIFO_SIZE > 0
      /\ head \in Nat /\ head < FIFO_SIZE /\ count \in Nat
      /\ messages \in [Slots -> Msg \cup {NoMsg}] /\ tail \in Slots
  BY FifoAssumption DEF TypeOK, CountInRange, Slots
<1>i. \A i \in 1..count + 1 : (head + i - 1) % FIFO_SIZE = SlotOf(i) /\ SlotOf(i) \in Slots
  <2> SUFFICES ASSUME NEW i \in 1..count + 1
               PROVE  (head + i - 1) % FIFO_SIZE = SlotOf(i) /\ SlotOf(i) \in Slots
    OBVIOUS
  <2>1. head + i - 1 \in Nat /\ head + i - 1 < 2 * FIFO_SIZE
    BY <1>t
  <2> QED BY <2>1, WrapFacts DEF SlotOf
<1>e. SlotOf(count + 1) = tail
  <2>1. head + (count + 1) - 1 = head + count
    BY <1>t
  <2> QED BY <2>1 DEF SlotOf, TailInv
<1>n. \A i \in 1..count : SlotOf(i) # tail
  BY <1>t DEF SlotOf, TailInv, Wrap
<1>1. ASSUME fifo_write_copy(w) PROVE Stored' = Stored
  <2>1. messages' = [messages EXCEPT ![tail] = arg[w]] /\ head' = head /\ count' = count
    BY <1>1 DEF fifo_write_copy
  <2>2. \A i \in 1..count : messages'[SlotOf(i)] = messages[SlotOf(i)]
    BY <2>1, <1>t, <1>i, <1>n
  <2>3. \A i \in 1..count : messages'[(head + i - 1) % FIFO_SIZE] = messages[(head + i - 1) % FIFO_SIZE]
    <3> SUFFICES ASSUME NEW i \in 1..count
                 PROVE  messages'[(head + i - 1) % FIFO_SIZE]
                          = messages[(head + i - 1) % FIFO_SIZE]
      OBVIOUS
    <3>1. i \in 1..count + 1
      BY <1>t
    <3>2. (head + i - 1) % FIFO_SIZE = SlotOf(i)
      BY <3>1, <1>i
    <3>3. messages'[SlotOf(i)] = messages[SlotOf(i)]
      BY <2>2
    <3> QED BY <3>2, <3>3, Zenon
  <2> QED BY <2>1, <2>3 DEF Stored
<1>2. ASSUME fifo_write_advance(w) PROVE Stored' = Append(Stored, messages[tail])
  <2>1. messages' = messages /\ head' = head /\ count' = count + 1
    BY <1>2 DEF fifo_write_advance
  <2>2. Stored' = [i \in 1..count + 1 |-> messages[SlotOf(i)]]
    BY <2>1, <1>i DEF Stored
  <2>3. Stored = [i \in 1..count |-> messages[SlotOf(i)]] /\ Stored \in Seq(Msg \cup {NoMsg})
        /\ Len(Stored) = count
    BY StoredFacts
  <2>4. Append(Stored, messages[tail])
          = [i \in 1..count + 1 |-> IF i = count + 1 THEN messages[tail] ELSE Stored[i]]
    BY <2>3, <1>t
  <2>5. \A i \in 1..count + 1 :
          messages[SlotOf(i)] = IF i = count + 1 THEN messages[tail] ELSE Stored[i]
    BY <2>3, <1>e, <1>t
  <2> QED BY <2>2, <2>4, <2>5
<1> QED BY <1>1, <1>2

\* fifo_read's advance takes the oldest message, which is the one at head.
LEMMA ReadEffect ==
  ASSUME TypeOK, CountInRange, count > 0, NEW r \in Readers
  PROVE  /\ Stored # <<>> /\ Head(Stored) = messages[head]
         /\ fifo_read_advance(r) => Stored' = Tail(Stored)
<1>t. /\ FIFO_SIZE \in Nat /\ FIFO_SIZE > 0
      /\ head \in Nat /\ head < FIFO_SIZE /\ count \in Nat /\ count <= FIFO_SIZE
      /\ messages \in [Slots -> Msg \cup {NoMsg}]
  BY FifoAssumption DEF TypeOK, CountInRange, Slots
<1>s. Stored = [i \in 1..count |-> messages[SlotOf(i)]] /\ Stored \in Seq(Msg \cup {NoMsg})
      /\ Len(Stored) = count
  BY StoredFacts
<1>1. Stored # <<>>
  <2>1. Len(<<>>) = 0 /\ count # 0
    BY <1>t
  <2> QED BY <2>1, <1>s, Zenon
<1>2. Head(Stored) = messages[head]
  <2>1. SlotOf(1) = head /\ 1 \in 1..count
    BY <1>t DEF SlotOf, Wrap
  <2>2. Head(Stored) = Stored[1]
    BY <1>s, <1>1, HeadTailProperties
  <2> QED BY <2>1, <2>2, <1>s
<1>3. ASSUME fifo_read_advance(r) PROVE Stored' = Tail(Stored)
  <2>1. messages' = messages /\ head' = Wrap(head + 1) /\ count' = count - 1
    <3>1. head + 1 \in Nat /\ head + 1 < 2 * FIFO_SIZE
      BY <1>t
    <3> QED BY <1>3, <3>1, WrapFacts DEF fifo_read_advance
  <2>2. ASSUME NEW i \in 1..count - 1
        PROVE  (head' + i - 1) % FIFO_SIZE = SlotOf(i + 1)
    <3>1. head' \in Nat /\ head' < FIFO_SIZE
      BY <2>1, <1>t DEF Wrap
    <3>2. head' + i - 1 \in Nat /\ head' + i - 1 < 2 * FIFO_SIZE
      <4>1. i \in Nat /\ i >= 1 /\ i <= FIFO_SIZE
        BY <1>t
      <4>2. \A h \in Nat : h < FIFO_SIZE =>
              h + i - 1 \in Nat /\ h + i - 1 < 2 * FIFO_SIZE
        BY <4>1, <1>t
      <4> QED BY <3>1, <4>2, Zenon
    <3>3. (head' + i - 1) % FIFO_SIZE = Wrap(head' + i - 1)
      BY <3>2, WrapFacts
    <3>4. Wrap(head' + i - 1) = Wrap(head + (i + 1) - 1)
      BY <2>1, <1>t DEF Wrap
    <3> QED BY <3>3, <3>4 DEF SlotOf
  <2>3. Stored' = [i \in 1..count - 1 |-> messages[SlotOf(i + 1)]]
    BY <2>1, <2>2 DEF Stored
  <2>4. Tail(Stored) = [i \in 1..count - 1 |-> Stored[i + 1]]
    BY <1>s, <1>1, <1>t
  <2>5. \A i \in 1..count - 1 : Stored[i + 1] = messages[SlotOf(i + 1)]
    BY <1>s, <1>t
  <2> QED BY <2>3, <2>4, <2>5
<1> QED BY <1>1, <1>2, <1>3

\* Every step of a call is a step of the queue, or none.
LEMMA QueueStep ==
  ASSUME TypeOK, WaitInv, SlotAccounting, RingInv, CallerStep
  PROVE  [Queue!Next]_(Queue!vars)
<1>t. /\ pc \in [Threads -> Stages] /\ arg \in [Callers -> Msg \cup {NoMsg}]
      /\ wait \in [Semaphores -> Seq(Callers)]
  BY DEF TypeOK
<1>c. /\ \A w \in Writers : w \in Callers /\ w \notin Readers
      /\ \A r \in Readers : r \in Callers /\ r \notin Writers
      /\ \A t \in Callers : t \in Threads
  BY FifoAssumption DEF Callers, Threads
<1>r. UNCHANGED ring => Stored' = Stored
  BY DEF ring, Stored
<1>s. Stored' = Stored /\ Calls' = Calls /\ Vals' = Vals => UNCHANGED Queue!vars
  BY DEF Queue!vars, Calls, Vals
\* What a thread's move from one stage to another does to Calls and Vals.
<1>p. ASSUME NEW t \in Callers, NEW stage, Goto(t, stage)
      PROVE  Calls' = [Calls EXCEPT ![t] = IF stage = "idle" THEN "idle"
                                           ELSE IF stage = "up" THEN "done" ELSE "pending"]
  <2>1. pc' = [pc EXCEPT ![t] = stage] /\ t \in Threads
    BY <1>p, <1>c DEF Goto
  <2>2. ASSUME NEW u \in Callers
        PROVE  CallOf(u)' = IF u = t THEN IF stage = "idle" THEN "idle"
                                          ELSE IF stage = "up" THEN "done" ELSE "pending"
                            ELSE CallOf(u)
    BY <2>1, <1>t, <1>c DEF CallOf
  <2> QED BY <2>2 DEF Calls
<1>v. ASSUME NEW t \in Callers, NEW stage, Goto(t, stage), NEW a,
             \A u \in Callers : arg'[u] = IF u = t THEN a ELSE arg[u]
      PROVE  Vals' = [Vals EXCEPT ![t] = IF t \in Readers /\ stage # "up" THEN NoMsg ELSE a]
  <2>1. pc' = [pc EXCEPT ![t] = stage] /\ t \in Threads
    BY <1>v, <1>c DEF Goto
  <2>2. ASSUME NEW u \in Callers
        PROVE  ValOf(u)' = IF u = t THEN IF t \in Readers /\ stage # "up" THEN NoMsg ELSE a
                           ELSE ValOf(u)
    BY <2>1, <1>v, <1>t, <1>c DEF ValOf
  <2> QED BY <2>2 DEF Vals
<1>k. \A t \in Callers :
        /\ Calls[t] = CallOf(t) /\ Vals[t] = ValOf(t)
        /\ Calls = [Calls EXCEPT ![t] = CallOf(t)]
        /\ Vals = [Vals EXCEPT ![t] = ValOf(t)]
  BY DEF Calls, Vals
\* down and down_trylock invoke the call.
<1>i. ASSUME NEW t \in Callers, NEW m \in Msg \cup {NoMsg},
             m \in (IF t \in Writers THEN Msg ELSE {NoMsg}),
             pc[t] = "idle", NEW stage \in {"lock", "asleep"}, Goto(t, stage),
             \A u \in Callers : arg'[u] = IF u = t THEN IF t \in Writers THEN m ELSE arg[t]
                                          ELSE arg[u],
             UNCHANGED ring
      PROVE  Queue!Next
  <2>1. Calls' = [Calls EXCEPT ![t] = "pending"]
    BY <1>i, <1>p
  <2>2. Vals' = [Vals EXCEPT ![t] = m]
    <3>1. Vals' = [Vals EXCEPT ![t] = IF t \in Readers /\ stage # "up" THEN NoMsg
                                     ELSE IF t \in Writers THEN m ELSE arg[t]]
      BY <1>i, <1>v
    <3>2. t \in Writers \/ t \in Readers
      BY DEF Callers
    <3> QED BY <3>1, <3>2, <1>i, <1>c
  <2>3. Calls[t] = "idle"
    BY <1>i, <1>k DEF CallOf
  <2> QED BY <2>1, <2>2, <2>3, <1>i, <1>r, QueueActions
\* A step inside a call that the queue does not see.
<1>u. ASSUME NEW t \in Callers, NEW stage \in {"copy", "advance"},
             pc[t] \notin {"idle", "up"}, Goto(t, stage),
             \/ arg' = arg
             \/ t \in Readers /\ \E a : arg' = [arg EXCEPT ![t] = a],
             Stored' = Stored
      PROVE  UNCHANGED Queue!vars
  <2>1. Calls' = [Calls EXCEPT ![t] = "pending"] /\ CallOf(t) = "pending"
    BY <1>u, <1>p DEF CallOf
  <2>2. Calls' = Calls
    BY <2>1, <1>k
  <2>3. PICK a : (arg' = [arg EXCEPT ![t] = a]) /\ (t \in Readers \/ a = arg[t])
    BY <1>u, <1>t
  <2>4. Vals' = [Vals EXCEPT ![t] = IF t \in Readers /\ stage # "up" THEN NoMsg ELSE a]
    BY <2>3, <1>u, <1>v, <1>t
  <2>5. ValOf(t) = IF t \in Readers THEN NoMsg ELSE arg[t]
    BY <1>u DEF ValOf
  <2>6. Vals' = Vals
    BY <2>3, <2>4, <2>5, <1>k, <1>u
  <2> QED BY <2>2, <2>6, <1>u, <1>s
\* signal and up end the call: they fail it or return from it.
<1>e. ASSUME NEW t \in Callers, pc[t] # "idle", UNCHANGED ring,
             Calls' = [Calls EXCEPT ![t] = "idle"], Vals' = [Vals EXCEPT ![t] = NoMsg]
      PROVE  Queue!Next
  <2>1. Calls[t] \in {"done", "pending"}
    BY <1>e, <1>k DEF CallOf
  <2> QED BY <2>1, <1>e, <1>r, QueueActions
<1>1. ASSUME NEW w \in Writers, NEW m \in Msg, fifo_write_down(w, m) PROVE Queue!Next
  BY <1>1, <1>i, <1>t, <1>c DEF fifo_write_down, down
<1>2. ASSUME NEW w \in Writers, NEW m \in Msg, in_write_trylock(w, m) PROVE Queue!Next
  BY <1>2, <1>i, <1>t, <1>c DEF in_write_trylock
<1>3. ASSUME NEW w \in Writers, fifo_write_copy(w) PROVE UNCHANGED Queue!vars
  <2>1. w \in Holding(Writers)
    BY <1>3 DEF fifo_write_copy, Holding
  <2>2. Stored' = Stored
    BY <2>1, <1>3, RoomIsHeld, WriteEffect DEF RingInv
  <2> QED BY <2>2, <1>3, <1>u, <1>c DEF fifo_write_copy
<1>4. ASSUME NEW w \in Writers, fifo_write_advance(w) PROVE Queue!Next
  <2>1. w \in Holding(Writers) /\ pc[w] = "advance" /\ Goto(w, "up") /\ arg' = arg
    BY <1>4 DEF fifo_write_advance, Holding
  <2>2. CountInRange /\ count < FIFO_SIZE
    BY <2>1, RoomIsHeld
  <2>3. Len(Stored) < FIFO_SIZE
    BY <2>2, StoredFacts
  <2>4. Vals[w] = arg[w] /\ Calls[w] = "pending"
    BY <2>1, <1>k, <1>c DEF CallOf, ValOf
  <2>5. messages[tail] = Vals[w]
    BY <2>1, <2>4 DEF RingInv, WriterCopied
  <2>6. Stored' = Append(Stored, Vals[w])
    BY <2>2, <2>5, <1>4, WriteEffect DEF RingInv
  <2>7. Calls' = [Calls EXCEPT ![w] = "done"]
    BY <2>1, <1>p, <1>c
  <2>8. Vals' = Vals
    <3>1. Vals' = [Vals EXCEPT ![w] = IF w \in Readers /\ "up" # "up" THEN NoMsg ELSE arg[w]]
      BY <2>1, <1>v, <1>c
    <3> QED BY <3>1, <2>4, <1>k, <1>c
  <2> QED BY <2>3, <2>4, <2>6, <2>7, <2>8, QueueActions
<1>5. ASSUME NEW r \in Readers, fifo_read_down(r) PROVE Queue!Next
  BY <1>5, <1>i, <1>t, <1>c DEF fifo_read_down, down
<1>6. ASSUME NEW r \in Readers, fifo_read_copy(r) PROVE UNCHANGED Queue!vars
  BY <1>6, <1>r, <1>u, <1>c DEF fifo_read_copy
<1>7. ASSUME NEW r \in Readers, fifo_read_advance(r) PROVE Queue!Next
  <2>1. r \in Holding(Readers) /\ pc[r] = "advance" /\ Goto(r, "up") /\ arg' = arg
    BY <1>7 DEF fifo_read_advance, Holding
  <2>2. CountInRange /\ count > 0
    BY <2>1, RoomIsHeld
  <2>3. Stored # <<>> /\ Head(Stored) = messages[head] /\ Stored' = Tail(Stored)
    BY <2>2, <1>7, ReadEffect
  <2>4. Head(Stored) = arg[r]
    BY <2>1, <2>3 DEF RingInv, ReaderCopied
  <2>5. Calls[r] = "pending"
    BY <2>1, <1>k, <1>c DEF CallOf
  <2>6. Calls' = [Calls EXCEPT ![r] = "done"]
    BY <2>1, <1>p, <1>c
  <2>7. Vals' = [Vals EXCEPT ![r] = Head(Stored)]
    BY <2>1, <2>4, <1>v, <1>c
  <2> QED BY <2>3, <2>5, <2>6, <2>7, QueueActions
<1>8. ASSUME NEW t \in Callers, call_step(t) PROVE [Queue!Next]_(Queue!vars)
  <2>1. CASE signal(t)
    <3>1. pc[t] # "idle" /\ Goto(t, "idle") /\ UNCHANGED ring
          /\ arg' = [arg EXCEPT ![t] = NoMsg]
      BY <2>1 DEF signal
    <3>2. Calls' = [Calls EXCEPT ![t] = "idle"]
      BY <3>1, <1>p
    <3>3. Vals' = [Vals EXCEPT ![t] = NoMsg]
      BY <3>1, <1>v, <1>t
    <3> QED BY <3>1, <3>2, <3>3, <1>e
  <2>2. CASE mutex_lock(t)
    BY <2>2, <1>r, <1>u DEF mutex_lock
  <2>3. CASE finish(t)
    <3>1. pc[t] = "up" /\ up(t, Gives(t)) /\ UNCHANGED ring
          /\ arg' = [arg EXCEPT ![t] = NoMsg]
      BY <2>3 DEF finish
    <3>2. CASE Goto(t, "idle")
      <4>1. Calls' = [Calls EXCEPT ![t] = "idle"]
        BY <3>2, <1>p
      <4>2. Vals' = [Vals EXCEPT ![t] = NoMsg]
        BY <3>1, <3>2, <1>v, <1>t
      <4> QED BY <3>1, <4>1, <4>2, <1>e
    \* The sleeper that is woken was and stays in the middle of its call.
    <3>3. CASE /\ wait[Gives(t)] # <<>>
               /\ pc' = [pc EXCEPT ![t] = "idle", ![Head(wait[Gives(t)])] = "lock"]
      <4> DEFINE h == Head(wait[Gives(t)])
      <4>1. /\ wait[Gives(t)] \in Seq(Callers) /\ Gives(t) \in Semaphores
        BY <1>t DEF Gives, Semaphores
      <4>2. h \in Callers /\ h = wait[Gives(t)][1] /\ 1 \in 1..Len(wait[Gives(t)])
        BY <4>1, <3>3, HeadTailProperties, LenProperties, EmptySeq
      <4>3. pc[h] = "asleep"
        BY <4>1, <4>2 DEF WaitInv, ListedSleep
      <4> HIDE DEF h
      <4>4. \A u \in Callers : pc'[u] = IF u = h THEN "lock" ELSE IF u = t THEN "idle" ELSE pc[u]
        BY <3>3, <1>t, <1>c DEF h
      <4>5. h # t
        BY <4>3, <3>1
      <4>6. \A u \in Callers : CallOf(u)' = IF u = t THEN "idle" ELSE CallOf(u)
        BY <4>3, <4>4, <4>5 DEF CallOf
      <4>7. \A u \in Callers : ValOf(u)' = IF u = t THEN NoMsg ELSE ValOf(u)
        BY <3>1, <4>3, <4>4, <4>5, <1>t DEF ValOf
      <4>8. Calls' = [Calls EXCEPT ![t] = "idle"] /\ Vals' = [Vals EXCEPT ![t] = NoMsg]
        BY <4>6, <4>7 DEF Calls, Vals
      <4> QED BY <3>1, <4>8, <1>e
    <3> QED BY <3>1, <3>2, <3>3 DEF up
  <2> QED BY <1>8, <2>1, <2>2, <2>3 DEF call_step
<1> QED BY <1>1, <1>2, <1>3, <1>4, <1>5, <1>6, <1>7, <1>8
      DEF CallerStep, write_step, read_step

\* For every capacity, every set of messages and every finite set of blocking
\* and non-blocking writers and of readers, kernel/fifo_buffer.c without a
\* flush is a bounded first-in first-out queue: each fifo_write and fifo_read
\* takes effect at one instant, or fails and has none.
THEOREM FifoImplementsQueue ==
  ASSUME Flushers = {}
  PROVE  Spec => ImplementsQueue
<1>1. fifo_init => RingInv
  <2> SUFFICES ASSUME fifo_init PROVE RingInv
    OBVIOUS
  <2>1. TailInv
    BY FifoAssumption DEF fifo_init, TailInv, Wrap
  <2>2. WriterCopied /\ ReaderCopied
    BY DEF fifo_init, WriterCopied, ReaderCopied, Callers, Threads
  <2> QED BY <2>1, <2>2 DEF RingInv
<1>2. TypeOK /\ MutualExclusion /\ SlotAccounting /\ RingInv /\ [Next]_vars => RingInv'
  <2> SUFFICES ASSUME TypeOK, MutualExclusion, SlotAccounting, RingInv, [Next]_vars
               PROVE  RingInv'
    OBVIOUS
  <2>1. CASE Next
    <3>1. CallerStep
      BY <2>1 DEF Next, CallerStep
    <3> QED BY <3>1, RingStep
  <2>2. CASE UNCHANGED vars
    BY <2>2 DEF vars, RingInv, TailInv, WriterCopied, ReaderCopied, Wrap
  <2> QED BY <2>1, <2>2
<1>3. fifo_init => Queue!Init
  <2> SUFFICES ASSUME fifo_init PROVE Queue!Init
    OBVIOUS
  <2>1. \A t \in Callers : CallOf(t) = "idle" /\ ValOf(t) = NoMsg
    BY DEF fifo_init, CallOf, ValOf, Threads
  <2>2. Stored = <<>>
    BY DEF fifo_init, Stored
  <2> QED BY <2>1, <2>2 DEF Queue!Init, Queue!Callers, Callers
<1>4. TypeOK /\ WaitInv /\ SlotAccounting /\ RingInv /\ [Next]_vars
        => [Queue!Next]_(Queue!vars)
  <2> SUFFICES ASSUME TypeOK, WaitInv, SlotAccounting, RingInv, [Next]_vars
               PROVE  [Queue!Next]_(Queue!vars)
    OBVIOUS
  <2>1. CASE Next
    <3>1. CallerStep
      BY <2>1 DEF Next, CallerStep
    <3> QED BY <3>1, QueueStep
  <2>2. CASE UNCHANGED vars
    BY <2>2 DEF vars, Queue!vars, Stored, CallOf, ValOf
  <2> QED BY <2>1, <2>2
<1>5. Spec => []TypeOK /\ []MutualExclusion /\ []SlotAccounting
  BY TypeCorrect, RingIsExclusive, SlotsAreAccountedFor
<1>6. Spec => []WaitInv
  BY TypeInit, TypeStep, WaitInit, WaitStep, PTL DEF Spec
<1> QED BY <1>1, <1>2, <1>3, <1>4, <1>5, <1>6, PTL DEF Spec, ImplementsQueue, Queue!Spec
=============================================================================
