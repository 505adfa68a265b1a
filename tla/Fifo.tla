-------------------------------- MODULE Fifo --------------------------------
(***************************************************************************)
(* One struct fifo_buffer of kernel/fifo_buffer.c under concurrent callers *)
(* of fifo_write, fifo_read and fifo_flush, with the non-blocking writer   *)
(* that keycipher_in_write (kernel/keycipher.c) inlines.                   *)
(*                                                                         *)
(* A call is cut where another thread can come in between: at each         *)
(* semaphore operation and around the mutex.  Inside the mutex the copy of *)
(* the message and the update of the indices are separate steps.           *)
(* fifo_read mirrors fifo_write with the two semaphores exchanged.         *)
(***************************************************************************)
EXTENDS Integers, FiniteSets, SequencesExt

CONSTANTS FIFO_SIZE,
          Msg,           \* struct keycipher_message values
          NoMsg,         \* content of a slot, or a caller's copy, before use
          Writers,       \* threads that call fifo_write / keycipher_in_write
          NonBlocking,   \* the writers whose file is open with O_NONBLOCK
          Readers,       \* threads that call fifo_read
          Flushers,      \* threads that issue KEYCIPHER_FLUSH_IN
          NoThread       \* owner of the unlocked mutex

Callers == Writers \cup Readers
Threads == Callers \cup Flushers

ASSUME FifoAssumption ==
  /\ FIFO_SIZE \in Nat \ {0}
  /\ IsFiniteSet(Writers) /\ IsFiniteSet(Readers)
  /\ Writers \cap Readers = {}
  /\ Callers \cap Flushers = {}
  /\ NonBlocking \subseteq Writers
  /\ NoThread \notin Threads
  /\ NoMsg \notin Msg

VARIABLES messages,      \* the slots
          head, tail, count,
          sem,           \* values of the two semaphores
          wait,          \* their wait lists, longest sleeper first
          lock,          \* owner of the mutex
          pc,            \* stage each thread has reached
          arg            \* the message a call carries: *msg

ring == <<messages, head, tail, count>>
vars == <<messages, head, tail, count, sem, wait, lock, pc, arg>>

Slots      == 0..FIFO_SIZE - 1
Semaphores == {"slots_free", "slots_used"}
Critical   == {"copy", "advance", "reset", "init_free", "init_used"}
Stages     == {"idle", "asleep", "lock", "up"} \cup Critical

\* A writer takes a free slot and gives a used one; a reader the reverse.
Takes(t) == IF t \in Writers THEN "slots_free" ELSE "slots_used"
Gives(t) == IF t \in Writers THEN "slots_used" ELSE "slots_free"

Goto(t, stage) == pc' = [pc EXCEPT ![t] = stage]

fifo_init ==
  /\ messages = [i \in Slots |-> NoMsg]
  /\ head = 0 /\ tail = 0 /\ count = 0
  /\ sem = [s \in Semaphores |-> IF s = "slots_free" THEN FIFO_SIZE ELSE 0]
  /\ wait = [s \in Semaphores |-> <<>>]
  /\ lock = NoThread
  /\ pc = [t \in Threads |-> "idle"]
  /\ arg = [t \in Callers |-> NoMsg]

(***************************************************************************)
(* The kernel's counting semaphore (linux/semaphore.h).  down takes a unit *)
(* or sleeps at the end of the wait list; up hands its unit straight to    *)
(* the longest sleeper and raises the value only if nobody sleeps.         *)
(***************************************************************************)
down(t, s) ==
  \/ /\ sem[s] > 0
     /\ sem' = [sem EXCEPT ![s] = @ - 1]
     /\ Goto(t, "lock")
     /\ UNCHANGED wait
  \/ /\ sem[s] = 0
     /\ wait' = [wait EXCEPT ![s] = Append(@, t)]
     /\ Goto(t, "asleep")
     /\ UNCHANGED sem

\* Mutant: the unit goes back to the value and nobody is woken.
up_NoWake(t, s) ==
  /\ sem' = [sem EXCEPT ![s] = @ + 1]
  /\ Goto(t, "idle")
  /\ UNCHANGED wait

up(t, s) ==
  \/ /\ wait[s] = <<>>
     /\ sem' = [sem EXCEPT ![s] = @ + 1]
     /\ Goto(t, "idle")
     /\ UNCHANGED wait
  \/ /\ wait[s] # <<>>
     /\ wait' = [wait EXCEPT ![s] = Tail(@)]
     /\ pc' = [pc EXCEPT ![t] = "idle", ![Head(wait[s])] = "lock"]
     /\ UNCHANGED sem

\* down_interruptible returns -EINTR: the sleeper leaves the wait list and the
\* call returns -ERESTARTSYS.
signal(t) ==
  /\ pc[t] = "asleep"
  /\ \E k \in 1..Len(wait[Takes(t)]) :
       /\ wait[Takes(t)][k] = t
       /\ wait' = [wait EXCEPT ![Takes(t)] = RemoveAt(@, k)]
  /\ Goto(t, "idle")
  /\ arg' = [arg EXCEPT ![t] = NoMsg]
  /\ UNCHANGED <<ring, sem, lock>>

(***************************************************************************)
(* fifo_write and keycipher_in_write                                       *)
(***************************************************************************)
fifo_write_down(w, m) ==
  /\ w \notin NonBlocking
  /\ pc[w] = "idle"
  /\ down(w, "slots_free")
  /\ arg' = [arg EXCEPT ![w] = m]
  /\ UNCHANGED <<ring, lock>>

\* Mutant: the result of down_trylock is not looked at.
in_write_trylock_Unchecked(w, m) ==
  /\ w \in NonBlocking
  /\ pc[w] = "idle"
  /\ sem' = [sem EXCEPT !["slots_free"] = IF @ > 0 THEN @ - 1 ELSE @]
  /\ Goto(w, "lock")
  /\ arg' = [arg EXCEPT ![w] = m]
  /\ UNCHANGED <<ring, wait, lock>>

\* O_NONBLOCK: with no free slot the call returns -EAGAIN and changes nothing,
\* so only the successful down_trylock is a step.
in_write_trylock(w, m) ==
  /\ w \in NonBlocking
  /\ pc[w] = "idle"
  /\ sem["slots_free"] > 0
  /\ sem' = [sem EXCEPT !["slots_free"] = @ - 1]
  /\ Goto(w, "lock")
  /\ arg' = [arg EXCEPT ![w] = m]
  /\ UNCHANGED <<ring, wait, lock>>

fifo_write_copy(w) ==
  /\ pc[w] = "copy"
  /\ messages' = [messages EXCEPT ![tail] = arg[w]]
  /\ Goto(w, "advance")
  /\ UNCHANGED <<head, tail, count, sem, wait, lock, arg>>

\* Mutant: the tail does not come round.
fifo_write_advance_NoWrap(w) ==
  /\ pc[w] = "advance"
  /\ tail' = tail + 1
  /\ count' = count + 1
  /\ lock' = NoThread
  /\ Goto(w, "up")
  /\ UNCHANGED <<messages, head, sem, wait, arg>>

fifo_write_advance(w) ==
  /\ pc[w] = "advance"
  /\ tail' = (tail + 1) % FIFO_SIZE
  /\ count' = count + 1
  /\ lock' = NoThread
  /\ Goto(w, "up")
  /\ UNCHANGED <<messages, head, sem, wait, arg>>

(***************************************************************************)
(* fifo_read                                                               *)
(***************************************************************************)
fifo_read_down(r) ==
  /\ pc[r] = "idle"
  /\ down(r, "slots_used")
  /\ UNCHANGED <<ring, lock, arg>>

fifo_read_copy(r) ==
  /\ pc[r] = "copy"
  /\ arg' = [arg EXCEPT ![r] = messages[head]]
  /\ Goto(r, "advance")
  /\ UNCHANGED <<ring, sem, wait, lock>>

\* Mutant: a read does not give its slot back to count.
fifo_read_advance_KeepCount(r) ==
  /\ pc[r] = "advance"
  /\ head' = (head + 1) % FIFO_SIZE
  /\ lock' = NoThread
  /\ Goto(r, "up")
  /\ UNCHANGED <<messages, tail, count, sem, wait, arg>>

fifo_read_advance(r) ==
  /\ pc[r] = "advance"
  /\ head' = (head + 1) % FIFO_SIZE
  /\ count' = count - 1
  /\ lock' = NoThread
  /\ Goto(r, "up")
  /\ UNCHANGED <<messages, tail, sem, wait, arg>>

(***************************************************************************)
(* Steps that fifo_write and fifo_read share                               *)
(***************************************************************************)
\* Mutant: the mutex is taken whoever holds it.
mutex_lock_Ignored(t) ==
  /\ pc[t] = "lock"
  /\ lock' = t
  /\ Goto(t, "copy")
  /\ UNCHANGED <<ring, sem, wait, arg>>

mutex_lock(t) ==
  /\ pc[t] = "lock"
  /\ lock = NoThread
  /\ lock' = t
  /\ Goto(t, "copy")
  /\ UNCHANGED <<ring, sem, wait, arg>>

\* The last step of a call: after it the call returns 0.
finish(t) ==
  /\ pc[t] = "up"
  /\ up(t, Gives(t))
  /\ arg' = [arg EXCEPT ![t] = NoMsg]
  /\ UNCHANGED <<ring, lock>>

(***************************************************************************)
(* fifo_flush: under the mutex, but sema_init is a plain store into the    *)
(* semaphores, which other threads use without the mutex.                  *)
(***************************************************************************)
\* Mutant: the flush does not take the mutex.
fifo_flush_lock_Unlocked(f) ==
  /\ pc[f] = "idle"
  /\ Goto(f, "reset")
  /\ UNCHANGED <<ring, sem, wait, lock, arg>>

fifo_flush_lock(f) ==
  /\ pc[f] = "idle"
  /\ lock = NoThread
  /\ lock' = f
  /\ Goto(f, "reset")
  /\ UNCHANGED <<ring, sem, wait, arg>>

fifo_flush_reset(f) ==
  /\ pc[f] = "reset"
  /\ head' = 0 /\ tail' = 0 /\ count' = 0
  /\ Goto(f, "init_free")
  /\ UNCHANGED <<messages, sem, wait, lock, arg>>

\* sema_init sets the value and empties the wait list; it wakes nobody.
sema_init(s, n) ==
  /\ sem' = [sem EXCEPT ![s] = n]
  /\ wait' = [wait EXCEPT ![s] = <<>>]

fifo_flush_init_free(f) ==
  /\ pc[f] = "init_free"
  /\ sema_init("slots_free", FIFO_SIZE)
  /\ Goto(f, "init_used")
  /\ UNCHANGED <<ring, lock, arg>>

\* Mutant: the flush leaves slots_used as it was.
fifo_flush_init_used_Skipped(f) ==
  /\ pc[f] = "init_used"
  /\ lock' = NoThread
  /\ Goto(f, "idle")
  /\ UNCHANGED <<ring, sem, wait, arg>>

fifo_flush_init_used(f) ==
  /\ pc[f] = "init_used"
  /\ sema_init("slots_used", 0)
  /\ lock' = NoThread
  /\ Goto(f, "idle")
  /\ UNCHANGED <<ring, arg>>

-----------------------------------------------------------------------------
write_step(w) == fifo_write_copy(w) \/ fifo_write_advance(w)
read_step(r)  == fifo_read_copy(r) \/ fifo_read_advance(r)
call_step(t)  == signal(t) \/ mutex_lock(t) \/ finish(t)
flush_step(f) ==
  \/ fifo_flush_lock(f)      \/ fifo_flush_reset(f)
  \/ fifo_flush_init_free(f) \/ fifo_flush_init_used(f)

Next ==
  \/ \E w \in Writers : \E m \in Msg : fifo_write_down(w, m)
  \/ \E w \in Writers : \E m \in Msg : in_write_trylock(w, m)
  \/ \E w \in Writers : write_step(w)
  \/ \E r \in Readers : fifo_read_down(r)
  \/ \E r \in Readers : read_step(r)
  \/ \E t \in Callers : call_step(t)
  \/ \E f \in Flushers : flush_step(f)

Spec == fifo_init /\ [][Next]_vars

(***************************************************************************)
(* A thread inside a call keeps running; a mutex waiter gets the mutex (a  *)
(* kernel mutex is handed to its longest waiter); readers call again, as   *)
(* direct_send_loop does.  Writers and flushers need not call, and signals *)
(* need not come.                                                          *)
(***************************************************************************)
Fairness ==
  /\ \A w \in Writers : WF_vars(write_step(w))
  /\ \A r \in Readers : WF_vars(read_step(r)) /\ WF_vars(fifo_read_down(r))
  /\ \A t \in Callers : SF_vars(mutex_lock(t)) /\ WF_vars(finish(t))
  /\ \A f \in Flushers : WF_vars(pc[f] # "idle" /\ flush_step(f))

FairSpec == Spec /\ Fairness

(***************************************************************************)
(* Properties                                                              *)
(***************************************************************************)
\* The type of the state.  count is a plain int: nothing in the code keeps it
\* between 0 and FIFO_SIZE except the protocol of the semaphores.
TypeOK ==
  /\ messages \in [Slots -> Msg \cup {NoMsg}]
  /\ head \in Slots /\ tail \in Slots /\ count \in Int
  /\ sem \in [Semaphores -> Nat]
  /\ wait \in [Semaphores -> Seq(Callers)]
  /\ lock \in Threads \cup {NoThread}
  /\ pc \in [Threads -> Stages]
  /\ arg \in [Callers -> Msg \cup {NoMsg}]

\* The mutex of fifo_write, fifo_read and fifo_flush: whoever is between
\* mutex_lock and mutex_unlock owns it, so no two threads touch the ring.
MutualExclusion == \A t \in Threads : pc[t] \in Critical => lock = t

Holding(T) == {t \in T : pc[t] \in {"lock", "copy", "advance"}}
Giving(T)  == {t \in T : pc[t] = "up"}

\* "sem_empty counts free slots, sem_full counts used slots"
\* (docs/interview_notes.md), made exact in the middle of calls: a slot is free,
\* held by a writer that has not stored yet, owed by a reader, or counted.
SlotAccounting ==
  /\ sem["slots_free"] + Cardinality(Holding(Writers))
       + Cardinality(Giving(Readers)) + count = FIFO_SIZE
  /\ sem["slots_used"] + Cardinality(Holding(Readers))
       + Cardinality(Giving(Writers)) = count

\* A caller asleep in down_interruptible is on the wait list that the matching
\* up() will serve, and nobody sleeps while a unit is there to be taken.
NoLostWakeup ==
  /\ \A t \in Callers : pc[t] = "asleep" => t \in Range(wait[Takes(t)])
  /\ \A s \in Semaphores : sem[s] > 0 => wait[s] = <<>>

\* The two reasons fifo_write and fifo_read have to block: when no call is
\* between its semaphore operations, a writer sleeps only on a full buffer and a
\* reader only on an empty one, so the two sides never wait for each other.
SleepIsJustified ==
  (\A t \in Callers : pc[t] \in {"idle", "asleep"}) =>
    /\ (\E w \in Writers : pc[w] = "asleep") => count = FIFO_SIZE
    /\ (\E r \in Readers : pc[r] = "asleep") => count = 0

\* What the ring holds, oldest first: count slots from head on.
Stored == [i \in 1..count |-> messages[(head + i - 1) % FIFO_SIZE]]

\* How far a call has come, as its caller sees it.
CallOf(t) == IF pc[t] = "idle" THEN "idle"
             ELSE IF pc[t] = "up" THEN "done" ELSE "pending"

\* The message a call has been given or has got.
ValOf(t) == IF t \in Readers /\ pc[t] # "up" THEN NoMsg ELSE arg[t]

Queue == INSTANCE BoundedFifo WITH
           queue <- Stored,
           call  <- [t \in Callers |-> CallOf(t)],
           val   <- [t \in Callers |-> ValOf(t)]

\* Without a flush the ring, the mutex and the two semaphores implement the
\* bounded queue of BoundedFifo: fifo_write and fifo_read take effect at one
\* instant, in first-in first-out order, or not at all.
ImplementsQueue == Queue!Spec

\* A writer that sleeps in fifo_write on a full buffer returns (it gets a slot,
\* or a signal ends the call), however the other writers behave, as long as
\* somebody reads.
SleepingWriterReturns ==
  \A w \in Writers : (pc[w] = "asleep") ~> (pc[w] = "idle")

\* "wake up slots_used to wake any blocked reader" (fifo_write): no reader
\* sleeps for ever while messages lie in the buffer.
StoredWakesReader ==
  \A r \in Readers : []<>(pc[r] # "asleep" \/ count = 0)

\* A flush in the middle of other calls loses track of at most one slot for
\* each call then under way (a writer that took its slot before the flush still
\* stores after it, a reader that was promised a message still takes one), and
\* however many flushes follow each other their errors do not add up.
FlushDriftBounded ==
  count \in -Cardinality(Callers)..FIFO_SIZE + Cardinality(Callers)
=============================================================================
