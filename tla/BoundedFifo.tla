----------------------------- MODULE BoundedFifo -----------------------------
(***************************************************************************)
(* What kernel/fifo_buffer.c promises its callers: a bounded first-in      *)
(* first-out queue on which every call takes effect at one instant between *)
(* its invocation and its return, or fails and has no effect at all.       *)
(***************************************************************************)
EXTENDS Integers, Sequences

CONSTANTS FIFO_SIZE,   \* capacity of the buffer
          Msg,         \* struct keycipher_message values
          NoMsg,       \* a thread's message variable outside a call
          Writers, Readers

Callers == Writers \cup Readers

VARIABLES queue,       \* the messages stored and not yet read, oldest first
          call,        \* per caller: "idle", "pending" or "done"
          val          \* per caller: the message given to, or got from, the call

vars == <<queue, call, val>>

Init ==
  /\ queue = <<>>
  /\ call = [t \in Callers |-> "idle"]
  /\ val = [t \in Callers |-> NoMsg]

Invoke(t, m) ==
  /\ call[t] = "idle"
  /\ m \in IF t \in Writers THEN Msg ELSE {NoMsg}
  /\ call' = [call EXCEPT ![t] = "pending"]
  /\ val' = [val EXCEPT ![t] = m]
  /\ UNCHANGED queue

\* The message is stored; this is the only way the queue grows.
Enqueue(w) ==
  /\ call[w] = "pending"
  /\ Len(queue) < FIFO_SIZE
  /\ queue' = Append(queue, val[w])
  /\ call' = [call EXCEPT ![w] = "done"]
  /\ UNCHANGED val

\* The oldest message is handed to exactly one reader.
Dequeue(r) ==
  /\ call[r] = "pending"
  /\ queue # <<>>
  /\ val' = [val EXCEPT ![r] = Head(queue)]
  /\ queue' = Tail(queue)
  /\ call' = [call EXCEPT ![r] = "done"]

\* The call returns 0: only after it took effect.
Return(t) ==
  /\ call[t] = "done"
  /\ call' = [call EXCEPT ![t] = "idle"]
  /\ val' = [val EXCEPT ![t] = NoMsg]
  /\ UNCHANGED queue

\* The call returns an error: only if it took no effect.
Fail(t) ==
  /\ call[t] = "pending"
  /\ call' = [call EXCEPT ![t] = "idle"]
  /\ val' = [val EXCEPT ![t] = NoMsg]
  /\ UNCHANGED queue

Next ==
  \/ \E t \in Callers : \E m \in Msg \cup {NoMsg} : Invoke(t, m)
  \/ \E w \in Writers : Enqueue(w)
  \/ \E r \in Readers : Dequeue(r)
  \/ \E t \in Callers : Return(t) \/ Fail(t)

Spec == Init /\ [][Next]_vars
=============================================================================
