----------------------------- MODULE FifoProofs -----------------------------
(***************************************************************************)
(* Proofs about Fifo, for every capacity and every finite set of callers.  *)
(***************************************************************************)
EXTENDS Fifo, SequenceTheorems, FiniteSetTheorems, TLAPS

\* A step of a call of fifo_write, fifo_read or keycipher_in_write.
CallerStep ==
  \/ \E w \in Writers : \E m \in Msg : fifo_write_down(w, m)
  \/ \E w \in Writers : \E m \in Msg : in_write_trylock(w, m)
  \/ \E w \in Writers : write_step(w)
  \/ \E r \in Readers : fifo_read_down(r)
  \/ \E r \in Readers : read_step(r)
  \/ \E t \in Callers : call_step(t)

FlusherStep == \E f \in Flushers : flush_step(f)

(***************************************************************************)
(* Wait lists: what signal (RemoveAt), up (Head, Tail) and down (Append)   *)
(* do to a list.                                                           *)
(***************************************************************************)
\* signal takes the k-th sleeper out of the list and keeps the others in order.
LEMMA RemoveAtFacts ==
  ASSUME NEW S, NEW s \in Seq(S), NEW k \in 1..Len(s)
  PROVE  /\ RemoveAt(s, k) \in Seq(S)
         /\ Len(RemoveAt(s, k)) = Len(s) - 1
         /\ \A i \in 1..Len(s) - 1 :
              RemoveAt(s, k)[i] = IF i < k THEN s[i] ELSE s[i + 1]
<1> DEFINE a == SubSeq(s, 1, k - 1)
           b == SubSeq(s, k + 1, Len(s))
<1>0. Len(s) \in Nat /\ k \in Nat /\ k >= 1 /\ k <= Len(s)
  BY LenProperties
<1>1. /\ a \in Seq(S) /\ Len(a) = k - 1
      /\ \A i \in 1..k - 1 : a[i] = s[i]
  BY <1>0
<1>2. /\ b \in Seq(S) /\ Len(b) = Len(s) - k
      /\ \A i \in 1..Len(s) - k : b[i] = s[k + i]
  BY <1>0
<1> HIDE DEF a, b
<1>3. /\ a \o b \in Seq(S)
      /\ Len(a \o b) = Len(a) + Len(b)
      /\ \A i \in 1..Len(a) + Len(b) :
           (a \o b)[i] = IF i <= Len(a) THEN a[i] ELSE b[i - Len(a)]
  BY <1>1, <1>2, ConcatProperties, Zenon
<1>4. Len(a) + Len(b) = Len(s) - 1
  BY <1>0, <1>1, <1>2
<1>5. ASSUME NEW i \in 1..Len(s) - 1
      PROVE  (a \o b)[i] = IF i < k THEN s[i] ELSE s[i + 1]
  <2>1. CASE i < k
    BY <2>1, <1>0, <1>1, <1>3, <1>4
  <2>2. CASE ~(i < k)
    <3>1. /\ i - Len(a) \in 1..Len(s) - k
          /\ ~(i <= Len(a))
          /\ k + (i - Len(a)) = i + 1
      BY <2>2, <1>0, <1>1
    <3> QED BY <3>1, <2>2, <1>2, <1>3, <1>4
  <2> QED BY <2>1, <2>2
<1> QED BY <1>3, <1>4, <1>5 DEF RemoveAt, a, b

(***************************************************************************)
(* Type correctness                                                        *)
(***************************************************************************)
LEMMA TypeStep == TypeOK /\ [Next]_vars => TypeOK'
<1> SUFFICES ASSUME TypeOK, [Next]_vars PROVE TypeOK'
  OBVIOUS
<1>t. /\ messages \in [Slots -> Msg \cup {NoMsg}]
      /\ head \in Slots /\ tail \in Slots /\ count \in Int
      /\ sem \in [Semaphores -> Nat]
      /\ wait \in [Semaphores -> Seq(Callers)]
      /\ lock \in Threads \cup {NoThread}
      /\ pc \in [Threads -> Stages]
      /\ arg \in [Callers -> Msg \cup {NoMsg}]
  BY DEF TypeOK
<1>m. /\ (head + 1) % FIFO_SIZE \in Slots
      /\ (tail + 1) % FIFO_SIZE \in Slots
      /\ 0 \in Slots
  BY <1>t, FifoAssumption DEF Slots
<1>c. /\ \A w \in Writers : w \in Callers
      /\ \A r \in Readers : r \in Callers
      /\ \A t \in Callers : t \in Threads
      /\ \A f \in Flushers : f \in Threads
  BY DEF Callers, Threads
<1>s. /\ "slots_free" \in Semaphores /\ "slots_used" \in Semaphores
      /\ \A t \in Threads, stage \in Stages : Goto(t, stage) => pc' \in [Threads -> Stages]
      /\ \A x \in {"idle", "asleep", "lock", "up"} \cup Critical : x \in Stages
      /\ \A t : Takes(t) \in Semaphores /\ Gives(t) \in Semaphores
  BY <1>t DEF Semaphores, Stages, Goto, Takes, Gives
<1>d. ASSUME NEW t \in Callers, NEW s \in Semaphores, down(t, s)
      PROVE  /\ sem' \in [Semaphores -> Nat]
             /\ wait' \in [Semaphores -> Seq(Callers)]
             /\ pc' \in [Threads -> Stages]
  <2>1. Append(wait[s], t) \in Seq(Callers)
    BY <1>t, AppendProperties
  <2>4. sem[s] \in Nat /\ (sem[s] > 0 => sem[s] - 1 \in Nat)
    BY <1>t
  <2>2. sem' \in [Semaphores -> Nat]
    <3>1. CASE sem[s] > 0 /\ sem' = [sem EXCEPT ![s] = @ - 1]
      BY <3>1, <1>t, <2>4
    <3>2. CASE sem' = sem
      BY <3>2, <1>t
    <3> QED BY <1>d, <3>1, <3>2 DEF down
  <2>3. wait' \in [Semaphores -> Seq(Callers)]
    BY <1>d, <1>t, <2>1 DEF down
  <2> QED BY <1>d, <1>c, <1>s, <2>2, <2>3 DEF down
<1>1. ASSUME NEW w \in Writers, NEW m \in Msg, fifo_write_down(w, m)
      PROVE  TypeOK'
  BY <1>1, <1>t, <1>c, <1>s, <1>d DEF fifo_write_down, TypeOK, ring
<1>2. ASSUME NEW w \in Writers, NEW m \in Msg, in_write_trylock(w, m)
      PROVE  TypeOK'
  <2>1. sem' \in [Semaphores -> Nat]
    BY <1>2, <1>t, <1>s DEF in_write_trylock
  <2> QED BY <1>2, <1>t, <1>c, <1>s, <2>1 DEF in_write_trylock, TypeOK, ring
<1>3. ASSUME NEW w \in Writers, write_step(w) PROVE TypeOK'
  <2>1. CASE fifo_write_copy(w)
    <3>1. arg[w] \in Msg \cup {NoMsg}
      BY <1>t, <1>c
    <3> QED BY <2>1, <3>1, <1>t, <1>c, <1>s DEF fifo_write_copy, TypeOK, Critical
  <2>2. CASE fifo_write_advance(w)
    BY <2>2, <1>t, <1>m, <1>c, <1>s DEF fifo_write_advance, TypeOK
  <2> QED BY <1>3, <2>1, <2>2 DEF write_step
<1>4. ASSUME NEW r \in Readers, fifo_read_down(r) PROVE TypeOK'
  BY <1>4, <1>t, <1>c, <1>s, <1>d DEF fifo_read_down, TypeOK, ring
<1>5. ASSUME NEW r \in Readers, read_step(r) PROVE TypeOK'
  <2>1. CASE fifo_read_copy(r)
    <3>1. messages[head] \in Msg \cup {NoMsg}
      BY <1>t
    <3> QED BY <2>1, <3>1, <1>t, <1>c, <1>s
          DEF fifo_read_copy, TypeOK, Critical, ring
  <2>2. CASE fifo_read_advance(r)
    BY <2>2, <1>t, <1>m, <1>c, <1>s DEF fifo_read_advance, TypeOK
  <2> QED BY <1>5, <2>1, <2>2 DEF read_step
<1>6. ASSUME NEW t \in Callers, call_step(t) PROVE TypeOK'
  <2>1. CASE signal(t)
    <3>1. PICK k \in 1..Len(wait[Takes(t)]) :
            wait' = [wait EXCEPT ![Takes(t)] = RemoveAt(@, k)]
      BY <2>1 DEF signal
    <3>2. RemoveAt(wait[Takes(t)], k) \in Seq(Callers)
      BY <1>t, <1>s, RemoveAtFacts
    <3>3. wait' \in [Semaphores -> Seq(Callers)]
      BY <3>1, <3>2, <1>t
    <3> QED BY <2>1, <3>3, <1>t, <1>c, <1>s DEF signal, TypeOK, ring
  <2>2. CASE mutex_lock(t)
    BY <2>2, <1>t, <1>c, <1>s DEF mutex_lock, TypeOK, Critical, ring
  <2>3. CASE finish(t)
    <3>1. wait[Gives(t)] # <<>> =>
            /\ Head(wait[Gives(t)]) \in Callers
            /\ Tail(wait[Gives(t)]) \in Seq(Callers)
      BY <1>t, <1>s, HeadTailProperties
    <3>2. up(t, Gives(t))
      BY <2>3 DEF finish
    <3>3. sem' \in [Semaphores -> Nat]
      <4>1. sem[Gives(t)] + 1 \in Nat
        BY <1>t, <1>s
      <4>2. CASE sem' = [sem EXCEPT ![Gives(t)] = @ + 1]
        BY <4>1, <4>2, <1>t, <1>s
      <4>3. CASE sem' = sem
        BY <4>3, <1>t
      <4> QED BY <3>2, <4>2, <4>3 DEF up
    <3>4. wait' \in [Semaphores -> Seq(Callers)]
      BY <3>1, <3>2, <1>t DEF up
    <3>5. pc' \in [Threads -> Stages]
      BY <3>1, <3>2, <1>t, <1>c, <1>s DEF up
    <3> QED BY <2>3, <3>3, <3>4, <3>5, <1>t DEF finish, TypeOK, ring
  <2> QED BY <1>6, <2>1, <2>2, <2>3 DEF call_step
<1>7. ASSUME NEW f \in Flushers, flush_step(f) PROVE TypeOK'
  <2>1. <<>> \in Seq(Callers)
    OBVIOUS
  <2>2. CASE fifo_flush_lock(f)
    BY <2>2, <1>t, <1>c, <1>s DEF fifo_flush_lock, TypeOK, Critical, ring
  <2>3. CASE fifo_flush_reset(f)
    BY <2>3, <1>t, <1>m, <1>c, <1>s DEF fifo_flush_reset, TypeOK, Critical
  <2>4. ASSUME NEW s \in Semaphores, NEW n \in Nat, sema_init(s, n)
        PROVE  /\ sem' \in [Semaphores -> Nat]
               /\ wait' \in [Semaphores -> Seq(Callers)]
    BY <2>4, <2>1, <1>t DEF sema_init
  <2>5. CASE fifo_flush_init_free(f)
    BY <2>4, <2>5, <1>t, <1>c, <1>s, FifoAssumption
      DEF fifo_flush_init_free, TypeOK, Critical, ring
  <2>6. CASE fifo_flush_init_used(f)
    BY <2>4, <2>6, <1>t, <1>c, <1>s DEF fifo_flush_init_used, TypeOK, ring
  <2> QED BY <1>7, <2>2, <2>3, <2>5, <2>6 DEF flush_step
<1>8. CASE UNCHANGED vars
  BY <1>8 DEF TypeOK, vars
<1> QED BY <1>1, <1>2, <1>3, <1>4, <1>5, <1>6, <1>7, <1>8 DEF Next

LEMMA TypeInit == fifo_init => TypeOK
<1> SUFFICES ASSUME fifo_init PROVE TypeOK
  OBVIOUS
<1>1. /\ <<>> \in Seq(Callers) /\ 0 \in Slots
  BY FifoAssumption DEF Slots
<1> QED BY <1>1, FifoAssumption
      DEF fifo_init, TypeOK, Semaphores, Stages

\* The indices of the ring stay inside the array and the state keeps its type,
\* whatever the callers and the flushers do.
THEOREM TypeCorrect == Spec => []TypeOK
BY TypeInit, TypeStep, PTL DEF Spec

(***************************************************************************)
(* The mutex                                                               *)
(***************************************************************************)
LEMMA MutexStep == TypeOK /\ MutualExclusion /\ [Next]_vars => MutualExclusion'
<1> SUFFICES ASSUME TypeOK, MutualExclusion, [Next]_vars PROVE MutualExclusion'
  OBVIOUS
<1>t. /\ pc \in [Threads -> Stages] /\ NoThread \notin Threads
      /\ \A u \in Threads : pc[u] \in Critical => lock = u
      /\ wait \in [Semaphores -> Seq(Callers)]
  BY FifoAssumption DEF TypeOK, MutualExclusion
<1>c. /\ \A w \in Writers : w \in Callers
      /\ \A r \in Readers : r \in Callers
      /\ \A t \in Callers : t \in Threads
      /\ \A f \in Flushers : f \in Threads
  BY DEF Callers, Threads
\* A thread enters, stays inside, leaves, or stays outside.
<1>e. ASSUME NEW t \in Threads, NEW stage \in Critical, Goto(t, stage),
             lock = NoThread, lock' = t
      PROVE  MutualExclusion'
  BY <1>e, <1>t DEF Goto, MutualExclusion
<1>i. ASSUME NEW t \in Threads, NEW stage \in Critical, Goto(t, stage),
             pc[t] \in Critical, lock' = lock
      PROVE  MutualExclusion'
  BY <1>i, <1>t DEF Goto, MutualExclusion
<1>l. ASSUME NEW t \in Threads, NEW stage, stage \notin Critical, Goto(t, stage),
             pc[t] \in Critical, lock' = NoThread
      PROVE  MutualExclusion'
  BY <1>l, <1>t DEF Goto, MutualExclusion
<1>o. ASSUME NEW t \in Threads, NEW stage, stage \notin Critical, Goto(t, stage),
             lock' = lock
      PROVE  MutualExclusion'
  BY <1>o, <1>t DEF Goto, MutualExclusion
<1>d. ASSUME NEW t \in Threads, NEW s, down(t, s), lock' = lock
      PROVE  MutualExclusion'
  BY <1>d, <1>o DEF down, Critical
<1>1. ASSUME NEW w \in Writers, NEW m \in Msg, fifo_write_down(w, m)
      PROVE  MutualExclusion'
  BY <1>1, <1>c, <1>d DEF fifo_write_down
<1>2. ASSUME NEW w \in Writers, NEW m \in Msg, in_write_trylock(w, m)
      PROVE  MutualExclusion'
  BY <1>2, <1>c, <1>o DEF in_write_trylock, Critical
<1>3. ASSUME NEW w \in Writers, write_step(w) PROVE MutualExclusion'
  <2>1. CASE fifo_write_copy(w)
    BY <2>1, <1>c, <1>i DEF fifo_write_copy, Critical
  <2>2. CASE fifo_write_advance(w)
    BY <2>2, <1>c, <1>l DEF fifo_write_advance, Critical
  <2> QED BY <1>3, <2>1, <2>2 DEF write_step
<1>4. ASSUME NEW r \in Readers, fifo_read_down(r) PROVE MutualExclusion'
  BY <1>4, <1>c, <1>d DEF fifo_read_down
<1>5. ASSUME NEW r \in Readers, read_step(r) PROVE MutualExclusion'
  <2>1. CASE fifo_read_copy(r)
    BY <2>1, <1>c, <1>i DEF fifo_read_copy, Critical
  <2>2. CASE fifo_read_advance(r)
    BY <2>2, <1>c, <1>l DEF fifo_read_advance, Critical
  <2> QED BY <1>5, <2>1, <2>2 DEF read_step
<1>6. ASSUME NEW t \in Callers, call_step(t) PROVE MutualExclusion'
  <2>1. CASE signal(t)
    BY <2>1, <1>c, <1>o DEF signal, Critical
  <2>2. CASE mutex_lock(t)
    BY <2>2, <1>c, <1>e DEF mutex_lock, Critical
  <2>3. CASE finish(t)
    <3>1. /\ up(t, Gives(t)) /\ lock' = lock
      BY <2>3 DEF finish
    <3>2. CASE Goto(t, "idle")
      BY <3>1, <3>2, <1>c, <1>o DEF Critical
    <3>3. CASE pc' = [pc EXCEPT ![t] = "idle", ![Head(wait[Gives(t)])] = "lock"]
      BY <3>1, <3>3, <1>t, <1>c DEF MutualExclusion, Critical
    <3> QED BY <3>1, <3>2, <3>3 DEF up
  <2> QED BY <1>6, <2>1, <2>2, <2>3 DEF call_step
<1>7. ASSUME NEW f \in Flushers, flush_step(f) PROVE MutualExclusion'
  <2>1. CASE fifo_flush_lock(f)
    BY <2>1, <1>c, <1>e DEF fifo_flush_lock, Critical
  <2>2. CASE fifo_flush_reset(f)
    BY <2>2, <1>c, <1>i DEF fifo_flush_reset, Critical
  <2>3. CASE fifo_flush_init_free(f)
    BY <2>3, <1>c, <1>i DEF fifo_flush_init_free, Critical
  <2>4. CASE fifo_flush_init_used(f)
    BY <2>4, <1>c, <1>l DEF fifo_flush_init_used, Critical
  <2> QED BY <1>7, <2>1, <2>2, <2>3, <2>4 DEF flush_step
<1>8. CASE UNCHANGED vars
  BY <1>8 DEF MutualExclusion, vars
<1> QED BY <1>1, <1>2, <1>3, <1>4, <1>5, <1>6, <1>7, <1>8 DEF Next

\* No two threads are inside fifo_write, fifo_read and fifo_flush's critical
\* sections at once, for any number of threads of each kind.
THEOREM RingIsExclusive == Spec => []MutualExclusion
<1>1. fifo_init => MutualExclusion
  BY DEF fifo_init, MutualExclusion, Critical
<1> QED BY <1>1, TypeInit, TypeStep, MutexStep, PTL DEF Spec

(***************************************************************************)
(* The wait lists                                                          *)
(***************************************************************************)
\* Everyone on a wait list sleeps in a down on that semaphore.
ListedSleep ==
  \A s \in Semaphores : \A k \in 1..Len(wait[s]) :
    pc[wait[s][k]] = "asleep" /\ Takes(wait[s][k]) = s

\* Nobody is on a list twice.
ListedOnce ==
  \A s \in Semaphores : \A j, k \in 1..Len(wait[s]) :
    wait[s][j] = wait[s][k] => j = k

\* Nobody waits for a unit that is there.
NoIdleUnit == \A s \in Semaphores : sem[s] > 0 => wait[s] = <<>>

WaitInv == ListedSleep /\ ListedOnce /\ NoIdleUnit

LEMMA WaitStep == TypeOK /\ WaitInv /\ [Next]_vars => WaitInv'
<1> SUFFICES ASSUME TypeOK, WaitInv, [Next]_vars PROVE WaitInv'
  OBVIOUS
<1>t. /\ sem \in [Semaphores -> Nat]
      /\ wait \in [Semaphores -> Seq(Callers)]
      /\ pc \in [Threads -> Stages]
  BY DEF TypeOK
<1>w. /\ ListedSleep /\ ListedOnce /\ NoIdleUnit
      /\ \A s \in Semaphores : wait[s] \in Seq(Callers) /\ Len(wait[s]) \in Nat
  BY <1>t, LenProperties DEF WaitInv
<1>c. /\ \A w \in Writers : w \in Callers
      /\ \A r \in Readers : r \in Callers
      /\ \A t \in Callers : t \in Threads
      /\ \A f \in Flushers : f \in Threads
      /\ \A t : Takes(t) \in Semaphores /\ Gives(t) \in Semaphores
      /\ "slots_free" \in Semaphores /\ "slots_used" \in Semaphores
  BY DEF Callers, Threads, Takes, Gives, Semaphores
\* A thread that is not asleep moves on, and the lists stay.
<1>g. ASSUME NEW t \in Threads, NEW stage, pc[t] # "asleep", Goto(t, stage),
             wait' = wait
      PROVE  ListedSleep' /\ ListedOnce'
  <2>1. ListedOnce'
    BY <1>g, <1>w DEF ListedOnce
  <2>2. ASSUME NEW s \in Semaphores, NEW k \in 1..Len(wait[s])
        PROVE  pc'[wait[s][k]] = "asleep" /\ Takes(wait[s][k]) = s
    <3>1. pc[wait[s][k]] = "asleep" /\ Takes(wait[s][k]) = s
      BY <1>w DEF ListedSleep
    <3>2. wait[s][k] \in Threads
      BY <1>w, <1>c, ElementOfSeq
    <3> QED BY <1>g, <1>t, <3>1, <3>2 DEF Goto
  <2> QED BY <1>g, <2>1, <2>2 DEF ListedSleep
\* ... and neither do the values of the semaphores rise.
<1>h. ASSUME NEW t \in Threads, NEW stage, pc[t] # "asleep", Goto(t, stage),
             wait' = wait, \A s \in Semaphores : sem'[s] > 0 => sem[s] > 0
      PROVE  WaitInv'
  BY <1>g, <1>h, <1>w DEF WaitInv, NoIdleUnit
<1>d. ASSUME NEW t \in Callers, pc[t] = "idle", down(t, Takes(t))
      PROVE  WaitInv'
  <2> DEFINE q == Takes(t)
  <2>1. CASE sem[q] > 0 /\ sem' = [sem EXCEPT ![q] = @ - 1] /\ Goto(t, "lock")
             /\ wait' = wait
    <3>1. \A s \in Semaphores : sem'[s] > 0 => sem[s] > 0
      BY <2>1, <1>t, <1>c
    <3> QED BY <2>1, <3>1, <1>c, <1>d, <1>h
  <2>2. CASE sem[q] = 0 /\ wait' = [wait EXCEPT ![q] = Append(@, t)]
             /\ Goto(t, "asleep") /\ sem' = sem
    <3>1. /\ Len(wait'[q]) = Len(wait[q]) + 1
          /\ \A k \in 1..Len(wait[q]) : wait'[q][k] = wait[q][k]
          /\ wait'[q][Len(wait[q]) + 1] = t
      BY <2>2, <1>t, <1>w, <1>c, AppendProperties
    <3>2. \A s \in Semaphores : s # q => wait'[s] = wait[s]
      BY <2>2, <1>t
    <3>3. ASSUME NEW s \in Semaphores, NEW k \in 1..Len(wait[s])
          PROVE  /\ pc'[wait[s][k]] = "asleep" /\ Takes(wait[s][k]) = s
                 /\ wait[s][k] # t
      <4>1. pc[wait[s][k]] = "asleep" /\ Takes(wait[s][k]) = s
        BY <1>w DEF ListedSleep
      <4>2. wait[s][k] \in Threads
        BY <1>w, <1>c, ElementOfSeq
      <4> QED BY <2>2, <1>t, <1>d, <4>1, <4>2 DEF Goto
    <3>4. pc'[t] = "asleep"
      BY <2>2, <1>t, <1>c DEF Goto
    <3>5. ListedSleep'
      <4> SUFFICES ASSUME NEW s \in Semaphores, NEW k \in 1..Len(wait'[s])
                   PROVE  pc'[wait'[s][k]] = "asleep" /\ Takes(wait'[s][k]) = s
        BY DEF ListedSleep
      <4>1. CASE s = q /\ k = Len(wait[q]) + 1
        BY <4>1, <3>1, <3>4
      <4>2. CASE s # q
        BY <4>2, <3>2, <3>3
      <4>3. CASE s = q /\ k \in 1..Len(wait[q])
        BY <4>3, <3>1, <3>3
      <4> QED BY <4>1, <4>2, <4>3, <3>1, <1>w
    <3>6. ListedOnce'
      <4> SUFFICES ASSUME NEW s \in Semaphores, NEW j \in 1..Len(wait'[s]),
                          NEW k \in 1..Len(wait'[s]), wait'[s][j] = wait'[s][k]
                   PROVE  j = k
        BY DEF ListedOnce
      <4>1. CASE s # q
        BY <4>1, <3>2, <1>w DEF ListedOnce
      <4>2. CASE s = q
        <5>1. CASE j \in 1..Len(wait[q]) /\ k \in 1..Len(wait[q])
          BY <4>2, <5>1, <3>1, <1>w DEF ListedOnce
        <5>2. CASE j \in 1..Len(wait[q]) /\ k = Len(wait[q]) + 1
          BY <4>2, <5>2, <3>1, <3>3
        <5>3. CASE j = Len(wait[q]) + 1 /\ k \in 1..Len(wait[q])
          BY <4>2, <5>3, <3>1, <3>3
        <5> QED BY <4>2, <5>1, <5>2, <5>3, <3>1, <1>w
      <4> QED BY <4>1, <4>2
    <3>7. NoIdleUnit'
      BY <2>2, <3>2, <1>w DEF NoIdleUnit
    <3> QED BY <3>5, <3>6, <3>7 DEF WaitInv
  <2> QED BY <1>d, <2>1, <2>2 DEF down
<1>1. ASSUME NEW w \in Writers, NEW m \in Msg, fifo_write_down(w, m)
      PROVE  WaitInv'
  <2>1. Takes(w) = "slots_free"
    BY DEF Takes
  <2> QED BY <1>1, <1>c, <1>d, <2>1 DEF fifo_write_down
<1>2. ASSUME NEW w \in Writers, NEW m \in Msg, in_write_trylock(w, m)
      PROVE  WaitInv'
  <2>1. \A s \in Semaphores : sem'[s] > 0 => sem[s] > 0
    BY <1>2, <1>t, <1>c DEF in_write_trylock
  <2> QED BY <1>2, <1>c, <1>h, <2>1 DEF in_write_trylock
<1>3. ASSUME NEW w \in Writers, write_step(w) PROVE WaitInv'
  BY <1>3, <1>c, <1>h DEF write_step, fifo_write_copy, fifo_write_advance
<1>4. ASSUME NEW r \in Readers, fifo_read_down(r) PROVE WaitInv'
  <2>1. Takes(r) = "slots_used"
    BY FifoAssumption DEF Takes
  <2> QED BY <1>4, <1>c, <1>d, <2>1 DEF fifo_read_down
<1>5. ASSUME NEW r \in Readers, read_step(r) PROVE WaitInv'
  BY <1>5, <1>c, <1>h DEF read_step, fifo_read_copy, fifo_read_advance
<1>6. ASSUME NEW t \in Callers, call_step(t) PROVE WaitInv'
  <2>1. CASE signal(t)
    <3> DEFINE q == Takes(t)
    <3>1. PICK k \in 1..Len(wait[q]) :
            wait[q][k] = t /\ wait' = [wait EXCEPT ![q] = RemoveAt(@, k)]
      BY <2>1 DEF signal
    <3>2. /\ Len(wait'[q]) = Len(wait[q]) - 1
          /\ \A i \in 1..Len(wait[q]) - 1 :
               wait'[q][i] = IF i < k THEN wait[q][i] ELSE wait[q][i + 1]
      BY <3>1, <1>t, <1>w, <1>c, RemoveAtFacts
    <3>3. \A s \in Semaphores : s # q => wait'[s] = wait[s]
      BY <3>1, <1>t
    <3>4. /\ pc' = [pc EXCEPT ![t] = "idle"] /\ sem' = sem
      BY <2>1 DEF signal, Goto
    <3>5. ASSUME NEW s \in Semaphores, NEW i \in 1..Len(wait[s]), ~(s = q /\ i = k)
          PROVE  pc'[wait[s][i]] = "asleep" /\ Takes(wait[s][i]) = s
      <4>1. pc[wait[s][i]] = "asleep" /\ Takes(wait[s][i]) = s
        BY <1>w DEF ListedSleep
      <4>2. wait[s][i] \in Threads
        BY <1>w, <1>c, ElementOfSeq
      <4>3. wait[s][i] # t
        <5>1. CASE s # q
          BY <4>1, <5>1
        <5>2. CASE s = q /\ i # k
          BY <5>2, <3>1, <1>w, <1>c DEF ListedOnce
        <5> QED BY <3>5, <5>1, <5>2
      <4> QED BY <4>1, <4>2, <4>3, <3>4, <1>t
    <3>6. ListedSleep'
      <4> SUFFICES ASSUME NEW s \in Semaphores, NEW i \in 1..Len(wait'[s])
                   PROVE  pc'[wait'[s][i]] = "asleep" /\ Takes(wait'[s][i]) = s
        BY DEF ListedSleep
      <4>1. CASE s # q
        BY <4>1, <3>3, <3>5
      <4>2. CASE s = q /\ i < k
        <5>1. i \in 1..Len(wait[q]) - 1 /\ i \in 1..Len(wait[q])
          BY <4>2, <3>2, <1>w, <1>c
        <5> QED BY <4>2, <5>1, <3>2, <3>5
      <4>3. CASE s = q /\ ~(i < k)
        <5>1. i \in 1..Len(wait[q]) - 1 /\ i + 1 \in 1..Len(wait[q]) /\ i + 1 # k
          BY <4>3, <3>2, <1>w, <1>c
        <5> QED BY <4>3, <5>1, <3>2, <3>5
      <4> QED BY <4>1, <4>2, <4>3
    <3>7. ListedOnce'
      <4> SUFFICES ASSUME NEW s \in Semaphores, NEW i \in 1..Len(wait'[s]),
                          NEW j \in 1..Len(wait'[s]), wait'[s][i] = wait'[s][j]
                   PROVE  i = j
        BY DEF ListedOnce
      <4>1. CASE s # q
        BY <4>1, <3>3, <1>w DEF ListedOnce
      <4>2. CASE s = q
        <5>1. /\ i \in 1..Len(wait[q]) - 1 /\ j \in 1..Len(wait[q]) - 1
              /\ i \in 1..Len(wait[q]) /\ i + 1 \in 1..Len(wait[q])
              /\ j \in 1..Len(wait[q]) /\ j + 1 \in 1..Len(wait[q])
          BY <4>2, <3>2, <1>w, <1>c
        <5>2. \A a, b \in 1..Len(wait[q]) : wait[q][a] = wait[q][b] => a = b
          BY <1>w, <1>c DEF ListedOnce
        <5>3. CASE i < k /\ j < k
          BY <5>1, <5>2, <5>3, <4>2, <3>2
        <5>4. CASE i < k /\ ~(j < k)
          BY <5>1, <5>2, <5>4, <4>2, <3>2
        <5>5. CASE ~(i < k) /\ j < k
          BY <5>1, <5>2, <5>5, <4>2, <3>2
        <5>6. CASE ~(i < k) /\ ~(j < k)
          BY <5>1, <5>2, <5>6, <4>2, <3>2
        <5> QED BY <5>3, <5>4, <5>5, <5>6
      <4> QED BY <4>1, <4>2
    <3>8. NoIdleUnit'
      <4>1. wait[q] # <<>>
        BY <1>w, <1>c
      <4> QED BY <4>1, <3>3, <3>4, <1>w, <1>c DEF NoIdleUnit
    <3> QED BY <3>6, <3>7, <3>8 DEF WaitInv
  <2>2. CASE mutex_lock(t)
    BY <2>2, <1>c, <1>h DEF mutex_lock
  <2>3. CASE finish(t)
    <3> DEFINE q == Gives(t)
    <3>1. up(t, q) /\ pc[t] = "up"
      BY <2>3 DEF finish
    <3>2. CASE wait[q] = <<>> /\ sem' = [sem EXCEPT ![q] = @ + 1] /\ Goto(t, "idle")
               /\ wait' = wait
      <4>1. ListedSleep' /\ ListedOnce'
        BY <3>1, <3>2, <1>c, <1>g
      <4>2. NoIdleUnit'
        BY <3>2, <1>t, <1>w DEF NoIdleUnit
      <4> QED BY <4>1, <4>2 DEF WaitInv
    <3>3. CASE wait[q] # <<>> /\ wait' = [wait EXCEPT ![q] = Tail(@)] /\ sem' = sem
               /\ pc' = [pc EXCEPT ![t] = "idle", ![Head(wait[q])] = "lock"]
      <4>1. /\ Len(wait'[q]) = Len(wait[q]) - 1
            /\ \A i \in 1..Len(wait[q]) - 1 : wait'[q][i] = wait[q][i + 1]
            /\ Head(wait[q]) = wait[q][1] /\ 1 \in 1..Len(wait[q])
        BY <3>3, <1>t, <1>w, <1>c, HeadTailProperties, EmptySeq
      <4>2. \A s \in Semaphores : s # q => wait'[s] = wait[s]
        BY <3>3, <1>t
      <4>3. Takes(wait[q][1]) = q
        BY <4>1, <1>w, <1>c DEF ListedSleep
      <4>4. ASSUME NEW s \in Semaphores, NEW i \in 1..Len(wait[s]), ~(s = q /\ i = 1)
            PROVE  pc'[wait[s][i]] = "asleep" /\ Takes(wait[s][i]) = s
        <5>1. pc[wait[s][i]] = "asleep" /\ Takes(wait[s][i]) = s
          BY <1>w DEF ListedSleep
        <5>2. wait[s][i] \in Threads
          BY <1>w, <1>c, ElementOfSeq
        <5>3. wait[s][i] # wait[q][1]
          <6>1. CASE s # q
            BY <4>3, <5>1, <6>1
          <6>2. CASE s = q /\ i # 1
            BY <6>2, <4>1, <1>w, <1>c DEF ListedOnce
          <6> QED BY <4>4, <6>1, <6>2
        <5> QED BY <3>1, <3>3, <4>1, <5>1, <5>2, <5>3, <1>t
      <4>5. ListedSleep'
        <5> SUFFICES ASSUME NEW s \in Semaphores, NEW i \in 1..Len(wait'[s])
                     PROVE  pc'[wait'[s][i]] = "asleep" /\ Takes(wait'[s][i]) = s
          BY DEF ListedSleep
        <5>1. CASE s # q
          BY <5>1, <4>2, <4>4
        <5>2. CASE s = q
          <6>1. i \in 1..Len(wait[q]) - 1 /\ i + 1 \in 1..Len(wait[q]) /\ i + 1 # 1
            BY <5>2, <4>1, <1>w, <1>c
          <6> QED BY <5>2, <6>1, <4>1, <4>4
        <5> QED BY <5>1, <5>2
      <4>6. ListedOnce'
        <5> SUFFICES ASSUME NEW s \in Semaphores, NEW i \in 1..Len(wait'[s]),
                            NEW j \in 1..Len(wait'[s]), wait'[s][i] = wait'[s][j]
                     PROVE  i = j
          BY DEF ListedOnce
        <5>1. CASE s # q
          BY <5>1, <4>2, <1>w DEF ListedOnce
        <5>2. CASE s = q
          <6>1. /\ i \in 1..Len(wait[q]) - 1 /\ i + 1 \in 1..Len(wait[q])
                /\ j \in 1..Len(wait[q]) - 1 /\ j + 1 \in 1..Len(wait[q])
            BY <5>2, <4>1, <1>w, <1>c
          <6>2. wait[q][i + 1] = wait[q][j + 1]
            BY <5>2, <6>1, <4>1
          <6>3. i + 1 = j + 1
            BY <6>1, <6>2, <1>w, <1>c DEF ListedOnce
          <6> QED BY <6>1, <6>3
        <5> QED BY <5>1, <5>2
      <4>7. NoIdleUnit'
        BY <3>3, <4>2, <1>w DEF NoIdleUnit
      <4> QED BY <4>5, <4>6, <4>7 DEF WaitInv
    <3> QED BY <3>1, <3>2, <3>3 DEF up
  <2> QED BY <1>6, <2>1, <2>2, <2>3 DEF call_step
<1>7. ASSUME NEW f \in Flushers, flush_step(f) PROVE WaitInv'
  <2>1. CASE fifo_flush_lock(f)
    BY <2>1, <1>c, <1>h DEF fifo_flush_lock
  <2>2. CASE fifo_flush_reset(f)
    BY <2>2, <1>c, <1>h DEF fifo_flush_reset
  <2>3. ASSUME NEW q \in Semaphores, NEW n, sema_init(q, n), NEW stage,
               Goto(f, stage), pc[f] # "asleep"
        PROVE  WaitInv'
    <3>1. wait'[q] = <<>> /\ \A s \in Semaphores : s # q => wait'[s] = wait[s] /\ sem'[s] = sem[s]
      BY <2>3, <1>t DEF sema_init
    <3>2. ASSUME NEW s \in Semaphores, NEW k \in 1..Len(wait'[s])
          PROVE  pc'[wait'[s][k]] = "asleep" /\ Takes(wait'[s][k]) = s
      <4>1. s # q
        BY <3>1, EmptySeq
      <4>2. pc[wait[s][k]] = "asleep" /\ Takes(wait[s][k]) = s
        BY <4>1, <3>1, <1>w DEF ListedSleep
      <4>3. wait[s][k] \in Threads
        BY <4>1, <3>1, <1>w, <1>c, ElementOfSeq
      <4> QED BY <2>3, <3>1, <4>1, <4>2, <4>3, <1>t DEF Goto
    <3>3. ListedOnce'
      BY <3>1, <1>w, EmptySeq DEF ListedOnce
    <3>4. NoIdleUnit'
      BY <3>1, <1>w DEF NoIdleUnit
    <3> QED BY <3>2, <3>3, <3>4 DEF WaitInv, ListedSleep
  <2>4. CASE fifo_flush_init_free(f)
    BY <2>3, <2>4, <1>c DEF fifo_flush_init_free
  <2>5. CASE fifo_flush_init_used(f)
    BY <2>3, <2>5, <1>c DEF fifo_flush_init_used
  <2> QED BY <1>7, <2>1, <2>2, <2>4, <2>5 DEF flush_step
<1>8. CASE UNCHANGED vars
  BY <1>8 DEF WaitInv, ListedSleep, ListedOnce, NoIdleUnit, vars
<1> QED BY <1>1, <1>2, <1>3, <1>4, <1>5, <1>6, <1>7, <1>8 DEF Next

LEMMA WaitInit == fifo_init => WaitInv
BY EmptySeq DEF fifo_init, WaitInv, ListedSleep, ListedOnce, NoIdleUnit

(***************************************************************************)
(* The slots.  Each call moves its slot between the value of a semaphore,  *)
(* its own hands and count; the two sums below never change in a call.     *)
(***************************************************************************)
FreeBalance == sem["slots_free"] + Cardinality(Holding(Writers))
                 + Cardinality(Giving(Readers)) + count
UsedBalance == sem["slots_used"] + Cardinality(Holding(Readers))
                 + Cardinality(Giving(Writers)) - count

LEMMA CardFacts ==
  ASSUME NEW T, IsFiniteSet(T)
  PROVE  /\ IsFiniteSet(Holding(T)) /\ Cardinality(Holding(T)) \in Nat
         /\ IsFiniteSet(Giving(T)) /\ Cardinality(Giving(T)) \in Nat
BY FS_Subset, FS_CardinalityType DEF Holding, Giving

\* One element more, one element fewer.
LEMMA CardMove ==
  ASSUME NEW A, NEW B, IsFiniteSet(A), IsFiniteSet(B), NEW x
  PROVE  /\ x \notin A /\ B = A \cup {x} => Cardinality(B) = Cardinality(A) + 1
         /\ x \in A /\ B = A \ {x} => Cardinality(B) = Cardinality(A) - 1
BY FS_AddElement, FS_RemoveElement

LEMMA BalanceStep ==
  TypeOK /\ WaitInv /\ CallerStep =>
    FreeBalance' = FreeBalance /\ UsedBalance' = UsedBalance
<1> SUFFICES ASSUME TypeOK, WaitInv, CallerStep
             PROVE  FreeBalance' = FreeBalance /\ UsedBalance' = UsedBalance
  OBVIOUS
<1>t. /\ sem \in [Semaphores -> Nat] /\ count \in Int
      /\ wait \in [Semaphores -> Seq(Callers)]
      /\ pc \in [Threads -> Stages]
      /\ sem["slots_free"] \in Nat /\ sem["slots_used"] \in Nat
  BY DEF TypeOK, Semaphores
<1>c. /\ \A w \in Writers : w \in Threads /\ w \notin Readers
      /\ \A r \in Readers : r \in Threads /\ r \notin Writers
      /\ "slots_free" \in Semaphores /\ "slots_used" \in Semaphores
      /\ "slots_free" # "slots_used"
      /\ Callers = Writers \cup Readers
  BY FifoAssumption DEF Callers, Threads, Semaphores
<1>f. /\ IsFiniteSet(Holding(Writers)) /\ Cardinality(Holding(Writers)) \in Nat
      /\ IsFiniteSet(Giving(Writers)) /\ Cardinality(Giving(Writers)) \in Nat
      /\ IsFiniteSet(Holding(Readers)) /\ Cardinality(Holding(Readers)) \in Nat
      /\ IsFiniteSet(Giving(Readers)) /\ Cardinality(Giving(Readers)) \in Nat
      /\ IsFiniteSet(Holding(Writers)') /\ IsFiniteSet(Giving(Writers)')
      /\ IsFiniteSet(Holding(Readers)') /\ IsFiniteSet(Giving(Readers)')
  BY FifoAssumption, CardFacts, FS_Subset DEF Holding, Giving
\* The arithmetic, on the eight quantities alone.
<1>b. ASSUME /\ sem'["slots_free"] + Cardinality(Holding(Writers)')
                  + Cardinality(Giving(Readers)') + count'
                  = sem["slots_free"] + Cardinality(Holding(Writers))
                      + Cardinality(Giving(Readers)) + count
             /\ sem'["slots_used"] + Cardinality(Holding(Readers)')
                  + Cardinality(Giving(Writers)') - count'
                  = sem["slots_used"] + Cardinality(Holding(Readers))
                      + Cardinality(Giving(Writers)) - count
      PROVE  FreeBalance' = FreeBalance /\ UsedBalance' = UsedBalance
  BY <1>b DEF FreeBalance, UsedBalance
<1>n. /\ Cardinality(Holding(Writers)) \in Nat /\ Cardinality(Giving(Writers)) \in Nat
      /\ Cardinality(Holding(Readers)) \in Nat /\ Cardinality(Giving(Readers)) \in Nat
      /\ sem["slots_free"] \in Nat /\ sem["slots_used"] \in Nat /\ count \in Int
  BY <1>t, <1>f
<1> DEFINE Held == {"lock", "copy", "advance"}
\* A step that takes no slot and gives none.
<1>s. ASSUME NEW t \in Threads, NEW stage \in {"idle", "asleep"}, Goto(t, stage),
             pc[t] \in {"idle", "asleep"}, sem' = sem, count' = count
      PROVE  FreeBalance' = FreeBalance /\ UsedBalance' = UsedBalance
  <2>1. /\ Holding(Writers)' = Holding(Writers) /\ Giving(Writers)' = Giving(Writers)
        /\ Holding(Readers)' = Holding(Readers) /\ Giving(Readers)' = Giving(Readers)
    BY <1>s, <1>t, <1>c DEF Goto, Holding, Giving
  <2> QED BY <1>s, <2>1 DEF FreeBalance, UsedBalance
<1>h. ASSUME NEW t \in Threads, NEW stage \in Held, Goto(t, stage), pc[t] \in Held,
             sem' = sem, count' = count
      PROVE  FreeBalance' = FreeBalance /\ UsedBalance' = UsedBalance
  <2>1. /\ Holding(Writers)' = Holding(Writers) /\ Giving(Writers)' = Giving(Writers)
        /\ Holding(Readers)' = Holding(Readers) /\ Giving(Readers)' = Giving(Readers)
    BY <1>h, <1>t, <1>c DEF Goto, Holding, Giving
  <2> QED BY <1>h, <2>1 DEF FreeBalance, UsedBalance
<1>d. ASSUME NEW w \in Writers, pc[w] = "idle", Goto(w, "lock"), count' = count,
             sem["slots_free"] > 0, sem' = [sem EXCEPT !["slots_free"] = @ - 1]
      PROVE  FreeBalance' = FreeBalance /\ UsedBalance' = UsedBalance
  <2>1. /\ Holding(Writers)' = Holding(Writers) \cup {w} /\ w \notin Holding(Writers)
        /\ Giving(Writers)' = Giving(Writers)
        /\ Holding(Readers)' = Holding(Readers) /\ Giving(Readers)' = Giving(Readers)
    BY <1>d, <1>t, <1>c DEF Goto, Holding, Giving
  <2>2. /\ Cardinality(Holding(Writers)') = Cardinality(Holding(Writers)) + 1
        /\ Cardinality(Giving(Writers)') = Cardinality(Giving(Writers))
        /\ Cardinality(Holding(Readers)') = Cardinality(Holding(Readers))
        /\ Cardinality(Giving(Readers)') = Cardinality(Giving(Readers))
    BY <2>1, <1>f, CardMove
  <2>3. /\ sem'["slots_free"] = sem["slots_free"] - 1
        /\ sem'["slots_used"] = sem["slots_used"]
    BY <1>d, <1>t, <1>c
  <2>4. count' = count
    BY <1>d
  <2> QED BY <2>2, <2>3, <2>4, <1>n, <1>b
<1> HIDE DEF Held
<1>1. ASSUME NEW w \in Writers, NEW m \in Msg, fifo_write_down(w, m)
      PROVE  FreeBalance' = FreeBalance /\ UsedBalance' = UsedBalance
  BY <1>1, <1>c, <1>d, <1>s DEF fifo_write_down, down, ring
<1>2. ASSUME NEW w \in Writers, NEW m \in Msg, in_write_trylock(w, m)
      PROVE  FreeBalance' = FreeBalance /\ UsedBalance' = UsedBalance
  BY <1>2, <1>d DEF in_write_trylock, ring
<1>3. ASSUME NEW w \in Writers, write_step(w)
      PROVE  FreeBalance' = FreeBalance /\ UsedBalance' = UsedBalance
  <2>1. CASE fifo_write_copy(w)
    <3>1. pc[w] \in Held /\ "advance" \in Held /\ Goto(w, "advance")
      BY <2>1 DEF fifo_write_copy, Held
    <3> QED BY <2>1, <3>1, <1>c, <1>h DEF fifo_write_copy
  <2>2. CASE fifo_write_advance(w)
    <3>1. /\ Holding(Writers)' = Holding(Writers) \ {w} /\ w \in Holding(Writers)
          /\ Giving(Writers)' = Giving(Writers) \cup {w} /\ w \notin Giving(Writers)
          /\ Holding(Readers)' = Holding(Readers) /\ Giving(Readers)' = Giving(Readers)
      BY <2>2, <1>t, <1>c DEF fifo_write_advance, Goto, Holding, Giving
    <3>2. /\ Cardinality(Holding(Writers)') = Cardinality(Holding(Writers)) - 1
          /\ Cardinality(Giving(Writers)') = Cardinality(Giving(Writers)) + 1
          /\ Cardinality(Holding(Readers)') = Cardinality(Holding(Readers))
          /\ Cardinality(Giving(Readers)') = Cardinality(Giving(Readers))
      BY <3>1, <1>f, CardMove
    <3>3. /\ sem'["slots_free"] = sem["slots_free"]
          /\ sem'["slots_used"] = sem["slots_used"] /\ count' = count + 1
      BY <2>2 DEF fifo_write_advance
    <3> QED BY <3>2, <3>3, <1>n, <1>b
  <2> QED BY <1>3, <2>1, <2>2 DEF write_step
<1>4. ASSUME NEW r \in Readers, fifo_read_down(r)
      PROVE  FreeBalance' = FreeBalance /\ UsedBalance' = UsedBalance
  <2>1. CASE Goto(r, "asleep") /\ sem' = sem
    BY <1>4, <2>1, <1>c, <1>s DEF fifo_read_down, ring
  <2>2. CASE sem["slots_used"] > 0 /\ sem' = [sem EXCEPT !["slots_used"] = @ - 1]
             /\ Goto(r, "lock")
    <3>1. /\ Holding(Readers)' = Holding(Readers) \cup {r} /\ r \notin Holding(Readers)
          /\ Giving(Readers)' = Giving(Readers)
          /\ Holding(Writers)' = Holding(Writers) /\ Giving(Writers)' = Giving(Writers)
      BY <1>4, <2>2, <1>t, <1>c DEF fifo_read_down, Goto, Holding, Giving
    <3>2. /\ Cardinality(Holding(Readers)') = Cardinality(Holding(Readers)) + 1
          /\ Cardinality(Giving(Readers)') = Cardinality(Giving(Readers))
          /\ Cardinality(Holding(Writers)') = Cardinality(Holding(Writers))
          /\ Cardinality(Giving(Writers)') = Cardinality(Giving(Writers))
      BY <3>1, <1>f, CardMove
    <3>3. /\ sem'["slots_used"] = sem["slots_used"] - 1
          /\ sem'["slots_free"] = sem["slots_free"] /\ count' = count
      BY <1>4, <2>2, <1>t, <1>c DEF fifo_read_down, ring
    <3> QED BY <3>2, <3>3, <1>n, <1>b
  <2> QED BY <1>4, <2>1, <2>2 DEF fifo_read_down, down
<1>5. ASSUME NEW r \in Readers, read_step(r)
      PROVE  FreeBalance' = FreeBalance /\ UsedBalance' = UsedBalance
  <2>1. CASE fifo_read_copy(r)
    <3>1. pc[r] \in Held /\ "advance" \in Held /\ Goto(r, "advance")
      BY <2>1 DEF fifo_read_copy, Held
    <3> QED BY <2>1, <3>1, <1>c, <1>h DEF fifo_read_copy, ring
  <2>2. CASE fifo_read_advance(r)
    <3>1. /\ Holding(Readers)' = Holding(Readers) \ {r} /\ r \in Holding(Readers)
          /\ Giving(Readers)' = Giving(Readers) \cup {r} /\ r \notin Giving(Readers)
          /\ Holding(Writers)' = Holding(Writers) /\ Giving(Writers)' = Giving(Writers)
      BY <2>2, <1>t, <1>c DEF fifo_read_advance, Goto, Holding, Giving
    <3>2. /\ Cardinality(Holding(Readers)') = Cardinality(Holding(Readers)) - 1
          /\ Cardinality(Giving(Readers)') = Cardinality(Giving(Readers)) + 1
          /\ Cardinality(Holding(Writers)') = Cardinality(Holding(Writers))
          /\ Cardinality(Giving(Writers)') = Cardinality(Giving(Writers))
      BY <3>1, <1>f, CardMove
    <3>3. /\ sem'["slots_free"] = sem["slots_free"]
          /\ sem'["slots_used"] = sem["slots_used"] /\ count' = count - 1
      BY <2>2 DEF fifo_read_advance
    <3> QED BY <3>2, <3>3, <1>n, <1>b
  <2> QED BY <1>5, <2>1, <2>2 DEF read_step
<1>6. ASSUME NEW t \in Callers, call_step(t)
      PROVE  FreeBalance' = FreeBalance /\ UsedBalance' = UsedBalance
  <2>c. t \in Threads
    BY <1>c
  <2>1. CASE signal(t)
    BY <2>1, <2>c, <1>s DEF signal, ring
  <2>2. CASE mutex_lock(t)
    <3>1. pc[t] \in Held /\ "copy" \in Held /\ Goto(t, "copy")
      BY <2>2 DEF mutex_lock, Held
    <3> QED BY <2>2, <3>1, <2>c, <1>h DEF mutex_lock, ring
  <2>3. CASE finish(t) /\ wait[Gives(t)] = <<>>
    <3>1. /\ pc[t] = "up" /\ Goto(t, "idle") /\ count' = count
          /\ sem' = [sem EXCEPT ![Gives(t)] = @ + 1]
      BY <2>3 DEF finish, up, ring
    <3>2. /\ Holding(Writers)' = Holding(Writers)
          /\ Holding(Readers)' = Holding(Readers)
      BY <3>1, <1>t, <1>c DEF Goto, Holding
    <3>3. CASE t \in Writers
      <4>1. /\ Giving(Writers)' = Giving(Writers) \ {t} /\ t \in Giving(Writers)
            /\ Giving(Readers)' = Giving(Readers)
        BY <3>1, <3>3, <1>t, <1>c DEF Goto, Giving
      <4>2. /\ Cardinality(Giving(Writers)') = Cardinality(Giving(Writers)) - 1
            /\ Cardinality(Giving(Readers)') = Cardinality(Giving(Readers))
            /\ Cardinality(Holding(Writers)') = Cardinality(Holding(Writers))
            /\ Cardinality(Holding(Readers)') = Cardinality(Holding(Readers))
        BY <3>2, <4>1, <1>f, CardMove
      <4>3. /\ sem'["slots_used"] = sem["slots_used"] + 1
            /\ sem'["slots_free"] = sem["slots_free"] /\ count' = count
        BY <3>1, <3>3, <1>t, <1>c DEF Gives
      <4> QED BY <4>2, <4>3, <1>n, <1>b
    <3>4. CASE t \in Readers
      <4>1. /\ Giving(Readers)' = Giving(Readers) \ {t} /\ t \in Giving(Readers)
            /\ Giving(Writers)' = Giving(Writers)
        BY <3>1, <3>4, <1>t, <1>c DEF Goto, Giving
      <4>2. /\ Cardinality(Giving(Readers)') = Cardinality(Giving(Readers)) - 1
            /\ Cardinality(Giving(Writers)') = Cardinality(Giving(Writers))
            /\ Cardinality(Holding(Writers)') = Cardinality(Holding(Writers))
            /\ Cardinality(Holding(Readers)') = Cardinality(Holding(Readers))
        BY <3>2, <4>1, <1>f, CardMove
      <4>3. /\ sem'["slots_free"] = sem["slots_free"] + 1
            /\ sem'["slots_used"] = sem["slots_used"] /\ count' = count
        BY <3>1, <3>4, <1>t, <1>c DEF Gives
      <4> QED BY <4>2, <4>3, <1>n, <1>b
    <3> QED BY <3>3, <3>4, <1>c
  <2>4. CASE finish(t) /\ wait[Gives(t)] # <<>>
    <3> DEFINE h == Head(wait[Gives(t)])
    <3>1. /\ pc[t] = "up" /\ pc' = [pc EXCEPT ![t] = "idle", ![h] = "lock"]
          /\ count' = count /\ sem' = sem
      BY <2>4 DEF finish, up, ring
    <3>g. Gives(t) \in Semaphores
      BY DEF Gives, Semaphores
    <3>2. wait[Gives(t)] \in Seq(Callers) /\ h = wait[Gives(t)][1]
          /\ 1 \in 1..Len(wait[Gives(t)])
      BY <2>4, <3>g, <1>t, HeadTailProperties, EmptySeq, LenProperties
    <3>3. h \in Callers /\ h \in Threads /\ pc[h] = "asleep" /\ Takes(h) = Gives(t)
      BY <3>2, <3>g, <1>c, ElementOfSeq DEF WaitInv, ListedSleep
    <3> HIDE DEF h
    <3>4. CASE t \in Writers
      <4>1. h \in Readers
        BY <3>3, <3>4, <1>c DEF Takes, Gives
      <4>2. /\ Giving(Writers)' = Giving(Writers) \ {t} /\ t \in Giving(Writers)
            /\ Holding(Readers)' = Holding(Readers) \cup {h} /\ h \notin Holding(Readers)
            /\ Giving(Readers)' = Giving(Readers)
            /\ Holding(Writers)' = Holding(Writers)
        BY <3>1, <3>3, <3>4, <4>1, <1>t, <1>c DEF Holding, Giving
      <4>3. /\ Cardinality(Giving(Writers)') = Cardinality(Giving(Writers)) - 1
            /\ Cardinality(Holding(Readers)') = Cardinality(Holding(Readers)) + 1
            /\ Cardinality(Giving(Readers)') = Cardinality(Giving(Readers))
            /\ Cardinality(Holding(Writers)') = Cardinality(Holding(Writers))
        BY <4>2, <1>f, CardMove
      <4>4. /\ sem'["slots_free"] = sem["slots_free"]
            /\ sem'["slots_used"] = sem["slots_used"] /\ count' = count
        BY <3>1
      <4> QED BY <4>3, <4>4, <1>n, <1>b
    <3>5. CASE t \in Readers
      <4>1. h \in Writers
        BY <3>3, <3>5, <1>c DEF Takes, Gives
      <4>2. /\ Giving(Readers)' = Giving(Readers) \ {t} /\ t \in Giving(Readers)
            /\ Holding(Writers)' = Holding(Writers) \cup {h} /\ h \notin Holding(Writers)
            /\ Giving(Writers)' = Giving(Writers)
            /\ Holding(Readers)' = Holding(Readers)
        BY <3>1, <3>3, <3>5, <4>1, <1>t, <1>c DEF Holding, Giving
      <4>3. /\ Cardinality(Giving(Readers)') = Cardinality(Giving(Readers)) - 1
            /\ Cardinality(Holding(Writers)') = Cardinality(Holding(Writers)) + 1
            /\ Cardinality(Giving(Writers)') = Cardinality(Giving(Writers))
            /\ Cardinality(Holding(Readers)') = Cardinality(Holding(Readers))
        BY <4>2, <1>f, CardMove
      <4>4. /\ sem'["slots_free"] = sem["slots_free"]
            /\ sem'["slots_used"] = sem["slots_used"] /\ count' = count
        BY <3>1
      <4> QED BY <4>3, <4>4, <1>n, <1>b
    <3> QED BY <3>4, <3>5, <1>c
  <2> QED BY <1>6, <2>1, <2>2, <2>3, <2>4 DEF call_step
<1> QED BY <1>1, <1>2, <1>3, <1>4, <1>5, <1>6 DEF CallerStep

LEMMA BalanceTypes ==
  ASSUME TypeOK
  PROVE  /\ sem["slots_free"] \in Nat /\ sem["slots_used"] \in Nat /\ count \in Int
         /\ Cardinality(Holding(Writers)) \in Nat /\ Cardinality(Giving(Writers)) \in Nat
         /\ Cardinality(Holding(Readers)) \in Nat /\ Cardinality(Giving(Readers)) \in Nat
BY FifoAssumption, CardFacts DEF TypeOK, Semaphores

LEMMA BalanceStutter ==
  ASSUME UNCHANGED vars
  PROVE  FreeBalance' = FreeBalance /\ UsedBalance' = UsedBalance
BY DEF vars, FreeBalance, UsedBalance, Holding, Giving

LEMMA BalanceInit == fifo_init => FreeBalance = FIFO_SIZE /\ UsedBalance = 0
<1> SUFFICES ASSUME fifo_init PROVE FreeBalance = FIFO_SIZE /\ UsedBalance = 0
  OBVIOUS
<1>1. /\ Holding(Writers) = {} /\ Giving(Writers) = {}
      /\ Holding(Readers) = {} /\ Giving(Readers) = {}
  BY DEF fifo_init, Holding, Giving, Callers, Threads
<1>2. Cardinality({}) = 0
  BY FS_EmptySet
<1>3. /\ sem["slots_free"] = FIFO_SIZE /\ sem["slots_used"] = 0 /\ count = 0
  BY DEF fifo_init, Semaphores
<1> QED BY <1>1, <1>2, <1>3, FifoAssumption DEF FreeBalance, UsedBalance

(***************************************************************************)
(* Without a flush                                                         *)
(***************************************************************************)
\* The semaphores count what they are said to count, for every capacity and
\* every number of concurrent writers and readers, as long as nobody flushes.
THEOREM SlotsAreAccountedFor ==
  ASSUME Flushers = {}
  PROVE  Spec => []SlotAccounting
<1> DEFINE Balanced == FreeBalance = FIFO_SIZE /\ UsedBalance = 0
<1>1. TypeOK /\ WaitInv /\ Balanced /\ [Next]_vars => Balanced'
  <2> SUFFICES ASSUME TypeOK, WaitInv, Balanced, [Next]_vars PROVE Balanced'
    OBVIOUS
  <2>1. CASE Next
    <3>1. CallerStep
      BY <2>1 DEF Next, CallerStep
    <3> QED BY <3>1, BalanceStep
  <2>2. CASE UNCHANGED vars
    BY <2>2, BalanceStutter
  <2> QED BY <2>1, <2>2
<1>2. TypeOK /\ Balanced => SlotAccounting
  <2> SUFFICES ASSUME TypeOK, Balanced PROVE SlotAccounting
    OBVIOUS
  <2>1. /\ sem["slots_free"] \in Nat /\ sem["slots_used"] \in Nat /\ count \in Int
        /\ Cardinality(Holding(Writers)) \in Nat /\ Cardinality(Giving(Writers)) \in Nat
        /\ Cardinality(Holding(Readers)) \in Nat /\ Cardinality(Giving(Readers)) \in Nat
    BY BalanceTypes
  <2> QED BY <2>1 DEF FreeBalance, UsedBalance, SlotAccounting
<1>3. fifo_init => Balanced
  BY BalanceInit
<1> HIDE DEF Balanced
<1> QED BY <1>1, <1>2, <1>3, TypeInit, TypeStep, WaitInit, WaitStep, PTL DEF Spec

CountInRange == count \in 0..FIFO_SIZE

\* count, the value that /proc and the ioctl report, stays a number of slots.
THEOREM CountIsInRange ==
  ASSUME Flushers = {}
  PROVE  Spec => []CountInRange
<1>1. TypeOK /\ SlotAccounting => CountInRange
  BY BalanceTypes, FifoAssumption DEF SlotAccounting, CountInRange
<1> QED BY <1>1, TypeCorrect, SlotsAreAccountedFor, PTL

\* A sleeper stays on its list until up or a signal takes it off.
SleepersListed == \A t \in Callers : pc[t] = "asleep" => t \in Range(wait[Takes(t)])

\* fifo_write's and fifo_read's up never miss a sleeper, and nobody sleeps while
\* a unit is there: no wake-up is lost, as long as nobody flushes.
THEOREM WakeupsAreNotLost ==
  ASSUME Flushers = {}
  PROVE  Spec => []NoLostWakeup
<1>1. TypeOK /\ WaitInv /\ SleepersListed /\ [Next]_vars => SleepersListed'
  <2> SUFFICES ASSUME TypeOK, WaitInv, SleepersListed, [Next]_vars
               PROVE  SleepersListed'
    OBVIOUS
  <2> SUFFICES ASSUME NEW u \in Callers, pc'[u] = "asleep"
               PROVE  \E k \in 1..Len(wait'[Takes(u)]) : wait'[Takes(u)][k] = u
    <3>1. TypeOK'
      BY TypeStep
    <3>2. \A t : wait'[Takes(t)] \in Seq(Callers)
      BY <3>1 DEF TypeOK, Takes, Semaphores
    <3>3. \A t : Range(wait'[Takes(t)]) = {wait'[Takes(t)][k] : k \in 1..Len(wait'[Takes(t)])}
      BY <3>2, LenProperties DEF Range
    <3>4. ASSUME NEW t \in Callers,
                 \E k \in 1..Len(wait'[Takes(t)]) : wait'[Takes(t)][k] = t
          PROVE  t \in Range(wait'[Takes(t)])
      <4>1. PICK k \in 1..Len(wait'[Takes(t)]) : wait'[Takes(t)][k] = t
        BY <3>4
      <4>2. wait'[Takes(t)][k] \in Range(wait'[Takes(t)])
        BY <3>3, Zenon
      <4> QED BY <4>1, <4>2, Zenon
    <3> QED BY <3>4 DEF SleepersListed
  <2>t. /\ sem \in [Semaphores -> Nat] /\ pc \in [Threads -> Stages]
        /\ wait \in [Semaphores -> Seq(Callers)]
        /\ \A s \in Semaphores : wait[s] \in Seq(Callers) /\ Len(wait[s]) \in Nat
        /\ u \in Threads
        /\ \A t : Takes(t) \in Semaphores /\ Gives(t) \in Semaphores
        /\ \A w \in Writers : w \in Callers /\ Takes(w) = "slots_free"
        /\ \A r \in Readers : r \in Callers /\ Takes(r) = "slots_used"
        /\ \A t \in Callers : t \in Threads
    BY LenProperties, FifoAssumption
      DEF TypeOK, Callers, Threads, Takes, Gives, Semaphores
  <2>l. pc[u] = "asleep" => \E k \in 1..Len(wait[Takes(u)]) : wait[Takes(u)][k] = u
    <3>1. Range(wait[Takes(u)]) = {wait[Takes(u)][k] : k \in 1..Len(wait[Takes(u)])}
      BY <2>t, LenProperties DEF Range
    <3> QED BY <3>1 DEF SleepersListed
  \* Steps that put nobody to sleep and leave the lists alone.
  <2>g. ASSUME NEW t \in Threads, NEW stage, stage # "asleep", Goto(t, stage), wait' = wait
        PROVE  \E k \in 1..Len(wait'[Takes(u)]) : wait'[Takes(u)][k] = u
    BY <2>g, <2>l, <2>t DEF Goto
  <2>d. ASSUME NEW t \in Callers, down(t, Takes(t))
        PROVE  \E k \in 1..Len(wait'[Takes(u)]) : wait'[Takes(u)][k] = u
    <3>1. CASE Goto(t, "lock") /\ wait' = wait
      BY <3>1, <2>g, <2>t
    <3>2. CASE Goto(t, "asleep") /\ wait' = [wait EXCEPT ![Takes(t)] = Append(@, t)]
      <4> DEFINE q == Takes(t)
      <4>1. /\ Len(wait'[q]) = Len(wait[q]) + 1
            /\ \A k \in 1..Len(wait[q]) : wait'[q][k] = wait[q][k]
            /\ wait'[q][Len(wait[q]) + 1] = t
        BY <3>2, <2>t, AppendProperties
      <4>2. CASE u = t
        BY <4>1, <4>2, <2>t
      <4>3. CASE u # t
        <5>1. pc[u] = "asleep"
          BY <3>2, <4>3, <2>t DEF Goto
        <5>2. PICK k \in 1..Len(wait[Takes(u)]) : wait[Takes(u)][k] = u
          BY <5>1, <2>l
        <5>3. CASE Takes(u) = q
          <6>1. k \in 1..Len(wait'[q]) /\ wait'[q][k] = u
            BY <4>1, <5>2, <5>3, <2>t
          <6> QED BY <6>1, <5>3
        <5>4. CASE Takes(u) # q
          BY <3>2, <5>2, <5>4, <2>t
        <5> QED BY <5>3, <5>4
      <4> QED BY <4>2, <4>3
    <3> QED BY <2>d, <3>1, <3>2 DEF down
  <2>1. ASSUME NEW w \in Writers, NEW m \in Msg, fifo_write_down(w, m)
        PROVE  \E k \in 1..Len(wait'[Takes(u)]) : wait'[Takes(u)][k] = u
    BY <2>1, <2>d, <2>t DEF fifo_write_down
  <2>2. ASSUME NEW w \in Writers, NEW m \in Msg, in_write_trylock(w, m)
        PROVE  \E k \in 1..Len(wait'[Takes(u)]) : wait'[Takes(u)][k] = u
    BY <2>2, <2>g, <2>t DEF in_write_trylock
  <2>3. ASSUME NEW w \in Writers, write_step(w)
        PROVE  \E k \in 1..Len(wait'[Takes(u)]) : wait'[Takes(u)][k] = u
    BY <2>3, <2>g, <2>t DEF write_step, fifo_write_copy, fifo_write_advance
  <2>4. ASSUME NEW r \in Readers, fifo_read_down(r)
        PROVE  \E k \in 1..Len(wait'[Takes(u)]) : wait'[Takes(u)][k] = u
    BY <2>4, <2>d, <2>t DEF fifo_read_down
  <2>5. ASSUME NEW r \in Readers, read_step(r)
        PROVE  \E k \in 1..Len(wait'[Takes(u)]) : wait'[Takes(u)][k] = u
    BY <2>5, <2>g, <2>t DEF read_step, fifo_read_copy, fifo_read_advance
  <2>6. ASSUME NEW t \in Callers, call_step(t)
        PROVE  \E k \in 1..Len(wait'[Takes(u)]) : wait'[Takes(u)][k] = u
    <3>1. CASE signal(t)
      <4> DEFINE q == Takes(t)
      <4>1. PICK k \in 1..Len(wait[q]) :
              wait[q][k] = t /\ wait' = [wait EXCEPT ![q] = RemoveAt(@, k)]
        BY <3>1 DEF signal
      <4>2. /\ Len(wait'[q]) = Len(wait[q]) - 1
            /\ \A i \in 1..Len(wait[q]) - 1 :
                 wait'[q][i] = IF i < k THEN wait[q][i] ELSE wait[q][i + 1]
        <5>1. q \in Semaphores /\ wait[q] \in Seq(Callers)
          BY <2>t
        <5>2. wait'[q] = RemoveAt(wait[q], k)
          BY <4>1, <5>1, <2>t
        <5> HIDE DEF q
        <5> QED BY <5>1, <5>2, RemoveAtFacts
      <4>3. u # t /\ pc[u] = "asleep"
        BY <3>1, <2>t DEF signal, Goto
      <4>4. PICK j \in 1..Len(wait[Takes(u)]) : wait[Takes(u)][j] = u
        BY <4>3, <2>l
      <4>5. CASE Takes(u) # q
        BY <4>1, <4>4, <4>5, <2>t
      <4>6. CASE Takes(u) = q /\ j < k
        <5>1. j \in 1..Len(wait'[q]) /\ j \in 1..Len(wait[q]) - 1
          BY <4>2, <4>4, <4>6, <2>t
        <5>2. wait'[q][j] = u
          BY <4>2, <4>4, <4>6, <5>1
        <5> QED BY <5>1, <5>2, <4>6
      <4>7. CASE Takes(u) = q /\ ~(j < k)
        <5>1. j # k
          BY <4>1, <4>3, <4>4, <4>7
        <5>2. /\ j - 1 \in 1..Len(wait'[q]) /\ j - 1 \in 1..Len(wait[q]) - 1
              /\ ~(j - 1 < k) /\ (j - 1) + 1 = j
          BY <4>2, <4>4, <4>7, <5>1, <2>t
        <5>3. wait'[q][j - 1] = u
          BY <4>2, <4>4, <4>7, <5>2
        <5> QED BY <5>2, <5>3, <4>7
      <4> QED BY <4>5, <4>6, <4>7
    <3>2. CASE mutex_lock(t)
      BY <3>2, <2>g, <2>t DEF mutex_lock
    <3>3. CASE finish(t)
      <4> DEFINE q == Gives(t)
      <4>1. up(t, q)
        BY <3>3 DEF finish
      <4>2. CASE Goto(t, "idle") /\ wait' = wait
        BY <4>2, <2>g, <2>t
      <4>3. CASE wait[q] # <<>> /\ wait' = [wait EXCEPT ![q] = Tail(@)]
                 /\ pc' = [pc EXCEPT ![t] = "idle", ![Head(wait[q])] = "lock"]
        <5>1. /\ Len(wait'[q]) = Len(wait[q]) - 1
              /\ \A i \in 1..Len(wait[q]) - 1 : wait'[q][i] = wait[q][i + 1]
              /\ Head(wait[q]) = wait[q][1] /\ Head(wait[q]) \in Threads
          BY <4>3, <2>t, HeadTailProperties
        <5>2. u # Head(wait[q]) /\ pc[u] = "asleep"
          BY <4>3, <5>1, <2>t
        <5>3. PICK j \in 1..Len(wait[Takes(u)]) : wait[Takes(u)][j] = u
          BY <5>2, <2>l
        <5>4. CASE Takes(u) # q
          BY <4>3, <5>3, <5>4, <2>t
        <5>5. CASE Takes(u) = q
          <6>1. j # 1
            BY <5>1, <5>2, <5>3, <5>5
          <6>2. /\ j - 1 \in 1..Len(wait'[q]) /\ j - 1 \in 1..Len(wait[q]) - 1
                /\ (j - 1) + 1 = j
            BY <5>1, <5>3, <5>5, <6>1, <2>t
          <6>3. wait'[q][j - 1] = u
            BY <5>1, <5>3, <5>5, <6>2
          <6> QED BY <6>2, <6>3, <5>5
        <5> QED BY <5>4, <5>5
      <4> QED BY <4>1, <4>2, <4>3 DEF up
    <3> QED BY <2>6, <3>1, <3>2, <3>3 DEF call_step
  <2>7. CASE UNCHANGED vars
    BY <2>7, <2>l DEF vars
  <2> QED BY <2>1, <2>2, <2>3, <2>4, <2>5, <2>6, <2>7 DEF Next
<1>2. fifo_init => SleepersListed
  BY DEF fifo_init, SleepersListed, Threads
<1>3. WaitInv /\ SleepersListed => NoLostWakeup
  BY DEF WaitInv, NoIdleUnit, SleepersListed, NoLostWakeup
<1> QED BY <1>1, <1>2, <1>3, TypeInit, TypeStep, WaitInit, WaitStep, PTL DEF Spec

\* fifo_write blocks only for want of a slot and fifo_read only for want of a
\* message, for every capacity and every number of callers, as long as nobody
\* flushes: once no call is at work a sleeper's unit has value 0, and then no
\* slot is in anybody's hands either.
THEOREM SleepIsNeeded ==
  ASSUME Flushers = {}
  PROVE  Spec => []SleepIsJustified
<1>1. TypeOK /\ SlotAccounting /\ NoLostWakeup => SleepIsJustified
  <2> SUFFICES ASSUME TypeOK, SlotAccounting, NoLostWakeup,
                      \A t \in Callers : pc[t] \in {"idle", "asleep"}
               PROVE  /\ (\E w \in Writers : pc[w] = "asleep") => count = FIFO_SIZE
                      /\ (\E r \in Readers : pc[r] = "asleep") => count = 0
    BY DEF SleepIsJustified
  <2>t. /\ sem \in [Semaphores -> Nat] /\ wait \in [Semaphores -> Seq(Callers)]
        /\ count \in Int /\ FIFO_SIZE \in Nat
    BY FifoAssumption DEF TypeOK
  \* Nothing is between a down and the matching up.
  <2>1. /\ Holding(Writers) = {} /\ Giving(Writers) = {}
        /\ Holding(Readers) = {} /\ Giving(Readers) = {}
    BY DEF Holding, Giving, Callers
  <2>2. sem["slots_free"] + count = FIFO_SIZE /\ sem["slots_used"] = count
    <3>1. Cardinality({}) = 0
      BY FS_EmptySet
    <3> QED BY <2>1, <2>t, <3>1 DEF SlotAccounting, Semaphores
  \* A sleeper is on its list, and then the semaphore has no unit.
  <2>3. ASSUME NEW t \in Callers, pc[t] = "asleep"
        PROVE  sem[Takes(t)] = 0
    <3>1. Takes(t) \in Semaphores
      BY DEF Takes, Semaphores
    <3>2. t \in Range(wait[Takes(t)])
      BY <2>3 DEF NoLostWakeup
    <3>3. wait[Takes(t)] # <<>>
      BY <3>2 DEF Range
    <3>4. ~(sem[Takes(t)] > 0)
      BY <3>1, <3>3 DEF NoLostWakeup
    <3> QED BY <3>1, <3>4, <2>t
  <2>4. ASSUME NEW w \in Writers, pc[w] = "asleep" PROVE count = FIFO_SIZE
    <3>1. Takes(w) = "slots_free" /\ w \in Callers
      BY DEF Takes, Callers
    <3> QED BY <2>2, <2>3, <2>4, <2>t, <3>1
  <2>5. ASSUME NEW r \in Readers, pc[r] = "asleep" PROVE count = 0
    <3>1. Takes(r) = "slots_used" /\ r \in Callers
      BY FifoAssumption DEF Takes, Callers
    <3> QED BY <2>2, <2>3, <2>5, <3>1
  <2> QED BY <2>4, <2>5
<1> QED BY <1>1, TypeCorrect, SlotsAreAccountedFor, WakeupsAreNotLost, PTL

(***************************************************************************)
(* With flushes                                                            *)
(***************************************************************************)
Resetting == {"init_free", "init_used"}

\* Between its reset and its two sema_init calls a flush has the ring empty.
\* At the end of each sema_init the sum it repairs is off by at most the slots
\* that calls under way have in their hands.
DriftInv ==
  /\ (\E f \in Flushers : pc[f] \in Resetting) => count = 0
  /\ (\A f \in Flushers : pc[f] # "init_free") =>
       FreeBalance \in FIFO_SIZE..FIFO_SIZE + Cardinality(Callers)
  /\ (\A f \in Flushers : pc[f] \notin Resetting) =>
       UsedBalance \in 0..Cardinality(Callers)

\* At most one slot in the hands of each caller.
LEMMA InHands ==
  /\ Cardinality(Holding(Writers)) + Cardinality(Giving(Readers)) <= Cardinality(Callers)
  /\ Cardinality(Holding(Readers)) + Cardinality(Giving(Writers)) <= Cardinality(Callers)
  /\ Cardinality(Callers) \in Nat
<1>1. IsFiniteSet(Callers)
  BY FifoAssumption, FS_Union DEF Callers
<1>2. ASSUME NEW A \in SUBSET Callers, NEW B \in SUBSET Callers, A \cap B = {}
      PROVE  Cardinality(A) + Cardinality(B) <= Cardinality(Callers)
  <2>1. IsFiniteSet(A) /\ IsFiniteSet(B)
    BY <1>1, FS_Subset
  <2>2. Cardinality(A \cup B) = Cardinality(A) + Cardinality(B) - Cardinality(A \cap B)
    BY <2>1, FS_Union
  <2>3. Cardinality(A \cap B) = 0
    BY <1>2, FS_EmptySet
  <2>4. A \cup B \in SUBSET Callers
    OBVIOUS
  <2>5. Cardinality(A \cup B) <= Cardinality(Callers)
    BY <1>1, <2>4, FS_Subset
  <2>6. Cardinality(A) \in Nat /\ Cardinality(B) \in Nat
    BY <2>1, FS_CardinalityType
  <2> QED BY <2>2, <2>3, <2>5, <2>6
<1>3. /\ Holding(Writers) \in SUBSET Callers /\ Giving(Readers) \in SUBSET Callers
      /\ Holding(Writers) \cap Giving(Readers) = {}
      /\ Holding(Readers) \in SUBSET Callers /\ Giving(Writers) \in SUBSET Callers
      /\ Holding(Readers) \cap Giving(Writers) = {}
  BY FifoAssumption DEF Holding, Giving, Callers
<1>4. Cardinality(Callers) \in Nat
  BY <1>1, FS_CardinalityType
<1> QED BY <1>2, <1>3, <1>4

\* A caller moves no flusher, and moves count only under the mutex.
LEMMA CallerFrame ==
  ASSUME TypeOK, WaitInv, MutualExclusion, CallerStep, NEW f \in Flushers
  PROVE  /\ pc'[f] = pc[f]
         /\ pc[f] \in Resetting => count' = count
<1>t. /\ pc \in [Threads -> Stages] /\ wait \in [Semaphores -> Seq(Callers)]
      /\ f \in Threads /\ f \notin Callers
      /\ \A w \in Writers : w \in Callers /\ w \in Threads
      /\ \A r \in Readers : r \in Callers /\ r \in Threads
      /\ \A u \in Threads : pc[u] \in Critical => lock = u
  BY FifoAssumption DEF TypeOK, Callers, Threads, MutualExclusion
<1>g. ASSUME NEW t \in Callers, NEW stage, Goto(t, stage)
      PROVE  pc'[f] = pc[f]
  BY <1>g, <1>t DEF Goto
<1>m. pc[f] \in Resetting => \A t \in Callers : t \in Threads => pc[t] # "advance"
  BY <1>t DEF Resetting, Critical
<1>1. ASSUME NEW w \in Writers, NEW m \in Msg, fifo_write_down(w, m)
      PROVE  pc'[f] = pc[f] /\ count' = count
  BY <1>1, <1>g, <1>t DEF fifo_write_down, down, ring
<1>2. ASSUME NEW w \in Writers, NEW m \in Msg, in_write_trylock(w, m)
      PROVE  pc'[f] = pc[f] /\ count' = count
  BY <1>2, <1>g, <1>t DEF in_write_trylock, ring
<1>3. ASSUME NEW w \in Writers, write_step(w)
      PROVE  pc'[f] = pc[f] /\ (pc[f] \in Resetting => count' = count)
  BY <1>3, <1>g, <1>m, <1>t DEF write_step, fifo_write_copy, fifo_write_advance
<1>4. ASSUME NEW r \in Readers, fifo_read_down(r)
      PROVE  pc'[f] = pc[f] /\ count' = count
  BY <1>4, <1>g, <1>t DEF fifo_read_down, down, ring
<1>5. ASSUME NEW r \in Readers, read_step(r)
      PROVE  pc'[f] = pc[f] /\ (pc[f] \in Resetting => count' = count)
  BY <1>5, <1>g, <1>m, <1>t DEF read_step, fifo_read_copy, fifo_read_advance, ring
<1>6. ASSUME NEW t \in Callers, call_step(t)
      PROVE  pc'[f] = pc[f] /\ count' = count
  <2>1. CASE signal(t)
    BY <2>1, <1>g DEF signal, ring
  <2>2. CASE mutex_lock(t)
    BY <2>2, <1>g DEF mutex_lock, ring
  <2>3. CASE finish(t)
    <3>1. wait[Gives(t)] # <<>> => Head(wait[Gives(t)]) \in Callers
      BY <1>t, HeadTailProperties DEF Gives, Semaphores
    <3>2. up(t, Gives(t)) /\ count' = count
      BY <2>3 DEF finish, ring
    <3>3. CASE Goto(t, "idle")
      BY <3>2, <3>3, <1>g
    <3>4. CASE wait[Gives(t)] # <<>>
               /\ pc' = [pc EXCEPT ![t] = "idle", ![Head(wait[Gives(t)])] = "lock"]
      BY <3>1, <3>2, <3>4, <1>t
    <3> QED BY <3>2, <3>3, <3>4 DEF up
  <2> QED BY <1>6, <2>1, <2>2, <2>3 DEF call_step
<1> QED BY <1>1, <1>2, <1>3, <1>4, <1>5, <1>6 DEF CallerStep

LEMMA DriftStep ==
  TypeOK /\ WaitInv /\ MutualExclusion /\ DriftInv /\ [Next]_vars => DriftInv'
<1> SUFFICES ASSUME TypeOK, WaitInv, MutualExclusion, DriftInv, [Next]_vars
             PROVE  DriftInv'
  OBVIOUS
<1>1. CASE CallerStep
  <2>1. FreeBalance' = FreeBalance /\ UsedBalance' = UsedBalance
    BY <1>1, BalanceStep
  <2>2. \A f \in Flushers : pc'[f] = pc[f] /\ (pc[f] \in Resetting => count' = count)
    BY <1>1, CallerFrame
  <2> QED BY <2>1, <2>2 DEF DriftInv
<1>2. ASSUME NEW f \in Flushers, flush_step(f) PROVE DriftInv'
  <2>t. /\ pc \in [Threads -> Stages] /\ sem \in [Semaphores -> Nat]
        /\ f \in Threads /\ f \notin Writers /\ f \notin Readers
        /\ \A u \in Flushers : u \in Threads
        /\ \A w \in Writers : w \in Threads
        /\ \A r \in Readers : r \in Threads
        /\ \A u \in Threads : pc[u] \in Critical => lock = u
        /\ FIFO_SIZE \in Nat
    BY FifoAssumption DEF TypeOK, MutualExclusion, Callers, Threads
  <2>n. /\ sem["slots_free"] \in Nat /\ sem["slots_used"] \in Nat /\ count \in Int
        /\ Cardinality(Holding(Writers)) \in Nat /\ Cardinality(Giving(Writers)) \in Nat
        /\ Cardinality(Holding(Readers)) \in Nat /\ Cardinality(Giving(Readers)) \in Nat
    BY BalanceTypes
  <2>s. ASSUME NEW stage, Goto(f, stage)
        PROVE  /\ Holding(Writers)' = Holding(Writers) /\ Giving(Writers)' = Giving(Writers)
               /\ Holding(Readers)' = Holding(Readers) /\ Giving(Readers)' = Giving(Readers)
               /\ pc'[f] = stage /\ \A u \in Flushers : u # f => pc'[u] = pc[u]
    BY <2>s, <2>t DEF Goto, Holding, Giving
  <2>1. CASE fifo_flush_lock(f)
    <3>1. pc'[f] = "reset" /\ pc[f] = "idle" /\ \A u \in Flushers : u # f => pc'[u] = pc[u]
      BY <2>1, <2>s DEF fifo_flush_lock
    <3>2. count' = count /\ FreeBalance' = FreeBalance /\ UsedBalance' = UsedBalance
      BY <2>1, <2>s DEF fifo_flush_lock, FreeBalance, UsedBalance, ring
    <3> QED BY <3>1, <3>2 DEF DriftInv, Resetting
  <2>2. CASE fifo_flush_reset(f)
    <3>1. pc'[f] = "init_free" /\ count' = 0
      BY <2>2, <2>s DEF fifo_flush_reset
    <3> QED BY <3>1 DEF DriftInv, Resetting
  <2>3. CASE fifo_flush_init_free(f)
    <3>1. /\ pc'[f] = "init_used" /\ pc[f] = "init_free" /\ count' = count
          /\ sem'["slots_free"] = FIFO_SIZE
      BY <2>3, <2>s, <2>t DEF fifo_flush_init_free, sema_init, Semaphores, ring
    <3>2. count = 0
      BY <3>1 DEF DriftInv, Resetting
    <3>3. FreeBalance' = FIFO_SIZE + Cardinality(Holding(Writers)) + Cardinality(Giving(Readers)) + 0
      BY <2>3, <2>s, <3>1, <3>2 DEF fifo_flush_init_free, FreeBalance
    <3>4. FreeBalance' \in FIFO_SIZE..FIFO_SIZE + Cardinality(Callers)
      BY <3>3, <2>n, <2>t, InHands
    <3> QED BY <3>1, <3>2, <3>4 DEF DriftInv, Resetting
  <2>4. CASE fifo_flush_init_used(f)
    <3>1. /\ pc'[f] = "idle" /\ pc[f] = "init_used" /\ count' = count
          /\ sem'["slots_used"] = 0 /\ sem'["slots_free"] = sem["slots_free"]
          /\ \A u \in Flushers : u # f => pc'[u] = pc[u]
      BY <2>4, <2>s, <2>t DEF fifo_flush_init_used, sema_init, Semaphores, ring
    <3>2. count = 0
      BY <3>1 DEF DriftInv, Resetting
    <3>3. UsedBalance' = 0 + Cardinality(Holding(Readers)) + Cardinality(Giving(Writers)) - 0
      BY <2>4, <2>s, <3>1, <3>2 DEF fifo_flush_init_used, UsedBalance
    <3>4. UsedBalance' \in 0..Cardinality(Callers)
      BY <3>3, <2>n, InHands
    <3>5. FreeBalance' = FreeBalance
      BY <2>4, <2>s, <3>1 DEF fifo_flush_init_used, FreeBalance
    <3> QED BY <3>1, <3>2, <3>4, <3>5 DEF DriftInv, Resetting
  <2> QED BY <1>2, <2>1, <2>2, <2>3, <2>4 DEF flush_step
<1>3. CASE UNCHANGED vars
  <2>1. count' = count /\ pc' = pc
    BY <1>3 DEF vars
  <2> QED BY <1>3, <2>1, BalanceStutter DEF DriftInv
<1> QED BY <1>1, <1>2, <1>3 DEF Next, CallerStep

\* However many threads flush, and whenever they do, the ring's count is off by
\* at most one for each thread that may be inside fifo_write or fifo_read.
THEOREM FlushErrorIsBounded == Spec => []FlushDriftBounded
<1>1. fifo_init => DriftInv
  <2> SUFFICES ASSUME fifo_init PROVE DriftInv
    OBVIOUS
  <2>1. FreeBalance = FIFO_SIZE /\ UsedBalance = 0 /\ count = 0
    BY BalanceInit DEF fifo_init
  <2> QED BY <2>1, InHands, FifoAssumption DEF DriftInv
<1>2. TypeOK /\ DriftInv => FlushDriftBounded
  <2> SUFFICES ASSUME TypeOK, DriftInv PROVE FlushDriftBounded
    OBVIOUS
  <2>1. /\ sem["slots_free"] \in Nat /\ sem["slots_used"] \in Nat /\ count \in Int
        /\ Cardinality(Holding(Writers)) \in Nat /\ Cardinality(Giving(Writers)) \in Nat
        /\ Cardinality(Holding(Readers)) \in Nat /\ Cardinality(Giving(Readers)) \in Nat
        /\ Cardinality(Callers) \in Nat /\ FIFO_SIZE \in Nat
    BY BalanceTypes, InHands, FifoAssumption
  <2>2. CASE \E f \in Flushers : pc[f] \in Resetting
    BY <2>1, <2>2 DEF DriftInv, FlushDriftBounded
  <2>3. CASE \A f \in Flushers : pc[f] \notin Resetting
    <3>1. /\ FreeBalance \in FIFO_SIZE..FIFO_SIZE + Cardinality(Callers)
          /\ UsedBalance \in 0..Cardinality(Callers)
      BY <2>3 DEF DriftInv, Resetting
    <3> QED BY <2>1, <3>1 DEF FreeBalance, UsedBalance, FlushDriftBounded
  <2> QED BY <2>2, <2>3
<1>3. fifo_init => MutualExclusion
  BY DEF fifo_init, MutualExclusion, Critical
<1> QED BY <1>1, <1>2, <1>3, TypeInit, TypeStep, WaitInit, WaitStep, MutexStep, DriftStep,
           PTL DEF Spec
=============================================================================
