---------------------------- MODULE InputProofs ----------------------------
(***************************************************************************)
(* Proofs about InputIntercept, for any number of keyboards, any length of *)
(* a message and any size of the outbox.                                   *)
(***************************************************************************)
EXTENDS InputIntercept, SequenceTheorems, FiniteSetTheorems, TLAPS

Callers == Keyboards \cup Senders
Pushing == {"push", "push_data", "push_top"}

TypeInv ==
  /\ data \in [0..MSG_MAX_LEN - 1 -> Code]
  /\ top \in 0..MSG_MAX_LEN
  /\ pc \in [Keyboards -> Stages]
  /\ reg \in [Keyboards -> 0..MSG_MAX_LEN]
  /\ ch \in [Keyboards -> Code]
  /\ buf \in [Keyboards -> Seq(Code)]
  /\ queue \in Seq(Message \cup {NoMsg})
  /\ call \in [Callers -> {"idle", "pending", "done"}]
  /\ val \in [Callers -> Message \cup {NoMsg}]
  /\ line \in Seq(Keys) /\ lines \in Seq(Seq(Keys))
  /\ got \in Seq(Message \cup {NoMsg})

LEMMA Sets ==
  /\ Keyboards \subseteq Callers /\ Senders \subseteq Callers
  /\ Outbox!Callers = Callers
  /\ MSG_MAX_LEN \in Nat /\ MSG_MAX_LEN # 0
  /\ Keyboards \cap Senders = {}
  BY InputAssumption DEF Callers, Outbox!Callers

\* There is only one send thread.
LEMMA OneSender == \A s, t \in Senders : s = t
<1> SUFFICES ASSUME NEW s \in Senders, NEW t \in Senders PROVE s = t
  OBVIOUS
<1>1. IsFiniteSet(Senders) /\ Cardinality(Senders) <= 1
  BY InputAssumption
<1>2. /\ IsFiniteSet(Senders \ {s}) /\ Cardinality(Senders \ {s}) = Cardinality(Senders) - 1
  BY <1>1, FS_RemoveElement
<1>3. Cardinality(Senders) \in Nat /\ Cardinality(Senders \ {s}) \in Nat
  BY <1>1, <1>2, FS_CardinalityType
<1>4. Senders \ {s} = {}
  BY <1>1, <1>2, <1>3, FS_EmptySet
<1> QED BY <1>4

\* What the handler keeps of a character, and that decrypting gives it back.
LEMMA KeyFacts ==
  ASSUME NEW c \in Keys
  PROVE  /\ Rot13(c) \in Code /\ Rot13(Rot13(c)) = c
         /\ rot13_encrypt(<<c>>, 1)[1] = Rot13(c)
<1>1. c \in Int /\ c >= 0 /\ c <= 127
  BY InputAssumption DEF keycode_to_ascii
<1>2. Rot13(Rot13(c)) = c
  BY <1>1 DEF Rot13, Upper, Lower
<1>3. rot13_encrypt(<<c>>, 1)[1] = Rot13(c)
  BY DEF rot13_encrypt
<1> QED BY <1>2, <1>3 DEF Code

LEMMA FrontFacts ==
  ASSUME NEW S, NEW s \in Seq(S), s # <<>>
  PROVE  /\ Front(s) \in Seq(S) /\ Len(s) \in Nat \ {0} /\ Len(Front(s)) = Len(s) - 1
         /\ \A i \in 1..Len(s) - 1 : Front(s)[i] = s[i]
<1> DEFINE n == Len(s) - 1
<1>1. Len(s) \in Nat \ {0} /\ n \in Nat /\ s \in [1..Len(s) -> S]
  BY EmptySeq, LenProperties
<1>2. 1 \in Int /\ n \in Int /\ \A i \in 1..n : s[i] \in S
  BY <1>1
<1>3. /\ SubSeq(s, 1, n) \in Seq(S)
      /\ Len(SubSeq(s, 1, n)) = IF 1 <= n THEN n - 1 + 1 ELSE 0
      /\ \A i \in 1..n - 1 + 1 : SubSeq(s, 1, n)[i] = s[1 + i - 1]
  BY <1>2, SubSeqProperties
<1>4. Front(s) = SubSeq(s, 1, n)
  BY DEF Front
<1> QED BY <1>1, <1>3, <1>4

(***************************************************************************)
(* StackInBounds                                                           *)
(***************************************************************************)
\* What a handler has loaded is still good when it is used: a value of top that
\* passed the check of push or of pop, and as much of a message as is copied.
HandlerInv ==
  \A k \in Keyboards :
    /\ pc[k] \in Pushing => reg[k] < MSG_MAX_LEN
    /\ pc[k] = "pop" => reg[k] # 0
    /\ Len(buf[k]) <= MSG_MAX_LEN
    /\ pc[k] = "copy" => Len(buf[k]) <= reg[k]
    /\ call[k] = "idle" <=> pc[k] # "write"

BoundsInv == TypeInv /\ HandlerInv

\* A key goes down: the checks of push, pop and size.
LEMMA BoundsPress ==
  ASSUME BoundsInv, NEW k \in Keyboards,
         (\E c \in Keys : typing_stack_push(k, c)) \/ typing_stack_pop(k) \/ typing_stack_size(k)
  PROVE  BoundsInv'
<1> USE Sets
<1> USE DEF press, Goto, stack, outbox
<1>1. ASSUME NEW c \in Keys, typing_stack_push(k, c) PROVE BoundsInv'
  <2>1. /\ ch' = [ch EXCEPT ![k] = Rot13(c)] /\ Rot13(c) \in Code
        /\ line' = IF Len(line) < MSG_MAX_LEN THEN Append(line, c) ELSE line
    BY <1>1, KeyFacts DEF typing_stack_push
  <2>2. line' \in Seq(Keys)
    BY <2>1, AppendProperties DEF BoundsInv, TypeInv
  <2>3. TypeInv'
    BY <1>1, <2>1, <2>2 DEF typing_stack_push, BoundsInv, TypeInv, Stages
  <2>4. HandlerInv'
    BY <1>1 DEF typing_stack_push, BoundsInv, TypeInv, HandlerInv, Pushing
  <2> QED BY <2>3, <2>4 DEF BoundsInv
<1>2. CASE typing_stack_pop(k)
  <2>1. line' \in Seq(Keys)
    BY <1>2, FrontFacts DEF typing_stack_pop, BoundsInv, TypeInv
  <2>2. TypeInv'
    BY <1>2, <2>1 DEF typing_stack_pop, BoundsInv, TypeInv, Stages
  <2>3. HandlerInv'
    BY <1>2 DEF typing_stack_pop, BoundsInv, TypeInv, HandlerInv, Pushing
  <2> QED BY <2>2, <2>3 DEF BoundsInv
<1>3. CASE typing_stack_size(k)
  <2>1. lines' \in Seq(Seq(Keys)) /\ <<>> \in Seq(Keys) /\ <<>> \in Seq(Code) /\ Len(<<>>) = 0
    BY <1>3, AppendProperties, EmptySeq DEF typing_stack_size, BoundsInv, TypeInv
  <2>2. TypeInv'
    BY <1>3, <2>1 DEF typing_stack_size, BoundsInv, TypeInv, Stages
  <2>3. HandlerInv'
    BY <1>3, <2>1 DEF typing_stack_size, BoundsInv, TypeInv, HandlerInv, Pushing
  <2> QED BY <2>2, <2>3 DEF BoundsInv
<1> QED BY <1>1, <1>2, <1>3

\* The handler goes on.
LEMMA BoundsHandler ==
  ASSUME BoundsInv, NEW k \in Keyboards, handler_step(k)
  PROVE  BoundsInv'
<1> USE Sets
<1> USE DEF Goto, stack, outbox, history
<1>1. CASE push_data(k) \/ push_top(k) \/ pop_top(k)
  <2>1. TypeInv'
    <3> USE DEF BoundsInv, TypeInv, HandlerInv, Stages, Pushing
    <3>1. CASE push_data(k)
      BY <3>1 DEF push_data
    <3>2. CASE push_top(k)
      BY <3>2 DEF push_top
    <3>3. CASE pop_top(k)
      BY <3>3 DEF pop_top
    <3> QED BY <1>1, <3>1, <3>2, <3>3
  <2>2. HandlerInv'
    BY <1>1 DEF push_data, push_top, pop_top, BoundsInv, TypeInv, HandlerInv, Pushing
  <2> QED BY <2>1, <2>2 DEF BoundsInv
<1>2. CASE memcpy(k)
  <2> DEFINE b == Append(buf[k], data[Len(buf[k])])
  <2>1. /\ buf[k] \in Seq(Code) /\ Len(buf[k]) \in Nat /\ Len(buf[k]) < reg[k]
        /\ reg[k] \in 0..MSG_MAX_LEN
    BY <1>2, LenProperties DEF memcpy, BoundsInv, TypeInv
  <2>2. data[Len(buf[k])] \in Code
    BY <2>1 DEF BoundsInv, TypeInv
  <2>3. b \in Seq(Code) /\ Len(b) = Len(buf[k]) + 1
    BY <2>1, <2>2, AppendProperties
  <2>4. buf' = [buf EXCEPT ![k] = b]
    BY <1>2 DEF memcpy
  <2> HIDE DEF b
  <2>5. TypeInv'
    BY <1>2, <2>3, <2>4 DEF memcpy, BoundsInv, TypeInv
  <2>6. HandlerInv'
    BY <1>2, <2>1, <2>3, <2>4 DEF memcpy, BoundsInv, TypeInv, HandlerInv
  <2> QED BY <2>5, <2>6 DEF BoundsInv
<1>3. CASE fifo_write(k)
  <2>1. buf[k] \in Message
    BY <1>3 DEF fifo_write, Outbox!Invoke
  <2>2. TypeInv'
    BY <1>3, <2>1 DEF fifo_write, Outbox!Invoke, BoundsInv, TypeInv, Stages
  <2>3. HandlerInv'
    BY <1>3 DEF fifo_write, Outbox!Invoke, BoundsInv, TypeInv, HandlerInv, Pushing
  <2> QED BY <2>2, <2>3 DEF BoundsInv
<1>4. CASE outbox_store(k)
  <2>1. queue' \in Seq(Message \cup {NoMsg})
    <3>1. val[k] \in Message \cup {NoMsg}
      BY DEF BoundsInv, TypeInv
    <3> QED BY <1>4, <3>1, AppendProperties DEF outbox_store, Outbox!Enqueue, BoundsInv, TypeInv
  <2>2. TypeInv'
    BY <1>4, <2>1 DEF outbox_store, Outbox!Enqueue, BoundsInv, TypeInv
  <2>3. HandlerInv'
    BY <1>4 DEF outbox_store, Outbox!Enqueue, BoundsInv, TypeInv, HandlerInv
  <2> QED BY <2>2, <2>3 DEF BoundsInv
<1>5. CASE typing_stack_clear(k)
  <2>1. lines' \in Seq(Seq(Keys))
    <3>1. CASE lines' = lines
      BY <3>1 DEF BoundsInv, TypeInv
    <3>2. CASE lines' = Front(lines) /\ lines # <<>>
      BY <3>2, FrontFacts DEF BoundsInv, TypeInv
    <3>3. CASE lines' = Front(lines) /\ lines = <<>>
      BY <3>3, SubSeqEmpty, EmptySeq DEF Front
    <3> QED BY <1>5, <3>1, <3>2, <3>3 DEF typing_stack_clear, write_returns
  <2>2. TypeInv'
    <3>1. /\ UNCHANGED queue /\ call' \in [Callers -> {"idle", "pending", "done"}]
          /\ val' \in [Callers -> Message \cup {NoMsg}]
      BY <1>5 DEF typing_stack_clear, write_returns, Outbox!Return, Outbox!Fail, BoundsInv,
        TypeInv
    <3> QED BY <1>5, <2>1, <3>1 DEF typing_stack_clear, BoundsInv, TypeInv, Stages
  <2>3. HandlerInv'
    BY <1>5 DEF typing_stack_clear, write_returns, Outbox!Return, Outbox!Fail,
      BoundsInv, TypeInv, HandlerInv, Pushing
  <2> QED BY <2>2, <2>3 DEF BoundsInv
<1> QED BY <1>1, <1>2, <1>3, <1>4, <1>5 DEF handler_step

\* Keyboards come and go, the send thread reads.
LEMMA BoundsOthers ==
  ASSUME BoundsInv,
         \/ \E k \in Keyboards : input_connect(k) \/ input_disconnect(k)
         \/ \E s \in Senders : out_read(s)
  PROVE  BoundsInv'
<1> USE Sets
<1> USE DEF Goto, stack, outbox, history
<1>1. CASE \E k \in Keyboards : input_connect(k) \/ input_disconnect(k)
  BY <1>1 DEF input_connect, input_disconnect, BoundsInv, TypeInv, HandlerInv, Stages, Pushing
<1>2. ASSUME NEW s \in Senders, out_read(s) PROVE BoundsInv'
  <2>1. /\ queue' \in Seq(Message \cup {NoMsg}) /\ got' \in Seq(Message \cup {NoMsg})
        /\ queue # <<>> => Head(queue) \in Message \cup {NoMsg}
    <3>1. /\ queue \in Seq(Message \cup {NoMsg}) /\ got \in Seq(Message \cup {NoMsg})
          /\ val[s] \in Message \cup {NoMsg}
      BY DEF BoundsInv, TypeInv
    <3>2. queue # <<>> => /\ Head(queue) \in Message \cup {NoMsg}
                          /\ Tail(queue) \in Seq(Message \cup {NoMsg})
      BY <3>1, HeadTailProperties
    <3>3. Append(got, val[s]) \in Seq(Message \cup {NoMsg})
      BY <3>1, AppendProperties
    <3> QED BY <1>2, <3>1, <3>2, <3>3
          DEF out_read, Outbox!Invoke, Outbox!Dequeue, Outbox!Return
  <2>2. TypeInv'
    <3>1. call' \in [Callers -> {"idle", "pending", "done"}]
      BY <1>2 DEF out_read, Outbox!Invoke, Outbox!Dequeue, Outbox!Return, BoundsInv, TypeInv
    <3>2. \E m \in Message \cup {NoMsg} : val' = [val EXCEPT ![s] = m]
      BY <1>2, <2>1 DEF out_read, Outbox!Invoke, Outbox!Dequeue, Outbox!Return
    <3>3. val' \in [Callers -> Message \cup {NoMsg}]
      BY <3>2 DEF BoundsInv, TypeInv
    <3> QED BY <1>2, <2>1, <3>1, <3>3 DEF out_read, BoundsInv, TypeInv
  <2>3. HandlerInv'
    BY <1>2 DEF out_read, Outbox!Invoke, Outbox!Dequeue, Outbox!Return, BoundsInv, TypeInv,
      HandlerInv
  <2> QED BY <2>2, <2>3 DEF BoundsInv
<1> QED BY <1>1, <1>2

LEMMA BoundsInit == Init => BoundsInv
<1> SUFFICES ASSUME Init PROVE BoundsInv
  OBVIOUS
<1> USE Sets
<1>1. /\ <<>> \in Seq(Code) /\ <<>> \in Seq(Keys) /\ <<>> \in Seq(Seq(Keys)) /\ Len(<<>>) = 0
      /\ <<>> \in Seq(Message \cup {NoMsg})
  BY EmptySeq
<1>2. TypeInv
  BY <1>1 DEF Init, typing_stack_init, Outbox!Init, TypeInv, Stages, Code
<1>3. HandlerInv
  BY <1>1 DEF Init, Outbox!Init, HandlerInv, Pushing
<1> QED BY <1>2, <1>3 DEF BoundsInv

LEMMA BoundsStep == BoundsInv /\ [Next]_vars => BoundsInv'
<1> SUFFICES ASSUME BoundsInv, [Next]_vars PROVE BoundsInv'
  OBVIOUS
<1>1. CASE UNCHANGED vars
  BY <1>1 DEF BoundsInv, TypeInv, HandlerInv, vars, stack, outbox, history
<1> QED BY <1>1, BoundsPress, BoundsHandler, BoundsOthers DEF Next

\* However many keyboards type at once on the unlocked stack: top stays within the
\* array and no access of push or of the copy to the message falls outside it.
THEOREM StackInBoundsHolds == Spec => []StackInBounds
<1>1. BoundsInv => StackInBounds
  BY Sets DEF BoundsInv, TypeInv, HandlerInv, StackInBounds, Pushing
<1> QED BY <1>1, BoundsInit, BoundsStep, PTL DEF Spec

(***************************************************************************)
(* SentIsTyped                                                             *)
(***************************************************************************)
Busy(k) == pc[k] \notin {"unplugged", "idle"}
OneBusy == \A j, k \in Keyboards : Busy(j) /\ Busy(k) => j = k

\* The message that line l becomes.
Encrypted(l) == rot13_encrypt(l, Len(l))

\* The first n characters of line l are on the stack.
OnStack(l, n) == \A i \in 1..n : data[i - 1] = Rot13(l[i])

\* The stack is the line on the user's mind, but for what the handler at work has
\* not done yet; after Enter it is the last line, until the message is copied.
StageInv(k) ==
  /\ pc[k] \in Pushing => /\ Len(line) = reg[k] + 1 /\ OnStack(line, reg[k])
                          /\ ch[k] = Rot13(line[reg[k] + 1])
  /\ pc[k] \in {"push", "push_top"} => top = reg[k]
  /\ pc[k] = "push_data" => top = reg[k] + 1
  /\ pc[k] = "push_top" => data[reg[k]] = ch[k]
  /\ pc[k] = "pop" => top = reg[k] /\ reg[k] = Len(line) + 1 /\ OnStack(line, Len(line))
  /\ pc[k] \in {"copy", "write"} => line = <<>>
  /\ pc[k] = "copy" => /\ lines # <<>>
                       /\ reg[k] = Len(lines[Len(lines)])
                       /\ OnStack(lines[Len(lines)], reg[k])
                       /\ \A i \in 1..Len(buf[k]) : buf[k][i] = data[i - 1]
  /\ call[k] = "pending" => lines # <<>> /\ val[k] = Encrypted(lines[Len(lines)])

LineInv ==
  /\ (\A k \in Keyboards : ~ Busy(k)) => top = Len(line) /\ OnStack(line, top)
  /\ \A k \in Keyboards : StageInv(k)

\* Lines on their way: read by the send thread and not handed over yet, and still
\* in the hands of a handler.
Held   == IF \E s \in Senders : call[s] = "done" THEN 1 ELSE 0
InHand == IF \E k \in Keyboards : pc[k] = "copy" \/ call[k] = "pending" THEN 1 ELSE 0

\* What the send thread has got, what it has in hand, what the outbox holds and
\* what a handler is about to store are, one after the other, the lines.
PipeInv ==
  /\ Len(lines) = Len(got) + Held + Len(queue) + InHand
  /\ \A i \in 1..Len(got) : got[i] = Encrypted(lines[i])
  /\ \A s \in Senders : call[s] = "done" => val[s] = Encrypted(lines[Len(got) + 1])
  /\ \A i \in 1..Len(queue) : queue[i] = Encrypted(lines[Len(got) + Held + i])

QuietInv == ~ raced => OneBusy /\ LineInv /\ PipeInv

LEMMA Lengths ==
  ASSUME TypeInv
  PROVE  /\ Len(queue) \in Nat /\ Len(got) \in Nat /\ Len(line) \in Nat /\ Len(lines) \in Nat
         /\ Held \in Nat /\ InHand \in Nat
  BY LenProperties DEF TypeInv, Held, InHand

\* While one handler is busy the others have nothing under way.
LEMMA OthersRest ==
  ASSUME BoundsInv, OneBusy, NEW k \in Keyboards, Busy(k), NEW j \in Keyboards \ {k}
  PROVE  ~ Busy(j) /\ call[j] = "idle"
  BY Sets DEF OneBusy, BoundsInv, HandlerInv, Busy

\* A step of the handlers that leaves the lines under way where they are.
LEMMA PipeFrame ==
  ASSUME TypeInv, PipeInv,
         UNCHANGED <<queue, got>>,
         \A s \in Senders : call'[s] = call[s] /\ val'[s] = val[s],
         \A i \in 1..Len(got) + Held + Len(queue) : lines'[i] = lines[i],
         Len(lines') = Len(got) + Held + Len(queue) + InHand'
  PROVE  PipeInv'
<1>1. Held' = Held
  BY DEF Held
<1>2. Len(queue) \in Nat /\ Len(got) \in Nat /\ Held \in Nat
  BY Lengths
<1>3. \A i \in 1..Len(got) : got[i] = Encrypted(lines[i]) /\ lines'[i] = lines[i]
  <2>1. 1..Len(got) \subseteq 1..Len(got) + Held + Len(queue)
    BY <1>2
  <2> QED BY <2>1, Zenon DEF PipeInv
<1>4. ASSUME NEW s \in Senders, call[s] = "done"
      PROVE  /\ val[s] = Encrypted(lines[Len(got) + 1])
             /\ lines'[Len(got) + 1] = lines[Len(got) + 1]
  <2>1. Held = 1
    BY <1>4 DEF Held
  <2>2. Len(got) + 1 \in 1..Len(got) + Held + Len(queue)
    BY <2>1, <1>2
  <2>3. lines'[Len(got) + 1] = lines[Len(got) + 1]
    BY <2>2
  <2> QED BY <1>4, <2>3 DEF PipeInv
<1>5. ASSUME NEW i \in 1..Len(queue)
      PROVE  /\ queue[i] = Encrypted(lines[Len(got) + Held + i])
             /\ lines'[Len(got) + Held + i] = lines[Len(got) + Held + i]
  <2>1. Len(got) + Held + i \in 1..Len(got) + Held + Len(queue)
    BY <1>2
  <2>2. lines'[Len(got) + Held + i] = lines[Len(got) + Held + i]
    BY <2>1
  <2> QED BY <2>2 DEF PipeInv
<1> QED BY <1>1, <1>3, <1>4, <1>5 DEF PipeInv

\* The checks that follow a key, when no other handler is running.
LEMMA QuietPress ==
  ASSUME BoundsInv, QuietInv, ~ raced', NEW k \in Keyboards,
         (\E c \in Keys : typing_stack_push(k, c)) \/ typing_stack_pop(k) \/ typing_stack_size(k)
  PROVE  (OneBusy /\ LineInv /\ PipeInv)'
<1> USE Sets
<1>r. /\ ~ raced /\ \A j \in Keyboards : ~ Busy(j)
      /\ \E stage : Goto(k, stage)
  BY Zenon DEF typing_stack_push, typing_stack_pop, typing_stack_size, press, Busy
<1>t. TypeInv
  BY DEF BoundsInv
<1>p. /\ pc' = [pc EXCEPT ![k] = pc'[k]] /\ \A j \in Keyboards \ {k} : pc'[j] = pc[j]
  BY <1>r, <1>t DEF Goto, TypeInv
<1>c. /\ UNCHANGED <<data, top, queue, call, val, got>>
      /\ \A j \in Keyboards : call[j] = "idle"
  <2>1. UNCHANGED <<data, top, queue, call, val, got>>
    BY DEF typing_stack_push, typing_stack_pop, typing_stack_size, stack, outbox
  <2>2. \A j \in Keyboards : call[j] = "idle"
    BY <1>r DEF BoundsInv, HandlerInv, Busy
  <2> QED BY <2>1, <2>2
<1>b. OneBusy'
  BY <1>p, <1>r DEF OneBusy, Busy
<1>l. top = Len(line) /\ OnStack(line, top) /\ PipeInv
  BY <1>r DEF QuietInv, LineInv
<1>n. Len(line) \in Nat /\ Len(lines) \in Nat /\ line \in Seq(Keys) /\ lines \in Seq(Seq(Keys))
      /\ reg \in [Keyboards -> 0..MSG_MAX_LEN] /\ pc \in [Keyboards -> Stages]
      /\ ch \in [Keyboards -> Code] /\ buf \in [Keyboards -> Seq(Code)]
  BY <1>t, Lengths DEF TypeInv
<1>h. InHand = 0
  BY <1>r, <1>c DEF InHand, Busy
<1>f. ASSUME lines' = lines, pc'[k] # "copy" PROVE PipeInv'
  <2>1. InHand' = 0
    BY <1>f, <1>p, <1>r, <1>c DEF InHand, Busy
  <2> QED BY <2>1, <1>f, <1>c, <1>h, <1>l, <1>t, PipeFrame DEF PipeInv
<1>s. SUFFICES /\ ~ Busy(k)' => top' = Len(line') /\ OnStack(line, top)'
               /\ StageInv(k)' /\ PipeInv'
  <2>1. ASSUME NEW j \in Keyboards \ {k} PROVE StageInv(j)'
    BY <2>1, <1>p, <1>r, <1>c DEF StageInv, Busy, Pushing
  <2> QED BY <2>1, <1>b DEF LineInv
<1>1. ASSUME NEW c \in Keys, typing_stack_push(k, c)
      PROVE  /\ ~ Busy(k)' => top' = Len(line') /\ OnStack(line, top)'
             /\ StageInv(k)' /\ PipeInv'
  <2>0. /\ lines' = lines /\ reg'[k] = top /\ ch'[k] = Rot13(c)
        /\ pc'[k] = IF top >= MSG_MAX_LEN THEN "idle" ELSE "push"
        /\ line' = IF Len(line) < MSG_MAX_LEN THEN Append(line, c) ELSE line
    BY <1>1, <1>n, KeyFacts DEF typing_stack_push, Goto
  <2>1. PipeInv'
    BY <2>0, <1>f
  <2>2. CASE top >= MSG_MAX_LEN
    <3>1. pc'[k] = "idle" /\ line' = line
      BY <2>0, <2>2, <1>l, <1>n
    <3> QED BY <3>1, <2>1, <1>c, <1>l DEF StageInv, OnStack, Busy, Pushing
  <2>3. CASE ~ (top >= MSG_MAX_LEN)
    <3>1. /\ pc'[k] = "push" /\ line' = Append(line, c)
      BY <2>0, <2>3, <1>l, <1>n
    <3>2. /\ Len(line') = top + 1 /\ line'[top + 1] = c
          /\ \A i \in 1..top : line'[i] = line[i]
      BY <3>1, <1>l, <1>n, AppendProperties
    <3>3. StageInv(k)'
      BY <3>1, <3>2, <2>0, <1>c, <1>l DEF StageInv, OnStack, Pushing
    <3> QED BY <3>1, <3>3, <2>1 DEF Busy
  <2> QED BY <2>2, <2>3
<1>2. CASE typing_stack_pop(k)
  <2>0. /\ lines' = lines /\ reg'[k] = top
        /\ pc'[k] = IF top = 0 THEN "idle" ELSE "pop"
        /\ line' = IF line = <<>> THEN line ELSE Front(line)
    BY <1>2, <1>n DEF typing_stack_pop, Goto
  <2>1. PipeInv'
    BY <2>0, <1>f
  <2>2. CASE line = <<>>
    <3>1. top = 0 /\ pc'[k] = "idle" /\ line' = line
      BY <2>0, <2>2, <1>l, EmptySeq
    <3> QED BY <3>1, <2>1, <1>c, <1>l DEF StageInv, OnStack, Busy, Pushing
  <2>3. CASE line # <<>>
    <3>1. /\ Len(line) # 0 /\ Len(line') = Len(line) - 1
          /\ \A i \in 1..Len(line) - 1 : line'[i] = line[i]
      BY <2>0, <2>3, <1>n, FrontFacts
    <3>2. pc'[k] = "pop" /\ reg'[k] = Len(line') + 1 /\ top' = reg'[k]
      BY <3>1, <2>0, <1>l, <1>c, <1>n
    <3>3. OnStack(line, Len(line))'
      <4>1. \A i \in 1..Len(line') : i \in 1..top /\ line'[i] = line[i]
        <5>1. 1..Len(line') \subseteq 1..top /\ Len(line') = Len(line) - 1
          BY <3>1, <1>l, <1>n
        <5> QED BY <5>1, <3>1
      <4> QED BY <4>1, <1>c, <1>l DEF OnStack
    <3> QED BY <3>2, <3>3, <2>1, <1>c DEF StageInv, Busy, Pushing
  <2> QED BY <2>2, <2>3
<1>3. CASE typing_stack_size(k)
  <2>0. /\ lines' = Append(lines, line) /\ reg'[k] = top /\ buf'[k] = <<>>
        /\ line' = <<>> /\ pc'[k] = "copy"
    BY <1>3, <1>n DEF typing_stack_size, Goto
  <2>1. /\ Len(lines') = Len(lines) + 1 /\ lines'[Len(lines')] = line /\ lines' # <<>>
        /\ \A i \in 1..Len(lines) : lines'[i] = lines[i]
    <3>1. /\ lines' \in Seq(Seq(Keys)) /\ Len(lines') = Len(lines) + 1
          /\ \A i \in 1..Len(lines) : lines'[i] = lines[i]
          /\ lines'[Len(lines) + 1] = line
      BY <2>0, <1>n, AppendProperties
    <3> QED BY <3>1, <1>n, EmptySeq
  <2>2. InHand' = 1
    BY <2>0 DEF InHand
  <2>3. PipeInv'
    BY <2>1, <2>2, <1>c, <1>h, <1>l, <1>t, PipeFrame, Lengths DEF PipeInv
  <2>4. StageInv(k)'
    BY <2>0, <2>1, <1>c, <1>l, EmptySeq DEF StageInv, OnStack, Pushing
  <2> QED BY <2>0, <2>3, <2>4 DEF Busy
<1> QED BY <1>1, <1>2, <1>3

LEMMA EncryptedFacts ==
  ASSUME NEW l \in Seq(Keys)
  PROVE  /\ Plain(Encrypted(l)) = l
         /\ \A m \in Seq(Code) :
              Len(m) = Len(l) /\ (\A i \in 1..Len(l) : m[i] = Rot13(l[i])) => m = Encrypted(l)
<1>1. Len(l) \in Nat /\ l \in [1..Len(l) -> Keys]
  BY LenProperties
<1>2. /\ Encrypted(l) = [i \in 1..Len(l) |-> Rot13(l[i])]
      /\ Encrypted(l) \in Seq(Code) /\ Len(Encrypted(l)) = Len(l)
  <2>1. Encrypted(l) = [i \in 1..Len(l) |-> Rot13(l[i])]
    BY <1>1 DEF Encrypted, rot13_encrypt
  <2>2. \A i \in 1..Len(l) : Rot13(l[i]) \in Code
    BY <1>1, KeyFacts
  <2>3. Encrypted(l) \in [1..Len(l) -> Code]
    BY <2>1, <2>2
  <2> QED BY <2>1, <2>3, <1>1
<1>3. Plain(Encrypted(l)) = [i \in 1..Len(l) |-> Rot13(Encrypted(l)[i])]
  BY <1>1, <1>2 DEF Plain, rot13_decrypt, rot13_encrypt
<1>4. \A i \in 1..Len(l) : Rot13(Encrypted(l)[i]) = l[i]
  BY <1>1, <1>2, KeyFacts
<1>5. Plain(Encrypted(l)) = l
  BY <1>1, <1>3, <1>4
<1>6. ASSUME NEW m \in Seq(Code), Len(m) = Len(l), \A i \in 1..Len(l) : m[i] = Rot13(l[i])
      PROVE  m = Encrypted(l)
  <2>1. m \in [1..Len(l) -> Code]
    BY <1>6, LenProperties
  <2> QED BY <1>2, <1>6, <2>1
<1> QED BY <1>5, <1>6

\* The handler at work is the only one.
LEMMA QuietHandler ==
  ASSUME BoundsInv, OneBusy, LineInv, PipeInv, NEW k \in Keyboards, handler_step(k)
  PROVE  (OneBusy /\ LineInv /\ PipeInv)'
<1> USE Sets
<1>t. TypeInv /\ HandlerInv
  BY DEF BoundsInv
<1>b. Busy(k)
  BY <1>t DEF handler_step, push_data, push_top, pop_top, memcpy, fifo_write, outbox_store,
    typing_stack_clear, Busy, Outbox!Enqueue, HandlerInv
<1>o. \A j \in Keyboards \ {k} : ~ Busy(j) /\ call[j] = "idle"
  BY <1>b, OthersRest
<1>p. /\ \A j \in Keyboards \ {k} : pc'[j] = pc[j] /\ call'[j] = call[j]
      /\ \A s \in Senders : call'[s] = call[s] /\ val'[s] = val[s]
      /\ got' = got /\ line' = line
  BY <1>t DEF handler_step, push_data, push_top, pop_top, memcpy, fifo_write, outbox_store,
    typing_stack_clear, write_returns, Goto, Outbox!Enqueue, Outbox!Invoke, Outbox!Return,
    Outbox!Fail, TypeInv, stack, outbox, history
<1>n. /\ pc \in [Keyboards -> Stages] /\ reg \in [Keyboards -> 0..MSG_MAX_LEN]
      /\ data \in [0..MSG_MAX_LEN - 1 -> Code] /\ call \in [Callers -> {"idle", "pending", "done"}]
      /\ val \in [Callers -> Message \cup {NoMsg}] /\ buf \in [Keyboards -> Seq(Code)]
      /\ lines \in Seq(Seq(Keys)) /\ queue \in Seq(Message \cup {NoMsg})
      /\ Len(line) \in Nat /\ Len(lines) \in Nat /\ Len(queue) \in Nat /\ Len(got) \in Nat
      /\ Held \in Nat
  BY <1>t, Lengths DEF TypeInv
<1>i. StageInv(k)
  BY DEF LineInv
<1>h. /\ InHand = IF pc[k] = "copy" \/ call[k] = "pending" THEN 1 ELSE 0
      /\ InHand' = IF pc'[k] = "copy" \/ call'[k] = "pending" THEN 1 ELSE 0
  BY <1>o, <1>p DEF InHand, Busy
<1>s. SUFFICES /\ ~ Busy(k)' => top' = Len(line') /\ OnStack(line, top)'
               /\ StageInv(k)' /\ PipeInv'
  <2>1. ASSUME NEW j \in Keyboards \ {k} PROVE StageInv(j)' /\ ~ Busy(j)'
    BY <2>1, <1>p, <1>o DEF StageInv, Busy, Pushing
  <2>2. OneBusy'
    BY <2>1 DEF OneBusy
  <2> QED BY <2>1, <2>2 DEF LineInv
<1>f. ASSUME lines' = lines, queue' = queue, InHand' = InHand PROVE PipeInv'
  BY <1>f, <1>p, <1>t, PipeFrame DEF PipeInv
<1>1. CASE push_data(k)
  <2>1. /\ pc[k] \in {"push", "push_data"} /\ data' = [data EXCEPT ![reg[k]] = ch[k]]
        /\ pc'[k] = (IF pc[k] = "push" THEN "push_top" ELSE "idle")
        /\ UNCHANGED <<top, reg, ch, lines, queue, call>>
    BY <1>1, <1>n DEF push_data, Goto, outbox, history
  <2>2. reg[k] < MSG_MAX_LEN /\ reg[k] \in Nat /\ call[k] = "idle"
    BY <2>1, <1>t, <1>n DEF HandlerInv, Pushing
  <2>3. /\ data'[reg[k]] = ch[k]
        /\ \A i \in 1..reg[k] : data'[i - 1] = data[i - 1]
    BY <2>1, <2>2, <1>n
  <2>4. /\ Len(line) = reg[k] + 1 /\ OnStack(line, reg[k]) /\ ch[k] = Rot13(line[reg[k] + 1])
        /\ pc[k] = "push" => top = reg[k]
        /\ pc[k] = "push_data" => top = reg[k] + 1
    BY <2>1, <1>i DEF StageInv, Pushing
  <2>5. OnStack(line, reg[k])'
    BY <2>1, <2>3, <2>4, <1>p DEF OnStack
  <2>6. StageInv(k)'
    BY <2>1, <2>2, <2>3, <2>4, <2>5, <1>p DEF StageInv, Pushing
  <2>7. ASSUME ~ Busy(k)' PROVE top' = Len(line') /\ OnStack(line, top)'
    <3>1. top' = reg[k] + 1 /\ top' = Len(line')
      BY <2>1, <2>4, <2>7, <1>p DEF Busy
    <3>2. ASSUME NEW i \in 1..reg[k] + 1 PROVE data'[i - 1] = Rot13(line[i])
      <4>1. CASE i = reg[k] + 1
        BY <4>1, <2>2, <2>3, <2>4
      <4>2. CASE i \in 1..reg[k]
        BY <4>2, <2>3, <2>4 DEF OnStack
      <4> QED BY <4>1, <4>2, <2>2
    <3> QED BY <3>1, <3>2, <1>p DEF OnStack
  <2>8. InHand' = InHand
    BY <2>1, <1>h
  <2> QED BY <2>1, <2>6, <2>7, <2>8, <1>f
<1>2. CASE push_top(k)
  <2>1. /\ pc[k] \in {"push", "push_top"} /\ top' = reg[k] + 1
        /\ pc'[k] = (IF pc[k] = "push" THEN "push_data" ELSE "idle")
        /\ UNCHANGED <<data, reg, ch, lines, queue, call>>
    BY <1>2, <1>n DEF push_top, Goto, outbox, history
  <2>2. reg[k] \in Nat /\ call[k] = "idle"
    BY <2>1, <1>t, <1>n DEF HandlerInv
  <2>4. /\ Len(line) = reg[k] + 1 /\ OnStack(line, reg[k]) /\ ch[k] = Rot13(line[reg[k] + 1])
        /\ pc[k] = "push_top" => data[reg[k]] = ch[k]
    BY <2>1, <1>i DEF StageInv, Pushing
  <2>6. StageInv(k)'
    BY <2>1, <2>2, <2>4, <1>p DEF StageInv, OnStack, Pushing
  <2>7. ASSUME ~ Busy(k)' PROVE top' = Len(line') /\ OnStack(line, top)'
    <3>1. data[reg[k]] = ch[k]
      BY <2>1, <2>4, <2>7 DEF Busy
    <3>2. ASSUME NEW i \in 1..reg[k] + 1 PROVE data[i - 1] = Rot13(line[i])
      <4>1. CASE i = reg[k] + 1
        BY <4>1, <2>2, <2>4, <3>1
      <4>2. CASE i \in 1..reg[k]
        BY <4>2, <2>4 DEF OnStack
      <4> QED BY <4>1, <4>2, <2>2
    <3> QED BY <2>1, <2>4, <3>2, <1>p DEF OnStack
  <2>8. InHand' = InHand
    BY <2>1, <1>h
  <2> QED BY <2>1, <2>6, <2>7, <2>8, <1>f
<1>3. CASE pop_top(k)
  <2>1. /\ pc[k] = "pop" /\ top' = reg[k] - 1 /\ pc'[k] = "idle"
        /\ UNCHANGED <<data, lines, queue, call>>
    BY <1>3, <1>n DEF pop_top, Goto, outbox, history
  <2>2. reg[k] = Len(line) + 1 /\ OnStack(line, Len(line)) /\ call[k] = "idle"
    BY <2>1, <1>i, <1>t DEF StageInv, HandlerInv
  <2>3. top' = Len(line)
    BY <2>1, <2>2, <1>n
  <2>4. StageInv(k)'
    BY <2>1, <2>2 DEF StageInv, Pushing
  <2>5. InHand' = InHand
    BY <2>1, <1>h
  <2> QED BY <2>1, <2>2, <2>3, <2>4, <2>5, <1>p, <1>f DEF OnStack
<1>4. CASE memcpy(k)
  <2> DEFINE n == Len(buf[k])
  <2>1. /\ pc[k] = "copy" /\ n < reg[k] /\ buf'[k] = Append(buf[k], data[n])
        /\ UNCHANGED <<data, top, pc, reg, ch, lines, queue, call, val>>
    BY <1>4, <1>n DEF memcpy, stack, outbox, history
  <2>2. n \in Nat /\ buf[k] \in Seq(Code) /\ data[n] \in Code
    BY <2>1, <1>n, LenProperties
  <2>3. /\ Len(buf'[k]) = n + 1 /\ buf'[k][n + 1] = data[n]
        /\ \A i \in 1..n : buf'[k][i] = buf[k][i]
    BY <2>1, <2>2, AppendProperties
  <2>4. \A i \in 1..n : buf[k][i] = data[i - 1]
    BY <2>1, <1>i DEF StageInv
  <2>5. ASSUME NEW i \in 1..n + 1 PROVE buf'[k][i] = data[i - 1]
    <3>1. CASE i = n + 1
      BY <3>1, <2>2, <2>3
    <3>2. CASE i \in 1..n
      BY <3>2, <2>3, <2>4
    <3> QED BY <3>1, <3>2, <2>2
  <2>6. StageInv(k)'
    BY <2>1, <2>3, <2>5, <1>i, <1>p DEF StageInv, OnStack, Pushing
  <2>7. Busy(k)'
    BY <2>1 DEF Busy
  <2>8. InHand' = InHand
    BY <2>1, <1>h
  <2> QED BY <2>1, <2>6, <2>7, <2>8, <1>f
<1>5. CASE fifo_write(k)
  <2> DEFINE l == lines[Len(lines)]
  <2>1. /\ pc[k] = "copy" /\ Len(buf[k]) = reg[k] /\ pc'[k] = "write" /\ call'[k] = "pending"
        /\ val'[k] = buf[k] /\ UNCHANGED <<data, top, lines, queue>>
    BY <1>5, <1>n DEF fifo_write, Goto, Outbox!Invoke, stack, history
  <2>2. /\ lines # <<>> /\ reg[k] = Len(l) /\ OnStack(l, reg[k]) /\ line = <<>>
        /\ \A i \in 1..Len(buf[k]) : buf[k][i] = data[i - 1]
    BY <2>1, <1>i DEF StageInv
  <2>3. l \in Seq(Keys) /\ buf[k] \in Seq(Code)
    <3>1. Len(lines) \in 1..Len(lines)
      BY <2>2, <1>n, EmptySeq
    <3> QED BY <3>1, <1>n, ElementOfSeq
  <2>4. \A i \in 1..Len(l) : buf[k][i] = Rot13(l[i])
    BY <2>1, <2>2 DEF OnStack
  <2>5. buf[k] = Encrypted(l)
    BY <2>1, <2>2, <2>3, <2>4, EncryptedFacts
  <2>6. StageInv(k)'
    BY <2>1, <2>2, <2>5, <1>p DEF StageInv, Pushing
  <2>7. Busy(k)'
    BY <2>1 DEF Busy
  <2>8. InHand' = InHand
    BY <2>1, <1>h
  <2> QED BY <2>1, <2>6, <2>7, <2>8, <1>f
<1>6. CASE outbox_store(k)
  <2>1. /\ call[k] = "pending" /\ call'[k] = "done" /\ queue' = Append(queue, val[k])
        /\ UNCHANGED <<data, top, pc, reg, ch, buf, lines, val>>
    BY <1>6, <1>n DEF outbox_store, Outbox!Enqueue, stack, history
  <2>2. pc[k] = "write" /\ line = <<>> /\ val[k] = Encrypted(lines[Len(lines)])
    BY <2>1, <1>t, <1>i DEF HandlerInv, StageInv
  <2>3. StageInv(k)' /\ Busy(k)'
    BY <2>1, <2>2, <1>p DEF StageInv, Busy, Pushing
  <2>4. /\ Len(queue') = Len(queue) + 1 /\ queue'[Len(queue) + 1] = val[k]
        /\ \A i \in 1..Len(queue) : queue'[i] = queue[i]
    <3>1. val[k] \in Message \cup {NoMsg}
      BY <1>n
    <3> QED BY <2>1, <3>1, <1>n, AppendProperties
  <2>5. InHand = 1 /\ InHand' = 0 /\ Held' = Held
    BY <2>1, <2>2, <1>h, <1>p DEF Held
  <2>6. Len(lines) = Len(got) + Held + Len(queue) + 1
    BY <2>5 DEF PipeInv
  <2>7. ASSUME NEW i \in 1..Len(queue')
        PROVE  queue'[i] = Encrypted(lines[Len(got) + Held + i])
    <3>1. CASE i = Len(queue) + 1
      <4>1. Len(lines) = Len(got) + Held + i
        BY <3>1, <2>6, <1>n
      <4> QED BY <3>1, <4>1, <2>2, <2>4
    <3>2. CASE i \in 1..Len(queue)
      BY <3>2, <2>4 DEF PipeInv
    <3>3. i = Len(queue) + 1 \/ i \in 1..Len(queue)
      <4>1. Len(queue) \in Nat /\ i \in 1..Len(queue) + 1
        BY <2>4, <1>n
      <4> QED BY <4>1
    <3> QED BY <3>1, <3>2, <3>3
  <2>8. PipeInv'
    <3>1. Len(lines') = Len(got') + Held' + Len(queue') + InHand'
      BY <2>1, <2>4, <2>5, <2>6, <1>n, <1>p
    <3> QED BY <3>1, <2>1, <2>5, <2>7, <1>p DEF PipeInv
  <2> QED BY <2>3, <2>8
<1>7. CASE typing_stack_clear(k)
  <2>1. /\ pc[k] = "write" /\ pc'[k] = "idle" /\ call'[k] = "idle" /\ top' = 0
        /\ UNCHANGED queue
        /\ \/ call[k] = "done" /\ lines' = lines
           \/ call[k] = "pending" /\ lines' = Front(lines)
    BY <1>7, <1>n DEF typing_stack_clear, write_returns, Goto, Outbox!Return, Outbox!Fail
  <2>2. line = <<>> /\ Len(line) = 0
    BY <2>1, <1>i, EmptySeq DEF StageInv
  <2>3. top' = Len(line') /\ OnStack(line, top)'
    BY <2>1, <2>2, <1>p DEF OnStack
  <2>4. StageInv(k)' /\ InHand' = 0
    BY <2>1, <1>h DEF StageInv, Pushing
  <2>5. PipeInv'
    <3>1. CASE call[k] = "done" /\ lines' = lines
      BY <3>1, <2>1, <2>4, <1>h, <1>f
    <3>2. CASE call[k] = "pending" /\ lines' = Front(lines)
      <4>1. lines # <<>> /\ InHand = 1
        BY <3>2, <1>i, <1>h DEF StageInv
      <4>2. /\ Len(lines') = Len(lines) - 1
            /\ \A i \in 1..Len(lines) - 1 : lines'[i] = lines[i]
        BY <3>2, <4>1, <1>n, FrontFacts
      <4>3. Len(lines) - 1 = Len(got) + Held + Len(queue)
        BY <4>1, <1>n DEF PipeInv
      <4>4. /\ Len(lines') = Len(got) + Held + Len(queue) + InHand'
            /\ \A i \in 1..Len(got) + Held + Len(queue) : lines'[i] = lines[i]
        <5>1. Len(lines') = Len(got) + Held + Len(queue) + InHand'
          BY <4>2, <4>3, <2>4, <1>n
        <5>2. \A i \in 1..Len(got) + Held + Len(queue) : lines'[i] = lines[i]
          BY <4>2, <4>3
        <5> QED BY <5>1, <5>2
      <4> QED BY <4>4, <2>1, <1>p, <1>t, PipeFrame
    <3> QED BY <2>1, <3>1, <3>2
  <2> QED BY <2>3, <2>4, <2>5
<1> QED BY <1>1, <1>2, <1>3, <1>4, <1>5, <1>6, <1>7 DEF handler_step

\* Keyboards come and go between the events, and keep the line that was begun.
LEMMA QuietPlug ==
  ASSUME BoundsInv, OneBusy, LineInv, PipeInv, NEW k \in Keyboards,
         input_connect(k) \/ input_disconnect(k)
  PROVE  (OneBusy /\ LineInv /\ PipeInv)'
<1> USE Sets
<1>1. /\ UNCHANGED <<data, top, reg, ch, buf, queue, call, val, line, lines, got>>
      /\ \A j \in Keyboards : pc'[j] = pc[j] \/ {pc[j], pc'[j]} \subseteq {"unplugged", "idle"}
  BY DEF input_connect, input_disconnect, Goto, stack, outbox, history, BoundsInv, TypeInv
<1>2. \A j \in Keyboards : Busy(j)' <=> Busy(j)
  BY <1>1 DEF Busy
<1>3. OneBusy'
  BY <1>2 DEF OneBusy
<1>4. ASSUME NEW j \in Keyboards PROVE StageInv(j)'
  <2>1. StageInv(j)
    BY DEF LineInv
  <2> QED BY <2>1, <1>1 DEF StageInv, OnStack, Pushing
<1>5. LineInv'
  BY <1>1, <1>2, <1>4 DEF LineInv, OnStack
<1>6. Held' = Held /\ InHand' = InHand
  BY <1>1 DEF Held, InHand
<1> QED BY <1>1, <1>3, <1>5, <1>6 DEF PipeInv

\* A line goes from the outbox to the hands of the send thread, and from there to
\* client_broadcast.
LEMMA QuietRead ==
  ASSUME BoundsInv, OneBusy, LineInv, PipeInv, NEW s \in Senders, out_read(s)
  PROVE  (OneBusy /\ LineInv /\ PipeInv)'
<1> USE Sets
<1>t. TypeInv
  BY DEF BoundsInv
<1>n. /\ call \in [Callers -> {"idle", "pending", "done"}]
      /\ val \in [Callers -> Message \cup {NoMsg}]
      /\ queue \in Seq(Message \cup {NoMsg}) /\ got \in Seq(Message \cup {NoMsg})
      /\ Len(lines) \in Nat /\ Len(queue) \in Nat /\ Len(got) \in Nat /\ InHand \in Nat
  BY <1>t, Lengths DEF TypeInv
<1>p. /\ UNCHANGED <<data, top, pc, reg, ch, buf, line, lines>>
      /\ \A k \in Keyboards : call'[k] = call[k] /\ val'[k] = val[k]
  BY <1>n DEF out_read, Outbox!Invoke, Outbox!Dequeue, Outbox!Return, stack
<1>b. OneBusy' /\ LineInv' /\ InHand' = InHand
  <2>1. OneBusy'
    BY <1>p DEF OneBusy, Busy
  <2>2. InHand' = InHand
    BY <1>p DEF InHand
  <2>3. ASSUME NEW j \in Keyboards PROVE StageInv(j)'
    <3>1. StageInv(j)
      BY DEF LineInv
    <3> QED BY <3>1, <1>p DEF StageInv, OnStack, Pushing
  <2>4. LineInv'
    BY <1>p, <2>3 DEF LineInv, OnStack, Busy
  <2> QED BY <2>1, <2>2, <2>4
<1>h. /\ \A r \in Senders : r = s
      /\ Held = IF call[s] = "done" THEN 1 ELSE 0
      /\ Held' = IF call'[s] = "done" THEN 1 ELSE 0
  BY OneSender DEF Held
<1>1. CASE Outbox!Invoke(s, NoMsg) /\ UNCHANGED got
  <2>1. call[s] = "idle" /\ call'[s] = "pending" /\ UNCHANGED queue
    BY <1>1, <1>n DEF Outbox!Invoke
  <2>2. Held = 0 /\ Held' = 0
    BY <2>1, <1>h
  <2> QED BY <1>1, <2>1, <2>2, <1>b, <1>p, <1>h DEF PipeInv
<1>2. CASE Outbox!Dequeue(s) /\ UNCHANGED got
  <2>1. /\ call[s] = "pending" /\ call'[s] = "done" /\ queue # <<>>
        /\ val'[s] = Head(queue) /\ queue' = Tail(queue)
    BY <1>2, <1>n DEF Outbox!Dequeue
  <2>2. /\ Len(queue) # 0 /\ Head(queue) = queue[1] /\ Len(queue') = Len(queue) - 1
        /\ \A i \in 1..Len(queue') : queue'[i] = queue[i + 1]
    BY <2>1, <1>n, HeadTailProperties, EmptySeq
  <2>3. Held = 0 /\ Held' = 1
    BY <2>1, <1>h
  <2>4. /\ Len(lines) = Len(got) + Len(queue) + InHand
        /\ \A i \in 1..Len(queue) : queue[i] = Encrypted(lines[Len(got) + i])
    BY <2>3, <1>n DEF PipeInv
  <2>5. val'[s] = Encrypted(lines[Len(got) + 1])
    <3>1. 1 \in 1..Len(queue)
      BY <2>2, <1>n
    <3> QED BY <3>1, <2>1, <2>2, <2>4
  <2>6. ASSUME NEW i \in 1..Len(queue')
        PROVE  queue'[i] = Encrypted(lines[Len(got) + 1 + i])
    <3>1. i + 1 \in 1..Len(queue) /\ Len(got) + (i + 1) = Len(got) + 1 + i
      BY <2>2, <1>n
    <3>2. queue[i + 1] = Encrypted(lines[Len(got) + (i + 1)])
      BY <3>1, <2>4
    <3> QED BY <3>1, <3>2, <2>2
  <2>7. Len(lines) = Len(got) + 1 + Len(queue') + InHand
    BY <2>2, <2>4, <1>n
  <2> QED BY <1>2, <2>3, <2>5, <2>6, <2>7, <1>b, <1>p, <1>h DEF PipeInv
<1>3. CASE Outbox!Return(s) /\ got' = Append(got, val[s])
  <2>1. call[s] = "done" /\ call'[s] = "idle" /\ UNCHANGED queue
    BY <1>3, <1>n DEF Outbox!Return
  <2>2. Held = 1 /\ Held' = 0
    BY <2>1, <1>h
  <2>3. /\ Len(got') = Len(got) + 1 /\ got'[Len(got) + 1] = val[s]
        /\ \A i \in 1..Len(got) : got'[i] = got[i]
    <3>1. val[s] \in Message \cup {NoMsg}
      BY <1>n
    <3> QED BY <1>3, <3>1, <1>n, AppendProperties
  <2>4. /\ Len(lines) = Len(got) + 1 + Len(queue) + InHand
        /\ val[s] = Encrypted(lines[Len(got) + 1])
        /\ \A i \in 1..Len(got) : got[i] = Encrypted(lines[i])
        /\ \A i \in 1..Len(queue) : queue[i] = Encrypted(lines[Len(got) + 1 + i])
    BY <2>1, <2>2 DEF PipeInv
  <2>5. ASSUME NEW i \in 1..Len(got') PROVE got'[i] = Encrypted(lines[i])
    <3>1. CASE i = Len(got) + 1
      BY <3>1, <2>3, <2>4
    <3>2. CASE i \in 1..Len(got)
      BY <3>2, <2>3, <2>4
    <3>3. i = Len(got) + 1 \/ i \in 1..Len(got)
      BY <2>3, <1>n
    <3> QED BY <3>1, <3>2, <3>3
  <2>6. /\ Len(lines) = Len(got') + 0 + Len(queue) + InHand
        /\ \A i \in 1..Len(queue) : Len(got') + 0 + i = Len(got) + 1 + i
    BY <2>3, <2>4, <1>n
  <2>7. ASSUME NEW i \in 1..Len(queue) PROVE queue[i] = Encrypted(lines[Len(got') + 0 + i])
    BY <2>4, <2>6
  <2> QED BY <2>1, <2>2, <2>5, <2>6, <2>7, <1>b, <1>p, <1>h DEF PipeInv
<1> QED BY <1>1, <1>2, <1>3 DEF out_read

LEMMA QuietInit == Init => QuietInv
<1> SUFFICES ASSUME Init PROVE QuietInv
  OBVIOUS
<1> USE Sets
<1>1. /\ line = <<>> /\ lines = <<>> /\ got = <<>> /\ queue = <<>> /\ Len(<<>>) = 0 /\ top = 0
      /\ \A k \in Keyboards : pc[k] = "unplugged"
      /\ \A t \in Callers : call[t] = "idle"
  BY EmptySeq DEF Init, typing_stack_init, Outbox!Init
<1>2. OneBusy
  BY <1>1 DEF OneBusy, Busy
<1>3. LineInv
  BY <1>1 DEF LineInv, StageInv, OnStack, Pushing
<1>4. PipeInv
  BY <1>1 DEF PipeInv, Held, InHand
<1> QED BY <1>2, <1>3, <1>4 DEF QuietInv

LEMMA QuietStep == BoundsInv /\ QuietInv /\ [Next]_vars => QuietInv'
<1> SUFFICES ASSUME BoundsInv, QuietInv, [Next]_vars, ~ raced'
             PROVE  (OneBusy /\ LineInv /\ PipeInv)'
  BY DEF QuietInv
<1>1. CASE \E k \in Keyboards : \/ \E c \in Keys : typing_stack_push(k, c)
                                \/ typing_stack_pop(k) \/ typing_stack_size(k)
  BY <1>1, QuietPress
<1>2. CASE \E k \in Keyboards : handler_step(k)
  <2>1. raced' = raced
    BY <1>2 DEF handler_step, push_data, push_top, pop_top, memcpy, fifo_write, outbox_store,
      typing_stack_clear, history
  <2> QED BY <1>2, <2>1, QuietHandler DEF QuietInv
<1>3. CASE \E k \in Keyboards : input_connect(k) \/ input_disconnect(k)
  <2>1. raced' = raced
    BY <1>3 DEF input_connect, input_disconnect, history
  <2> QED BY <1>3, <2>1, QuietPlug DEF QuietInv
<1>4. CASE \E s \in Senders : out_read(s)
  <2>1. raced' = raced
    BY <1>4 DEF out_read
  <2> QED BY <1>4, <2>1, QuietRead DEF QuietInv
<1>5. CASE UNCHANGED vars
  <2>1. /\ UNCHANGED <<data, top, pc, reg, ch, buf, queue, call, val, line, lines, got, raced>>
    BY <1>5 DEF vars, stack, outbox, history
  <2>2. OneBusy /\ LineInv /\ PipeInv
    BY <2>1 DEF QuietInv
  <2>3. OneBusy'
    BY <2>1, <2>2 DEF OneBusy, Busy
  <2>4. ASSUME NEW k \in Keyboards PROVE StageInv(k)'
    <3>1. StageInv(k)
      BY <2>2 DEF LineInv
    <3> QED BY <3>1, <2>1 DEF StageInv, OnStack
  <2>5. LineInv'
    BY <2>1, <2>2, <2>4 DEF LineInv, OnStack, Busy
  <2>6. PipeInv'
    BY <2>1, <2>2 DEF PipeInv, Held, InHand
  <2> QED BY <2>3, <2>5, <2>6
<1> QED BY <1>1, <1>2, <1>3, <1>4, <1>5 DEF Next

\* The keyboard's path to the send thread is faithful while handlers run one at a
\* time: typing, Backspace, a full stack, a full outbox, signals and keyboards
\* that come and go in the middle of a line lose nothing but keys past
\* MSG_MAX_LEN and lines whose fifo_write was interrupted.
THEOREM SentIsTypedHolds == Spec => []SentIsTyped
<1>1. Init => BoundsInv /\ QuietInv
  BY BoundsInit, QuietInit
<1>2. BoundsInv /\ QuietInv /\ [Next]_vars => (BoundsInv /\ QuietInv)'
  BY BoundsStep, QuietStep
<1>3. BoundsInv /\ QuietInv => SentIsTyped
  <2> SUFFICES ASSUME BoundsInv, QuietInv, ~ raced
               PROVE  /\ Len(got) <= Len(lines)
                      /\ \A i \in 1..Len(got) : Plain(got[i]) = lines[i]
    BY DEF SentIsTyped
  <2>1. TypeInv /\ PipeInv
    BY DEF BoundsInv, QuietInv
  <2>2. Len(got) <= Len(lines) /\ Len(got) \in Nat /\ Len(lines) \in Nat
    <3>1. Len(lines) = Len(got) + Held + Len(queue) + InHand
      BY <2>1 DEF PipeInv
    <3> QED BY <2>1, <3>1, Lengths
  <2>3. ASSUME NEW i \in 1..Len(got) PROVE Plain(got[i]) = lines[i]
    <3>1. i \in 1..Len(lines)
      BY <2>2
    <3>2. lines[i] \in Seq(Keys)
      BY <3>1, <2>1, ElementOfSeq DEF TypeInv
    <3>3. got[i] = Encrypted(lines[i])
      BY <2>1 DEF PipeInv
    <3> QED BY <3>2, <3>3, EncryptedFacts
  <2> QED BY <2>2, <2>3
<1> QED BY <1>1, <1>2, <1>3, PTL DEF Spec
=============================================================================
