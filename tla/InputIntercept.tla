--------------------------- MODULE InputIntercept ---------------------------
(***************************************************************************)
(* From the keyboard to the send thread: input_event_handler of            *)
(* kernel/input_intercept.c on the shared current_stack                    *)
(* (kernel/typing_stack.c), the outbox as BoundedFifo promises it, and     *)
(* keycipher_out_read, through which direct_send_loop drains it.           *)
(*                                                                         *)
(* The input core serialises the events of one keyboard, not those of two: *)
(* current_stack has no lock, so its accesses are separate steps.  top is  *)
(* loaded once per call (gcc -O2) and the two stores of typing_stack_push  *)
(* become visible in either order.                                         *)
(***************************************************************************)
EXTENDS Cipher, SequencesExt, FiniteSets

CONSTANTS Keyboards,     \* devices that produce EV_KEY events
          Senders,       \* the thread of direct_send_loop, blocked in
                         \* read(/dev/keycipher_out): main creates only one
          Keys,          \* the characters typed
          Kinds,         \* kinds of key the users press
          Signals,       \* whether a sleeping fifo_write may be interrupted
          MSG_MAX_LEN, FIFO_SIZE,
          NoMsg,
          MaxStrokes     \* bound on the keys pressed

\* The values keycode_to_ascii gives; the other keys are ignored.
keycode_to_ascii == (97..122) \cup (48..57) \cup {32, 46, 44, 45}

ASSUME InputAssumption ==
  /\ Keys \subseteq keycode_to_ascii
  /\ Kinds \subseteq {"key", "backspace", "enter"}
  /\ MSG_MAX_LEN \in Nat \ {0} /\ FIFO_SIZE \in Nat \ {0}
  /\ Signals \in BOOLEAN /\ MaxStrokes \in Nat
  /\ Keyboards \cap Senders = {}
  /\ IsFiniteSet(Senders) /\ Cardinality(Senders) <= 1

VARIABLES data, top,         \* current_stack
          pc, reg, ch, buf,  \* per keyboard: stage, top as loaded, character, msg.data
          queue, call, val,  \* the outbox
          line,              \* history: the line on the user's mind
          lines,             \* history: the lines ended with Enter and not lost
          lost,              \* history: the lines lost to a signal
          got,               \* history: the messages the send thread received
          raced,             \* history: two handlers have run at once
          strokes            \* history: keys pressed

stack   == <<data, top>>
outbox  == <<queue, call, val>>
history == <<line, lines, lost, got, raced, strokes>>
vars    == <<stack, pc, reg, ch, buf, outbox, history>>

\* Message contents, in cipher text; 0 is a byte of current_stack never written.
Code    == {Rot13(c) : c \in Keys} \cup {0}
Message == UNION {[1..n -> Code] : n \in 0..MSG_MAX_LEN}

Outbox == INSTANCE BoundedFifo WITH
            Msg <- Message, Writers <- Keyboards, Readers <- Senders

Stages == {"unplugged", "idle", "push", "push_data", "push_top", "pop", "copy", "write"}

typing_stack_init ==
  /\ data = [i \in 0..MSG_MAX_LEN - 1 |-> 0]
  /\ top = 0

Init ==
  /\ typing_stack_init
  /\ Outbox!Init
  /\ pc = [k \in Keyboards |-> "unplugged"]
  /\ reg = [k \in Keyboards |-> 0]
  /\ ch = [k \in Keyboards |-> 0]
  /\ buf = [k \in Keyboards |-> <<>>]
  /\ line = <<>> /\ lines = <<>> /\ lost = 0 /\ got = <<>>
  /\ raced = FALSE /\ strokes = 0

Goto(k, stage) == pc' = [pc EXCEPT ![k] = stage]

(***************************************************************************)
(* Keyboards come and go.  An input_connect that fails undoes what it did; *)
(* input_unregister_handle waits for the handler to return.  current_stack *)
(* belongs to no keyboard and keeps a line that was begun.                 *)
(***************************************************************************)
input_connect(k) ==
  /\ pc[k] = "unplugged"
  /\ Goto(k, "idle")
  /\ UNCHANGED <<stack, reg, ch, buf, outbox, history>>

input_disconnect(k) ==
  /\ pc[k] = "idle"
  /\ Goto(k, "unplugged")
  /\ UNCHANGED <<stack, reg, ch, buf, outbox, history>>

\* A key goes down on keyboard k while its handler is free.
press(k, kind) ==
  /\ kind \in Kinds
  /\ pc[k] = "idle"
  /\ strokes < MaxStrokes
  /\ strokes' = strokes + 1
  /\ raced' = (raced \/ \E j \in Keyboards : pc[j] \notin {"unplugged", "idle"})

(***************************************************************************)
(* A character: rot13_encrypt(&ch, 1), then typing_stack_push              *)
(***************************************************************************)
\* Mutant: the stack is not checked for room.
typing_stack_push_NoLimit(k, c) ==
  /\ press(k, "key")
  /\ ch' = [ch EXCEPT ![k] = rot13_encrypt(<<c>>, 1)[1]]
  /\ reg' = [reg EXCEPT ![k] = top]
  /\ line' = IF Len(line) < MSG_MAX_LEN THEN Append(line, c) ELSE line
  /\ Goto(k, "push")
  /\ UNCHANGED <<stack, buf, outbox, lines, lost, got>>

\* A full stack ignores the key.
typing_stack_push(k, c) ==
  /\ press(k, "key")
  /\ ch' = [ch EXCEPT ![k] = rot13_encrypt(<<c>>, 1)[1]]
  /\ reg' = [reg EXCEPT ![k] = top]
  /\ line' = IF Len(line) < MSG_MAX_LEN THEN Append(line, c) ELSE line
  /\ Goto(k, IF top >= MSG_MAX_LEN THEN "idle" ELSE "push")
  /\ UNCHANGED <<stack, buf, outbox, lines, lost, got>>

push_data(k) ==
  /\ pc[k] \in {"push", "push_data"}
  /\ data' = [data EXCEPT ![reg[k]] = ch[k]]
  /\ Goto(k, IF pc[k] = "push" THEN "push_top" ELSE "idle")
  /\ UNCHANGED <<top, reg, ch, buf, outbox, history>>

push_top(k) ==
  /\ pc[k] \in {"push", "push_top"}
  /\ top' = reg[k] + 1
  /\ Goto(k, IF pc[k] = "push" THEN "push_data" ELSE "idle")
  /\ UNCHANGED <<data, reg, ch, buf, outbox, history>>

(***************************************************************************)
(* Backspace: typing_stack_pop, the character is dropped                   *)
(***************************************************************************)
typing_stack_pop(k) ==
  /\ press(k, "backspace")
  /\ reg' = [reg EXCEPT ![k] = top]
  /\ line' = IF line = <<>> THEN line ELSE Front(line)
  /\ Goto(k, IF top = 0 THEN "idle" ELSE "pop")
  /\ UNCHANGED <<stack, ch, buf, outbox, lines, lost, got>>

pop_top(k) ==
  /\ pc[k] = "pop"
  /\ top' = reg[k] - 1
  /\ Goto(k, "idle")
  /\ UNCHANGED <<data, reg, ch, buf, outbox, history>>

(***************************************************************************)
(* Enter: typing_stack_size, memcpy, fifo_write, typing_stack_clear        *)
(***************************************************************************)
typing_stack_size(k) ==
  /\ press(k, "enter")
  /\ reg' = [reg EXCEPT ![k] = top]
  /\ buf' = [buf EXCEPT ![k] = <<>>]
  /\ lines' = Append(lines, line)
  /\ line' = <<>>
  /\ Goto(k, "copy")
  /\ UNCHANGED <<stack, ch, outbox, lost, got>>

memcpy(k) ==
  /\ pc[k] = "copy"
  /\ Len(buf[k]) < reg[k]
  /\ buf' = [buf EXCEPT ![k] = Append(@, data[Len(@)])]
  /\ UNCHANGED <<stack, pc, reg, ch, outbox, history>>

\* Mutant: an empty line is not written.
fifo_write_SkipEmpty(k) ==
  /\ pc[k] = "copy"
  /\ Len(buf[k]) = reg[k]
  /\ IF reg[k] = 0 THEN Goto(k, "idle") /\ UNCHANGED outbox
     ELSE Outbox!Invoke(k, buf[k]) /\ Goto(k, "write")
  /\ UNCHANGED <<stack, reg, ch, buf, history>>

fifo_write(k) ==
  /\ pc[k] = "copy"
  /\ Len(buf[k]) = reg[k]
  /\ Outbox!Invoke(k, buf[k])
  /\ Goto(k, "write")
  /\ UNCHANGED <<stack, reg, ch, buf, history>>

\* The outbox stores the message (inside fifo_write).
outbox_store(k) ==
  /\ Outbox!Enqueue(k)
  /\ UNCHANGED <<stack, pc, reg, ch, buf, history>>

\* A signal reaches only a writer that sleeps: every slot is then in use, by a
\* message, by another writer, or by a reader that has not given it back.
Asleep(k) ==
  Len(queue) + Cardinality({t \in (Keyboards \ {k}) : call[t] = "pending"})
    + Cardinality({t \in Senders : call[t] = "done"}) >= FIFO_SIZE

\* fifo_write returns 0, or -ERESTARTSYS and the line is nowhere.
write_returns(k) ==
  \/ Outbox!Return(k) /\ UNCHANGED <<lines, lost>>
  \/ /\ Signals /\ Asleep(k) /\ Outbox!Fail(k)
     /\ lines' = Front(lines) /\ lost' = lost + 1

\* Mutant: the stack keeps its contents.
typing_stack_clear_Forgotten(k) ==
  /\ pc[k] = "write"
  /\ write_returns(k)
  /\ Goto(k, "idle")
  /\ UNCHANGED <<stack, reg, ch, buf, line, got, raced, strokes>>

\* The result of fifo_write is not looked at.
typing_stack_clear(k) ==
  /\ pc[k] = "write"
  /\ write_returns(k)
  /\ top' = 0
  /\ Goto(k, "idle")
  /\ UNCHANGED <<data, reg, ch, buf, line, got, raced, strokes>>

(***************************************************************************)
(* keycipher_out_read, called by direct_send_loop                          *)
(***************************************************************************)
out_read(s) ==
  /\ \/ Outbox!Invoke(s, NoMsg) /\ UNCHANGED got
     \/ Outbox!Dequeue(s) /\ UNCHANGED got
     \/ Outbox!Return(s) /\ got' = Append(got, val[s])
  /\ UNCHANGED <<stack, pc, reg, ch, buf, line, lines, lost, raced, strokes>>

-----------------------------------------------------------------------------
handler_step(k) ==
  \/ push_data(k) \/ push_top(k) \/ pop_top(k)
  \/ memcpy(k) \/ fifo_write(k) \/ outbox_store(k) \/ typing_stack_clear(k)

Next ==
  \/ \E k \in Keyboards : \E c \in Keys : typing_stack_push(k, c)
  \/ \E k \in Keyboards : typing_stack_pop(k) \/ typing_stack_size(k)
  \/ \E k \in Keyboards : handler_step(k)
  \/ \E k \in Keyboards : input_connect(k) \/ input_disconnect(k)
  \/ \E s \in Senders : out_read(s)

Spec == Init /\ [][Next]_vars

(***************************************************************************)
(* A handler that has started runs on, the send thread reads again and     *)
(* again.  Nobody has to press a key.                                      *)
(***************************************************************************)
FairSpec ==
  /\ Spec
  /\ \A k \in Keyboards : WF_vars(handler_step(k))
  /\ \A s \in Senders : WF_vars(out_read(s))

(***************************************************************************)
(* Properties                                                              *)
(***************************************************************************)
\* However the handlers of several keyboards interleave on the unlocked stack,
\* top stays within the array and no store of typing_stack_push or load of
\* memcpy falls outside it.
StackInBounds ==
  /\ top \in 0..MSG_MAX_LEN
  /\ \A k \in Keyboards :
       /\ pc[k] \in {"push", "push_data"} => reg[k] \in DOMAIN data
       /\ Len(buf[k]) <= MSG_MAX_LEN

Plain(m) == rot13_decrypt(m, Len(m))

\* As long as no two handlers have run at once, from however many keyboards: the
\* messages the send thread gets are the lines the user typed and edited with
\* Backspace, in order, each once, and decrypt to what the user meant.  Keys past
\* MSG_MAX_LEN and lines whose write a signal interrupted are all that is missing.
SentIsTyped ==
  ~raced => /\ Len(got) <= Len(lines)
            /\ \A i \in 1..Len(got) : Plain(got[i]) = lines[i]

\* Every line whose fifo_write was not interrupted reaches the send thread, also
\* the empty ones and those of handlers that raced.
CommittedIsSent == []<>(Len(got) = Len(lines))
=============================================================================
