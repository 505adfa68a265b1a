----------------------------- MODULE WebProofs -----------------------------
(***************************************************************************)
(* Proofs about Web, for any set of messages, any number of pages and      *)
(* requests, and any size of the inbox and of the list.                    *)
(***************************************************************************)
EXTENDS Web, SequenceTheorems, FiniteSetTheorems, TLAPS

\* What the counts of ListCoversInbox rest on: the stages of the API thread, and
\* a message is in one place on its way to the list.
WebInv ==
  /\ unsent \subseteq Messages
  /\ queue \in Seq(Messages)
  /\ list \in Seq(Messages \cup {Old})
  /\ IsFiniteSet(adding) /\ adding \subseteq Messages /\ adding \cap unsent = {}
  /\ unlisted \in Nat /\ todo \in Nat /\ rival \in BOOLEAN
  /\ apc \in {"accept", "take", "pop"}

\* Before a read the handler has a message to read, and unless the terminal read
\* one meanwhile, READ ALL has never more to read than the inbox holds.
CountedIsThere ==
  /\ apc = "take" => todo # 0
  /\ apc # "accept" /\ api = ReadAll /\ ~rival => todo <= Len(queue)

\* READ ALL is a request of its own, not one of a page.
LEMMA ReadAllIsNoRead == \A s : kind(s) = "read" => s # ReadAll
<1>1. ReadAll[2] = "all"
  BY DEF ReadAll
<1>2. ReadAll[2] \notin Polls /\ ReadAll[2] \notin Reads
  BY <1>1, WebAssumption
<1>3. kind(ReadAll) = "all"
  BY <1>2, Zenon DEF kind
<1> QED BY <1>3

(***************************************************************************)
(* One lemma per step of a thread; the others leave the inboxes alone.     *)
(***************************************************************************)
\* What the properties look at, and what only the pages and requests change.
watched == <<unsent, queue, adding, list, api, apc, todo, rival, unlisted>>

Good == WebInv /\ CountedIsThere /\ ListCoversInbox

LEMMA TypesOf ==
  ASSUME WebInv
  PROVE  /\ queue \in Seq(Messages) /\ Len(queue) \in Nat
         /\ list \in Seq(Messages \cup {Old}) /\ Len(list) \in Nat
         /\ (list # <<>> => Len(list) # 0) /\ Len(<<>>) = 0
         /\ Cardinality(adding) \in Nat
         /\ unlisted \in Nat /\ todo \in Nat /\ rival \in BOOLEAN
  BY LenProperties, EmptySeq, FS_CardinalityType DEF WebInv

LEMMA WriteStep ==
  ASSUME Good, NEW m \in Messages, keycipher_in_write(m)
  PROVE  Good'
<1>1. /\ queue' \in Seq(Messages) /\ Len(queue') = Len(queue) + 1
      /\ Len(queue) \in Nat
  BY AppendProperties, TypesOf DEF Good, WebInv, keycipher_in_write
<1>2. /\ IsFiniteSet(adding') /\ Cardinality(adding') = Cardinality(adding) + 1
      /\ Cardinality(adding) \in Nat
  BY FS_AddElement, TypesOf DEF Good, WebInv, keycipher_in_write
<1>3. UNCHANGED <<list, api, apc, todo, rival, unlisted>>
  BY DEF keycipher_in_write, thread, past
<1>4. WebInv'
  BY <1>1, <1>2, <1>3 DEF Good, WebInv, keycipher_in_write
<1>5. CountedIsThere'
  BY <1>1, <1>3, TypesOf DEF Good, CountedIsThere
<1>6. ListCoversInbox'
  BY <1>1, <1>2, <1>3, TypesOf DEF Good, ListCoversInbox
<1> QED BY <1>4, <1>5, <1>6 DEF Good

LEMMA AddStep ==
  ASSUME Good, NEW m \in Messages, direct_add_to_inbox(m)
  PROVE  Good'
<1>1. /\ IsFiniteSet(adding') /\ Cardinality(adding') = Cardinality(adding) - 1
      /\ Cardinality(adding) \in Nat
  BY FS_RemoveElement, TypesOf DEF Good, WebInv, direct_add_to_inbox
<1>2. /\ list' \in Seq(Messages \cup {Old}) /\ unlisted' \in Nat
      /\ Len(list') + unlisted' = Len(list) + unlisted + 1
      /\ Len(list') \in Nat
  <2>1. CASE list' = Append(list, m) /\ unlisted' = unlisted
    <3>1. m \in Messages \cup {Old}
      OBVIOUS
    <3>2. /\ list \in Seq(Messages \cup {Old}) /\ unlisted \in Nat
          /\ Len(list) \in Nat
      BY TypesOf DEF Good
    <3>3. list' \in Seq(Messages \cup {Old}) /\ Len(list') = Len(list) + 1
      BY <2>1, <3>1, <3>2, AppendProperties
    <3> QED BY <2>1, <3>2, <3>3
  <2>2. CASE unlisted' = unlisted + 1 /\ list' = list
    <3>1. list \in Seq(Messages \cup {Old}) /\ unlisted \in Nat /\ Len(list) \in Nat
      BY TypesOf DEF Good
    <3> QED BY <2>2, <3>1
  <2> QED BY <2>1, <2>2 DEF direct_add_to_inbox
<1>3. UNCHANGED <<unsent, queue, api, apc, todo, rival>>
  BY DEF direct_add_to_inbox, thread, past
<1>4. WebInv'
  BY <1>1, <1>2, <1>3 DEF Good, WebInv, direct_add_to_inbox
<1>5. CountedIsThere'
  BY <1>3 DEF Good, CountedIsThere
<1>6. ListCoversInbox'
  BY <1>1, <1>2, <1>3, TypesOf DEF Good, ListCoversInbox
<1> QED BY <1>4, <1>5, <1>6 DEF Good

LEMMA TerminalStep ==
  ASSUME Good, terminal_read
  PROVE  Good'
<1>1. /\ queue' \in Seq(Messages) /\ Len(queue') = Len(queue) - 1
  BY HeadTailProperties, TypesOf DEF Good, terminal_read
<1>2. UNCHANGED <<unsent, adding, list, api, apc, todo, unlisted>>
  BY DEF terminal_read, thread
<1>3. rival' = (rival \/ api = ReadAll)
  BY DEF terminal_read
<1>4. WebInv'
  BY <1>1, <1>2, <1>3 DEF Good, WebInv
<1>5. CountedIsThere'
  BY <1>2, <1>3 DEF Good, CountedIsThere
<1>6. ListCoversInbox'
  BY <1>1, <1>2, TypesOf DEF Good, ListCoversInbox
<1> QED BY <1>4, <1>5, <1>6 DEF Good

LEMMA ReadStep ==
  ASSUME Good, keycipher_in_read
  PROVE  Good'
<1>1. /\ queue' \in Seq(Messages) /\ Len(queue') = Len(queue) - 1
      /\ Len(queue) \in Nat
  BY HeadTailProperties, TypesOf DEF Good, keycipher_in_read
<1>2. /\ UNCHANGED <<unsent, adding, list, api, rival, unlisted>>
      /\ apc = "take" /\ apc' = "pop" /\ todo' = todo - 1
  BY DEF keycipher_in_read, past
<1>3. todo' \in Nat
  BY <1>2, TypesOf DEF Good, CountedIsThere
<1>4. WebInv'
  BY <1>1, <1>2, <1>3 DEF Good, WebInv
<1>5. CountedIsThere'
  BY <1>1, <1>2, TypesOf DEF Good, CountedIsThere
<1>6. ListCoversInbox'
  BY <1>1, <1>2, TypesOf DEF Good, ListCoversInbox
<1> QED BY <1>4, <1>5, <1>6 DEF Good

LEMMA PopStep ==
  ASSUME Good, direct_pop_inbox_front
  PROVE  Good'
<1>1. /\ list' \in Seq(Messages \cup {Old}) /\ Len(list') \in Nat
      /\ Len(list') >= Len(list) - 1
  BY HeadTailProperties, TypesOf DEF Good, direct_pop_inbox_front
<1>2. /\ UNCHANGED <<unsent, queue, adding, unlisted>>
      /\ apc = "pop" /\ rival' = (rival /\ todo # 0)
  BY DEF direct_pop_inbox_front
<1>3. \/ todo = 0 /\ apc' = "accept" /\ todo' = 0
      \/ todo # 0 /\ apc' = "take" /\ todo' = todo /\ api' = api
  BY DEF direct_pop_inbox_front, answer, read_messages
<1>4. WebInv'
  BY <1>1, <1>2, <1>3 DEF Good, WebInv
<1>5. CountedIsThere'
  BY <1>2, <1>3 DEF Good, WebInv, CountedIsThere
<1>6. ListCoversInbox'
  BY <1>1, <1>2, <1>3, TypesOf DEF Good, ListCoversInbox
<1> QED BY <1>4, <1>5, <1>6 DEF Good

\* accept and the start of a handler.
LEMMA ServeStep ==
  ASSUME Good, NEW s \in Slots, api_server_start(s)
  PROVE  Good'
<1>1. UNCHANGED <<unsent, queue, adding, list, rival, unlisted>> /\ apc = "accept"
  BY DEF api_server_start, handle_get_messages, handle_read_one, handle_read_all,
         serves, inboxes, past
<1>2. \/ apc' = "accept" /\ todo' = 0
      \/ apc' = "take" /\ todo' = 1 /\ api' # ReadAll
      \/ apc' = "take" /\ todo' = Len(queue) /\ queue # <<>>
  <2>1. CASE handle_get_messages(s)
    BY <2>1 DEF handle_get_messages, answer
  <2>2. CASE handle_read_one(s)
    BY <2>2, ReadAllIsNoRead DEF handle_read_one, serves, read_messages
  <2>3. CASE handle_read_all(s)
    BY <2>3 DEF handle_read_all, answer, read_messages
  <2> QED BY <2>1, <2>2, <2>3 DEF api_server_start
<1>3. Len(queue) \in Nat /\ (queue # <<>> => Len(queue) # 0)
  BY EmptySeq, LenProperties DEF Good, WebInv
<1>4. WebInv'
  BY <1>1, <1>2, <1>3 DEF Good, WebInv
<1>5. CountedIsThere'
  BY <1>1, <1>2, <1>3 DEF Good, CountedIsThere
<1>6. ListCoversInbox'
  BY <1>1, <1>2, TypesOf DEF Good, ListCoversInbox
<1> QED BY <1>4, <1>5, <1>6 DEF Good

\* Pages, the bridge and the clients change none of this.
LEMMA PageStep ==
  /\ \A p \in Pages, x \in Polls : loadInbox(p, x) \/ renderInbox(p, x) => UNCHANGED watched
  /\ \A p \in Pages, x \in Reads : readNext(p, x) => UNCHANGED watched
  /\ \A s \in Slots : show_plaintext(s) => UNCHANGED watched
  /\ post_read_all => UNCHANGED watched
  BY DEF loadInbox, renderInbox, readNext, show_plaintext, post_read_all, watched,
         inboxes, thread, past

LEMMA IdleStep ==
  ASSUME Good, UNCHANGED watched
  PROVE  Good'
  BY DEF Good, WebInv, CountedIsThere, ListCoversInbox, watched

LEMMA GoodInit == Init => Good
<1> SUFFICES ASSUME Init PROVE Good
  OBVIOUS
<1>1. IsFiniteSet({}) /\ Cardinality({}) = 0
  BY FS_EmptySet
<1>2. list \in Seq(Messages \cup {Old}) /\ queue \in Seq(Messages)
  <2>1. <<>> \in Seq(Messages) /\ <<>> \in Seq(Messages \cup {Old})
    BY EmptySeq
  <2>2. <<Old>> \in Seq(Messages \cup {Old})
    OBVIOUS
  <2> QED BY <2>1, <2>2 DEF Init
<1>3. Len(queue) = 0 /\ Len(list) \in Nat
  BY <1>2, LenProperties, EmptySeq DEF Init
<1>4. WebInv
  BY <1>1, <1>2 DEF Init, WebInv
<1> QED BY <1>1, <1>3, <1>4 DEF Init, Good, CountedIsThere, ListCoversInbox

LEMMA GoodStep == Good /\ [Next]_vars => Good'
<1> SUFFICES ASSUME Good, [Next]_vars PROVE Good'
  OBVIOUS
<1>1. CASE \E m \in Messages : keycipher_in_write(m) \/ direct_add_to_inbox(m)
  BY <1>1, WriteStep, AddStep
<1>2. CASE terminal_read
  BY <1>2, TerminalStep
<1>3. CASE \/ post_read_all
           \/ \E p \in Pages, x \in Polls : loadInbox(p, x) \/ renderInbox(p, x)
           \/ \E p \in Pages, x \in Reads : readNext(p, x)
           \/ \E s \in Slots : kind(s) # "messages" /\ show_plaintext(s)
  BY <1>3, PageStep, IdleStep
<1>4. CASE \E s \in Slots : api_server_start(s)
  BY <1>4, ServeStep
<1>5. CASE read_step
  BY <1>5, ReadStep, PopStep DEF read_step
<1>6. CASE UNCHANGED vars
  BY <1>6, IdleStep DEF vars, watched, inboxes, thread, past
<1> QED BY <1>1, <1>2, <1>3, <1>4, <1>5, <1>6 DEF Next

(***************************************************************************)
(* The theorems                                                            *)
(***************************************************************************)
\* The daemon's list has an entry for each message that waits in the kernel, for
\* any size of both and in every interleaving of the API thread, the terminal and
\* the connection threads; what is missing was refused by the full list.
THEOREM ListCoversInboxHolds == Spec => []ListCoversInbox
<1>1. Good => ListCoversInbox
  BY DEF Good
<1> QED BY <1>1, GoodInit, GoodStep, PTL DEF Spec

\* READ ALL sleeps in read() only after the terminal took a message that it had
\* counted: connection threads only add messages, and no page can read meanwhile.
THEOREM ReadAllFindsMessagesHolds == Spec => []ReadAllFindsMessages
<1>1. Good => ReadAllFindsMessages
  <2> SUFFICES ASSUME Good, apc = "take", api = ReadAll, queue = <<>>, ~rival
               PROVE  FALSE
    BY DEF ReadAllFindsMessages
  <2>1. todo # 0 /\ todo <= Len(queue) /\ todo \in Nat /\ Len(queue) = 0
    BY TypesOf DEF Good, CountedIsThere, WebInv
  <2> QED BY <2>1
<1> QED BY <1>1, GoodInit, GoodStep, PTL DEF Spec
=============================================================================
