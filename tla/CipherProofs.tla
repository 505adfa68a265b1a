---------------------------- MODULE CipherProofs ----------------------------
(***************************************************************************)
(* kernel/cipher.c for every character and every buffer.                   *)
(***************************************************************************)
EXTENDS CipherLoop, SequenceTheorems, TLAPS

LEMMA Rot13Facts ==
  ASSUME NEW c \in Char
  PROVE  Rot13(c) \in Char /\ Rot13(Rot13(c)) = c
BY SMT DEF Rot13, Char, Upper, Lower

\* The arithmetic of the code and the two alphabets agree on every char.
THEOREM Rot13IsReference ==
  ASSUME NEW c \in Char
  PROVE  Rot13(c) = RefRot13(c)
<1>1. CASE c \in Upper
  <2>1. Rot13(c) \in Upper /\ (Rot13(c) = c + 13 \/ Rot13(c) = c - 13)
    BY <1>1, SMT DEF Rot13, Upper, Lower
  <2>2. \A d \in Upper : d = c + 13 \/ d = c - 13 => d = Rot13(c)
    BY <1>1, <2>1, SMT DEF Upper
  <2>3. Partner(c) = Rot13(c)
    BY <1>1, <2>1, <2>2 DEF Partner
  <2> QED BY <1>1, <2>3 DEF RefRot13
<1>2. CASE c \in Lower
  <2>1. Rot13(c) \in Lower /\ (Rot13(c) = c + 13 \/ Rot13(c) = c - 13) /\ c \notin Upper
    BY <1>2, SMT DEF Rot13, Upper, Lower
  <2>2. \A d \in Lower : d = c + 13 \/ d = c - 13 => d = Rot13(c)
    BY <1>2, <2>1, SMT DEF Lower
  <2>3. Partner(c) = Rot13(c)
    BY <1>2, <2>1, <2>2 DEF Partner
  <2> QED BY <1>2, <2>3 DEF RefRot13
<1>3. CASE c \notin Upper \cup Lower
  BY <1>3 DEF Rot13, RefRot13
<1> QED BY <1>1, <1>2, <1>3

\* Where the two passes stand: the positions before i have had one more pass
\* than the ones from i to len, and nothing past len has been touched.
LoopInv ==
  /\ orig \in [1..MSG_MAX_LEN -> Char] /\ buf \in [1..MSG_MAX_LEN -> Char]
  /\ len \in 0..MSG_MAX_LEN /\ i \in 0..len
  /\ pass \in {"encrypt", "decrypt", "done"}
  /\ \A k \in 1..MSG_MAX_LEN :
       buf[k] = IF k > len THEN orig[k]
                ELSE IF pass = "encrypt"
                     THEN IF k <= i THEN Rot13(orig[k]) ELSE orig[k]
                ELSE IF pass = "decrypt"
                     THEN IF k <= i THEN orig[k] ELSE Rot13(orig[k])
                ELSE orig[k]

LEMMA LoopStep == LoopInv /\ [Next]_vars => LoopInv'
<1> SUFFICES ASSUME LoopInv, [Next]_vars PROVE LoopInv'
  OBVIOUS
<1> USE LoopAssumption
<1>n. MSG_MAX_LEN \in Nat /\ len \in Nat /\ i \in Nat /\ len <= MSG_MAX_LEN /\ i <= len
  BY DEF LoopInv
<1>1. CASE iterate
  <2>1. i + 1 \in 1..MSG_MAX_LEN /\ i + 1 \in 0..len /\ i + 1 <= len
    BY <1>1, <1>n DEF iterate
  <2>2. buf' = [buf EXCEPT ![i + 1] = Rot13(buf[i + 1])]
    BY <1>1 DEF iterate
  <2>3. Rot13(buf[i + 1]) \in Char
    BY <2>1, Rot13Facts DEF LoopInv
  <2>4. \A k \in 1..MSG_MAX_LEN : Rot13(Rot13(orig[k])) = orig[k]
    BY Rot13Facts DEF LoopInv
  <2>5. buf' \in [1..MSG_MAX_LEN -> Char]
    BY <2>1, <2>2, <2>3 DEF LoopInv
  <2>6. ASSUME NEW k \in 1..MSG_MAX_LEN, k # i + 1
        PROVE  buf'[k] = buf[k] /\ (k <= i <=> k <= i + 1)
    BY <2>2, <2>6, <1>n DEF LoopInv
  <2>7. buf'[i + 1] = Rot13(buf[i + 1])
    BY <2>1, <2>2 DEF LoopInv
  <2>8. CASE pass = "encrypt"
    <3>1. buf[i + 1] = orig[i + 1]
      BY <2>1, <2>8, <1>n DEF LoopInv
    <3>2. ASSUME NEW k \in 1..MSG_MAX_LEN
          PROVE  buf'[k] = IF k > len THEN orig[k]
                           ELSE IF k <= i + 1 THEN Rot13(orig[k]) ELSE orig[k]
      <4>1. CASE k = i + 1
        BY <4>1, <3>1, <2>1, <2>7, <1>n
      <4>2. CASE k # i + 1
        BY <4>2, <2>6, <2>8 DEF LoopInv
      <4> QED BY <4>1, <4>2
    <3> QED BY <1>1, <2>1, <2>5, <2>8, <3>2 DEF LoopInv, iterate
  <2>9. CASE pass = "decrypt"
    <3>1. buf[i + 1] = Rot13(orig[i + 1])
      BY <2>1, <2>9, <1>n DEF LoopInv
    <3>2. ASSUME NEW k \in 1..MSG_MAX_LEN
          PROVE  buf'[k] = IF k > len THEN orig[k]
                           ELSE IF k <= i + 1 THEN orig[k] ELSE Rot13(orig[k])
      <4>1. CASE k = i + 1
        BY <4>1, <3>1, <2>1, <2>4, <2>7, <1>n
      <4>2. CASE k # i + 1
        BY <4>2, <2>6, <2>9 DEF LoopInv
      <4> QED BY <4>1, <4>2
    <3> QED BY <1>1, <2>1, <2>5, <2>9, <3>2 DEF LoopInv, iterate
  <2> QED BY <1>1, <2>8, <2>9 DEF iterate, LoopInv
<1>2. CASE return
  <2>1. i = len /\ 0 \in 0..len
    BY <1>2, <1>n DEF return
  <2>2. CASE pass = "encrypt"
    <3>1. ASSUME NEW k \in 1..MSG_MAX_LEN
          PROVE  buf[k] = IF k > len THEN orig[k]
                          ELSE IF k <= 0 THEN orig[k] ELSE Rot13(orig[k])
      BY <2>1, <2>2, <1>n DEF LoopInv
    <3> QED BY <1>2, <2>1, <2>2, <3>1 DEF LoopInv, return
  <2>3. CASE pass = "decrypt"
    <3>1. ASSUME NEW k \in 1..MSG_MAX_LEN PROVE buf[k] = orig[k]
      BY <2>1, <2>3, <1>n DEF LoopInv
    <3> QED BY <1>2, <2>1, <2>3, <3>1 DEF LoopInv, return
  <2> QED BY <1>2, <2>2, <2>3 DEF LoopInv, return
<1>3. CASE UNCHANGED vars
  BY <1>3 DEF LoopInv, vars
<1> QED BY <1>1, <1>2, <1>3 DEF Next

LEMMA LoopInit == Init => LoopInv
<1> SUFFICES ASSUME Init PROVE LoopInv
  OBVIOUS
<1>1. orig \in [1..MSG_MAX_LEN -> Char]
  BY LoopAssumption DEF Init
<1>2. \A k \in 1..MSG_MAX_LEN : ~(k <= 0)
  BY LoopAssumption
<1>3. len \in 0..MSG_MAX_LEN /\ 0 \in 0..len
  BY LoopAssumption DEF Init
<1> QED BY <1>1, <1>2, <1>3 DEF Init, LoopInv

\* Encrypting in the sender's kernel and decrypting in the receiver's gives
\* back every message, of any length and over any characters.
THEOREM RoundTripHolds == Spec => []RoundTrip
<1>1. LoopInv => RoundTrip
  <2> SUFFICES ASSUME LoopInv, pass = "done" PROVE buf = orig
    BY DEF RoundTrip
  <2>1. \A k \in 1..MSG_MAX_LEN : buf[k] = orig[k]
    BY DEF LoopInv
  <2>2. orig \in [1..MSG_MAX_LEN -> Char] /\ buf \in [1..MSG_MAX_LEN -> Char]
    BY DEF LoopInv
  <2>3. /\ orig = [k \in 1..MSG_MAX_LEN |-> orig[k]]
        /\ buf = [k \in 1..MSG_MAX_LEN |-> buf[k]]
    BY <2>2
  <2>4. [k \in 1..MSG_MAX_LEN |-> buf[k]] = [k \in 1..MSG_MAX_LEN |-> orig[k]]
    BY <2>1, Zenon
  <2> QED BY <2>3, <2>4, Zenon
<1> QED BY <1>1, LoopInit, LoopStep, PTL DEF Spec

\* What lies in the outbox is the reference encryption of what was typed, of
\* any length and over any characters.
THEOREM StoredIsReferenceHolds == Spec => []StoredIsReference
<1>1. LoopInv => StoredIsReference
  <2> SUFFICES ASSUME LoopInv, pass = "decrypt", i = 0
               PROVE  /\ buf = rot13_encrypt(orig, len)
                      /\ \A k \in 1..MSG_MAX_LEN :
                           buf[k] = IF k <= len THEN RefRot13(orig[k]) ELSE orig[k]
    BY DEF StoredIsReference
  <2>1. /\ MSG_MAX_LEN \in Nat /\ len \in Nat
        /\ orig \in [1..MSG_MAX_LEN -> Char] /\ buf \in [1..MSG_MAX_LEN -> Char]
    BY LoopAssumption DEF LoopInv
  <2>2. \A k \in 1..MSG_MAX_LEN :
          buf[k] = IF k <= len THEN Rot13(orig[k]) ELSE orig[k]
    BY <2>1 DEF LoopInv
  <2>3. orig \in Seq(Char)
    BY <2>1, SeqDef
  <2>4. Len(orig) = MSG_MAX_LEN
    BY <2>1, <2>3, LenProperties
  <2>5. buf = rot13_encrypt(orig, len)
    BY <2>1, <2>2, <2>4 DEF rot13_encrypt
  <2>6. \A k \in 1..MSG_MAX_LEN : Rot13(orig[k]) = RefRot13(orig[k])
    BY <2>1, Rot13IsReference
  <2> QED BY <2>2, <2>5, <2>6
<1> QED BY <1>1, LoopInit, LoopStep, PTL DEF Spec
=============================================================================
