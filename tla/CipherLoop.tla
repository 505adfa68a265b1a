----------------------------- MODULE CipherLoop -----------------------------
(***************************************************************************)
(* rot13_encrypt of kernel/cipher.c as the loop it is: in place, one       *)
(* character an iteration, over the first len characters of an array that  *)
(* is longer.  The sender's kernel runs it once and the receiver's once    *)
(* more (keycipher_in_read calls rot13_decrypt).                           *)
(***************************************************************************)
EXTENDS Cipher

CONSTANTS Alphabet,    \* characters that occur in messages
          MSG_MAX_LEN  \* length of the array

ASSUME LoopAssumption == Alphabet \subseteq Char /\ MSG_MAX_LEN \in Nat

VARIABLES orig,        \* what the user typed
          buf, len, i,
          pass         \* "encrypt", "decrypt", "done"

vars == <<orig, buf, len, i, pass>>

Init ==
  /\ orig \in [1..MSG_MAX_LEN -> Alphabet]
  /\ buf = orig
  /\ len \in 0..MSG_MAX_LEN
  /\ i = 0
  /\ pass = "encrypt"

iterate ==
  /\ pass # "done" /\ i < len
  /\ buf' = [buf EXCEPT ![i + 1] = Rot13(@)]
  /\ i' = i + 1
  /\ UNCHANGED <<orig, len, pass>>

\* Mutant: the second pass starts where the first one ended.
return_KeepIndex ==
  /\ pass # "done" /\ i >= len
  /\ pass' = IF pass = "encrypt" THEN "decrypt" ELSE "done"
  /\ UNCHANGED <<orig, buf, len, i>>

return ==
  /\ pass # "done" /\ i >= len
  /\ pass' = IF pass = "encrypt" THEN "decrypt" ELSE "done"
  /\ i' = 0
  /\ UNCHANGED <<orig, buf, len>>

Next == iterate \/ return
Spec == Init /\ [][Next]_vars

\* What is stored and sent is the reference ROT13 of the len characters typed,
\* letter by letter in its own case, and the rest of the array is untouched.
StoredIsReference ==
  pass = "decrypt" /\ i = 0 =>
    /\ buf = rot13_encrypt(orig, len)
    /\ \A k \in 1..MSG_MAX_LEN :
         buf[k] = IF k <= len THEN RefRot13(orig[k]) ELSE orig[k]

\* "symmetric with encrypt, just calls rot13_encrypt": after both passes the
\* reader has what the sender typed.
RoundTrip == pass = "done" => buf = orig
=============================================================================
