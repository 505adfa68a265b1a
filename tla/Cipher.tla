------------------------------- MODULE Cipher -------------------------------
(***************************************************************************)
(* kernel/cipher.c: the ROT13 transform of the module.  Characters are the *)
(* values of a C char, which the kernel's x86-64 build makes signed.       *)
(***************************************************************************)
EXTENDS Integers, Sequences

Char  == -128..127
Upper == 65..90      \* 'A'..'Z'
Lower == 97..122     \* 'a'..'z'

\* Mutant: a shift that does not come round at the end of the alphabet.
Rot13_NoWrap(c) == IF c \in Upper \cup Lower THEN c + 13 ELSE c

\* The body of the loop of rot13_encrypt: one character.
Rot13(c) ==
  IF c \in Upper THEN ((c - 65 + 13) % 26) + 65
  ELSE IF c \in Lower THEN ((c - 97 + 13) % 26) + 97 ELSE c

\* The first len characters of buf in place; what follows is left alone.
rot13_encrypt(buf, len) ==
  [i \in 1..Len(buf) |-> IF i <= len THEN Rot13(buf[i]) ELSE buf[i]]

rot13_decrypt(buf, len) == rot13_encrypt(buf, len)

(***************************************************************************)
(* Reference definition, from the two alphabets instead of from arithmetic *)
(* on codes: the letter thirteen places further on, counting round.        *)
(***************************************************************************)
Partner(c) ==
  LET Case == IF c \in Upper THEN Upper ELSE Lower
  IN  CHOOSE d \in Case : d = c + 13 \/ d = c - 13

RefRot13(c) == IF c \in Upper \cup Lower THEN Partner(c) ELSE c
=============================================================================
