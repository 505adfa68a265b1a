---------------------------- MODULE MCCipherLoop ----------------------------
(***************************************************************************)
(* The characters at the edges of the two alphabets, in the middle of      *)
(* them, and of the type char.                                             *)
(***************************************************************************)
EXTENDS CipherLoop

Edges == {-128, -1, 0, 64, 65, 77, 78, 90, 91, 96, 97, 109, 110, 122, 123, 127}
=============================================================================
