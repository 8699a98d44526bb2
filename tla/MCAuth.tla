------------------------------- MODULE MCAuth -------------------------------
(* A small instance of Auth: one character, of two bytes, and a buffer in   *)
(* which it fits twice and a third one would take the place of the NUL.     *)
EXTENDS Auth

MCChars == {233}
MCValid == {<<233>>}
=============================================================================
