--------------------------- MODULE MCHeaderFields ---------------------------
(* An instance of HeaderFields: bytes that tell the ends of a word and the *)
(* bits of a flag apart, and stay within TLC's integers in a double word.  *)
EXTENDS HeaderFields

MCBytes == {0, 1, 96}
=============================================================================
