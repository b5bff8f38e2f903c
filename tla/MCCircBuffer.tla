---------------------------- MODULE MCCircBuffer ----------------------------
(* CircBuffer with two byte values, so that every mix-up of two bytes shows,  *)
(* and a growsize smaller than the longest append, so that the loop that      *)
(* grows the buffer runs more than once.                                      *)
EXTENDS CircBuffer
=============================================================================
