-------------------------- MODULE MCAccountSession --------------------------
(* Instances of AccountSession: the .cfg files say what may happen.         *)
EXTENDS AccountSession
=============================================================================
