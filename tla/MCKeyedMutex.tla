---------------------------- MODULE MCKeyedMutex ----------------------------
(***************************************************************************)
(* An instance of KeyedMutex for TLC: three updates at once, of two users. *)
(***************************************************************************)
EXTENDS KeyedMutex

=============================================================================
