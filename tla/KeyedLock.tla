----------------------------- MODULE KeyedLock ------------------------------
(***************************************************************************)
(* What bot.KeyedMutex promises its callers: a lock per key.  A thread     *)
(* asks for one key at a time, is granted it when nobody owns it, and      *)
(* gives it back; threads that ask for different keys never wait for each  *)
(* other.                                                                  *)
(***************************************************************************)
CONSTANTS
    Threads,    \* goroutines: one per update, and watchTimeouts
    Keys,       \* user IDs
    Nobody,
    NoKey

VARIABLES
    wants,      \* the key a thread waits for or owns
    owner       \* the thread that owns a key

vars == <<wants, owner>>

Init ==
    /\ wants = [t \in Threads |-> NoKey]
    /\ owner = [k \in Keys |-> Nobody]

Request(t, k) ==
    /\ wants[t] = NoKey
    /\ wants' = [wants EXCEPT ![t] = k]
    /\ UNCHANGED owner

Grant(t, k) ==
    /\ wants[t] = k
    /\ owner[k] = Nobody
    /\ owner' = [owner EXCEPT ![k] = t]
    /\ UNCHANGED wants

Free(t, k) ==
    /\ owner[k] = t
    /\ owner' = [owner EXCEPT ![k] = Nobody]
    /\ wants' = [wants EXCEPT ![t] = NoKey]

Next ==
    \E t \in Threads, k \in Keys : Request(t, k) \/ Grant(t, k) \/ Free(t, k)

Spec == Init /\ [][Next]_vars

=============================================================================
