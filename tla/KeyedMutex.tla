----------------------------- MODULE KeyedMutex -----------------------------
(***************************************************************************)
(* bot.KeyedMutex: one mutex per user, made when the first update of the   *)
(* user asks for it and dropped from the map with the last.  A thread goes *)
(*                                                                         *)
(*     idle -> enter -> register -> wait -> critical -> leave ->           *)
(*     unregister -> idle                                                  *)
(*                                                                         *)
(* holding the map's own mutex k.mu in register and unregister, and the    *)
(* entry's mutex in critical.  Entries stands for the heap: a new entry is *)
(* one that neither the map nor any thread refers to.                      *)
(***************************************************************************)
EXTENDS Integers, FiniteSets

CONSTANTS
    Threads,    \* goroutines: one per update, and watchTimeouts
    Keys,       \* user IDs
    Entries,    \* bound: the entries that can exist at a time
    Nobody,
    NoKey,
    NoEntry

ASSUME KeyedMutexAssumption ==
    /\ IsFiniteSet(Threads)
    /\ Nobody \notin Threads
    /\ NoKey \notin Keys
    /\ NoEntry \notin Entries

VARIABLES
    pc,         \* where a thread is
    key,        \* the key it called Lock with
    mine,       \* the entry it has got hold of, e in the code
    mu,         \* who holds k.mu
    locks,      \* k.locks
    emu,        \* who holds an entry's mutex
    refs        \* how many threads an entry counts

vars == <<pc, key, mine, mu, locks, emu, refs>>

PCs == {"idle", "enter", "register", "wait", "critical", "leave", "unregister"}

TypeOK ==
    /\ pc \in [Threads -> PCs]
    /\ key \in [Threads -> Keys \cup {NoKey}]
    /\ mine \in [Threads -> Entries \cup {NoEntry}]
    /\ mu \in Threads \cup {Nobody}
    /\ locks \in [Keys -> Entries \cup {NoEntry}]
    /\ emu \in [Entries -> Threads \cup {Nobody}]
    /\ refs \in [Entries -> Nat]

Init ==
    /\ pc = [t \in Threads |-> "idle"]
    /\ key = [t \in Threads |-> NoKey]
    /\ mine = [t \in Threads |-> NoEntry]
    /\ mu = Nobody
    /\ locks = [k \in Keys |-> NoEntry]
    /\ emu = [e \in Entries |-> Nobody]
    /\ refs = [e \in Entries |-> 0]

-----------------------------------------------------------------------------
Goto(t, from, to) ==
    /\ pc[t] = from
    /\ pc' = [pc EXCEPT ![t] = to]

(* An update of user k arrives on a goroutine of its own.                  *)
Request(t, k) ==
    /\ Goto(t, "idle", "enter")
    /\ key' = [key EXCEPT ![t] = k]
    /\ UNCHANGED <<mine, mu, locks, emu, refs>>

(* k.mu.Lock(), on the way in.                                             *)
Enter(t) ==
    /\ Goto(t, "enter", "register")
    /\ mu = Nobody
    /\ mu' = t
    /\ UNCHANGED <<key, mine, locks, emu, refs>>

IsFree(e) == \A k \in Keys : locks[k] # e /\ \A t \in Threads : mine[t] # e

(* Mutant: an entry found in the map is not counted.                       *)
CountedOnce(n) == 1

(* e.refs++.                                                               *)
Counted(n) == n + 1

(* Look the entry up or make one, count oneself, k.mu.Unlock().            *)
Register(t) ==
    /\ Goto(t, "register", "wait")
    /\ \E e \in Entries :
           /\ \/ /\ locks[key[t]] = NoEntry
                 /\ IsFree(e)
                 /\ refs' = [refs EXCEPT ![e] = Counted(0)]
                 /\ emu' = [emu EXCEPT ![e] = Nobody]
              \/ /\ locks[key[t]] = e
                 /\ refs' = [refs EXCEPT ![e] = Counted(@)]
                 /\ UNCHANGED emu
           /\ locks' = [locks EXCEPT ![key[t]] = e]
           /\ mine' = [mine EXCEPT ![t] = e]
    /\ mu' = Nobody
    /\ UNCHANGED key

(* e.mu.Lock().                                                            *)
Acquire(t) ==
    /\ Goto(t, "wait", "critical")
    /\ emu[mine[t]] = Nobody
    /\ emu' = [emu EXCEPT ![mine[t]] = t]
    /\ UNCHANGED <<key, mine, mu, locks, refs>>

(* Mutant: the entry stays locked.                                         *)
ReleaseKept(t) ==
    /\ Goto(t, "critical", "leave")
    /\ UNCHANGED <<key, mine, mu, locks, emu, refs>>

(* The release function: e.mu.Unlock()...                                  *)
Release(t) ==
    /\ Goto(t, "critical", "leave")
    /\ emu' = [emu EXCEPT ![mine[t]] = Nobody]
    /\ UNCHANGED <<key, mine, mu, locks, refs>>

(* ...k.mu.Lock()...                                                       *)
Leave(t) ==
    /\ Goto(t, "leave", "unregister")
    /\ mu = Nobody
    /\ mu' = t
    /\ UNCHANGED <<key, mine, locks, emu, refs>>

(* Mutant: the entry is never dropped.                                     *)
LastNever(n) == FALSE

(* e.refs == 0, after e.refs--.                                            *)
Last(n) == n - 1 = 0

(* ...uncount oneself, drop the entry if nobody is left, k.mu.Unlock().    *)
Unregister(t) ==
    /\ Goto(t, "unregister", "idle")
    /\ refs' = [refs EXCEPT ![mine[t]] = @ - 1]
    /\ locks' = IF Last(refs[mine[t]])
                THEN [locks EXCEPT ![key[t]] = NoEntry]
                ELSE locks
    /\ key' = [key EXCEPT ![t] = NoKey]
    /\ mine' = [mine EXCEPT ![t] = NoEntry]
    /\ mu' = Nobody
    /\ UNCHANGED emu

Step(t) ==
    \/ Enter(t)
    \/ Register(t)
    \/ Acquire(t)
    \/ Release(t)
    \/ Leave(t)
    \/ Unregister(t)

Next == \E t \in Threads : Step(t) \/ \E k \in Keys : Request(t, k)

Spec == Init /\ [][Next]_vars

(* A goroutine runs when it can.  sync.Mutex hands the lock to a waiter    *)
(* that has waited for long, so a goroutine that could take a mutex again  *)
(* and again takes it in the end.  A handler returns: an update has 30     *)
(* seconds, and every call made for an expired question gives up by itself *)
(* (sender.go caps its retries).                                           *)
Fairness ==
    \A t \in Threads :
        /\ SF_vars(Enter(t)) /\ SF_vars(Acquire(t)) /\ SF_vars(Leave(t))
        /\ WF_vars(Register(t)) /\ WF_vars(Release(t)) /\ WF_vars(Unregister(t))

FairSpec == Spec /\ Fairness

-----------------------------------------------------------------------------
(* Two updates of one user are never handled at the same time, although    *)
(* the entry they lock is made and dropped under their feet                *)
(* (KeyedMutex.Lock).                                                      *)
MutualExclusion ==
    \A t, s \in Threads :
        pc[t] = "critical" /\ pc[s] = "critical" /\ key[t] = key[s] => t = s

Registered(t) == pc[t] \in {"wait", "critical", "leave", "unregister"}

(* The entry a thread waits on, holds or has yet to uncount is the one in  *)
(* the map, and counts exactly the threads that refer to it: none is       *)
(* dropped while in use, none is left behind (Lock and its release).       *)
EntryCounted ==
    /\ \A t \in Threads : Registered(t) => locks[key[t]] = mine[t]
    /\ \A k \in Keys : locks[k] # NoEntry =>
           /\ refs[locks[k]] > 0
           /\ refs[locks[k]] =
                  Cardinality({t \in Threads : Registered(t) /\ key[t] = k})

(* Whoever asks for a user's lock gets it (Lock never blocks for good).    *)
EveryoneServed == \A t \in Threads : pc[t] = "enter" ~> pc[t] = "critical"

(* The promise, and how this module keeps it.                              *)
wants ==
    [t \in Threads |->
        IF pc[t] \in {"enter", "register", "wait", "critical"}
        THEN key[t] ELSE NoKey]

owner ==
    [k \in Keys |->
        IF \E t \in Threads : pc[t] = "critical" /\ key[t] = k
        THEN CHOOSE t \in Threads : pc[t] = "critical" /\ key[t] = k
        ELSE Nobody]

Lock == INSTANCE KeyedLock WITH wants <- wants, owner <- owner

(* KeyedMutex is a lock per key: every step of it is a step of KeyedLock,  *)
(* or none.                                                                *)
ImplementsLock == Lock!Spec

=============================================================================
