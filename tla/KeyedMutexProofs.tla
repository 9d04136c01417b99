-------------------------- MODULE KeyedMutexProofs --------------------------
(***************************************************************************)
(* bot.KeyedMutex keeps its promise for any number of goroutines, users    *)
(* and entries.                                                            *)
(*                                                                         *)
(* The inductive invariant ties three things together that the code keeps  *)
(* apart: where a thread is in Lock or in the release function, what it    *)
(* holds there, and what the map says.  What makes it hold is that the     *)
(* entry a registered thread refers to is the one in the map for its key,  *)
(* which in turn needs the count on that entry to be the number of threads *)
(* registered for the key: only then is the entry dropped with the last.   *)
(***************************************************************************)
EXTENDS KeyedMutex, FiniteSetTheorems, TLAPS

RegisteredFor(k) == {t \in Threads : Registered(t) /\ key[t] = k}

(* Where a thread is says what it holds.                                   *)
Held ==
    \A t \in Threads :
        /\ pc[t] # "idle" => key[t] \in Keys
        /\ Registered(t) => mine[t] \in Entries /\ locks[key[t]] = mine[t]
        /\ ~Registered(t) => mine[t] = NoEntry
        /\ pc[t] \in {"register", "unregister"} => mu = t
        /\ pc[t] = "critical" => emu[mine[t]] = t

(* The map gives every key an entry of its own, which counts the threads   *)
(* registered for the key.                                                 *)
Mapped ==
    \A k \in Keys : locks[k] # NoEntry =>
        /\ \A l \in Keys : locks[l] = locks[k] => l = k
        /\ refs[locks[k]] = Cardinality(RegisteredFor(k))
        /\ RegisteredFor(k) # {}

IInv == TypeOK /\ Held /\ Mapped

-----------------------------------------------------------------------------
LEMMA RegisteredForFinite ==
    ASSUME NEW k
    PROVE  /\ IsFiniteSet(RegisteredFor(k))
           /\ Cardinality(RegisteredFor(k)) \in Nat
<1>1. RegisteredFor(k) \subseteq Threads
  BY DEF RegisteredFor
<1>2. IsFiniteSet(RegisteredFor(k))
  BY <1>1, KeyedMutexAssumption, FS_Subset
<1> QED
  BY <1>2, FS_CardinalityType

LEMMA InitHolds == Init => IInv
BY KeyedMutexAssumption
   DEF Init, IInv, TypeOK, Held, Mapped, Registered, PCs

(* An action that registers and unregisters nobody leaves the map right.   *)
LEMMA SameRegisteredMapped ==
    ASSUME IInv, UNCHANGED <<locks, refs>>,
           \A t \in Threads : /\ Registered(t)' = Registered(t)
                              /\ Registered(t) => key'[t] = key[t]
    PROVE  Mapped'
<1>1. ASSUME NEW k \in Keys PROVE RegisteredFor(k)' = RegisteredFor(k)
  BY DEF RegisteredFor
<1> QED
  BY <1>1 DEF IInv, Mapped

LEMMA RequestHolds ==
    ASSUME IInv, NEW t \in Threads, NEW k \in Keys, Request(t, k)
    PROVE  IInv'
<1>1. TypeOK'
  BY DEF IInv, TypeOK, Request, Goto, PCs
<1>2. \A s \in Threads : /\ Registered(s)' = Registered(s)
                         /\ Registered(s) => key'[s] = key[s]
  BY DEF IInv, TypeOK, Request, Goto, Registered
<1>3. Mapped'
  BY <1>2, SameRegisteredMapped DEF Request
<1>4. Held'
  BY <1>2 DEF IInv, TypeOK, Held, Request, Goto, Registered
<1> QED
  BY <1>1, <1>3, <1>4 DEF IInv

LEMMA EnterHolds ==
    ASSUME IInv, NEW t \in Threads, Enter(t) \/ Leave(t)
    PROVE  IInv'
<1>1. TypeOK'
  BY DEF IInv, TypeOK, Enter, Leave, Goto, PCs
<1>2. \A s \in Threads : Registered(s)' = Registered(s) /\ key'[s] = key[s]
  BY DEF IInv, TypeOK, Enter, Leave, Goto, Registered
<1>3. Mapped'
  BY <1>2, SameRegisteredMapped DEF Enter, Leave
<1>4. Held'
  BY <1>2, KeyedMutexAssumption
     DEF IInv, TypeOK, Held, Enter, Leave, Goto, Registered
<1> QED
  BY <1>1, <1>3, <1>4 DEF IInv

LEMMA AcquireHolds ==
    ASSUME IInv, NEW t \in Threads, Acquire(t)
    PROVE  IInv'
<1>1. TypeOK'
  BY DEF IInv, TypeOK, Acquire, Goto, PCs
<1>2. \A s \in Threads : Registered(s)' = Registered(s) /\ key'[s] = key[s]
  BY DEF IInv, TypeOK, Acquire, Goto, Registered
<1>3. Mapped'
  BY <1>2, SameRegisteredMapped DEF Acquire
<1>4. Held'
  BY <1>2, KeyedMutexAssumption
     DEF IInv, TypeOK, Held, Acquire, Goto, Registered
<1> QED
  BY <1>1, <1>3, <1>4 DEF IInv

LEMMA ReleaseHolds ==
    ASSUME IInv, NEW t \in Threads, Release(t)
    PROVE  IInv'
<1>1. TypeOK'
  BY DEF IInv, TypeOK, Release, Goto, PCs
<1>2. \A s \in Threads : Registered(s)' = Registered(s) /\ key'[s] = key[s]
  BY DEF IInv, TypeOK, Release, Goto, Registered
<1>3. Mapped'
  BY <1>2, SameRegisteredMapped DEF Release
<1>4. Held'
  BY <1>2, KeyedMutexAssumption
     DEF IInv, TypeOK, Held, Release, Goto, Registered
<1> QED
  BY <1>1, <1>3, <1>4 DEF IInv

(* Lock finds the entry of its key or makes one that nobody refers to.     *)
LEMMA RegisterHolds ==
    ASSUME IInv, NEW t \in Threads, Register(t)
    PROVE  IInv'
<1>0. PICK k \in Keys : k = key[t]
  BY DEF IInv, Held, Register, Goto
<1>1. /\ k = key[t] /\ pc[t] = "register" /\ mu = t /\ ~Registered(t)
      /\ mine[t] = NoEntry /\ t \notin RegisteredFor(k)
  BY <1>0 DEF IInv, Held, Register, Goto, Registered, RegisteredFor
<1>2. PICK e \in Entries :
        /\ \/ /\ locks[k] = NoEntry
              /\ IsFree(e)
              /\ refs' = [refs EXCEPT ![e] = 1]
              /\ emu' = [emu EXCEPT ![e] = Nobody]
           \/ /\ locks[k] = e
              /\ refs' = [refs EXCEPT ![e] = @ + 1]
              /\ UNCHANGED emu
        /\ locks' = [locks EXCEPT ![k] = e]
        /\ mine' = [mine EXCEPT ![t] = e]
  <2>1. \A n : Counted(n) = n + 1
    BY DEF Counted
  <2>2. Counted(0) = 1
    BY <2>1
  <2> QED
    BY <1>1, <2>1, <2>2 DEF Register
<1>3. /\ pc' = [pc EXCEPT ![t] = "wait"]
      /\ mu' = Nobody /\ key' = key
  BY DEF Register, Goto
<1>4. TypeOK'
  BY <1>1, <1>2, <1>3 DEF IInv, TypeOK, PCs
<1>5. \A s \in Threads : Registered(s)' <=> Registered(s) \/ s = t
  BY <1>3 DEF IInv, TypeOK, Registered
<1>6. RegisteredFor(k)' = RegisteredFor(k) \cup {t}
  BY <1>1, <1>3, <1>5 DEF RegisteredFor
<1>7. ASSUME NEW l \in Keys, l # k
      PROVE  RegisteredFor(l)' = RegisteredFor(l)
  BY <1>1, <1>3, <1>5, <1>7 DEF RegisteredFor
<1>8. locks[k] = NoEntry => RegisteredFor(k) = {}
  BY KeyedMutexAssumption DEF IInv, Held, RegisteredFor
<1>9. /\ locks'[k] = e
      /\ \A l \in Keys : l # k => locks'[l] = locks[l] /\ locks[l] # e
  BY <1>1, <1>2, KeyedMutexAssumption DEF IInv, TypeOK, Mapped, IsFree
<1>10. refs'[e] = Cardinality(RegisteredFor(k))'
  <2>1. /\ IsFiniteSet(RegisteredFor(k)) /\ t \notin RegisteredFor(k)
        /\ Cardinality(RegisteredFor(k)) \in Nat
    BY <1>1, RegisteredForFinite
  <2>2. Cardinality(RegisteredFor(k) \cup {t}) = Cardinality(RegisteredFor(k)) + 1
    BY <2>1, FS_AddElement
  <2>3. CASE locks[k] = NoEntry
    <3>1. refs'[e] = 1
      BY <1>2, <2>3, KeyedMutexAssumption DEF IInv, TypeOK
    <3>2. Cardinality(RegisteredFor(k)) = 0
      BY <1>8, <2>3, FS_EmptySet
    <3> QED
      BY <1>6, <2>2, <3>1, <3>2
  <2>4. CASE locks[k] # NoEntry
    <3>1. locks[k] = e /\ refs'[e] = refs[e] + 1
      BY <1>2, <2>4 DEF IInv, TypeOK
    <3>2. refs[e] = Cardinality(RegisteredFor(k))
      BY <1>1, <2>4, <3>1 DEF IInv, Mapped
    <3> QED
      BY <1>6, <2>2, <3>1, <3>2
  <2> QED
    BY <2>3, <2>4
<1>11. Mapped'
  <2>1. ASSUME NEW l \in Keys, locks'[l] # NoEntry
        PROVE  /\ \A m \in Keys : locks'[m] = locks'[l] => m = l
               /\ refs'[locks'[l]] = Cardinality(RegisteredFor(l))'
               /\ RegisteredFor(l)' # {}
    <3>1. CASE l = k
      <4>1. RegisteredFor(k)' # {}
        BY <1>6
      <4> QED
        BY <1>9, <1>10, <3>1, <4>1
    <3>2. CASE l # k
      <4>1. locks'[l] = locks[l] /\ locks[l] # e /\ locks[l] # NoEntry
        BY <1>9, <2>1, <3>2
      <4>2. refs'[locks[l]] = refs[locks[l]]
        BY <1>2, <4>1 DEF IInv, TypeOK
      <4>3. \A m \in Keys : locks'[m] = locks'[l] => m = l
        BY <1>9, <4>1 DEF IInv, Mapped
      <4> QED
        BY <1>7, <3>2, <4>1, <4>2, <4>3 DEF IInv, Mapped
    <3> QED
      BY <3>1, <3>2
  <2> QED
    BY <2>1 DEF Mapped
<1>12. Held'
  <2> SUFFICES ASSUME NEW s \in Threads
               PROVE  /\ pc'[s] # "idle" => key'[s] \in Keys
                      /\ Registered(s)' => /\ mine'[s] \in Entries
                                           /\ locks'[key'[s]] = mine'[s]
                      /\ ~Registered(s)' => mine'[s] = NoEntry
                      /\ pc'[s] \in {"register", "unregister"} => mu' = s
                      /\ pc'[s] = "critical" => emu'[mine'[s]] = s
    BY DEF Held
  <2>1. CASE s = t
    BY <1>1, <1>2, <1>3, <1>5, <1>9, <2>1 DEF IInv, TypeOK
  <2>2. CASE s # t
    <3>1. /\ pc'[s] = pc[s] /\ key'[s] = key[s] /\ mine'[s] = mine[s]
          /\ Registered(s)' <=> Registered(s)
      <4>1. pc'[s] = pc[s] /\ key'[s] = key[s]
        BY <1>3, <2>2 DEF IInv, TypeOK
      <4>2. mine'[s] = mine[s]
        BY <1>2, <2>2 DEF IInv, TypeOK
      <4> QED
        BY <4>1, <4>2, <1>5, <2>2
    <3>2. pc[s] \notin {"register", "unregister"}
      BY <1>1, <2>2 DEF IInv, Held
    <3>3. Registered(s) => locks'[key[s]] = mine[s]
      BY <1>2, <1>9, KeyedMutexAssumption DEF IInv, TypeOK, Held, Registered
    <3>4. pc[s] = "critical" => emu'[mine[s]] = s
      BY <1>2 DEF IInv, TypeOK, Held, Registered, IsFree
    <3> QED
      BY <3>1, <3>2, <3>3, <3>4 DEF IInv, Held
  <2> QED
    BY <2>1, <2>2
<1> QED
  BY <1>4, <1>11, <1>12 DEF IInv

(* The release function drops the entry only with its last thread.         *)
LEMMA UnregisterHolds ==
    ASSUME IInv, NEW t \in Threads, Unregister(t)
    PROVE  IInv'
<1>0. PICK k \in Keys : k = key[t]
  BY DEF IInv, Held, Unregister, Goto
<1>1. /\ k = key[t] /\ pc[t] = "unregister" /\ mu = t /\ Registered(t)
      /\ t \in RegisteredFor(k)
  BY <1>0 DEF IInv, Held, Unregister, Goto, Registered, RegisteredFor
<1>2. PICK e \in Entries :
        /\ e = mine[t] /\ e = locks[k] /\ locks[k] # NoEntry
        /\ \A l \in Keys : locks[l] = e => l = k
  BY <1>1, KeyedMutexAssumption DEF IInv, Held, Mapped
<1>3. /\ pc' = [pc EXCEPT ![t] = "idle"]
      /\ key' = [key EXCEPT ![t] = NoKey]
      /\ mine' = [mine EXCEPT ![t] = NoEntry]
      /\ mu' = Nobody /\ emu' = emu
      /\ refs' = [refs EXCEPT ![e] = @ - 1]
      /\ locks' = IF refs[e] - 1 = 0
                  THEN [locks EXCEPT ![k] = NoEntry] ELSE locks
  BY <1>1, <1>2 DEF Unregister, Goto, Last
<1>4. /\ refs[e] = Cardinality(RegisteredFor(k))
      /\ refs[e] \in Nat
      /\ Cardinality(RegisteredFor(k) \ {t}) = refs[e] - 1
      /\ IsFiniteSet(RegisteredFor(k) \ {t})
      /\ refs[e] - 1 \in Nat
      /\ refs[e] - 1 = 0 <=> RegisteredFor(k) \ {t} = {}
  <2>1. refs[e] = Cardinality(RegisteredFor(k)) /\ refs[e] \in Nat
    BY <1>2 DEF IInv, TypeOK, Mapped
  <2>2. /\ IsFiniteSet(RegisteredFor(k) \ {t})
        /\ Cardinality(RegisteredFor(k) \ {t}) = refs[e] - 1
    BY <1>1, <2>1, RegisteredForFinite, FS_RemoveElement
  <2>3. refs[e] - 1 \in Nat
    BY <2>2, FS_CardinalityType
  <2>4. refs[e] - 1 = 0 <=> RegisteredFor(k) \ {t} = {}
    BY <2>2, FS_EmptySet
  <2> QED
    BY <2>1, <2>2, <2>3, <2>4
<1>5. TypeOK'
  <2>1. refs' \in [Entries -> Nat]
    BY <1>3, <1>4 DEF IInv, TypeOK
  <2> QED
    BY <1>3, <2>1 DEF IInv, TypeOK, PCs
<1>6. \A s \in Threads : Registered(s)' <=> Registered(s) /\ s # t
  BY <1>3 DEF IInv, TypeOK, Registered
<1>7. \A s \in Threads : s # t => /\ pc'[s] = pc[s] /\ key'[s] = key[s]
                                  /\ mine'[s] = mine[s]
  BY <1>3 DEF IInv, TypeOK
<1>8. RegisteredFor(k)' = RegisteredFor(k) \ {t}
  BY <1>6, <1>7 DEF RegisteredFor
<1>9. ASSUME NEW l \in Keys, l # k
      PROVE  RegisteredFor(l)' = RegisteredFor(l)
  BY <1>1, <1>6, <1>7, <1>9 DEF RegisteredFor
<1>10. \A l \in Keys : l # k => locks'[l] = locks[l] /\ locks[l] # e
  BY <1>2, <1>3 DEF IInv, TypeOK
<1>11. locks'[k] = IF RegisteredFor(k) \ {t} = {} THEN NoEntry ELSE e
  BY <1>2, <1>3, <1>4 DEF IInv, TypeOK
<1>12. Mapped'
  <2>1. ASSUME NEW l \in Keys, locks'[l] # NoEntry
        PROVE  /\ \A m \in Keys : locks'[m] = locks'[l] => m = l
               /\ refs'[locks'[l]] = Cardinality(RegisteredFor(l))'
               /\ RegisteredFor(l)' # {}
    <3>1. CASE l = k
      <4>1. locks'[k] = e /\ RegisteredFor(k)' # {}
        BY <1>8, <1>11, <2>1, <3>1
      <4>2. refs'[e] = Cardinality(RegisteredFor(k))'
        BY <1>3, <1>4, <1>8 DEF IInv, TypeOK
      <4> QED
        BY <1>10, <3>1, <4>1, <4>2
    <3>2. CASE l # k
      <4>1. locks'[l] = locks[l] /\ locks[l] # e /\ locks[l] # NoEntry
        BY <1>10, <2>1, <3>2
      <4>2. refs'[locks[l]] = refs[locks[l]]
        BY <1>3, <4>1 DEF IInv, TypeOK
      <4>3. \A m \in Keys : locks'[m] = locks'[l] => m = l
        BY <1>2, <1>10, <1>11, <2>1, <4>1 DEF IInv, Mapped
      <4> QED
        BY <1>9, <3>2, <4>1, <4>2, <4>3 DEF IInv, Mapped
    <3> QED
      BY <3>1, <3>2
  <2> QED
    BY <2>1 DEF Mapped
<1>13. Held'
  <2> SUFFICES ASSUME NEW s \in Threads
               PROVE  /\ pc'[s] # "idle" => key'[s] \in Keys
                      /\ Registered(s)' => /\ mine'[s] \in Entries
                                           /\ locks'[key'[s]] = mine'[s]
                      /\ ~Registered(s)' => mine'[s] = NoEntry
                      /\ pc'[s] \in {"register", "unregister"} => mu' = s
                      /\ pc'[s] = "critical" => emu'[mine'[s]] = s
    BY DEF Held
  <2>1. CASE s = t
    BY <1>3, <1>6, <2>1 DEF IInv, TypeOK
  <2>2. CASE s # t
    <3>1. Registered(s)' <=> Registered(s)
      BY <1>6, <2>2
    <3>2. pc[s] \notin {"register", "unregister"}
      BY <1>1, <2>2 DEF IInv, Held
    <3>3. ASSUME Registered(s)
          PROVE  locks'[key[s]] = mine[s]
      <4>1. key[s] \in Keys /\ locks[key[s]] = mine[s]
        BY <3>3 DEF IInv, Held, Registered
      <4>2. CASE key[s] = k
        <5>1. s \in RegisteredFor(k) \ {t}
          BY <2>2, <3>3, <4>2 DEF RegisteredFor
        <5> QED
          BY <1>2, <1>11, <4>1, <4>2, <5>1
      <4>3. CASE key[s] # k
        BY <1>10, <4>1, <4>3
      <4> QED
        BY <4>2, <4>3
    <3> QED
      BY <1>3, <1>7, <2>2, <3>1, <3>2, <3>3 DEF IInv, Held
  <2> QED
    BY <2>1, <2>2
<1> QED
  BY <1>5, <1>12, <1>13 DEF IInv

-----------------------------------------------------------------------------
(* Every step of Lock and of the release function keeps the invariant.     *)
LEMMA NextHolds == IInv /\ [Next]_vars => IInv'
<1> SUFFICES ASSUME IInv, [Next]_vars
             PROVE  IInv'
  OBVIOUS
<1>1. ASSUME NEW t \in Threads, Step(t)
      PROVE  IInv'
  BY <1>1, EnterHolds, RegisterHolds, AcquireHolds, ReleaseHolds,
     UnregisterHolds DEF Step
<1>2. ASSUME NEW t \in Threads, NEW k \in Keys, Request(t, k)
      PROVE  IInv'
  BY <1>2, RequestHolds
<1>3. CASE UNCHANGED vars
  <2>1. TypeOK'
    BY <1>3 DEF vars, IInv, TypeOK
  <2>2. Held'
    BY <1>3 DEF vars, IInv, Held, Registered
  <2>3. Mapped'
    BY <1>3, SameRegisteredMapped DEF vars, Registered
  <2> QED
    BY <2>1, <2>2, <2>3 DEF IInv
<1> QED
  BY <1>1, <1>2, <1>3 DEF Next

LEMMA InvariantHolds == Spec => []IInv
BY InitHolds, NextHolds, PTL DEF Spec

(* The state of the lock keeps its type: no count ever goes below zero.    *)
THEOREM TypeCorrect == Spec => []TypeOK
<1>1. IInv => TypeOK
  BY DEF IInv
<1> QED
  BY <1>1, InvariantHolds, PTL

LEMMA Exclusive == IInv => MutualExclusion
BY DEF IInv, Held, MutualExclusion, Registered

(* Two updates of one user are never handled at the same time, whatever    *)
(* the number of updates and users (KeyedMutex.Lock).                      *)
THEOREM MutualExclusionHolds == Spec => []MutualExclusion
BY Exclusive, InvariantHolds, PTL

(* The entry a thread refers to is the one in the map, and its count is    *)
(* the number of threads that refer to it (Lock and its release).          *)
THEOREM EntryCountedHolds == Spec => []EntryCounted
<1>1. IInv => EntryCounted
  <2> SUFFICES ASSUME IInv
               PROVE  EntryCounted
    OBVIOUS
  <2>1. ASSUME NEW k \in Keys, locks[k] # NoEntry
        PROVE  /\ refs[locks[k]] > 0
               /\ refs[locks[k]] = Cardinality(RegisteredFor(k))
    <3>1. /\ refs[locks[k]] = Cardinality(RegisteredFor(k))
          /\ RegisteredFor(k) # {}
      BY <2>1 DEF IInv, Mapped
    <3>2. /\ Cardinality(RegisteredFor(k)) \in Nat
          /\ Cardinality(RegisteredFor(k)) # 0
      BY <3>1, RegisteredForFinite, FS_EmptySet
    <3> QED
      BY <3>1, <3>2
  <2> QED
    BY <2>1 DEF EntryCounted, IInv, Held, RegisteredFor
<1> QED
  BY <1>1, InvariantHolds, PTL

-----------------------------------------------------------------------------
(* KeyedMutex implements a lock per key: asking is Request, taking the     *)
(* entry's mutex is Grant, giving it back is Free, and what happens to the *)
(* map in between is invisible.                                            *)

(* Who is critical for a key owns it, and nobody does when nobody is.      *)
Owned ==
    \A k \in Keys :
        /\ \A t \in Threads : pc[t] = "critical" /\ key[t] = k => owner[k] = t
        /\ (\A t \in Threads : ~(pc[t] = "critical" /\ key[t] = k))
               => owner[k] = Nobody

LEMMA OwnedHolds == MutualExclusion => Owned
<1> SUFFICES ASSUME MutualExclusion, NEW k \in Keys
             PROVE  /\ \A t \in Threads :
                           pc[t] = "critical" /\ key[t] = k => owner[k] = t
                    /\ (\A t \in Threads : ~(pc[t] = "critical" /\ key[t] = k))
                           => owner[k] = Nobody
  BY DEF Owned
<1>1. ASSUME NEW t \in Threads, pc[t] = "critical", key[t] = k
      PROVE  owner[k] = t
  <2>1. \E s \in Threads : pc[s] = "critical" /\ key[s] = k
    BY <1>1
  <2>2. \A s \in Threads : pc[s] = "critical" /\ key[s] = k => s = t
    BY <1>1 DEF MutualExclusion
  <2>3. (CHOOSE s \in Threads : pc[s] = "critical" /\ key[s] = k) = t
    BY <2>1, <2>2
  <2> QED
    BY <2>1, <2>3 DEF owner
<1>2. (\A t \in Threads : ~(pc[t] = "critical" /\ key[t] = k))
          => owner[k] = Nobody
  BY DEF owner
<1> QED
  BY <1>1, <1>2

LEMMA InitRefines == Init => Lock!Init
BY DEF Init, Lock!Init, wants, owner

LEMMA StepRefines ==
    IInv /\ Owned /\ Owned' /\ [Next]_vars => [Lock!Next]_(Lock!vars)
<1> SUFFICES ASSUME IInv, Owned, Owned', [Next]_vars
             PROVE  [Lock!Next]_(Lock!vars)
  OBVIOUS
<1>t. /\ DOMAIN owner = Keys /\ DOMAIN owner' = Keys
      /\ owner = [k \in Keys |-> owner[k]]
      /\ owner' = [k \in Keys |-> owner'[k]]
  BY DEF owner
(* Nobody becomes critical or stops being it: nothing happens to owner.    *)
<1>o. ASSUME \A t \in Threads :
                 /\ pc'[t] = "critical" <=> pc[t] = "critical"
                 /\ pc[t] = "critical" => key'[t] = key[t]
      PROVE  owner' = owner
  <2>1. ASSUME NEW k \in Keys
        PROVE  owner'[k] = owner[k]
    <3>1. CASE \E t \in Threads : pc[t] = "critical" /\ key[t] = k
      BY <1>o, <3>1 DEF Owned
    <3>2. CASE \A t \in Threads : ~(pc[t] = "critical" /\ key[t] = k)
      BY <1>o, <3>2 DEF Owned
    <3> QED
      BY <3>1, <3>2
  <2> QED
    BY <1>t, <2>1
<1>w. ASSUME NEW t \in Threads, NEW x,
             x = IF pc'[t] \in {"enter", "register", "wait", "critical"}
                 THEN key'[t] ELSE NoKey,
             \A s \in Threads \ {t} : pc'[s] = pc[s] /\ key'[s] = key[s]
      PROVE  wants' = [wants EXCEPT ![t] = x]
  BY <1>w DEF wants
<1>1. ASSUME NEW t \in Threads, NEW k \in Keys, Request(t, k)
      PROVE  Lock!Request(t, k)
  <2>1. /\ pc[t] = "idle" /\ pc'[t] = "enter" /\ key'[t] = k
        /\ \A s \in Threads \ {t} : pc'[s] = pc[s] /\ key'[s] = key[s]
    BY <1>1 DEF Request, Goto, IInv, TypeOK
  <2>2. wants[t] = NoKey
    BY <2>1 DEF wants
  <2>3. wants' = [wants EXCEPT ![t] = k]
    BY <1>w, <2>1
  <2>4. owner' = owner
    BY <1>o, <2>1
  <2> QED
    BY <2>2, <2>3, <2>4 DEF Lock!Request
<1>2. ASSUME NEW t \in Threads, Acquire(t)
      PROVE  Lock!Grant(t, key[t]) /\ key[t] \in Keys
  <2>1. /\ pc[t] = "wait" /\ pc'[t] = "critical" /\ key' = key
        /\ \A s \in Threads \ {t} : pc'[s] = pc[s]
        /\ emu[mine[t]] = Nobody
    BY <1>2 DEF Acquire, Goto, IInv, TypeOK
  <2>2. key[t] \in Keys /\ locks[key[t]] = mine[t]
    BY <2>1 DEF IInv, Held, Registered
  <2>3. wants[t] = key[t]
    BY <2>1 DEF wants
  <2>4. wants' = wants
    BY <2>1 DEF wants
  <2>5. \A s \in Threads : ~(pc[s] = "critical" /\ key[s] = key[t])
    BY <2>1, <2>2, KeyedMutexAssumption DEF IInv, Held, Registered
  <2>6. owner[key[t]] = Nobody
    BY <2>2, <2>5 DEF Owned
  <2>7. owner' = [owner EXCEPT ![key[t]] = t]
    <3>1. owner'[key[t]] = t
      BY <2>1, <2>2 DEF Owned
    <3>2. ASSUME NEW k \in Keys, k # key[t]
          PROVE  owner'[k] = owner[k]
      <4>1. \A s \in Threads : pc'[s] = "critical" /\ key'[s] = k
                               <=> pc[s] = "critical" /\ key[s] = k
        BY <2>1, <3>2
      <4>2. CASE \E s \in Threads : pc[s] = "critical" /\ key[s] = k
        BY <4>1, <4>2 DEF Owned
      <4>3. CASE \A s \in Threads : ~(pc[s] = "critical" /\ key[s] = k)
        BY <4>1, <4>3 DEF Owned
      <4> QED
        BY <4>2, <4>3
    <3> QED
      BY <1>t, <2>2, <3>1, <3>2
  <2> QED
    BY <2>2, <2>3, <2>4, <2>6, <2>7 DEF Lock!Grant
<1>3. ASSUME NEW t \in Threads, Release(t)
      PROVE  Lock!Free(t, key[t]) /\ key[t] \in Keys
  <2>1. /\ pc[t] = "critical" /\ pc'[t] = "leave" /\ key' = key
        /\ \A s \in Threads \ {t} : pc'[s] = pc[s]
    BY <1>3 DEF Release, Goto, IInv, TypeOK
  <2>2. key[t] \in Keys
    BY <2>1 DEF IInv, Held
  <2>3. owner[key[t]] = t
    BY <2>1, <2>2 DEF Owned
  <2>4. wants' = [wants EXCEPT ![t] = NoKey]
    BY <1>w, <2>1
  <2>5. owner' = [owner EXCEPT ![key[t]] = Nobody]
    <3>1. \A s \in Threads : pc[s] = "critical" /\ key[s] = key[t] => s = t
      BY <2>1, Exclusive DEF MutualExclusion
    <3>2. owner'[key[t]] = Nobody
      BY <2>1, <2>2, <3>1 DEF Owned
    <3>3. ASSUME NEW k \in Keys, k # key[t]
          PROVE  owner'[k] = owner[k]
      <4>1. \A s \in Threads : pc'[s] = "critical" /\ key'[s] = k
                               <=> pc[s] = "critical" /\ key[s] = k
        BY <2>1, <3>3
      <4>2. CASE \E s \in Threads : pc[s] = "critical" /\ key[s] = k
        BY <4>1, <4>2 DEF Owned
      <4>3. CASE \A s \in Threads : ~(pc[s] = "critical" /\ key[s] = k)
        BY <4>1, <4>3 DEF Owned
      <4> QED
        BY <4>2, <4>3
    <3> QED
      BY <1>t, <2>2, <3>2, <3>3
  <2> QED
    BY <2>2, <2>3, <2>4, <2>5 DEF Lock!Free
<1>4. ASSUME NEW t \in Threads,
             Enter(t) \/ Register(t) \/ Leave(t) \/ Unregister(t)
      PROVE  UNCHANGED Lock!vars
  <2>1. \A s \in Threads :
            /\ pc'[s] = "critical" <=> pc[s] = "critical"
            /\ pc[s] = "critical" => key'[s] = key[s]
    BY <1>4 DEF Enter, Register, Leave, Unregister, Goto, IInv, TypeOK
  <2>2. owner' = owner
    BY <1>o, <2>1
  <2>3. \A s \in Threads :
            (IF pc'[s] \in {"enter", "register", "wait", "critical"}
             THEN key'[s] ELSE NoKey) =
            (IF pc[s] \in {"enter", "register", "wait", "critical"}
             THEN key[s] ELSE NoKey)
    BY <1>4 DEF Enter, Register, Leave, Unregister, Goto, IInv, TypeOK
  <2>4. wants' = wants
    BY <2>3 DEF wants
  <2> QED
    BY <2>2, <2>4 DEF Lock!vars
<1>5. CASE UNCHANGED vars
  <2>1. owner' = owner
    BY <1>o, <1>5 DEF vars
  <2>2. wants' = wants
    BY <1>5 DEF vars, wants
  <2> QED
    BY <2>1, <2>2 DEF Lock!vars
<1> QED
  BY <1>1, <1>2, <1>3, <1>4, <1>5 DEF Next, Step, Lock!Next

(* KeyedMutex is a lock per key (KeyedMutex.Lock).                         *)
THEOREM Implements == Spec => ImplementsLock
<1>1. Spec => []Owned
  BY MutualExclusionHolds, OwnedHolds, PTL
<1> QED
  BY <1>1, InitRefines, StepRefines, InvariantHolds, PTL
     DEF Spec, ImplementsLock, Lock!Spec

=============================================================================
