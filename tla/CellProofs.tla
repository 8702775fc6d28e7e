----------------------------- MODULE CellProofs -----------------------------
(***************************************************************************)
(* Proofs about the two lock-free cells the tasks share: the snapshot cell  *)
(* (Rcu) and, in the second half, the bitmap (SeqBits).                     *)
(*                                                                         *)
(* The snapshot cell, for any number of threads, of snapshots and of epochs *)
(* before the counter wraps (even 2).                                      *)
(*                                                                         *)
(* The argument: the mutex leaves at most one writer between the swap and  *)
(* the drop.  A reader that passed the check is counted under the present  *)
(* epoch, or under the one that this writer has ended and is draining; so a *)
(* raw pointer it holds is the cell's or the one that writer still owns.    *)
(***************************************************************************)
EXTENDS Rcu, SeqBits, FiniteSetTheorems, TLAPS

Registered == {"validate", "retreat", "load", "retain", "leave"}
Critical   == {"swap", "advance", "drain", "drop", "unlock"}

(* Under which counter each thread is registered, or Unregistered.         *)
Unregistered == 2
Counted == [t \in Threads |->
              IF pc[t] \in Registered THEN Slot(seenEpoch[t]) ELSE Unregistered]

MutexInv == \A t \in Threads : pc[t] \in Critical <=> writer = t

LocalInv == \A t \in Threads :
  /\ fresh[t] # NoSnapshot <=> pc[t] \in {"lock", "swap"}
  /\ retired[t] # NoSnapshot => pc[t] \in {"advance", "drain", "drop"}
  /\ loaded[t] # NoSnapshot <=> pc[t] = "retain"
  /\ handle[t] # NoSnapshot => pc[t] \notin ReadSteps \ {"leave"}

CounterInv == \A i \in Slots : readers[i] = Uses(Counted, i)

(* A writer that drains waits for the counter the readers have left.       *)
EpochInv ==
  /\ \A w \in Threads : pc[w] = "drain" => Slot(seenEpoch[w]) # Slot(epoch)
  /\ \A t \in Threads : pc[t] \in {"load", "retain"} =>
       \/ Slot(seenEpoch[t]) = Slot(epoch)
       \/ \E w \in Threads : /\ pc[w] = "drain"
                             /\ Slot(seenEpoch[w]) = Slot(seenEpoch[t])

(* A raw pointer that is not the cell's is one whose writer still waits for *)
(* this very reader.                                                        *)
PointerInv == \A t \in Threads : pc[t] = "retain" =>
  \/ loaded[t] = ptr
  \/ \E w \in Threads :
       /\ retired[w] = loaded[t]
       /\ \/ pc[w] = "advance"
          \/ pc[w] = "drain" /\ Slot(seenEpoch[w]) = Slot(seenEpoch[t])

IInv == /\ TypeOK
        /\ MutexInv
        /\ LocalInv
        /\ CounterInv
        /\ EpochInv
        /\ PointerInv
        /\ ExactCounts

-----------------------------------------------------------------------------
(* How the number of uses of x follows the entry of t, from f to g.         *)
Follows(f, g, t, x) ==
  /\ Uses(f, x) \in Nat /\ Uses(g, x) \in Nat
  /\ f[t] # x /\ g[t] = x => Uses(g, x) = Uses(f, x) + 1
  /\ f[t] = x /\ g[t] # x => Uses(g, x) = Uses(f, x) - 1
  /\ (f[t] = x) = (g[t] = x) => Uses(g, x) = Uses(f, x)

(* Changing one entry of f moves one thread from its old value to its new.  *)
LEMMA UsesUpdate ==
  ASSUME NEW f, NEW g, NEW t \in Threads, NEW x,
         \A u \in Threads : u # t => g[u] = f[u]
  PROVE  Follows(f, g, t, x)
<1> DEFINE F == {u \in Threads : f[u] = x}
           G == {u \in Threads : g[u] = x}
<1>1. Uses(f, x) = Cardinality(F) /\ Uses(g, x) = Cardinality(G)
  BY Zenon DEF Uses
<1>2. IsFiniteSet(F) /\ IsFiniteSet(G)
  BY ThreadsAssumption, FS_Subset
<1>3. Cardinality(F) \in Nat /\ Cardinality(G) \in Nat
  BY <1>2, FS_CardinalityType
<1>4. (f[t] = x) = (g[t] = x) => G = F
  OBVIOUS
<1>5. f[t] = x /\ g[t] # x => G = F \ {t} /\ t \in F
  OBVIOUS
<1>6. f[t] # x /\ g[t] = x => G = F \union {t} /\ t \notin F
  OBVIOUS
<1> HIDE DEF F, G
<1>7. f[t] = x /\ g[t] # x => Cardinality(G) = Cardinality(F) - 1
  BY <1>2, <1>5, FS_RemoveElement
<1>8. f[t] # x /\ g[t] = x => Cardinality(G) = Cardinality(F) + 1
  BY <1>2, <1>6, FS_AddElement
<1> QED  BY <1>1, <1>3, <1>4, <1>7, <1>8 DEF Follows

(* A value that nobody has is used 0 times, and one that somebody has, more. *)
LEMMA UsesPositive ==
  ASSUME NEW f, NEW x
  PROVE  /\ Uses(f, x) \in Nat
         /\ Uses(f, x) = 0 <=> \A t \in Threads : f[t] # x
<1> DEFINE F == {u \in Threads : f[u] = x}
<1>1. IsFiniteSet(F)
  BY ThreadsAssumption, FS_Subset
<1>2. Cardinality(F) \in Nat /\ (Cardinality(F) = 0 <=> F = {})
  BY <1>1, FS_CardinalityType, FS_EmptySet
<1> QED  BY <1>2 DEF Uses

(* The two epochs a publication separates use different counters, also when *)
(* the epoch wraps.                                                         *)
LEMMA SlotAlternates ==
  ASSUME NEW e \in 0 .. EpochMod - 1
  PROVE  /\ NextEpoch(e) \in 0 .. EpochMod - 1
         /\ Slot(e) \in Slots
         /\ Slot(NextEpoch(e)) # Slot(e)
  BY EpochAssumption DEF NextEpoch, Slot, Slots

-----------------------------------------------------------------------------
(* The initial state satisfies the inductive invariant.                     *)
LEMMA InitIInv == Init => IInv
<1> SUFFICES ASSUME Init PROVE IInv
  OBVIOUS
<1> USE SnapshotsAssumption, ThreadsAssumption, EpochAssumption DEF Init
<1>1. TypeOK
  BY DEF TypeOK, Slots, Steps
<1>2. MutexInv /\ LocalInv
  BY DEF MutexInv, LocalInv, Critical, ReadSteps
<1>3. CounterInv
  <2>1. Counted \in [Threads -> {Unregistered}]
    BY DEF Counted, Registered
  <2>2. ASSUME NEW i \in Slots PROVE Uses(Counted, i) = 0
    <3>1. \A t \in Threads : Counted[t] # i
      BY <2>1 DEF Slots, Unregistered
    <3> QED  BY <2>1, <3>1, UsesPositive
  <2> QED  BY <2>2 DEF CounterInv
<1>4. EpochInv /\ PointerInv
  BY DEF EpochInv, PointerInv
<1>5. ExactCounts
  <2>1. \A s \in Snapshots :
          Uses(handle, s) = 0 /\ Uses(fresh, s) = 0 /\ Uses(retired, s) = 0
    <3> DEFINE none == [t \in Threads |-> NoSnapshot]
    <3>1. \A s \in Snapshots : Uses(none, s) = 0
      BY UsesPositive
    <3> QED  BY <3>1
  <2> QED  BY <2>1 DEF ExactCounts
<1> QED  BY <1>1, <1>2, <1>3, <1>4, <1>5 DEF IInv

(* The mutex and the local variables.                                       *)
LEMMA LocalStep ==
  ASSUME IInv, NEW t \in Threads, Progress(t) \/ Call(t)
  PROVE  MutexInv' /\ LocalInv'
<1> USE DEF IInv, TypeOK, MutexInv, LocalInv, Critical, ReadSteps, WriteSteps,
            Steps, Goto
<1>1. CASE LoadEpoch(t)
  BY <1>1, SnapshotsAssumption, ThreadsAssumption DEF LoadEpoch
<1>2. CASE Register(t)
  BY <1>2, SnapshotsAssumption, ThreadsAssumption DEF Register
<1>3. CASE Validate(t)
  BY <1>3, SnapshotsAssumption, ThreadsAssumption DEF Validate
<1>4. CASE Retreat(t)
  BY <1>4, SnapshotsAssumption, ThreadsAssumption DEF Retreat
<1>5. CASE LoadPtr(t)
  BY <1>5, SnapshotsAssumption, ThreadsAssumption DEF LoadPtr
<1>6. CASE Retain(t)
  BY <1>6, SnapshotsAssumption, ThreadsAssumption DEF Retain
<1>7. CASE Leave(t)
  BY <1>7, SnapshotsAssumption, ThreadsAssumption DEF Leave
<1>8. CASE Release(t)
  BY <1>8, SnapshotsAssumption, ThreadsAssumption DEF Release
<1>9. CASE Lock(t)
  BY <1>9, SnapshotsAssumption, ThreadsAssumption DEF Lock
<1>10. CASE Swap(t)
  BY <1>10, SnapshotsAssumption, ThreadsAssumption DEF Swap
<1>11. CASE Advance(t)
  BY <1>11, SnapshotsAssumption, ThreadsAssumption DEF Advance
<1>12. CASE Drain(t)
  BY <1>12, SnapshotsAssumption, ThreadsAssumption DEF Drain
<1>13. CASE DropRetired(t)
  BY <1>13, SnapshotsAssumption, ThreadsAssumption DEF DropRetired
<1>14. CASE Unlock(t)
  BY <1>14, SnapshotsAssumption, ThreadsAssumption DEF Unlock
<1>15. CASE \E s \in Snapshots : Allocate(t, s)
  BY <1>15, SnapshotsAssumption DEF Allocate
<1> QED  BY <1>1, <1>2, <1>3, <1>4, <1>5, <1>6, <1>7, <1>8, <1>9, <1>10, <1>11, <1>12, <1>13, <1>14, <1>15 DEF Progress, Call

(* What a thread registered or owns is counted, so no counter underflows.   *)
LEMMA CountedPositive ==
  ASSUME IInv, NEW t \in Threads
  PROVE  /\ Counted \in [Threads -> 0 .. 2]
         /\ pc[t] \in Registered => readers[Slot(seenEpoch[t])] > 0
         /\ \A s \in Snapshots :
              s \in {handle[t], fresh[t], retired[t], ptr} => strong[s] > 0
<1>1. Counted \in [Threads -> 0 .. 2]
  BY SlotAlternates DEF Counted, IInv, TypeOK, Slots, Unregistered
<1>2. ASSUME pc[t] \in Registered PROVE readers[Slot(seenEpoch[t])] > 0
  <2>1. /\ Slot(seenEpoch[t]) \in Slots
        /\ Counted[t] = Slot(seenEpoch[t])
    BY <1>2, SlotAlternates DEF IInv, TypeOK, Counted
  <2>2. /\ Uses(Counted, Slot(seenEpoch[t])) \in Nat
        /\ Uses(Counted, Slot(seenEpoch[t])) # 0
    BY <1>1, <2>1, UsesPositive
  <2> QED  BY <2>1, <2>2 DEF IInv, CounterInv
<1>3. ASSUME NEW s \in Snapshots,
             s \in {handle[t], fresh[t], retired[t], ptr}
      PROVE  strong[s] > 0
  <2> DEFINE c == IF ptr = s THEN 1 ELSE 0
             h == Uses(handle, s)
             f == Uses(fresh, s)
             r == Uses(retired, s)
  <2>1. /\ h \in Nat /\ (handle[t] = s => h # 0)
        /\ f \in Nat /\ (fresh[t] = s => f # 0)
        /\ r \in Nat /\ (retired[t] = s => r # 0)
    <3>1. h \in Nat /\ (h = 0 <=> \A u \in Threads : handle[u] # s)
      BY UsesPositive DEF IInv, TypeOK
    <3>2. f \in Nat /\ (f = 0 <=> \A u \in Threads : fresh[u] # s)
      BY UsesPositive DEF IInv, TypeOK
    <3>3. r \in Nat /\ (r = 0 <=> \A u \in Threads : retired[u] # s)
      BY UsesPositive DEF IInv, TypeOK
    <3> HIDE DEF h, f, r
    <3> QED  BY <3>1, <3>2, <3>3
  <2>3. c \in Nat /\ (ptr = s => c # 0)
    OBVIOUS
  <2>2. strong[s] = c + h + f + r
    BY DEF IInv, ExactCounts
  <2> HIDE DEF c, h, f, r
  <2> QED  BY <1>3, <2>1, <2>3, <2>2
<1> QED  BY <1>1, <1>2, <1>3

LEMMA TypeStep ==
  ASSUME IInv, NEW t \in Threads, Progress(t) \/ Call(t)
  PROVE  TypeOK'
<1> USE DEF TypeOK, ReadSteps, WriteSteps, Steps, Goto
<1>0. TypeOK /\ LocalInv
  BY DEF IInv
<1>1. \A u \in Threads : Slot(seenEpoch[u]) \in Slots
  BY <1>0, SlotAlternates
<1>2. CASE LoadEpoch(t)
  BY <1>2, <1>0 DEF LoadEpoch
<1>3. CASE Register(t)
  BY <1>3, <1>0, <1>1 DEF Register
<1>4. CASE Validate(t)
  BY <1>4, <1>0 DEF Validate
<1>5. CASE Retreat(t)
  BY <1>5, <1>0, <1>1, CountedPositive DEF Registered, Retreat
<1>6. CASE LoadPtr(t)
  BY <1>6, <1>0 DEF LoadPtr
<1>7. CASE Retain(t)
  BY <1>7, <1>0 DEF LocalInv, Retain
<1>8. CASE Leave(t)
  BY <1>8, <1>0, <1>1, CountedPositive DEF Registered, Leave
<1>9. CASE Release(t)
  BY <1>9, <1>0, CountedPositive DEF Release
<1>10. CASE Lock(t)
  BY <1>10, <1>0 DEF Lock
<1>11. CASE Swap(t)
  BY <1>11, <1>0 DEF Swap
<1>12. CASE Advance(t)
  BY <1>12, <1>0, SlotAlternates DEF Advance
<1>13. CASE Drain(t)
  BY <1>13, <1>0 DEF Drain
<1>14. CASE DropRetired(t)
  BY <1>14, <1>0, CountedPositive DEF DropRetired
<1>15. CASE Unlock(t)
  BY <1>15, <1>0 DEF Unlock
<1>16. CASE \E s \in Snapshots : Allocate(t, s)
  BY <1>16, <1>0 DEF Allocate
<1> QED  BY <1>2, <1>3, <1>4, <1>5, <1>6, <1>7, <1>8, <1>9, <1>10, <1>11, <1>12, <1>13, <1>14, <1>15, <1>16 DEF Progress, Call

-----------------------------------------------------------------------------
(* A step of t leaves every other thread under the counter it was under.    *)
LEMMA CountedStep ==
  ASSUME IInv, NEW t \in Threads, Progress(t) \/ Call(t)
  PROVE  \A u \in Threads : u # t => Counted'[u] = Counted[u]
<1> USE DEF IInv, TypeOK, Counted, Goto
<1>1. ASSUME NEW u \in Threads, u # t
      PROVE  pc'[u] = pc[u] /\ seenEpoch'[u] = seenEpoch[u]
  BY <1>1 DEF Progress, Call, LoadEpoch, Register, Validate, Retreat, LoadPtr,
     Retain, Leave, Release, Lock, Swap, Advance, Drain, DropRetired, Unlock,
     Allocate
<1> QED  BY <1>1

(* The registration counters.                                               *)
LEMMA CounterStep ==
  ASSUME IInv, NEW t \in Threads, Progress(t) \/ Call(t)
  PROVE  CounterInv'
<1> DEFINE bump(i) == (IF Counted'[t] = i THEN 1 ELSE 0)
                        - (IF Counted[t] = i THEN 1 ELSE 0)
<1>1. TypeOK' /\ TypeOK
  BY TypeStep DEF IInv
<1>2. Counted'[t] \in 0 .. 2 /\ Counted \in [Threads -> 0 .. 2]
  BY <1>1, SlotAlternates, CountedPositive DEF Counted, TypeOK, Slots, Unregistered
<1>3. ASSUME NEW i \in Slots
      PROVE  Uses(Counted', i) = Uses(Counted, i) + bump(i)
  <2>1. Follows(Counted, Counted', t, i)
    BY CountedStep, UsesUpdate
  <2> QED  BY <2>1 DEF Follows
<1>p. \A i \in Slots : Uses(Counted, i)' = Uses(Counted', i)
  BY Zenon DEF Uses
<1>q. \A i \in Slots : readers[i] = Uses(Counted, i)
  BY DEF IInv, CounterInv
<1> HIDE DEF bump
<1> SUFFICES ASSUME NEW i \in Slots
             PROVE  readers'[i] = readers[i] + bump(i)
  BY <1>3, <1>p, <1>q DEF CounterInv
<1> USE DEF bump
<1> HIDE DEF bump
<1>4. \A u \in Threads : Counted[u] = IF pc[u] \in Registered
                                     THEN Slot(seenEpoch[u]) ELSE 2
  BY DEF Counted, Unregistered
<1>5. Counted'[t] = IF pc'[t] \in Registered THEN Slot(seenEpoch'[t]) ELSE 2
  BY DEF Counted, Unregistered, Slot
<1>6. i # 2 /\ Slot(seenEpoch[t]) \in Slots /\ Slot(seenEpoch[t]) # 2
  BY <1>1, SlotAlternates DEF TypeOK, Slots
<1>7. /\ bump(i) = (IF Counted'[t] = i THEN 1 ELSE 0)
                     - (IF Counted[t] = i THEN 1 ELSE 0)
  BY DEF bump
<1> HIDE DEF Slot
<1>8. CASE Register(t)
  BY <1>1, <1>4, <1>5, <1>6, <1>7, <1>8 DEF Register, Goto, TypeOK, Registered
<1>9. CASE Retreat(t)
  BY <1>1, <1>4, <1>5, <1>6, <1>7, <1>9 DEF Retreat, Goto, TypeOK, Registered
<1>10. CASE Leave(t)
  BY <1>1, <1>4, <1>5, <1>6, <1>7, <1>10 DEF Leave, Goto, TypeOK, Registered
<1>11. ASSUME ~ Register(t), ~ Retreat(t), ~ Leave(t)
       PROVE  readers' = readers /\ Counted'[t] = Counted[t]
  <2> USE <1>1, <1>4, <1>5, <1>11 DEF TypeOK, Registered, Goto
  <2>1. CASE LoadEpoch(t)
    BY <2>1 DEF LoadEpoch
  <2>2. CASE Validate(t) \/ LoadPtr(t) \/ Retain(t) \/ Release(t)
    BY <2>2 DEF Validate, LoadPtr, Retain, Release
  <2>3. CASE Lock(t) \/ Swap(t) \/ Advance(t) \/ Drain(t)
    BY <2>3 DEF Lock, Swap, Advance, Drain
  <2>4. CASE DropRetired(t) \/ Unlock(t)
    BY <2>4 DEF DropRetired, Unlock
  <2>5. CASE \E s \in Snapshots : Allocate(t, s)
    BY <2>5 DEF Allocate
  <2> QED  BY <2>1, <2>2, <2>3, <2>4, <2>5 DEF Progress, Call
<1> QED  BY <1>1, <1>7, <1>8, <1>9, <1>10, <1>11 DEF TypeOK

(* Where the readers that passed the check are counted.                      *)
LEMMA EpochStep ==
  ASSUME IInv, NEW t \in Threads, Progress(t) \/ Call(t)
  PROVE  EpochInv'
<1> USE DEF Goto
<1>1. TypeOK /\ MutexInv /\ EpochInv
  BY DEF IInv
<1>2. \A e \in 0 .. EpochMod - 1 :
        Slot(e) \in Slots /\ Slot(NextEpoch(e)) # Slot(e)
  BY SlotAlternates
<1>3. \A u \in Threads : pc[u] \in Registered =>
        readers[Slot(seenEpoch[u])] > 0
  BY CountedPositive
<1>4. \A u \in Threads \ {t} : pc'[u] = pc[u] /\ seenEpoch'[u] = seenEpoch[u]
  BY <1>1 DEF TypeOK, Progress, Call, LoadEpoch, Register, Validate, Retreat,
     LoadPtr, Retain, Leave, Release, Lock, Swap, Advance, Drain, DropRetired,
     Unlock, Allocate
<1>5. CASE Advance(t)
  <2>1. \A w \in Threads : pc[w] # "drain"
    BY <1>1, <1>5, ThreadsAssumption DEF Advance, MutexInv, Critical
  <2>2. /\ pc' = [pc EXCEPT ![t] = "drain"]
        /\ seenEpoch' = [seenEpoch EXCEPT ![t] = epoch]
        /\ epoch' = NextEpoch(epoch)
        /\ Slot(epoch') # Slot(epoch)
    BY <1>1, <1>2, <1>5 DEF Advance, TypeOK
  <2>3. /\ pc'[t] = "drain" /\ Slot(seenEpoch'[t]) = Slot(epoch)
        /\ \A u \in Threads : pc'[u] \in {"load", "retain"} =>
             u # t /\ Slot(seenEpoch'[u]) = Slot(epoch)
    BY <1>1, <1>4, <2>1, <2>2 DEF TypeOK, EpochInv
  <2>4. \A w \in Threads : pc'[w] = "drain" => w = t
    BY <1>4, <2>1
  <2> QED  BY <2>2, <2>3, <2>4 DEF EpochInv, Slot
<1>6. CASE Validate(t)
  BY <1>1, <1>6 DEF Validate, EpochInv, TypeOK, Slot
<1>7. CASE Drain(t)
  <2>1. \A u \in Threads : pc[u] \in {"load", "retain"} =>
          Slot(seenEpoch[u]) # Slot(seenEpoch[t])
    BY <1>3, <1>7 DEF Drain, Registered
  <2>2. /\ pc'[t] = "drop" /\ epoch' = epoch /\ seenEpoch' = seenEpoch
    BY <1>1, <1>7 DEF Drain, TypeOK
  <2> QED  BY <1>1, <1>4, <2>1, <2>2 DEF EpochInv, Slot
<1>8. ASSUME ~ Advance(t), ~ Validate(t), ~ Drain(t)
      PROVE  /\ epoch' = epoch
             /\ pc[t] # "drain" /\ pc'[t] # "drain"
             /\ pc'[t] \in {"load", "retain"} =>
                  pc[t] \in {"load", "retain"} /\ seenEpoch'[t] = seenEpoch[t]
  BY <1>1, <1>8 DEF TypeOK, Progress, Call, LoadEpoch, Register, Retreat,
     LoadPtr, Retain, Leave, Release, Lock, Swap, DropRetired, Unlock, Allocate
<1>9. ASSUME ~ Advance(t), ~ Validate(t), ~ Drain(t) PROVE EpochInv'
  BY <1>1, <1>4, <1>8, <1>9 DEF EpochInv, Slot
<1> QED  BY <1>5, <1>6, <1>7, <1>9

(* Who still owns the snapshot behind a reader's raw pointer.                *)
LEMMA PointerStep ==
  ASSUME IInv, NEW t \in Threads, Progress(t) \/ Call(t)
  PROVE  PointerInv'
<1> USE DEF Goto
<1>1. TypeOK /\ MutexInv /\ LocalInv /\ EpochInv /\ PointerInv
  BY DEF IInv
<1>2. \A u \in Threads : pc[u] \in Registered =>
        readers[Slot(seenEpoch[u])] > 0
  BY CountedPositive
<1>3. \A u \in Threads \ {t} :
        /\ pc'[u] = pc[u] /\ seenEpoch'[u] = seenEpoch[u]
        /\ loaded'[u] = loaded[u] /\ retired'[u] = retired[u]
  BY <1>1 DEF TypeOK, Progress, Call, LoadEpoch, Register, Validate, Retreat,
     LoadPtr, Retain, Leave, Release, Lock, Swap, Advance, Drain, DropRetired,
     Unlock, Allocate
<1>4. \A w \in Threads : pc[w] \in Critical => writer = w
  BY <1>1 DEF MutexInv
<1>5. CASE Swap(t)
  <2>1. /\ retired'[t] = ptr /\ pc'[t] = "advance"
        /\ pc[t] = "swap"
    BY <1>1, <1>5 DEF Swap, TypeOK
  <2>2. \A u \in Threads : pc'[u] = "retain" => u # t /\ loaded[u] = ptr
    BY <1>1, <1>3, <1>4, <2>1 DEF PointerInv, Critical
  <2> QED  BY <1>3, <2>1, <2>2 DEF PointerInv
<1>6. CASE Advance(t)
  <2>1. /\ ptr' = ptr /\ retired' = retired /\ pc'[t] = "drain"
        /\ seenEpoch'[t] = epoch /\ pc[t] = "advance"
    BY <1>1, <1>6 DEF Advance, TypeOK
  <2>2. \A u \in Threads : pc'[u] = "retain" =>
          /\ u # t
          /\ Slot(seenEpoch'[u]) = Slot(seenEpoch'[t])
          /\ loaded'[u] = ptr \/ retired'[t] = loaded'[u]
    BY <1>1, <1>3, <1>4, <2>1 DEF PointerInv, EpochInv, Critical
  <2> QED  BY <2>1, <2>2 DEF PointerInv, Slot
<1>7. CASE Drain(t)
  <2>1. /\ ptr' = ptr /\ retired' = retired /\ pc'[t] = "drop"
        /\ seenEpoch' = seenEpoch /\ loaded' = loaded
        /\ pc[t] = "drain" /\ readers[Slot(seenEpoch[t])] = 0
    BY <1>1, <1>7 DEF Drain, TypeOK
  <2>2. \A u \in Threads : pc'[u] = "retain" => loaded[u] = ptr
    BY <1>1, <1>2, <1>3, <1>4, <2>1 DEF PointerInv, Critical, Registered
  <2> QED  BY <2>1, <2>2 DEF PointerInv
<1>8. ASSUME ~ Swap(t), ~ Advance(t), ~ Drain(t)
      PROVE  /\ ptr' = ptr
             /\ pc[t] \notin {"advance", "drain"}
             /\ pc'[t] = "retain" => loaded'[t] = ptr
  BY <1>1, <1>8 DEF TypeOK, LocalInv, Progress, Call, LoadEpoch, Register,
     Validate, Retreat, LoadPtr, Retain, Leave, Release, Lock, DropRetired,
     Unlock, Allocate
<1>9. ASSUME ~ Swap(t), ~ Advance(t), ~ Drain(t) PROVE PointerInv'
  BY <1>1, <1>3, <1>8, <1>9 DEF PointerInv, Slot
<1> QED  BY <1>5, <1>6, <1>7, <1>9

(* The reference counts.                                                     *)
LEMMA CountsStep ==
  ASSUME IInv, NEW t \in Threads, Progress(t) \/ Call(t)
  PROVE  ExactCounts'
<1>1. TypeOK /\ LocalInv /\ ExactCounts
  BY DEF IInv
<1>2. \A u \in Threads : u # t => /\ handle'[u] = handle[u]
                                 /\ fresh'[u] = fresh[u]
                                 /\ retired'[u] = retired[u]
  BY <1>1 DEF TypeOK, Goto, Progress, Call, LoadEpoch, Register, Validate,
     Retreat, LoadPtr, Retain, Leave, Release, Lock, Swap, Advance, Drain,
     DropRetired, Unlock, Allocate
<1> SUFFICES ASSUME NEW s \in Snapshots
             PROVE  strong'[s] = (IF ptr' = s THEN 1 ELSE 0)
               + Uses(handle', s) + Uses(fresh', s) + Uses(retired', s)
  BY Zenon DEF ExactCounts, Uses
<1>3. /\ Follows(handle, handle', t, s)
      /\ Follows(fresh, fresh', t, s)
      /\ Follows(retired, retired', t, s)
  BY <1>2, UsesUpdate
<1> DEFINE h == Uses(handle, s)    hh == Uses(handle', s)
           f == Uses(fresh, s)     ff == Uses(fresh', s)
           r == Uses(retired, s)   rr == Uses(retired', s)
           c == IF ptr = s THEN 1 ELSE 0
           cc == IF ptr' = s THEN 1 ELSE 0
<1>4. /\ h \in Nat /\ f \in Nat /\ r \in Nat /\ c \in Nat
      /\ hh \in Nat /\ ff \in Nat /\ rr \in Nat /\ cc \in Nat
      /\ strong[s] = c + h + f + r
  BY <1>1, <1>3 DEF Follows, ExactCounts
<1>5. /\ hh = h + (IF handle'[t] = s THEN 1 ELSE 0)
                - (IF handle[t] = s THEN 1 ELSE 0)
      /\ ff = f + (IF fresh'[t] = s THEN 1 ELSE 0)
                - (IF fresh[t] = s THEN 1 ELSE 0)
      /\ rr = r + (IF retired'[t] = s THEN 1 ELSE 0)
                - (IF retired[t] = s THEN 1 ELSE 0)
  BY <1>3, Z3 DEF Follows
<1>6. s # NoSnapshot
  BY SnapshotsAssumption
<1> SUFFICES strong'[s] = cc + hh + ff + rr
  OBVIOUS
<1> HIDE DEF h, hh, f, ff, r, rr
<1> USE <1>1, <1>4, <1>5, <1>6 DEF TypeOK, LocalInv, Goto, ReadSteps
<1>7. CASE Retain(t)
  BY <1>7 DEF Retain
<1>8. CASE Release(t)
  BY <1>8 DEF Release
<1>9. CASE Swap(t)
  BY <1>9 DEF Swap
<1>10. CASE DropRetired(t)
  BY <1>10 DEF DropRetired
<1>11. CASE \E a \in Snapshots : Allocate(t, a)
  BY <1>11 DEF Allocate
<1>12. ASSUME ~ Retain(t), ~ Release(t), ~ Swap(t), ~ DropRetired(t),
              ~ \E a \in Snapshots : Allocate(t, a)
       PROVE  UNCHANGED <<ptr, strong, handle, fresh, retired>>
  BY <1>12 DEF Progress, Call, LoadEpoch, Register, Validate, Retreat, LoadPtr,
     Leave, Lock, Advance, Drain, Unlock
<1> QED  BY <1>7, <1>8, <1>9, <1>10, <1>11, <1>12

-----------------------------------------------------------------------------
(* The invariant is inductive.                                               *)
LEMMA NextIInv == IInv /\ [Next]_vars => IInv'
<1>1. ASSUME IInv, NEW t \in Threads, Progress(t) \/ Call(t) PROVE IInv'
  BY <1>1, TypeStep, LocalStep, CounterStep, EpochStep, PointerStep, CountsStep
     DEF IInv
<1>2. ASSUME IInv, UNCHANGED vars PROVE IInv'
  <2>1. TypeOK' /\ MutexInv' /\ LocalInv' /\ EpochInv' /\ PointerInv'
    BY <1>2 DEF vars, IInv, TypeOK, MutexInv, LocalInv, EpochInv, PointerInv
  <2>2. CounterInv' /\ ExactCounts'
    BY <1>2 DEF vars, IInv, CounterInv, Counted, ExactCounts, Uses
  <2> QED  BY <2>1, <2>2 DEF IInv
<1> QED  BY <1>1, <1>2 DEF Next

LEMMA Inductive == Spec => []IInv
  BY InitIInv, NextIInv, PTL DEF Spec

(* Whatever a reader is about to retain and whatever is owned is allocated.  *)
LEMMA OwnedIsAllocated == IInv => NoUseAfterFree
<1> SUFFICES ASSUME IInv PROVE NoUseAfterFree
  OBVIOUS
<1>1. \A t \in Threads : \A s \in Snapshots :
        s \in {handle[t], fresh[t], retired[t], ptr} => strong[s] > 0
  BY CountedPositive
<1>2. ASSUME NEW t \in Threads, pc[t] = "retain"
      PROVE  strong[loaded[t]] > 0
  <2>1. loaded[t] \in Snapshots
    BY <1>2 DEF IInv, TypeOK, LocalInv
  <2>2. \E u \in Threads : loaded[t] \in {retired[u], ptr}
    BY <1>2 DEF IInv, PointerInv
  <2> QED  BY <1>1, <2>1, <2>2
<1>3. \A t \in Threads : \A s \in {handle[t], fresh[t], retired[t], ptr} :
        s # NoSnapshot => s \in Snapshots
  BY DEF IInv, TypeOK
<1> QED  BY <1>1, <1>2, <1>3 DEF NoUseAfterFree

(* Every state has the types of rcu.rs: in particular neither a registration *)
(* counter nor a reference count ever underflows.                           *)
THEOREM TypeCorrect == Spec => []TypeOK
<1>1. IInv => TypeOK
  BY DEF IInv
<1> QED  BY <1>1, Inductive, PTL

(* A snapshot that a reader is about to retain, or that anybody owns, has    *)
(* not been freed, for any number of threads and writes (rcu.rs:79-88).      *)
THEOREM Safe == Spec => []NoUseAfterFree
  BY OwnedIsAllocated, Inductive, PTL

(* Every reference is counted exactly once: no snapshot is leaked and none   *)
(* is dropped twice.                                                        *)
THEOREM Exact == Spec => []ExactCounts
<1>1. IInv => ExactCounts
  BY DEF IInv
<1> QED  BY <1>1, Inductive, PTL

-----------------------------------------------------------------------------
(* The detailed cell implements SnapshotCell.                                *)
View == [t \in Threads |-> IF pc[t] = "retain" THEN loaded[t] ELSE handle[t]]
Live == {s \in Snapshots : strong[s] > 0}

(* The steps that read() and write() take between the instants a caller can  *)
(* tell apart leave the abstract cell as it is.                             *)
LEMMA Stutter ==
  ASSUME IInv, NEW t \in Threads,
         \/ LoadEpoch(t) \/ Register(t) \/ Validate(t) \/ Retreat(t)
         \/ Leave(t) \/ Lock(t) \/ Advance(t) \/ Drain(t) \/ Unlock(t)
  PROVE  UNCHANGED <<ptr, fresh, View, Live>>
<1>1. UNCHANGED <<ptr, fresh, strong, loaded, handle>>
  BY DEF LoadEpoch, Register, Validate, Retreat, Leave, Lock, Advance, Drain,
     Unlock
<1>2. \A u \in Threads : (pc'[u] = "retain") = (pc[u] = "retain")
  BY DEF IInv, TypeOK, Goto, LoadEpoch, Register, Validate, Retreat, Leave,
     Lock, Advance, Drain, Unlock
<1> QED  BY <1>1, <1>2 DEF View, Live

(* A snapshot that is not allocated is out of everybody's reach.             *)
FreeIsUnreachable ==
  \A s \in Snapshots \ Live :
    ptr # s /\ \A u \in Threads : fresh[u] # s /\ View[u] # s

LEMMA Unreachable == IInv /\ Threads # {} => FreeIsUnreachable
<1> SUFFICES ASSUME IInv, Threads # {}, NEW s \in Snapshots, s \notin Live
             PROVE  ptr # s /\ \A u \in Threads : fresh[u] # s /\ View[u] # s
  BY DEF FreeIsUnreachable
<1>1. ~ (strong[s] > 0)
  BY DEF Live
<1>2. s # NoSnapshot
  BY SnapshotsAssumption
<1>3. NoUseAfterFree
  BY OwnedIsAllocated
<1>4. \A u \in Threads : fresh[u] # s /\ View[u] # s
  BY <1>1, <1>2, <1>3 DEF NoUseAfterFree, View
<1>5. ptr # s
  BY <1>1, CountedPositive
<1> QED  BY <1>4, <1>5

(* Init maps to Init.                                                        *)
LEMMA CellInit == Init => Cell!Init
<1> SUFFICES ASSUME Init PROVE Cell!Init
  OBVIOUS
<1>1. View = [t \in Threads |-> NoSnapshot]
  BY DEF Init, View
<1>2. Live = {ptr} \ {NoSnapshot}
  BY SnapshotsAssumption DEF Init, Live
<1>3. /\ ptr \in Snapshots \union {NoSnapshot}
      /\ fresh = [t \in Threads |-> NoSnapshot]
  BY DEF Init
<1> QED  BY <1>1, <1>2, <1>3 DEF Cell!Init, View, Live

(* Every step of a thread is a step of the abstract cell or none.            *)
LEMMA CellStep ==
  ASSUME IInv, IInv', NEW t \in Threads, Progress(t) \/ Call(t)
  PROVE  Cell!Next \/ UNCHANGED <<ptr, fresh, View, Live>>
<1> USE SnapshotsAssumption DEF Goto
<1>1. TypeOK /\ LocalInv
  BY DEF IInv
<1>2. TypeOK' /\ View' = [u \in Threads |->
                IF pc'[u] = "retain" THEN loaded'[u] ELSE handle'[u]]
      /\ Live' = {s \in Snapshots : strong'[s] > 0}
  BY DEF IInv, View, Live
<1>3. View = [u \in Threads |->
                IF pc[u] = "retain" THEN loaded[u] ELSE handle[u]]
      /\ Live = {s \in Snapshots : strong[s] > 0}
  BY DEF View, Live
<1>4. FreeIsUnreachable'
  <2>1. (IInv /\ Threads # {} => FreeIsUnreachable)'
    BY Unreachable, PTL
  <2> QED  BY <2>1
<1> HIDE DEF View, Live
<1>5. CASE \/ LoadEpoch(t) \/ Register(t) \/ Validate(t) \/ Retreat(t)
           \/ Leave(t) \/ Lock(t) \/ Advance(t) \/ Drain(t) \/ Unlock(t)
  BY <1>5, Stutter
<1>6. CASE LoadPtr(t)
  <2>1. UNCHANGED <<ptr, fresh, Live>>
    BY <1>6 DEF LoadPtr, Live
  <2>2. View[t] = NoSnapshot
    BY <1>1, <1>3, <1>6 DEF LoadPtr, LocalInv, ReadSteps
  <2>3. View' = [View EXCEPT ![t] = ptr]
    BY <1>1, <1>2, <1>3, <1>6, <2>2 DEF LoadPtr, TypeOK, LocalInv, ReadSteps
  <2>4. CASE ptr = NoSnapshot
    BY <1>3, <2>1, <2>2, <2>3, <2>4
  <2>5. CASE ptr # NoSnapshot
    BY <2>1, <2>2, <2>3, <2>5 DEF Cell!Next, Cell!Acquire, View, Live
  <2> QED  BY <2>4, <2>5
<1>7. CASE Retain(t)
  <2>1. strong[loaded[t]] > 0 /\ loaded[t] \in Snapshots
    BY <1>1, <1>7, OwnedIsAllocated DEF Retain, NoUseAfterFree, TypeOK, LocalInv
  <2>2. Live' = Live
    BY <1>1, <1>2, <1>3, <1>7, <2>1 DEF Retain, TypeOK
  <2>3. View' = View
    BY <1>1, <1>2, <1>3, <1>7 DEF Retain, TypeOK
  <2> QED  BY <1>7, <2>2, <2>3 DEF Retain
<1>8. CASE Release(t)
  <2>1. /\ UNCHANGED <<ptr, fresh>> /\ View[t] = handle[t]
        /\ handle[t] # NoSnapshot /\ handle[t] \in Snapshots
    BY <1>1, <1>3, <1>8 DEF Release, TypeOK
  <2>2. View' = [View EXCEPT ![t] = NoSnapshot]
    BY <1>1, <1>2, <1>3, <1>8 DEF Release, TypeOK
  <2>3. \/ Live' = Live
        \/ Live' = Live \ {handle[t]} /\ handle[t] \notin Live'
    <3>1. \A s \in Snapshots \ {handle[t]} : strong'[s] = strong[s]
      BY <1>1, <1>8 DEF Release, TypeOK
    <3>2. strong[handle[t]] > 0
      BY <2>1, CountedPositive
    <3> QED  BY <1>2, <1>3, <2>1, <3>1, <3>2
  <2>4. ASSUME Live' # Live
        PROVE  /\ ptr # handle[t]
               /\ \A u \in Threads \ {t} : View[u] # handle[t]
               /\ \A u \in Threads : fresh[u] # handle[t]
    BY <1>2, <1>3, <1>4, <2>1, <2>2, <2>3, <2>4 DEF FreeIsUnreachable
  <2> QED  BY <2>1, <2>2, <2>3, <2>4 DEF Cell!Next, Cell!Release, View, Live
<1>9. CASE Swap(t)
  <2>1. /\ fresh[t] # NoSnapshot /\ ptr' = fresh[t]
        /\ fresh' = [fresh EXCEPT ![t] = NoSnapshot]
    BY <1>1, <1>9 DEF Swap, LocalInv
  <2>2. Live' = Live /\ View' = View
    BY <1>1, <1>2, <1>3, <1>9 DEF Swap, TypeOK
  <2> QED  BY <2>1, <2>2 DEF Cell!Next, Cell!Publish, View, Live
<1>10. CASE DropRetired(t)
  <2>1. UNCHANGED <<ptr, fresh>> /\ View' = View
    BY <1>1, <1>2, <1>3, <1>10 DEF DropRetired, TypeOK
  <2>2. Live' = Live \/ \E s \in Live : Live' = Live \ {s} /\ s \in Snapshots
    BY <1>1, <1>2, <1>3, <1>10 DEF DropRetired, TypeOK
  <2>3. CASE Live' = Live
    BY <2>1, <2>3
  <2>4. ASSUME NEW s \in Live, s \in Snapshots, Live' = Live \ {s}
        PROVE  Cell!Reclaim(s)
    BY <1>4, <2>1, <2>4 DEF FreeIsUnreachable, Cell!Reclaim, Cell!Reachable, View, Live
  <2> QED  BY <2>2, <2>3, <2>4 DEF Cell!Next
<1>11. ASSUME NEW s \in Snapshots, Allocate(t, s) PROVE Cell!Prepare(t, s)
  <2>1. /\ fresh[t] = NoSnapshot /\ ptr' = ptr
        /\ fresh' = [fresh EXCEPT ![t] = s] /\ s \notin Live
    BY <1>1, <1>3, <1>11 DEF Allocate, LocalInv, TypeOK
  <2>2. View' = View
    BY <1>1, <1>2, <1>3, <1>11 DEF Allocate, TypeOK
  <2>3. Live' = Live \union {s}
    BY <1>1, <1>2, <1>3, <1>11 DEF Allocate, TypeOK
  <2> QED  BY <2>1, <2>2, <2>3 DEF Cell!Prepare, View, Live
<1> QED
  BY <1>5, <1>6, <1>7, <1>8, <1>9, <1>10, <1>11
     DEF Progress, Call, Cell!Next

(* The cell of rcu.rs keeps the promises of SnapshotCell.                    *)
THEOREM Refines == Spec => ImplementsCell
<1>1. IInv /\ IInv' /\ [Next]_vars => [Cell!Next]_(Cell!vars)
  <2>1. ASSUME IInv, IInv', NEW t \in Threads, Progress(t) \/ Call(t)
        PROVE  [Cell!Next]_(Cell!vars)
    BY <2>1, CellStep DEF Cell!vars, View, Live
  <2>2. ASSUME UNCHANGED vars PROVE UNCHANGED Cell!vars
    BY <2>2 DEF vars, Cell!vars
  <2> QED  BY <2>1, <2>2 DEF Next
<1> QED  BY <1>1, CellInit, Inductive, PTL DEF Spec, ImplementsCell, Cell!Spec

-----------------------------------------------------------------------------
(***************************************************************************)
(* The bitmap, for any number of tasks, bits, words and writes.            *)
(*                                                                         *)
(* The argument: the number is odd exactly while one task writes, so a      *)
(* reader that finds the even number it started with has seen no writer,    *)
(* and what it gathered word by word is the whole register.  A write counts *)
(* from the moment it makes the number odd; the words it has not stored yet *)
(* nobody can return, and when it ends each of its bits is in its word.     *)
(***************************************************************************)
Looking(t) == at[t] \in {"gather", "check"}
Held(S)    == UNION {words[i] : i \in S}

(* What the number says of the task that saw it: a writer has made it odd    *)
(* and nobody has moved it since; a reader has seen it even.                *)
Numbered == \A t \in Tasks :
  /\ mine[t] <= seq
  /\ Writing(t) => seq = mine[t] + 1
  /\ Looking(t) => mine[t] % 2 = 0

(* A writer that has left a word has put its bits there, and the word it     *)
(* has loaded is still the one in memory.                                   *)
Written == \A t \in Tasks :
  /\ (at[t] = "begin" \/ Writing(t)) => req[t] \in Requests
  /\ Writing(t) => \A b \in req[t].mask :
       WordOf[b] \notin left[t] => (b \in words[WordOf[b]] <=> b \in req[t].value)
  /\ at[t] = "store" => \A i \in Words : Least(i, left[t]) => cur[t] = words[i]

(* As long as the number is the one it saw, a reader has what is there.      *)
Gathered == \A t \in Tasks :
  /\ Looking(t) /\ seq = mine[t] => acc[t] = Held(Words \ left[t])
  /\ at[t] = "check" => left[t] = {}
  /\ at[t] \in {"seq", "gather", "check"} => got[t] = NoBits

BitsInv == BitsTypeOK /\ OneWriter /\ Numbered /\ Written /\ Gathered

LEMMA Parity ==
  ASSUME NEW n \in Nat
  PROVE  /\ n % 2 = 0 <=> (n + 1) % 2 = 1
         /\ n % 2 = 1 <=> (n + 1) % 2 = 0
         /\ n % 2 = 0 \/ n % 2 = 1
         /\ ~(n % 2 = 0 /\ n % 2 = 1)
BY SMT

LEMMA BitsStart == BitsInit => BitsInv
<1> SUFFICES ASSUME BitsInit PROVE BitsInv  OBVIOUS
<1> USE DEF BitsInit
<1>1. BitsTypeOK
  <2>1. /\ words \in [Words -> SUBSET Bits]
        /\ \A i \in Words : words[i] \subseteq BitsOf(i)
    OBVIOUS
  <2>2. seq \in Nat /\ at \in [Tasks -> BitsSteps] /\ mine \in [Tasks -> Nat]
    BY DEF BitsSteps
  <2>3. /\ req \in [Tasks -> Requests \union {NoRequest}]
        /\ left \in [Tasks -> SUBSET Words]
    OBVIOUS
  <2>4. /\ cur \in [Tasks -> SUBSET Bits] /\ acc \in [Tasks -> SUBSET Bits]
        /\ got \in [Tasks -> (SUBSET Bits) \union {NoBits}]
    OBVIOUS
  <2> QED  BY <2>1, <2>2, <2>3, <2>4 DEF BitsTypeOK
<1>2. OneWriter   BY DEF OneWriter, Writing
<1>3. Numbered    BY DEF Numbered, Writing, Looking
<1>4. Written     BY DEF Written, Writing
<1>5. Gathered    BY DEF Gathered, Looking
<1> QED  BY <1>1, <1>2, <1>3, <1>4, <1>5 DEF BitsInv

(* The steps keep the invariant, conjunct by conjunct.                      *)
LEMMA BitsTypeStep ==
  ASSUME BitsInv, NEW t \in Tasks,
         BitsProgress(t) \/ CallRead(t) \/ GiveUp(t)
           \/ \E r \in Requests : CallWrite(t, r)
  PROVE  BitsTypeOK'
<1> USE WordsAssumption, RequestsAssumption
<1>0. BitsTypeOK /\ Written  BY DEF BitsInv
<1>1. CASE Begin(t)
  <2>1. req[t] \in [mask : SUBSET Bits, value : SUBSET Bits]
    BY <1>0, <1>1 DEF Begin, Enter, Written
  <2>2. {WordOf[b] : b \in req[t].mask} \subseteq Words
    BY <2>1
  <2> QED  BY <1>0, <1>1, <2>2 DEF Begin, Enter, BitsTypeOK, BitsSteps, BitsOf
<1>2. CASE End(t)
  BY <1>0, <1>2 DEF End, BitsTypeOK, BitsSteps, BitsOf
<1>3. CASE LoadSeq(t)
  BY <1>0, <1>3 DEF LoadSeq, BitsTypeOK, BitsSteps, BitsOf
<1>4. CASE Check(t)
  BY <1>0, <1>4 DEF Check, BitsTypeOK, BitsSteps, BitsOf
<1>5. ASSUME NEW i \in Words, LoadWord(t, i) PROVE BitsTypeOK'
  BY <1>0, <1>5 DEF LoadWord, BitsTypeOK, BitsSteps, BitsOf
<1>6. ASSUME NEW i \in Words, StoreWord(t, i) PROVE BitsTypeOK'
  <2>1. cur[t] = words[i]  BY <1>0, <1>6 DEF StoreWord, Written
  <2>2. cur[t] \subseteq Bits /\ cur[t] \subseteq BitsOf(i)
    BY <1>0, <2>1 DEF BitsTypeOK
  <2> DEFINE new == (cur[t] \ req[t].mask)
                      \union (req[t].value \intersect req[t].mask \intersect BitsOf(i))
  <2>3. new \subseteq Bits /\ new \subseteq BitsOf(i)
    BY <2>2 DEF BitsOf
  <2>4. words' = [words EXCEPT ![i] = new]  BY <1>6 DEF StoreWord
  <2> HIDE DEF new
  <2>5. /\ words' \in [Words -> SUBSET Bits]
        /\ \A j \in Words : words'[j] \subseteq BitsOf(j)
    BY <1>0, <2>3, <2>4 DEF BitsTypeOK
  <2>6. /\ seq' = seq /\ req' = req /\ mine' = mine /\ acc' = acc /\ got' = got
        /\ left' = [left EXCEPT ![t] = @ \ {i}]
        /\ cur' = [cur EXCEPT ![t] = {}]
        /\ at' = [at EXCEPT ![t] = "load"]
    BY <1>6 DEF StoreWord
  <2> QED  BY <1>0, <2>5, <2>6 DEF BitsTypeOK, BitsSteps, BitsOf
<1>7. ASSUME NEW i \in Words, Gather(t, i) PROVE BitsTypeOK'
  <2>1. acc[t] \union words[i] \in SUBSET Bits  BY <1>0 DEF BitsTypeOK
  <2>2. acc' \in [Tasks -> SUBSET Bits]
    BY <1>0, <1>7, <2>1 DEF Gather, BitsTypeOK
  <2>3. left' \in [Tasks -> SUBSET Words]
    BY <1>0, <1>7 DEF Gather, BitsTypeOK
  <2>4. at' \in [Tasks -> BitsSteps]
    BY <1>0, <1>7 DEF Gather, BitsTypeOK, BitsSteps
  <2> QED  BY <1>0, <1>7, <2>2, <2>3, <2>4 DEF Gather, BitsTypeOK, BitsOf
<1>8. CASE CallRead(t)
  BY <1>0, <1>8 DEF CallRead, BitsTypeOK, BitsSteps, BitsOf
<1>9. CASE GiveUp(t)
  BY <1>0, <1>9 DEF GiveUp, BitsTypeOK, BitsSteps, BitsOf
<1>10. ASSUME NEW r \in Requests, CallWrite(t, r) PROVE BitsTypeOK'
  BY <1>0, <1>10 DEF CallWrite, BitsTypeOK, BitsSteps, BitsOf
<1> QED
  BY <1>1, <1>2, <1>3, <1>4, <1>5, <1>6, <1>7, <1>8, <1>9, <1>10 DEF BitsProgress

(* Who writes and what the number is hold each other up.                    *)
LEMMA NumberStep ==
  ASSUME BitsInv, NEW t \in Tasks,
         BitsProgress(t) \/ CallRead(t) \/ GiveUp(t)
           \/ \E r \in Requests : CallWrite(t, r)
  PROVE  OneWriter' /\ Numbered'
<1> USE DEF Writing, Looking
<1>0. BitsTypeOK /\ OneWriter /\ Numbered  BY DEF BitsInv
<1>1. seq \in Nat /\ mine \in [Tasks -> Nat] /\ at \in [Tasks -> BitsSteps]
  BY <1>0 DEF BitsTypeOK
<1>2. CASE Begin(t)
  <2>1. /\ at[t] = "begin" /\ seq % 2 = 0 /\ seq' = seq + 1
        /\ mine' = [mine EXCEPT ![t] = seq] /\ at' = [at EXCEPT ![t] = "load"]
    BY <1>2 DEF Begin, Enter
  <2>2. \A u \in Tasks : ~Writing(u)
    BY <1>0, <1>1, <2>1, Parity DEF OneWriter
  <2>3. seq' % 2 = 1  BY <1>1, <2>1, Parity
  <2>4. OneWriter'
    BY <1>1, <2>1, <2>2, <2>3 DEF OneWriter
  <2>5. Numbered'
    <3> SUFFICES ASSUME NEW u \in Tasks
                 PROVE  /\ mine'[u] <= seq'
                        /\ Writing(u)' => seq' = mine'[u] + 1
                        /\ Looking(u)' => mine'[u] % 2 = 0
      BY DEF Numbered
    <3>1. CASE u = t  BY <1>1, <2>1, <3>1
    <3>2. CASE u # t
      <4>1. mine'[u] = mine[u] /\ at'[u] = at[u]  BY <1>1, <2>1, <3>2
      <4> QED  BY <1>0, <1>1, <2>1, <2>2, <4>1 DEF Numbered
    <3> QED  BY <3>1, <3>2
  <2> QED  BY <2>4, <2>5
<1>3. CASE End(t)
  <2>1. /\ at[t] = "load" /\ seq' = mine[t] + 2
        /\ mine' = [mine EXCEPT ![t] = 0] /\ at' = [at EXCEPT ![t] = "idle"]
    BY <1>3 DEF End
  <2>2. seq = mine[t] + 1 /\ seq' = seq + 1  BY <1>0, <1>1, <2>1 DEF Numbered
  <2>3. seq' % 2 = 0 /\ ~(seq' % 2 = 1)
    BY <1>0, <1>1, <2>1, <2>2, Parity DEF OneWriter
  <2>4. \A u \in Tasks : ~Writing(u)'
    BY <1>0, <1>1, <2>1 DEF OneWriter
  <2>5. OneWriter'  BY <2>3, <2>4 DEF OneWriter
  <2>6. Numbered'
    <3> SUFFICES ASSUME NEW u \in Tasks
                 PROVE  mine'[u] <= seq' /\ (Looking(u)' => mine'[u] % 2 = 0)
      BY <2>4 DEF Numbered
    <3>1. CASE u = t  BY <1>1, <2>1, <2>2, <3>1
    <3>2. CASE u # t
      <4>1. mine'[u] = mine[u] /\ at'[u] = at[u]  BY <1>1, <2>1, <3>2
      <4> QED  BY <1>0, <1>1, <2>2, <4>1 DEF Numbered
    <3> QED  BY <3>1, <3>2
  <2> QED  BY <2>5, <2>6
<1>4. ASSUME seq' = seq, NEW v \in Nat, v <= seq, NEW s,
             at' = [at EXCEPT ![t] = s],
             mine' = [mine EXCEPT ![t] = v],
             Writing(t) <=> s \in {"load", "store"},
             Writing(t) => v = mine[t],
             s \in {"gather", "check"} => v % 2 = 0
      PROVE  OneWriter' /\ Numbered'
  <2>1. \A u \in Tasks : Writing(u)' <=> Writing(u)
    BY <1>1, <1>4
  <2>2. OneWriter'
    BY <1>0, <1>4, <2>1 DEF OneWriter
  <2>3. Numbered'
    <3> SUFFICES ASSUME NEW u \in Tasks
                 PROVE  /\ mine'[u] <= seq'
                        /\ Writing(u)' => seq' = mine'[u] + 1
                        /\ Looking(u)' => mine'[u] % 2 = 0
      BY DEF Numbered
    <3>1. CASE u = t  BY <1>0, <1>1, <1>4, <3>1 DEF Numbered
    <3>2. CASE u # t
      <4>1. mine'[u] = mine[u] /\ at'[u] = at[u]  BY <1>1, <1>4, <3>2
      <4> QED  BY <1>0, <1>4, <4>1 DEF Numbered
    <3> QED  BY <3>1, <3>2
  <2> QED  BY <2>2, <2>3
<1>5. mine[t] \in Nat /\ 0 \in Nat /\ 0 <= seq /\ 0 % 2 = 0 /\ mine[t] <= seq
      /\ seq <= seq /\ mine = [mine EXCEPT ![t] = mine[t]]
  BY <1>0, <1>1 DEF Numbered
<1>6. CASE LoadSeq(t)    BY <1>1, <1>4, <1>5, <1>6 DEF LoadSeq
<1>7. CASE Check(t)      BY <1>1, <1>4, <1>5, <1>7 DEF Check
<1>8. CASE GiveUp(t)     BY <1>1, <1>4, <1>5, <1>8 DEF GiveUp
<1>9. CASE CallRead(t)   BY <1>1, <1>4, <1>5, <1>9 DEF CallRead
<1>10. ASSUME NEW r \in Requests, CallWrite(t, r) PROVE OneWriter' /\ Numbered'
  BY <1>1, <1>4, <1>5, <1>10 DEF CallWrite
<1>11. ASSUME NEW i \in Words, LoadWord(t, i) \/ StoreWord(t, i)
       PROVE  OneWriter' /\ Numbered'
  BY <1>1, <1>4, <1>5, <1>11 DEF LoadWord, StoreWord
<1>12. ASSUME NEW i \in Words, Gather(t, i) PROVE OneWriter' /\ Numbered'
  <2>1. mine[t] % 2 = 0  BY <1>0, <1>12 DEF Numbered, Gather
  <2> QED  BY <1>1, <1>4, <1>5, <1>12, <2>1 DEF Gather
<1> QED
  BY <1>2, <1>3, <1>6, <1>7, <1>8, <1>9, <1>10, <1>11, <1>12 DEF BitsProgress

LEMMA WrittenStep ==
  ASSUME BitsInv, NEW t \in Tasks,
         BitsProgress(t) \/ CallRead(t) \/ GiveUp(t)
           \/ \E r \in Requests : CallWrite(t, r)
  PROVE  Written'
<1> USE DEF Writing
<1> DEFINE Ok(u) ==
      /\ (at[u] = "begin" \/ Writing(u)) => req[u] \in Requests
      /\ Writing(u) => \A b \in req[u].mask :
           WordOf[b] \notin left[u] => (b \in words[WordOf[b]] <=> b \in req[u].value)
      /\ at[u] = "store" => \A i \in Words : Least(i, left[u]) => cur[u] = words[i]
<1>0. BitsTypeOK /\ OneWriter /\ Written  BY DEF BitsInv
<1>1. /\ words \in [Words -> SUBSET Bits] /\ at \in [Tasks -> BitsSteps]
      /\ DOMAIN req = Tasks /\ DOMAIN left = Tasks /\ DOMAIN cur = Tasks
      /\ left[t] \subseteq Words
  BY <1>0 DEF BitsTypeOK
<1>2. \A u \in Tasks : Ok(u)  BY <1>0 DEF Written
<1>3. ASSUME UNCHANGED words,
             \A u \in Tasks \ {t} :
               at'[u] = at[u] /\ req'[u] = req[u] /\ left'[u] = left[u] /\ cur'[u] = cur[u],
             Ok(t)'
      PROVE  Written'
  <2>1. ASSUME NEW u \in Tasks \ {t} PROVE Ok(u)'
    BY <1>2, <1>3, <2>1 DEF Least
  <2> QED  BY <1>3, <2>1 DEF Written
<1>4. CASE Begin(t)
  <2>1. /\ at[t] = "begin" /\ UNCHANGED <<words, req, cur>>
        /\ at' = [at EXCEPT ![t] = "load"]
        /\ left' = [left EXCEPT ![t] = {WordOf[b] : b \in req[t].mask}]
    BY <1>4 DEF Begin, Enter
  <2>2. Ok(t)'
    BY <1>1, <1>2, <2>1
  <2> HIDE DEF Ok
  <2> QED  BY <1>1, <1>3, <2>1, <2>2
<1>5. CASE End(t)
  <2>1. /\ UNCHANGED <<words, left, cur>>
        /\ at' = [at EXCEPT ![t] = "idle"]
        /\ req' = [req EXCEPT ![t] = NoRequest]
    BY <1>5 DEF End
  <2>2. Ok(t)'  BY <1>1, <2>1
  <2> HIDE DEF Ok
  <2> QED  BY <1>1, <1>3, <2>1, <2>2
<1>6. ASSUME NEW s \in BitsSteps \ {"begin", "load", "store"},
             UNCHANGED <<words, req, cur>>,
             at' = [at EXCEPT ![t] = s],
             \A u \in Tasks \ {t} : left'[u] = left[u]
      PROVE  Written'
  <2>1. Ok(t)'  BY <1>1, <1>6
  <2> HIDE DEF Ok
  <2> QED  BY <1>1, <1>3, <1>6, <2>1
<1>7. CASE LoadSeq(t) \/ Check(t) \/ GiveUp(t) \/ CallRead(t)
  BY <1>1, <1>6, <1>7 DEF LoadSeq, Check, GiveUp, CallRead, BitsSteps
<1>8. ASSUME NEW i \in Words, Gather(t, i) PROVE Written'
  BY <1>1, <1>6, <1>8 DEF Gather, BitsSteps
<1>9. ASSUME NEW r \in Requests, CallWrite(t, r) PROVE Written'
  <2>1. /\ UNCHANGED <<words, left, cur>>
        /\ at' = [at EXCEPT ![t] = "begin"]
        /\ req' = [req EXCEPT ![t] = r]
    BY <1>9 DEF CallWrite
  <2>2. Ok(t)'  BY <1>1, <2>1
  <2> HIDE DEF Ok
  <2> QED  BY <1>1, <1>3, <2>1, <2>2
<1>10. ASSUME NEW i \in Words, LoadWord(t, i) PROVE Written'
  <2>1. /\ UNCHANGED <<words, left, req>> /\ at[t] = "load"
        /\ at' = [at EXCEPT ![t] = "store"]
        /\ cur' = [cur EXCEPT ![t] = words[i]]
        /\ Least(i, left[t])
    BY <1>10 DEF LoadWord
  <2>2. \A j \in Words : Least(j, left[t]) => j = i
    BY <2>1, WordsAssumption DEF Least
  <2>3. cur'[t] = words[i] /\ at'[t] = "store"  BY <1>1, <2>1
  <2>4. \A j \in Words : Least(j, left'[t]) => cur'[t] = words'[j]
    BY <2>1, <2>2, <2>3
  <2>5. Ok(t)'
    BY <1>2, <2>1, <2>3, <2>4
  <2> HIDE DEF Ok
  <2> QED  BY <1>1, <1>3, <2>1, <2>5
<1>11. ASSUME NEW i \in Words, StoreWord(t, i) PROVE Written'
  <2>1. /\ at[t] = "store" /\ req' = req
        /\ at' = [at EXCEPT ![t] = "load"]
        /\ left' = [left EXCEPT ![t] = @ \ {i}]
        /\ words' = [words EXCEPT ![i] =
             (cur[t] \ req[t].mask)
               \union (req[t].value \intersect req[t].mask \intersect BitsOf(i))]
    BY <1>11 DEF StoreWord
  <2>2. req[t] \in [mask : SUBSET Bits, value : SUBSET Bits]
    BY <1>2, <2>1, RequestsAssumption
  <2>3. ASSUME NEW b \in req[t].mask, WordOf[b] \notin left'[t]
        PROVE  b \in words'[WordOf[b]] <=> b \in req[t].value
    <3>1. b \in Bits /\ WordOf[b] \in Words
      BY <2>2, WordsAssumption
    <3>2. CASE WordOf[b] = i
      BY <1>1, <2>1, <3>1, <3>2 DEF BitsOf
    <3>3. CASE WordOf[b] # i
      <4>1. words'[WordOf[b]] = words[WordOf[b]]  BY <1>1, <2>1, <3>1, <3>3
      <4>2. WordOf[b] \notin left[t]  BY <1>1, <2>1, <2>3, <3>3
      <4> QED  BY <1>2, <2>1, <4>1, <4>2
    <3> QED  BY <3>2, <3>3
  <2>4. at'[t] = "load"  BY <1>1, <2>1
  <2>5. Ok(t)'
    BY <1>2, <2>1, <2>3, <2>4
  <2>6. ASSUME NEW u \in Tasks, u # t PROVE Ok(u)'
    <3>1. ~Writing(u) /\ at'[u] = at[u]
      BY <1>0, <1>1, <2>1, <2>6 DEF OneWriter
    <3> QED  BY <1>2, <2>1, <3>1
  <2> QED  BY <2>5, <2>6 DEF Written
<1> QED
  BY <1>4, <1>5, <1>7, <1>8, <1>9, <1>10, <1>11 DEF BitsProgress

LEMMA GatheredStep ==
  ASSUME BitsInv, NEW t \in Tasks,
         BitsProgress(t) \/ CallRead(t) \/ GiveUp(t)
           \/ \E r \in Requests : CallWrite(t, r)
  PROVE  Gathered'
<1> USE DEF Looking
<1> DEFINE Ok(u) ==
      /\ Looking(u) /\ seq = mine[u] => acc[u] = Held(Words \ left[u])
      /\ at[u] = "check" => left[u] = {}
      /\ at[u] \in {"seq", "gather", "check"} => got[u] = NoBits
<1>0. BitsTypeOK /\ OneWriter /\ Numbered /\ Gathered  BY DEF BitsInv
<1>1. /\ words \in [Words -> SUBSET Bits] /\ at \in [Tasks -> BitsSteps]
      /\ seq \in Nat /\ mine \in [Tasks -> Nat]
      /\ DOMAIN left = Tasks /\ DOMAIN acc = Tasks /\ DOMAIN got = Tasks
      /\ left[t] \subseteq Words
  BY <1>0 DEF BitsTypeOK
<1>2. \A u \in Tasks : Ok(u)  BY <1>0 DEF Gathered
(* A step of a writer: no reader has the number that is there now.          *)
<1>3. ASSUME \A u \in Tasks : Looking(u) => seq' # mine[u],
             UNCHANGED got, NEW s \in {"load", "store", "idle"},
             at' = [at EXCEPT ![t] = s],
             \A u \in Tasks \ {t} : mine'[u] = mine[u] /\ left'[u] = left[u]
      PROVE  Gathered'
  <2>1. Ok(t)'  BY <1>1, <1>3
  <2>2. ASSUME NEW u \in Tasks \ {t} PROVE Ok(u)'
    <3>1. at'[u] = at[u]  BY <1>1, <1>3
    <3> QED  BY <1>2, <1>3, <3>1
  <2> QED  BY <2>1, <2>2 DEF Gathered
(* A step of a reader, or one that leaves words and number alone.            *)
<1>4. ASSUME UNCHANGED <<words, seq>>,
             \A u \in Tasks \ {t} :
               /\ at'[u] = at[u] /\ mine'[u] = mine[u] /\ left'[u] = left[u]
               /\ acc'[u] = acc[u] /\ got'[u] = got[u],
             Ok(t)'
      PROVE  Gathered'
  <2>1. ASSUME NEW u \in Tasks \ {t} PROVE Ok(u)'
    BY <1>2, <1>4, <2>1 DEF Held
  <2> QED  BY <1>4, <2>1 DEF Gathered
<1>5. \A u \in Tasks : Looking(u) => seq + 1 # mine[u]
  BY <1>0, <1>1 DEF Numbered
<1>6. CASE Begin(t)
  BY <1>1, <1>3, <1>5, <1>6 DEF Begin, Enter
<1>7. CASE End(t)
  <2>1. mine[t] + 2 = seq + 1  BY <1>0, <1>1, <1>7 DEF End, Numbered, Writing
  <2> QED  BY <1>1, <1>3, <1>5, <1>7, <2>1 DEF End
<1>8. ASSUME NEW i \in Words, LoadWord(t, i) \/ StoreWord(t, i) PROVE Gathered'
  <2>1. Writing(t)  BY <1>8 DEF LoadWord, StoreWord, Writing
  <2>2. \A u \in Tasks : Looking(u) => seq # mine[u]
    <3>1. seq % 2 = 1 /\ ~(seq % 2 = 0)
      BY <1>0, <1>1, <2>1, Parity DEF OneWriter
    <3> QED  BY <1>0, <3>1 DEF Numbered
  <2> QED  BY <1>1, <1>3, <1>8, <2>2 DEF LoadWord, StoreWord
<1>9. CASE LoadSeq(t)
  <2>1. /\ UNCHANGED <<words, seq, got>> /\ at[t] = "seq"
        /\ mine' = [mine EXCEPT ![t] = seq]
        /\ left' = [left EXCEPT ![t] = Words]
        /\ acc'  = [acc EXCEPT ![t] = {}]
        /\ at'   = [at EXCEPT ![t] = "gather"]
    BY <1>9 DEF LoadSeq
  <2>2. Ok(t)'  BY <1>1, <1>2, <2>1 DEF Held
  <2> HIDE DEF Ok
  <2> QED  BY <1>1, <1>4, <2>1, <2>2
<1>10. ASSUME NEW i \in Words, Gather(t, i) PROVE Gathered'
  <2>1. /\ UNCHANGED <<words, seq, mine, got>> /\ at[t] = "gather"
        /\ acc'  = [acc EXCEPT ![t] = @ \union words[i]]
        /\ left' = [left EXCEPT ![t] = @ \ {i}]
        /\ at' = [at EXCEPT ![t] = IF left[t] = {i} THEN "check" ELSE "gather"]
    BY <1>10 DEF Gather
  <2>2. /\ acc'[t] = acc[t] \union words[i] /\ left'[t] = left[t] \ {i}
        /\ at'[t] = "check" => left[t] = {i}
        /\ got'[t] = got[t] /\ mine'[t] = mine[t] /\ got[t] = NoBits
    BY <1>1, <1>2, <2>1
  <2>3. Held(Words \ (left[t] \ {i})) = Held(Words \ left[t]) \union words[i]
    BY DEF Held
  <2>4. (Held(Words \ left[t]))' = Held(Words \ (left[t] \ {i}))
    BY <2>1, <2>2 DEF Held
  <2>5. Ok(t)'
    BY <1>2, <2>1, <2>2, <2>3, <2>4
  <2> HIDE DEF Ok
  <2> QED  BY <1>1, <1>4, <2>1, <2>5
<1>11. ASSUME NEW s \in {"seq", "idle", "begin"},
              UNCHANGED <<words, seq, left>>,
              at' = [at EXCEPT ![t] = s],
              s = "seq" => got'[t] = NoBits,
              \A u \in Tasks \ {t} :
                mine'[u] = mine[u] /\ acc'[u] = acc[u] /\ got'[u] = got[u]
       PROVE  Gathered'
  <2>1. Ok(t)'  BY <1>1, <1>11
  <2> HIDE DEF Ok
  <2> QED  BY <1>1, <1>4, <1>11, <2>1
<1>12. CASE Check(t)
  <2>1. got[t] = NoBits  BY <1>2, <1>12 DEF Check
  <2> HIDE DEF Ok
  <2> QED  BY <1>1, <1>11, <1>12, <2>1 DEF Check
<1>13. CASE GiveUp(t) \/ CallRead(t)
  BY <1>1, <1>11, <1>13 DEF GiveUp, CallRead
<1>14. ASSUME NEW r \in Requests, CallWrite(t, r) PROVE Gathered'
  BY <1>1, <1>11, <1>14 DEF CallWrite
<1> QED
  BY <1>6, <1>7, <1>8, <1>9, <1>10, <1>12, <1>13, <1>14 DEF BitsProgress

(* The number tells who writes, a writer that left a word left it written,   *)
(* and a reader whose number still stands holds what is in memory.          *)
THEOREM BitsInvariant == BitsSpec => []BitsInv
<1>1. BitsInv /\ [BitsNext]_bitVars => BitsInv'
  <2>1. ASSUME BitsInv, BitsNext PROVE BitsInv'
    BY <2>1, BitsTypeStep, NumberStep, WrittenStep, GatheredStep
       DEF BitsNext, BitsInv
  <2>2. ASSUME BitsInv, UNCHANGED bitVars PROVE BitsInv'
    <3> USE <2>2 DEF bitVars, BitsInv, Writing, Looking
    <3>1. BitsTypeOK'  BY DEF BitsTypeOK, BitsOf
    <3>2. OneWriter'  BY DEF OneWriter
    <3>3. Numbered'  BY DEF Numbered
    <3>4. Written'  BY DEF Written, Least
    <3>5. Gathered'  BY DEF Gathered, Held
    <3> QED  BY <3>1, <3>2, <3>3, <3>4, <3>5
  <2> QED  BY <2>1, <2>2
<1> QED  BY <1>1, BitsStart, PTL DEF BitsSpec

Asked == [t \in Tasks |-> IF at[t] = "begin" THEN req[t] ELSE NoRequest]

(* What the register is worth while somebody writes, and while nobody does.  *)
AdmittedFits ==
  /\ \A w \in Tasks : Writing(w) => Admitted = Atomic!Replace(Flat, req[w])
  /\ (\A t \in Tasks : ~Writing(t)) => Admitted = Flat

LEMMA AdmittedIs == OneWriter => AdmittedFits
<1> SUFFICES ASSUME OneWriter PROVE AdmittedFits  OBVIOUS
<1>1. ASSUME NEW w \in Tasks, Writing(w)
      PROVE  Admitted = Atomic!Replace(Flat, req[w])
  <2>1. (CHOOSE t \in Tasks : Writing(t)) = w
    BY <1>1 DEF OneWriter
  <2> QED  BY <1>1, <2>1 DEF Admitted, Atomic!Replace
<1>2. ASSUME \A t \in Tasks : ~Writing(t) PROVE Admitted = Flat
  BY <1>2 DEF Admitted
<1> QED  BY <1>1, <1>2 DEF AdmittedFits

LEMMA RegisterInit == BitsInit => Atomic!Init
<1> SUFFICES ASSUME BitsInit PROVE Atomic!Init  OBVIOUS
<1>1. \A t \in Tasks : ~Writing(t)  BY DEF BitsInit, Writing
<1>2. Admitted = {}  BY <1>1 DEF Admitted, Flat, BitsInit
<1> QED  BY <1>2 DEF BitsInit, Atomic!Init

(* A request takes effect when its writer is admitted and a read when its    *)
(* last look succeeds; every other step changes nothing of the promise.     *)
LEMMA RegisterStep ==
  ASSUME BitsInv, BitsInv', NEW t \in Tasks,
         BitsProgress(t) \/ CallRead(t) \/ GiveUp(t)
           \/ \E r \in Requests : CallWrite(t, r)
  PROVE  [Atomic!Next]_<<Admitted, Asked, got>>
<1> USE DEF Writing
<1>0. BitsTypeOK /\ OneWriter /\ Numbered /\ Written /\ Gathered  BY DEF BitsInv
<1>1. /\ words \in [Words -> SUBSET Bits] /\ at \in [Tasks -> BitsSteps]
      /\ seq \in Nat /\ DOMAIN req = Tasks /\ DOMAIN got = Tasks
      /\ \A j \in Words : words[j] \subseteq BitsOf(j)
  BY <1>0 DEF BitsTypeOK
<1>2. /\ \A w \in Tasks : Writing(w) => Admitted = Atomic!Replace(Flat, req[w])
      /\ (\A u \in Tasks : ~Writing(u)) => Admitted = Flat
  BY <1>0, AdmittedIs DEF AdmittedFits
<1>3. (/\ \A w \in Tasks : Writing(w) => Admitted = Atomic!Replace(Flat, req[w])
       /\ (\A u \in Tasks : ~Writing(u)) => Admitted = Flat)'
  <2>1. (OneWriter => AdmittedFits)'  BY AdmittedIs, PTL
  <2> QED  BY <2>1 DEF BitsInv, AdmittedFits
(* Who writes is who wrote, and what is written did not change.              *)
<1>4. ASSUME Flat' = Flat,
             \A u \in Tasks : Writing(u)' <=> Writing(u),
             \A u \in Tasks : Writing(u) => req'[u] = req[u]
      PROVE  Admitted' = Admitted
  <2>1. CASE \A u \in Tasks : ~Writing(u)
    BY <1>2, <1>3, <1>4, <2>1
  <2>2. ASSUME NEW w \in Tasks, Writing(w) PROVE Admitted' = Admitted
    BY <1>2, <1>3, <1>4, <2>2 DEF Atomic!Replace
  <2> QED  BY <2>1, <2>2
<1>5. CASE Begin(t)
  <2>1. /\ at[t] = "begin" /\ seq % 2 = 0 /\ UNCHANGED <<words, req, got>>
        /\ at' = [at EXCEPT ![t] = "load"]
    BY <1>5 DEF Begin, Enter
  <2>2. Admitted = Flat
    BY <1>0, <1>1, <1>2, <2>1, Parity DEF OneWriter
  <2>3. Writing(t)' /\ Flat' = Flat  BY <1>1, <2>1 DEF Flat
  <2>4. Admitted' = Atomic!Replace(Admitted, req[t])
    BY <1>3, <2>1, <2>2, <2>3 DEF Atomic!Replace
  <2>5. Asked[t] = req[t] /\ req[t] # NoRequest
    BY <1>0, <2>1, RequestsAssumption DEF Asked, Written
  <2>6. Asked' = [Asked EXCEPT ![t] = NoRequest]
    BY <1>1, <2>1 DEF Asked
  <2> QED  BY <2>1, <2>4, <2>5, <2>6 DEF Atomic!Next, Atomic!Write, Asked
<1>6. CASE End(t)
  <2>1. /\ at[t] = "load" /\ left[t] = {} /\ UNCHANGED <<words, got>>
        /\ at' = [at EXCEPT ![t] = "idle"]
        /\ req' = [req EXCEPT ![t] = NoRequest]
    BY <1>6 DEF End
  <2>2. \A u \in Tasks : ~Writing(u)'
    BY <1>0, <1>1, <2>1 DEF OneWriter
  <2>3. Admitted' = Flat  BY <1>3, <2>1, <2>2 DEF Flat
  <2>4. req[t] \in [mask : SUBSET Bits, value : SUBSET Bits]
    BY <1>0, <2>1, RequestsAssumption DEF Written
  <2>5. \A b \in req[t].mask : b \in words[WordOf[b]] <=> b \in req[t].value
    BY <1>0, <2>1 DEF Written
  <2>6. \A b \in Bits : b \in Flat <=> b \in words[WordOf[b]]
    BY <1>1, WordsAssumption DEF Flat, BitsOf
  <2>7. Flat \subseteq Bits  BY <1>1 DEF Flat
  <2>8. Atomic!Replace(Flat, req[t]) = Flat
    BY <2>4, <2>5, <2>6, <2>7 DEF Atomic!Replace
  <2>9. Admitted' = Admitted  BY <1>2, <2>1, <2>3, <2>8
  <2>10. Asked' = Asked  BY <1>1, <2>1 DEF Asked
  <2> QED  BY <2>1, <2>9, <2>10
<1>7. ASSUME NEW i \in Words, StoreWord(t, i) PROVE UNCHANGED <<Admitted, Asked, got>>
  <2>1. /\ at[t] = "store" /\ UNCHANGED <<req, got>> /\ Least(i, left[t])
        /\ at' = [at EXCEPT ![t] = "load"]
        /\ words' = [words EXCEPT ![i] =
             (cur[t] \ req[t].mask)
               \union (req[t].value \intersect req[t].mask \intersect BitsOf(i))]
    BY <1>7 DEF StoreWord
  <2>2. cur[t] = words[i]  BY <1>0, <2>1 DEF Written
  <2>3. \A j \in Words : words'[j] \ req[t].mask = words[j] \ req[t].mask
    BY <1>1, <2>1, <2>2
  <2>4. Flat' \ req[t].mask = Flat \ req[t].mask
    <3>1. ASSUME NEW b, b \notin req[t].mask PROVE b \in Flat' <=> b \in Flat
      BY <2>3, <3>1 DEF Flat
    <3> QED  BY <3>1
  <2>5. Writing(t) /\ Writing(t)'  BY <1>1, <2>1
  <2>6. Admitted' = Admitted
    BY <1>2, <1>3, <2>1, <2>4, <2>5 DEF Atomic!Replace
  <2>7. Asked' = Asked  BY <1>1, <2>1 DEF Asked
  <2> QED  BY <2>1, <2>6, <2>7
<1>8. CASE Check(t)
  <2>1. /\ at[t] = "check" /\ UNCHANGED <<words, req>>
        /\ at' = [at EXCEPT ![t] = IF seq = mine[t] THEN "idle" ELSE "seq"]
        /\ got' = IF seq = mine[t] THEN [got EXCEPT ![t] = acc[t]] ELSE got
    BY <1>8 DEF Check
  <2>2. Asked' = Asked  BY <1>1, <2>1 DEF Asked
  <2>3. Admitted' = Admitted
    <3>1. Flat' = Flat  BY <2>1 DEF Flat
    <3> QED  BY <1>1, <1>4, <2>1, <3>1
  <2>4. CASE seq = mine[t]
    <3>1. \A u \in Tasks : ~Writing(u)
      BY <1>0, <1>1, <2>1, <2>4, Parity DEF Numbered, Looking, OneWriter
    <3>2. acc[t] = Flat
      BY <1>0, <2>1, <2>4 DEF Gathered, Looking, Held, Flat
    <3>3. got[t] = NoBits  BY <1>0, <2>1 DEF Gathered
    <3>4. got' = [got EXCEPT ![t] = Admitted]  BY <1>2, <2>1, <2>4, <3>1, <3>2
    <3> QED  BY <2>2, <2>3, <3>3, <3>4 DEF Atomic!Next, Atomic!Read, Asked
  <2>5. CASE seq # mine[t]
    BY <2>1, <2>2, <2>3, <2>5
  <2> QED  BY <2>4, <2>5
<1>9. CASE CallRead(t)
  <2>1. /\ at[t] = "idle" /\ UNCHANGED <<words, req>>
        /\ at' = [at EXCEPT ![t] = "seq"]
        /\ got' = [got EXCEPT ![t] = NoBits]
    BY <1>9 DEF CallRead
  <2>2. Asked' = Asked  BY <1>1, <2>1 DEF Asked
  <2>3. Admitted' = Admitted
    <3>1. Flat' = Flat  BY <2>1 DEF Flat
    <3> QED  BY <1>1, <1>4, <2>1, <3>1
  <2> QED  BY <2>1, <2>2, <2>3 DEF Atomic!Next, Atomic!StartRead, Asked
<1>10. ASSUME NEW r \in Requests, CallWrite(t, r) PROVE Atomic!Ask(t, r)
  <2>1. /\ at[t] = "idle" /\ UNCHANGED <<words, got>>
        /\ at' = [at EXCEPT ![t] = "begin"]
        /\ req' = [req EXCEPT ![t] = r]
    BY <1>10 DEF CallWrite
  <2>2. Asked[t] = NoRequest /\ Asked' = [Asked EXCEPT ![t] = r]
    BY <1>1, <2>1 DEF Asked
  <2>3. Admitted' = Admitted
    <3>1. Flat' = Flat  BY <2>1 DEF Flat
    <3>2. \A u \in Tasks : Writing(u) => u # t  BY <2>1
    <3> QED  BY <1>1, <1>4, <2>1, <3>1, <3>2
  <2> QED  BY <2>1, <2>2, <2>3 DEF Atomic!Ask, Asked
<1>11. ASSUME NEW s \in BitsSteps \ {"begin"}, NEW s0 \in BitsSteps \ {"begin"},
              at[t] = s0, at' = [at EXCEPT ![t] = s],
              s \in {"load", "store"} <=> s0 \in {"load", "store"},
              UNCHANGED <<words, req, got>>
       PROVE  UNCHANGED <<Admitted, Asked, got>>
  <2>1. Flat' = Flat  BY <1>11 DEF Flat
  <2>2. Asked' = Asked  BY <1>1, <1>11 DEF Asked
  <2>3. Admitted' = Admitted  BY <1>1, <1>4, <1>11, <2>1
  <2> QED  BY <1>11, <2>2, <2>3
<1>12. CASE LoadSeq(t)  BY <1>11, <1>12 DEF LoadSeq, BitsSteps
<1>13. CASE GiveUp(t)   BY <1>11, <1>13 DEF GiveUp, BitsSteps
<1>14. ASSUME NEW i \in Words, LoadWord(t, i) PROVE UNCHANGED <<Admitted, Asked, got>>
  BY <1>11, <1>14 DEF LoadWord, BitsSteps
<1>15. ASSUME NEW i \in Words, Gather(t, i) PROVE UNCHANGED <<Admitted, Asked, got>>
  BY <1>11, <1>15 DEF Gather, BitsSteps
<1>16. (\E r \in Requests : CallWrite(t, r)) => Atomic!Next
  BY <1>10 DEF Atomic!Next
<1> QED
  BY <1>5, <1>6, <1>7, <1>8, <1>9, <1>12, <1>13, <1>14, <1>15, <1>16
     DEF BitsProgress

(* AtomicBits64: four 16-bit words behind a sequence number are one register *)
(* of 64 bits whose writes and reads each happen at one instant.            *)
THEOREM BitsRefine == BitsSpec => ImplementsRegister
<1>1. BitsInv /\ BitsInv' /\ [BitsNext]_bitVars => [Atomic!Next]_(Atomic!vars)
  <2>1. ASSUME BitsInv, BitsInv', BitsNext PROVE [Atomic!Next]_(Atomic!vars)
    <3>1. [Atomic!Next]_<<Admitted, Asked, got>>
      BY <2>1, RegisterStep DEF BitsNext
    <3> QED  BY <3>1 DEF Atomic!vars, Asked
  <2>2. ASSUME UNCHANGED bitVars PROVE UNCHANGED Atomic!vars
    BY <2>2 DEF bitVars, Atomic!vars, Admitted, Flat, Writing
  <2> QED  BY <2>1, <2>2
<1> QED
  BY <1>1, RegisterInit, BitsInvariant, PTL DEF BitsSpec, ImplementsRegister, Atomic!Spec

=============================================================================
