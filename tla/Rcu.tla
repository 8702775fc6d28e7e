-------------------------------- MODULE Rcu --------------------------------
(***************************************************************************)
(* The snapshot cell of src/src/bus/rcu.rs, one action per atomic step.    *)
(*                                                                         *)
(* Every shared configuration and register image of the firmware (CONFIG,  *)
(* STORAGE, the logic table) is an Rcu<T>.  A reader registers itself in   *)
(* one of two counters, chosen by the parity of the epoch, checks that the *)
(* epoch has not moved, loads the pointer, takes a reference of its own    *)
(* and deregisters.  A writer, alone under a mutex, swaps the pointer,     *)
(* advances the epoch and waits until the counter of the epoch it ended is *)
(* zero before it gives up the cell's reference to the replaced snapshot.  *)
(*                                                                         *)
(* All the atomics are SeqCst, so a behaviour is an interleaving of these  *)
(* steps.  Memory is modelled by the reference counts: a snapshot with     *)
(* count 0 is free and its address may be handed out again.                *)
(***************************************************************************)
EXTENDS Naturals, FiniteSets

CONSTANTS
  Threads,     \* the tasks that read and write the cell
  Snapshots,   \* the addresses a snapshot can live at
  NoThread,    \* nobody holds the writer mutex
  NoSnapshot,  \* the null pointer
  EpochMod     \* the epoch is a usize: it wraps at this (even) modulus

ASSUME ThreadsAssumption   == IsFiniteSet(Threads) /\ NoThread \notin Threads
ASSUME SnapshotsAssumption == NoSnapshot \notin Snapshots
ASSUME EpochAssumption     == EpochMod \in Nat \ {0} /\ EpochMod % 2 = 0

VARIABLES
  ptr,         \* the snapshot in the cell
  epoch,       \* number of publications, modulo EpochMod
  readers,     \* readers[0], readers[1]: the two registration counters
  writer,      \* the thread that holds the writer mutex
  strong,      \* strong[s]: the reference count of s, 0 when it is free
  pc,          \* pc[t]: the next step of t
  seenEpoch,   \* seenEpoch[t]: the epoch t loaded (a reader) or ended (a writer)
  loaded,      \* loaded[t]: the raw pointer a reader has but does not own yet
  handle,      \* handle[t]: the Arc a reader returned to its caller
  fresh,       \* fresh[t]: the Arc a writer is about to publish
  retired      \* retired[t]: the raw pointer a writer took out of the cell

vars == <<ptr, epoch, readers, writer, strong, pc, seenEpoch, loaded, handle,
          fresh, retired>>

Slots      == {0, 1}
Slot(e)    == e % 2
NextEpoch(e) == IF e = EpochMod - 1 THEN 0 ELSE e + 1

ReadSteps  == {"register", "validate", "retreat", "reread", "load", "retain",
               "leave"}
WriteSteps == {"lock", "swap", "advance", "drain", "drop", "unlock"}
Steps      == {"idle"} \union ReadSteps \union WriteSteps

Goto(t, from, to) ==
  /\ pc[t] = from
  /\ pc' = [pc EXCEPT ![t] = to]

Init ==
  /\ ptr \in Snapshots \union {NoSnapshot}
  /\ epoch     = 0
  /\ readers   = [i \in Slots |-> 0]
  /\ writer    = NoThread
  /\ strong    = [s \in Snapshots |-> IF s = ptr THEN 1 ELSE 0]
  /\ pc        = [t \in Threads |-> "idle"]
  /\ seenEpoch = [t \in Threads |-> 0]
  /\ loaded    = [t \in Threads |-> NoSnapshot]
  /\ handle    = [t \in Threads |-> NoSnapshot]
  /\ fresh     = [t \in Threads |-> NoSnapshot]
  /\ retired   = [t \in Threads |-> NoSnapshot]

-----------------------------------------------------------------------------
(* read()                                                                  *)

(* A caller keeps at most one handle at a time, so a thread that has one    *)
(* does not read again before it lets it go; it may write meanwhile, which  *)
(* is what the closure of read_with does.                                   *)
LoadEpoch(t) ==
  /\ \/ pc[t] = "idle" /\ handle[t] = NoSnapshot
     \/ pc[t] = "reread"
  /\ pc' = [pc EXCEPT ![t] = "register"]
  /\ seenEpoch' = [seenEpoch EXCEPT ![t] = epoch]
  /\ UNCHANGED <<ptr, epoch, readers, writer, strong, loaded, handle, fresh,
                 retired>>

Register(t) ==
  /\ Goto(t, "register", "validate")
  /\ readers' = [readers EXCEPT ![Slot(seenEpoch[t])] = @ + 1]
  /\ UNCHANGED <<ptr, epoch, writer, strong, seenEpoch, loaded, handle, fresh,
                 retired>>

(* Variant: a reader that trusts its first look at the epoch.               *)
ValidateUnchecked(t) ==
  /\ Goto(t, "validate", "load")
  /\ UNCHANGED <<ptr, epoch, readers, writer, strong, seenEpoch, loaded,
                 handle, fresh, retired>>

Validate(t) ==
  /\ Goto(t, "validate", IF epoch = seenEpoch[t] THEN "load" ELSE "retreat")
  /\ UNCHANGED <<ptr, epoch, readers, writer, strong, seenEpoch, loaded,
                 handle, fresh, retired>>

(* The epoch moved: withdraw the registration and start over.              *)
Retreat(t) ==
  /\ Goto(t, "retreat", "reread")
  /\ readers' = [readers EXCEPT ![Slot(seenEpoch[t])] = @ - 1]
  /\ UNCHANGED <<ptr, epoch, writer, strong, seenEpoch, loaded, handle, fresh,
                 retired>>

LoadPtr(t) ==
  /\ Goto(t, "load", IF ptr = NoSnapshot THEN "leave" ELSE "retain")
  /\ loaded' = [loaded EXCEPT ![t] = ptr]
  /\ UNCHANGED <<ptr, epoch, readers, writer, strong, seenEpoch, handle, fresh,
                 retired>>

(* Arc::increment_strong_count: the access that must find the snapshot alive. *)
Retain(t) ==
  /\ Goto(t, "retain", "leave")
  /\ strong' = [strong EXCEPT ![loaded[t]] = @ + 1]
  /\ handle' = [handle EXCEPT ![t] = loaded[t]]
  /\ loaded' = [loaded EXCEPT ![t] = NoSnapshot]
  /\ UNCHANGED <<ptr, epoch, readers, writer, seenEpoch, fresh, retired>>

(* Variant: the reader deregisters from the counter of the present epoch.    *)
LeavePresentEpoch(t) ==
  /\ Goto(t, "leave", "idle")
  /\ readers' = [readers EXCEPT ![Slot(epoch)] = @ - 1]
  /\ UNCHANGED <<ptr, epoch, writer, strong, seenEpoch, loaded, handle, fresh,
                 retired>>

Leave(t) ==
  /\ Goto(t, "leave", "idle")
  /\ readers' = [readers EXCEPT ![Slot(seenEpoch[t])] = @ - 1]
  /\ UNCHANGED <<ptr, epoch, writer, strong, seenEpoch, loaded, handle, fresh,
                 retired>>

(* The caller drops the Arc it was given, whenever it likes.               *)
Release(t) ==
  /\ pc[t] = "idle"
  /\ handle[t] # NoSnapshot
  /\ strong' = [strong EXCEPT ![handle[t]] = @ - 1]
  /\ handle' = [handle EXCEPT ![t] = NoSnapshot]
  /\ UNCHANGED <<ptr, epoch, readers, writer, pc, seenEpoch, loaded, fresh,
                 retired>>

-----------------------------------------------------------------------------
(* write()                                                                 *)

(* Arc::new in any free memory, that of an earlier snapshot included.      *)
Allocate(t, s) ==
  /\ Goto(t, "idle", "lock")
  /\ strong[s] = 0
  /\ strong' = [strong EXCEPT ![s] = 1]
  /\ fresh'  = [fresh EXCEPT ![t] = s]
  /\ UNCHANGED <<ptr, epoch, readers, writer, seenEpoch, loaded, handle,
                 retired>>

Lock(t) ==
  /\ Goto(t, "lock", "swap")
  /\ writer = NoThread
  /\ writer' = t
  /\ UNCHANGED <<ptr, epoch, readers, strong, seenEpoch, loaded, handle, fresh,
                 retired>>

Swap(t) ==
  /\ Goto(t, "swap", "advance")
  /\ retired' = [retired EXCEPT ![t] = ptr]
  /\ ptr'     = fresh[t]
  /\ fresh'   = [fresh EXCEPT ![t] = NoSnapshot]
  /\ UNCHANGED <<epoch, readers, writer, strong, seenEpoch, loaded, handle>>

Advance(t) ==
  /\ Goto(t, "advance", "drain")
  /\ seenEpoch' = [seenEpoch EXCEPT ![t] = epoch]
  /\ epoch'     = NextEpoch(epoch)
  /\ UNCHANGED <<ptr, readers, writer, strong, loaded, handle, fresh, retired>>

(* Variants: a writer that does not wait at all, and one that waits for the  *)
(* readers of every epoch.                                                  *)
DrainNobody(t) ==
  /\ Goto(t, "drain", "drop")
  /\ UNCHANGED <<ptr, epoch, readers, writer, strong, seenEpoch, loaded,
                 handle, fresh, retired>>

DrainEverybody(t) ==
  /\ DrainNobody(t)
  /\ \A i \in Slots : readers[i] = 0

(* The writer sleeps as long as the epoch it ended has readers.            *)
Drain(t) ==
  /\ Goto(t, "drain", "drop")
  /\ readers[Slot(seenEpoch[t])] = 0
  /\ UNCHANGED <<ptr, epoch, readers, writer, strong, seenEpoch, loaded,
                 handle, fresh, retired>>

(* Variant: the cell's reference to the replaced snapshot is forgotten.      *)
DropNothing(t) ==
  /\ Goto(t, "drop", "unlock")
  /\ retired' = [retired EXCEPT ![t] = NoSnapshot]
  /\ UNCHANGED <<ptr, epoch, readers, writer, strong, seenEpoch, loaded,
                 handle, fresh>>

DropRetired(t) ==
  /\ Goto(t, "drop", "unlock")
  /\ strong'  = [s \in Snapshots |->
                   IF s = retired[t] THEN strong[s] - 1 ELSE strong[s]]
  /\ retired' = [retired EXCEPT ![t] = NoSnapshot]
  /\ UNCHANGED <<ptr, epoch, readers, writer, seenEpoch, loaded, handle, fresh>>

Unlock(t) ==
  /\ Goto(t, "unlock", "idle")
  /\ writer' = NoThread
  /\ UNCHANGED <<ptr, epoch, readers, strong, seenEpoch, loaded, handle, fresh,
                 retired>>

-----------------------------------------------------------------------------
(* The steps a call takes once it has begun.  Beginning one (LoadEpoch from *)
(* idle, Allocate) and dropping a handle are up to the caller.              *)
Progress(t) ==
  \/ pc[t] = "reread" /\ LoadEpoch(t)
  \/ Register(t)
  \/ Validate(t)
  \/ Retreat(t)
  \/ LoadPtr(t)
  \/ Retain(t)
  \/ Leave(t)
  \/ Lock(t)
  \/ Swap(t)
  \/ Advance(t)
  \/ Drain(t)
  \/ DropRetired(t)
  \/ Unlock(t)

Call(t) ==
  \/ pc[t] = "idle" /\ LoadEpoch(t)
  \/ Release(t)
  \/ \E s \in Snapshots : Allocate(t, s)

Next == \E t \in Threads : Progress(t) \/ Call(t)

Spec == Init /\ [][Next]_vars

(* Every task is scheduled again and again: a step that stays possible is   *)
(* taken.  Nothing obliges a caller to start a call or to drop a handle.    *)
FairSpec == Spec /\ \A t \in Threads : WF_vars(Progress(t))

-----------------------------------------------------------------------------
TypeOK ==
  /\ ptr       \in Snapshots \union {NoSnapshot}
  /\ epoch     \in 0 .. EpochMod - 1
  /\ readers   \in [Slots -> Nat]
  /\ writer    \in Threads \union {NoThread}
  /\ strong    \in [Snapshots -> Nat]
  /\ pc        \in [Threads -> Steps]
  /\ seenEpoch \in [Threads -> 0 .. EpochMod - 1]
  /\ loaded    \in [Threads -> Snapshots \union {NoSnapshot}]
  /\ handle    \in [Threads -> Snapshots \union {NoSnapshot}]
  /\ fresh     \in [Threads -> Snapshots \union {NoSnapshot}]
  /\ retired   \in [Threads -> Snapshots \union {NoSnapshot}]

(* No use after free: the snapshot whose count a reader is about to raise   *)
(* (rcu.rs:84-88), and every snapshot a caller, the cell or a writer still  *)
(* owns, is allocated.                                                      *)
NoUseAfterFree ==
  /\ \A t \in Threads : pc[t] = "retain" => strong[loaded[t]] > 0
  /\ \A t \in Threads : \A s \in {handle[t], fresh[t], retired[t], ptr} :
       s # NoSnapshot => strong[s] > 0

(* The number of threads whose entry in f is x.                             *)
Uses(f, x) == Cardinality({t \in Threads : f[t] = x})

(* No leak and no double drop: the reference count of every snapshot is     *)
(* exactly the number of its owners (the cell, the callers that were handed *)
(* it, the writer that has yet to publish it, the writer that has yet to    *)
(* drop it), so a replaced snapshot is given back once, when the last of    *)
(* them lets go: the drop count that the test                               *)
(* test_multiple_writers_reclaim_every_published_value asserts.             *)
ExactCounts ==
  \A s \in Snapshots :
    strong[s] = (IF ptr = s THEN 1 ELSE 0)
                  + Uses(handle, s) + Uses(fresh, s) + Uses(retired, s)

(* A writer waits only for the readers of the epoch it ended: once a writer *)
(* has advanced the epoch it finishes, however many reads keep starting and *)
(* however long the snapshots they returned are kept (rcu.rs:5-6).          *)
WriterFinishes == \A t \in Threads : pc[t] = "drain" ~> pc[t] = "idle"

-----------------------------------------------------------------------------
(* Refinement: the detailed cell is the abstract one.  A reader has its view *)
(* from the instant it loads the pointer, before it owns a reference.        *)
Cell == INSTANCE SnapshotCell WITH
  current  <- ptr,
  prepared <- fresh,
  view     <- [t \in Threads |->
                 IF pc[t] = "retain" THEN loaded[t] ELSE handle[t]],
  live     <- {s \in Snapshots : strong[s] > 0}

ImplementsCell == Cell!Spec

=============================================================================
