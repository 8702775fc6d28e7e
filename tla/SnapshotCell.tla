---------------------------- MODULE SnapshotCell ----------------------------
(***************************************************************************)
(* What a cell of immutable snapshots promises its callers, whatever the   *)
(* mechanism behind it (src/src/bus/rcu.rs is one).                        *)
(*                                                                         *)
(* A writer prepares a snapshot and publishes it, a reader takes the       *)
(* snapshot that is current at that moment and keeps it as long as it      *)
(* likes, and memory is given back only when nobody can reach it any more: *)
(* neither the cell, nor a writer that still has to publish, nor a reader. *)
(***************************************************************************)
CONSTANTS
  Threads,     \* the tasks that use the cell
  Snapshots,   \* the addresses a snapshot can live at
  NoSnapshot   \* the null pointer

VARIABLES
  current,     \* the snapshot in the cell, or NoSnapshot before the first write
  prepared,    \* prepared[t]: the snapshot t is about to publish, or NoSnapshot
  view,        \* view[t]: the snapshot t may still read, or NoSnapshot
  live         \* the snapshots whose memory is allocated

vars == <<current, prepared, view, live>>

Reachable(s) ==
  \/ current = s
  \/ \E t \in Threads : prepared[t] = s \/ view[t] = s

Init ==
  /\ current \in Snapshots \union {NoSnapshot}
  /\ prepared = [t \in Threads |-> NoSnapshot]
  /\ view     = [t \in Threads |-> NoSnapshot]
  /\ live     = {current} \ {NoSnapshot}

(* A writer builds a snapshot in memory nobody uses.                       *)
Prepare(t, s) ==
  /\ prepared[t] = NoSnapshot
  /\ s \notin live
  /\ prepared' = [prepared EXCEPT ![t] = s]
  /\ live'     = live \union {s}
  /\ UNCHANGED <<current, view>>

(* The prepared snapshot replaces the current one at one instant.          *)
Publish(t) ==
  /\ prepared[t] # NoSnapshot
  /\ current'  = prepared[t]
  /\ prepared' = [prepared EXCEPT ![t] = NoSnapshot]
  /\ UNCHANGED <<view, live>>

(* A reader takes the current snapshot, and only the current one.          *)
Acquire(t) ==
  /\ view[t] = NoSnapshot
  /\ current # NoSnapshot
  /\ view' = [view EXCEPT ![t] = current]
  /\ UNCHANGED <<current, prepared, live>>

(* A reader lets go; the snapshot dies with its last user.                 *)
Release(t) ==
  /\ view[t] # NoSnapshot
  /\ view' = [view EXCEPT ![t] = NoSnapshot]
  /\ \/ live' = live
     \/ /\ live' = live \ {view[t]}
        /\ current # view[t]
        /\ \A u \in Threads \ {t} : view[u] # view[t]
        /\ \A u \in Threads : prepared[u] # view[t]
  /\ UNCHANGED <<current, prepared>>

(* The cell's own share of a replaced snapshot is given back.              *)
Reclaim(s) ==
  /\ s \in live
  /\ ~ Reachable(s)
  /\ live' = live \ {s}
  /\ UNCHANGED <<current, prepared, view>>

Next ==
  \/ \E t \in Threads :
       \/ \E s \in Snapshots : Prepare(t, s)
       \/ Publish(t)
       \/ Acquire(t)
       \/ Release(t)
  \/ \E s \in Snapshots : Reclaim(s)

Spec == Init /\ [][Next]_vars

=============================================================================
