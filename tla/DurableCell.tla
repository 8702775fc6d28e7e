---------------------------- MODULE DurableCell ----------------------------
(***************************************************************************)
(* What the holding store promises (src/src/device/holding_store.rs:3-6):   *)
(* one durable value behind a cache.  A save makes the durable value newer  *)
(* in one step and never older; a restart at any moment finds a value that  *)
(* is no older than the last save and was once in the cache, and the cache  *)
(* starts from it.                                                         *)
(***************************************************************************)
EXTENDS Naturals

VARIABLES
  cache,  \* the version in RAM
  value   \* the version the last save made durable

cell == <<cache, value>>

CellInit == cache = 0 /\ value = 0

Change ==
  /\ cache' \in Nat /\ cache' > cache
  /\ UNCHANGED value

Save ==
  /\ value' \in value .. cache
  /\ UNCHANGED cache

Restart ==
  /\ value' \in value .. cache
  /\ cache' = value'

CellNext == Change \/ Save \/ Restart

CellSpec == CellInit /\ [][CellNext]_cell

=============================================================================
