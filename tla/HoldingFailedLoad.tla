-------------------------- MODULE HoldingFailedLoad --------------------------
(***************************************************************************)
(* HoldingStore with boots that do not load the holding slots.  A load      *)
(* error anywhere in device::init (src/src/device/mod.rs:489-572), NVS that *)
(* is not available, or a slot that cannot be read at this moment leaves    *)
(* ACTIVE_SLOT and ACTIVE_GENERATION as they are initialised; the program   *)
(* logs the error and goes on (src/src/main.rs:154-160), and the actor is   *)
(* started by the supervisor (src/src/main.rs:516-522).                    *)
(***************************************************************************)
EXTENDS HoldingStore

VARIABLE published  \* history: some save has been published since delivery

allVars == <<vars, published>>

InitOnce == Init /\ published = FALSE

(* The flash is as it was; storage starts from its defaults.                 *)
BootWithoutLoad ==
  /\ cuts < MaxCuts
  /\ cuts' = cuts + 1
  /\ slots' \in AfterCut
  /\ active' = NoSlot /\ generation' = 0
  /\ cache' = 0 /\ acked' = 0
  /\ Forget
  /\ UNCHANGED published

NextOrFailedLoad ==
  \/ Next /\ published' = (published \/ active' # NoSlot)
  \/ BootWithoutLoad

FailedLoadSpec == InitOnce /\ [][NextOrFailedLoad]_allVars

(* A power cut leaves at least one complete slot (holding_store.rs:5-6,       *)
(* docs/MEMORY_LAYOUT.md:246): once a save has been published, the flash     *)
(* always holds a complete slot.                                            *)
AlwaysACompleteSlot == published => \E k \in 0 .. 1 : slots[k].whole

=============================================================================
