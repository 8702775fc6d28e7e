---------------------------- MODULE HoldingStore ----------------------------
(***************************************************************************)
(* The holding registers in their own flash partition, in two slots that    *)
(* are written in turn (src/src/device/holding_store.rs), with the dirty    *)
(* flags of src/src/bus/storage_state.rs and the callers of                 *)
(* src/src/bus/backends.rs.                                                *)
(*                                                                         *)
(* The registers are a version number.  A slot is whole when its header and *)
(* its CRC fit; erasing or writing it a little way leaves it broken.        *)
(* Storage that is missing or has a wrong length (lines 149-157, 186-194)   *)
(* does not occur after a boot that read the flash: the boot publishes all  *)
(* four arrays at their full length, and nothing resizes them.              *)
(***************************************************************************)
EXTENDS Naturals

CONSTANTS
  Savers,      \* the actor, the main loop, Modbus and BLE tasks
  NoOne,       \* nobody holds PERSIST_LOCK
  GenMod,      \* generations wrap here (2^32 in the code)
  MaxVersion,  \* bound on changes
  MaxFailures, \* bound on flash operations that fail
  MaxCuts      \* bound on power cuts

ASSUME SaversAssumption == NoOne \notin Savers
ASSUME GenAssumption == GenMod \in Nat /\ GenMod > 2
ASSUME BoundsAssumption == {MaxVersion, MaxFailures, MaxCuts} \subseteq Nat

Kinds  == {"holding", "legacy"}
NoSlot == 2
Broken == [whole |-> FALSE, generation |-> 0, version |-> 0]
Whole(g, v) == [whole |-> TRUE, generation |-> g, version |-> v]

VARIABLES
  slots,      \* the flash
  cache,      \* the version in the storage snapshot
  latest,     \* the last version number used
  marking,    \* the flag its writer is about to raise, under RCU_WRITE_LOCK
  flags,      \* HOLDING_DIRTY, LEGACY_IO_DIRTY
  active,     \* ACTIVE_SLOT
  generation, \* ACTIVE_GENERATION
  holder,     \* who holds PERSIST_LOCK
  pc,         \* pc[t]: the next step of t's call of save_to_nvs
  taken,      \* the flags the holder took down
  copy,       \* the version in HOLDING_BUFFER
  acked,      \* history: the version acknowledged last
  owed,       \* history: owed[t] was acknowledged when t called
  failures, cuts

ram   == <<cache, latest, marking, acked>>
known == <<active, generation>>
work  == <<taken, copy>>
count == <<failures, cuts>>
vars  == <<slots, ram, flags, known, holder, pc, work, owed, count>>

Other(s)   == IF s = 0 THEN 1 ELSE 0
Target     == Other(active)
NextGen(g) == IF g = GenMod - 1 THEN 0 ELSE g + 1

(* u32 wrapping_sub.                                                        *)
Since(g, h) == IF g >= h THEN g - h ELSE g + GenMod - h

(* Variant: generations are compared as numbers.                             *)
IsGreater(candidate, current) == candidate > current

IsNewer(candidate, current) ==
  candidate # current /\ 2 * Since(candidate, current) < GenMod

(* load_best_raw_slot.                                                      *)
Best(s) ==
  IF s[1].whole /\ (s[0].whole => IsNewer(s[1].generation, s[0].generation))
  THEN 1
  ELSE IF s[0].whole THEN 0 ELSE NoSlot

VersionIn(s, k)    == IF k = NoSlot THEN 0 ELSE s[k].version
GenerationIn(s, k) == IF k = NoSlot THEN 0 ELSE s[k].generation

(* What a save writes.                                                      *)
Image == Whole(NextGen(generation), copy)

MayFail == failures < MaxFailures /\ failures' = failures + 1

Goto(t, from, to) ==
  /\ pc[t] = from
  /\ pc' = [pc EXCEPT ![t] = to]

Init ==
  /\ slots = [k \in 0 .. 1 |-> Broken]
  /\ cache = 0 /\ latest = 0 /\ marking = "none" /\ flags = {}
  /\ active = NoSlot /\ generation = 0
  /\ holder = NoOne /\ pc = [t \in Savers |-> "idle"]
  /\ taken = {} /\ copy = 0
  /\ acked = 0 /\ owed = [t \in Savers |-> 0]
  /\ failures = 0 /\ cuts = 0

-----------------------------------------------------------------------------
(* A write changes the snapshot and raises its flag under RCU_WRITE_LOCK;    *)
(* it is acknowledged after that.                                          *)

Change(k) ==
  /\ marking = "none"
  /\ latest < MaxVersion
  /\ cache' = latest + 1 /\ latest' = latest + 1
  /\ marking' = k
  /\ UNCHANGED <<slots, acked, flags, known, holder, pc, work, owed, count>>

Mark ==
  /\ marking # "none"
  /\ flags' = flags \union {marking}
  /\ marking' = "none"
  /\ acked' = cache
  /\ UNCHANGED <<slots, cache, latest, known, holder, pc, work, owed, count>>

-----------------------------------------------------------------------------
(* save_to_nvs                                                             *)

Call(t) ==
  /\ Goto(t, "idle", "lock")
  /\ owed' = [owed EXCEPT ![t] = acked]
  /\ UNCHANGED <<slots, ram, flags, known, holder, work, count>>

(* Variant: a second saver is let in.                                       *)
LockAnyway(t) ==
  /\ holder' = t
  /\ Goto(t, "lock", "flags")
  /\ UNCHANGED <<slots, ram, flags, known, work, owed, count>>

(* Variant: clean flags are noticed without waiting for who is saving.       *)
LockIfDirty(t) ==
  \/ flags # {} /\ holder = NoOne /\ holder' = t /\ Goto(t, "lock", "flags")
     /\ UNCHANGED <<slots, ram, flags, known, work, owed, count>>
  \/ flags = {} /\ Goto(t, "lock", "ok")
     /\ UNCHANGED <<slots, ram, flags, known, holder, work, owed, count>>

Lock(t) ==
  /\ holder = NoOne
  /\ holder' = t
  /\ Goto(t, "lock", "flags")
  /\ UNCHANGED <<slots, ram, flags, known, work, owed, count>>

FindClean(t) ==
  /\ flags = {}
  /\ Goto(t, "flags", "ok")
  /\ holder' = NoOne
  /\ UNCHANGED <<slots, ram, flags, known, work, owed, count>>

TakeFlags(t) ==
  /\ flags # {}
  /\ Goto(t, "flags", "encode")
  /\ taken' = flags
  /\ flags' = {}
  /\ UNCHANGED <<slots, ram, known, holder, copy, owed, count>>

Encode(t) ==
  /\ Goto(t, "encode", "erase")
  /\ copy' = cache
  /\ UNCHANGED <<slots, ram, flags, known, holder, taken, owed, count>>

Erase(t) ==
  /\ Goto(t, "erase", "write")
  /\ slots' = [slots EXCEPT ![Target] = Broken]
  /\ UNCHANGED <<ram, flags, known, holder, work, owed, count>>

Write(t) ==
  /\ Goto(t, "write", "verify")
  /\ slots' = [slots EXCEPT ![Target] = Image]
  /\ UNCHANGED <<ram, flags, known, holder, work, owed, count>>

(* The driver reports success, and the slot does not hold the image.         *)
WriteBadly(t) ==
  /\ MayFail
  /\ Goto(t, "write", "verify")
  /\ UNCHANGED <<slots, ram, flags, known, holder, work, owed, cuts>>

(* Variant: the slot is published without reading it back.                   *)
PublishUnread(t) ==
  /\ Goto(t, "verify", "ok")
  /\ active' = Target
  /\ generation' = NextGen(generation)
  /\ holder' = NoOne
  /\ taken' = {} /\ copy' = 0
  /\ UNCHANGED <<slots, ram, flags, owed, count>>

(* The CRC of what is read back fits: the slot is published.                 *)
Publish(t) ==
  /\ slots[Target].whole
  /\ Goto(t, "verify", "ok")
  /\ active' = Target
  /\ generation' = NextGen(generation)
  /\ holder' = NoOne
  /\ taken' = {} /\ copy' = 0
  /\ UNCHANGED <<slots, ram, flags, owed, count>>

(* Erasing and writing fail before or after they have taken effect; reading  *)
(* back fails, or shows that the slot does not hold the image.               *)
Abandon(t) ==
  \/ /\ Goto(t, "erase", "failed")
     /\ MayFail
     /\ slots' \in {slots, [slots EXCEPT ![Target] = Broken]}
  \/ /\ Goto(t, "write", "failed")
     /\ MayFail
     /\ slots' \in {slots, [slots EXCEPT ![Target] = Image]}
  \/ /\ Goto(t, "verify", "failed")
     /\ slots[Target].whole => failures < MaxFailures
     /\ failures' = IF slots[Target].whole THEN failures + 1 ELSE failures
     /\ UNCHANGED slots

(* Variant: a failure leaves the flags down.                                *)
FailSilently(t) ==
  /\ Abandon(t)
  /\ holder' = NoOne
  /\ taken' = {} /\ copy' = 0
  /\ UNCHANGED <<ram, flags, known, owed, cuts>>

(* The holding flag goes up again in any case, the other if it was taken.    *)
Fail(t) ==
  /\ Abandon(t)
  /\ flags' = flags \union {"holding"} \union (taken \intersect {"legacy"})
  /\ holder' = NoOne
  /\ taken' = {} /\ copy' = 0
  /\ UNCHANGED <<ram, known, owed, cuts>>

(* The caller has its answer.                                               *)
Return(t) ==
  /\ Goto(t, "ok", "idle") \/ Goto(t, "failed", "idle")
  /\ owed' = [owed EXCEPT ![t] = 0]
  /\ UNCHANGED <<slots, ram, flags, known, holder, work, count>>

-----------------------------------------------------------------------------
(* The power goes and comes back: RAM is rebuilt from the best slot.  An     *)
(* erase under way leaves its slot broken.                                 *)

CutAt(step) == holder # NoOne /\ pc[holder] = step

AfterCut ==
  {slots} \union
  (IF CutAt("erase") THEN {[slots EXCEPT ![Target] = Broken]} ELSE {})

Forget ==
  /\ marking' = "none" /\ flags' = {}
  /\ holder' = NoOne /\ pc' = [t \in Savers |-> "idle"]
  /\ taken' = {} /\ copy' = 0
  /\ owed' = [t \in Savers |-> 0]
  /\ UNCHANGED <<latest, failures>>

PowerCut ==
  /\ cuts < MaxCuts
  /\ cuts' = cuts + 1
  /\ slots' \in AfterCut
  /\ active' = Best(slots')
  /\ generation' = GenerationIn(slots', Best(slots'))
  /\ cache' = VersionIn(slots', Best(slots'))
  /\ acked' = VersionIn(slots', Best(slots'))
  /\ Forget

-----------------------------------------------------------------------------
SaveStep(t) ==
  \/ Call(t)
  \/ Lock(t)
  \/ FindClean(t)
  \/ TakeFlags(t)
  \/ Encode(t)
  \/ Erase(t)
  \/ Write(t)
  \/ WriteBadly(t)
  \/ Publish(t)
  \/ Fail(t)
  \/ Return(t)

Next ==
  \/ \E k \in Kinds : Change(k)
  \/ Mark
  \/ \E t \in Savers : SaveStep(t)
  \/ PowerCut

Spec == Init /\ [][Next]_vars

-----------------------------------------------------------------------------
Inside == {"flags", "encode", "erase", "write", "verify"}
Steps  == Inside \union {"idle", "lock", "ok", "failed"}

Generations == 0 .. GenMod - 1
Slot == [whole : BOOLEAN, generation : Generations, version : Nat]

(* The types; only the holder of PERSIST_LOCK is inside.                     *)
TypeOK ==
  /\ slots \in [0 .. 1 -> Slot]
  /\ {cache, latest, acked, copy, failures, cuts} \subseteq Nat
  /\ marking \in Kinds \union {"none"}
  /\ flags \subseteq Kinds /\ taken \subseteq Kinds
  /\ active \in {0, 1, NoSlot} /\ generation \in Generations
  /\ holder \in Savers \union {NoOne}
  /\ pc \in [Savers -> Steps]
  /\ owed \in [Savers -> Nat]
  /\ \A t \in Savers : pc[t] \in Inside <=> holder = t

(* The version that the last save published.                                *)
Saved == VersionIn(slots, active)

(* Once a save has been published, one slot is complete at every moment,     *)
(* during later saves, after failed ones and after power cuts               *)
(* (holding_store.rs:5-6).                                                  *)
OneCompleteSlot == active # NoSlot => slots[active].whole

(* What was acknowledged is in flash, or a flag is up, or a save that has     *)
(* taken the flag is under way (holding_store.rs:112-228).                  *)
NothingForgotten ==
  acked > Saved => flags # {} \/ taken # {}

(* A save that reports success, also one that found nothing to do after      *)
(* waiting for another task, has everything in flash that was acknowledged   *)
(* before the call (backends.rs:1530, ble_at/logic_handlers.rs:236-239).    *)
SuccessMeansSaved == \A t \in Savers : pc[t] = "ok" => owed[t] <= Saved

(* The two slots are one durable cell: a save is one step, never a step back, *)
(* and a restart finds the last save or a later one, although a save is      *)
(* many steps, leaves a broken slot or an unpublished complete one behind,   *)
(* and generations wrap.                                                   *)
Cell == INSTANCE DurableCell WITH value <- Saved
ImplementsCell == Cell!CellSpec

=============================================================================
