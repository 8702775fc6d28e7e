---------------------------- MODULE PendingSave ----------------------------
(***************************************************************************)
(* How a RAM image reaches the flash: the dirty flag, the persist lock and  *)
(* the change check of src/src/device/pending_save.rs and its callers.      *)
(*                                                                         *)
(* Three images are saved this way, each by tasks of any kind (the device  *)
(* actor when it is idle, the main loop before a reset, BLE, Web and Modbus *)
(* handlers): the system configuration, the device text and the Web system  *)
(* information.  They differ in how a save notices that the image changed   *)
(* under it: a generation counter, the identity of the snapshot, nothing.   *)
(*                                                                         *)
(* An image is known by its version, the number of changes made to it; a    *)
(* change is made to a copy of the last version under a lock.  A change is  *)
(* acknowledged when its dirty mark is set.                                 *)
(***************************************************************************)
EXTENDS Naturals

CONSTANTS
  Tasks,        \* every task that changes or saves the image
  Actor,        \* the device actor, which looks at the flag again and again
  Kinds,        \* the images: a subset of {"config", "text", "info"}
  NoTask,       \* nobody holds the persist lock
  MaxVersion,   \* bound: no change makes a version beyond this one
  MaxFailures,  \* bound on the saves that the flash refuses
  MaxCuts       \* bound on the power cuts

ASSUME TasksAssumption == Actor \in Tasks /\ NoTask \notin Tasks
ASSUME KindsAssumption == Kinds \subseteq {"config", "text", "info"}
ASSUME BoundsAssumption ==
  MaxVersion \in Nat /\ MaxFailures \in Nat /\ MaxCuts \in Nat

VARIABLES
  kind,        \* which image this is; constant
  ram,         \* the version in RAM
  flash,       \* the version in flash
  generation,  \* number of requests to save the configuration
  dirty,       \* a change waits for a save
  lock,        \* the task that holds the persist lock
  pc,          \* pc[t]: the next step of t; in "saved" it holds a success
  mine,        \* mine[t]: the version t has made and not acknowledged yet
  force,       \* force[t]: t saves even if the flag is down
  snap,        \* snap[t]: the version t is saving
  seen,        \* seen[t]: the generation t has read
  acked,       \* history: the newest acknowledged version
  owed,        \* history: owed[t] is acked when t called the save it is in
  failures,    \* saves refused so far
  cuts         \* power cuts so far

imageVars == <<ram, flash, generation, dirty, lock>>
local     == <<mine, force, snap, seen, owed>>
vars      == <<kind, imageVars, pc, local, acked, failures, cuts>>

Steps == {"idle", "bump", "mark", "lock", "swap", "seen", "snap", "flash",
          "check", "restore", "again", "confirm", "saved"}

(* The steps at which a save has taken the flag down and not put it back.    *)
Saving == {"seen", "snap", "flash", "restore"}

(* The steps at which a task is inside commit_pending.                       *)
Inside == Saving \union {"swap", "check"}

Goto(t, from, to) ==
  /\ pc[t] = from
  /\ pc' = [pc EXCEPT ![t] = to]

(* What a save of t remembers goes with the call.                            *)
Forget(t) ==
  /\ force' = [force EXCEPT ![t] = FALSE]
  /\ snap'  = [snap EXCEPT ![t] = 0]
  /\ seen'  = [seen EXCEPT ![t] = 0]
  /\ owed'  = [owed EXCEPT ![t] = 0]
  /\ UNCHANGED mine

Everywhere(v) == [t \in Tasks |-> v]

Init ==
  /\ kind \in Kinds
  /\ ram = 0 /\ flash = 0 /\ generation = 0 /\ dirty = FALSE
  /\ lock = NoTask
  /\ pc = Everywhere("idle") /\ mine = Everywhere(0)
  /\ force = Everywhere(FALSE) /\ snap = Everywhere(0)
  /\ seen = Everywhere(0) /\ owed = Everywhere(0)
  /\ acked = 0 /\ failures = 0 /\ cuts = 0

-----------------------------------------------------------------------------
(* Changing the image                                                      *)

(* The cache lock of the Web information covers the change and the mark.     *)
CacheIsFree == kind = "info" => \A t \in Tasks : pc[t] # "mark"

(* A change that nobody asks to save: an address leased by DHCP, a BLE       *)
(* command before AT+CFGAPPLY.                                              *)
ChangeOnly(t) ==
  /\ kind = "config"
  /\ pc[t] = "idle" /\ ram < MaxVersion
  /\ ram' = ram + 1
  /\ UNCHANGED <<kind, flash, generation, dirty, lock, pc, local, acked,
                 failures, cuts>>

Change(t) ==
  /\ CacheIsFree /\ ram < MaxVersion
  /\ Goto(t, "idle", IF kind = "config" THEN "bump" ELSE "mark")
  /\ ram'  = ram + 1
  /\ mine' = [mine EXCEPT ![t] = ram + 1]
  /\ UNCHANGED <<kind, flash, generation, dirty, lock, force, snap, seen, owed,
                 acked, failures, cuts>>

Bump(t) ==
  /\ Goto(t, "bump", "mark")
  /\ generation' = generation + 1
  /\ UNCHANGED <<kind, ram, flash, dirty, lock, local, acked, failures, cuts>>

Mark(t) ==
  /\ Goto(t, "mark", "idle")
  /\ dirty' = TRUE
  /\ acked' = IF mine[t] > acked THEN mine[t] ELSE acked
  /\ mine'  = [mine EXCEPT ![t] = 0]
  /\ UNCHANGED <<kind, ram, flash, generation, lock, force, snap, seen, owed,
                 failures, cuts>>

-----------------------------------------------------------------------------
(* Saving it                                                               *)

(* AT+CFGAPPLY and the text of a caller that waits are saved in any case.    *)
CallSave(t, forced) ==
  /\ forced => kind # "info"
  /\ Goto(t, "idle", "lock")
  /\ force' = [force EXCEPT ![t] = forced]
  /\ owed'  = [owed EXCEPT ![t] = acked]
  /\ UNCHANGED <<kind, imageVars, mine, snap, seen, acked, failures, cuts>>

(* Variants: no lock at all, and a look at the flag before the lock.         *)
TakeNoLock(t) ==
  /\ Goto(t, "lock", "swap")
  /\ UNCHANGED <<kind, imageVars, local, acked, failures, cuts>>

TakeLockIfDirty(t) ==
  /\ dirty \/ force[t] => lock = NoTask
  /\ lock' = IF dirty \/ force[t] THEN t ELSE lock
  /\ Goto(t, "lock", IF dirty \/ force[t] THEN "swap" ELSE "saved")
  /\ UNCHANGED <<kind, ram, flash, generation, dirty, local, acked, failures,
                 cuts>>

TakeLock(t) ==
  /\ lock = NoTask
  /\ Goto(t, "lock", "swap")
  /\ lock' = t
  /\ UNCHANGED <<kind, ram, flash, generation, dirty, local, acked, failures,
                 cuts>>

(* Where success leads: persist_config_now looks at the flag once more.      *)
Success(t) == IF kind = "config" /\ ~ force[t] THEN "confirm" ELSE "saved"

(* Nothing to save: the lock is given back.                                  *)
FindClean(t) ==
  /\ ~ dirty /\ ~ force[t]
  /\ Goto(t, "swap", Success(t))
  /\ lock' = NoTask
  /\ UNCHANGED <<kind, ram, flash, generation, dirty, local, acked, failures,
                 cuts>>

(* The flag is taken down before the image is read.                         *)
SwapDirty(t) ==
  /\ dirty \/ force[t]
  /\ Goto(t, "swap", IF kind = "config" THEN "seen" ELSE "snap")
  /\ dirty' = FALSE
  /\ UNCHANGED <<kind, ram, flash, generation, lock, local, acked, failures,
                 cuts>>

SeeGeneration(t) ==
  /\ Goto(t, "seen", "snap")
  /\ seen' = [seen EXCEPT ![t] = generation]
  /\ UNCHANGED <<kind, imageVars, mine, force, snap, owed, acked, failures, cuts>>

TakeSnapshot(t) ==
  /\ CacheIsFree
  /\ Goto(t, "snap", "flash")
  /\ snap' = [snap EXCEPT ![t] = ram]
  /\ UNCHANGED <<kind, imageVars, mine, force, seen, owed, acked, failures, cuts>>

(* Variant: the flag is taken down when the image is in flash.               *)
WriteFlashThenClear(t) ==
  /\ Goto(t, "flash", "check")
  /\ flash' = snap[t]
  /\ dirty' = FALSE
  /\ UNCHANGED <<kind, ram, generation, lock, local, acked, failures, cuts>>

WriteFlash(t) ==
  /\ Goto(t, "flash", "check")
  /\ flash' = snap[t]
  /\ UNCHANGED <<kind, ram, generation, dirty, lock, local, acked, failures,
                 cuts>>

(* A key is replaced or not; a later key of the same save may be refused.    *)
WriteFails(t) ==
  /\ failures < MaxFailures
  /\ Goto(t, "flash", "restore")
  /\ flash' \in {flash, snap[t]}
  /\ failures' = failures + 1
  /\ UNCHANGED <<kind, ram, generation, dirty, lock, local, acked, cuts>>

(* Has the image changed under the save?                                     *)
Changed(t) ==
  \/ kind = "config" /\ generation # seen[t]
  \/ kind = "text" /\ ram # snap[t]

FindChanged(t) ==
  /\ Changed(t)
  /\ Goto(t, "check", "restore")
  /\ UNCHANGED <<kind, imageVars, local, acked, failures, cuts>>

FindUnchanged(t) ==
  /\ ~ Changed(t)
  /\ Goto(t, "check", Success(t))
  /\ lock' = NoTask
  /\ UNCHANGED <<kind, ram, flash, generation, dirty, local, acked, failures,
                 cuts>>

(* Variant: a failed save leaves the flag down.                              *)
RestoreNothing(t) ==
  /\ Goto(t, "restore", "idle")
  /\ lock' = NoTask
  /\ Forget(t)
  /\ UNCHANGED <<kind, ram, flash, generation, dirty, acked, failures, cuts>>

(* The save has failed.  The actor's idle loop marks the text once more,     *)
(* without the lock.                                                        *)
RestoreDirty(t) ==
  /\ Goto(t, "restore",
          IF kind = "text" /\ t = Actor /\ ~ force[t] THEN "again" ELSE "idle")
  /\ dirty' = TRUE /\ lock' = NoTask
  /\ Forget(t)
  /\ UNCHANGED <<kind, ram, flash, generation, acked, failures, cuts>>

MarkAgain(t) ==
  /\ Goto(t, "again", "idle")
  /\ dirty' = TRUE
  /\ UNCHANGED <<kind, ram, flash, generation, lock, local, acked, failures,
                 cuts>>

ConfirmClean(t) ==
  /\ ~ dirty
  /\ Goto(t, "confirm", "saved")
  /\ UNCHANGED <<kind, imageVars, local, acked, failures, cuts>>

ConfirmDirty(t) ==
  /\ dirty
  /\ Goto(t, "confirm", "idle")
  /\ Forget(t)
  /\ UNCHANGED <<kind, imageVars, acked, failures, cuts>>

(* The caller has used the success it was given.                             *)
Done(t) ==
  /\ Goto(t, "saved", "idle")
  /\ Forget(t)
  /\ UNCHANGED <<kind, imageVars, acked, failures, cuts>>

-----------------------------------------------------------------------------
(* The power goes and comes back: the image in flash is loaded.              *)
PowerCut ==
  /\ cuts < MaxCuts
  /\ cuts' = cuts + 1
  /\ ram' = flash /\ generation' = 0 /\ dirty' = FALSE /\ lock' = NoTask
  /\ pc' = Everywhere("idle") /\ mine' = Everywhere(0)
  /\ force' = Everywhere(FALSE) /\ snap' = Everywhere(0)
  /\ seen' = Everywhere(0) /\ owed' = Everywhere(0)
  /\ acked' = 0
  /\ UNCHANGED <<kind, flash, failures>>

-----------------------------------------------------------------------------
Progress(t) ==
  \/ Bump(t)
  \/ Mark(t)
  \/ TakeLock(t)
  \/ FindClean(t)
  \/ SwapDirty(t)
  \/ SeeGeneration(t)
  \/ TakeSnapshot(t)
  \/ WriteFlash(t)
  \/ WriteFails(t)
  \/ FindChanged(t)
  \/ FindUnchanged(t)
  \/ RestoreDirty(t)
  \/ MarkAgain(t)
  \/ ConfirmClean(t)
  \/ ConfirmDirty(t)
  \/ Done(t)

Call(t) ==
  \/ ChangeOnly(t)
  \/ Change(t)
  \/ \E forced \in BOOLEAN : CallSave(t, forced)

Next == (\E t \in Tasks : Progress(t) \/ Call(t)) \/ PowerCut

Spec == Init /\ [][Next]_vars

(* A call that has begun goes on, and the actor's loop comes back to the     *)
(* flag.  The mutex is not assumed fair: whoever waits for it may wait on.   *)
FairSpec ==
  /\ Spec
  /\ \A t \in Tasks : WF_vars(Progress(t))
  /\ WF_vars(dirty /\ CallSave(Actor, FALSE))

-----------------------------------------------------------------------------
(* The types; and the persist lock is held by just the task inside a save.   *)
TypeOK ==
  /\ kind \in Kinds
  /\ ram \in Nat /\ flash \in Nat /\ generation \in Nat
  /\ dirty \in BOOLEAN
  /\ lock  \in Tasks \union {NoTask}
  /\ pc    \in [Tasks -> Steps]
  /\ mine  \in [Tasks -> Nat]
  /\ force \in [Tasks -> BOOLEAN]
  /\ snap  \in [Tasks -> Nat]
  /\ seen  \in [Tasks -> Nat]
  /\ owed  \in [Tasks -> Nat]
  /\ acked \in Nat /\ failures \in Nat /\ cuts \in Nat
  /\ \A t \in Tasks : lock = t <=> pc[t] \in Inside

(* No acknowledged change is forgotten: it is in flash, or the flag is up,   *)
(* or a save that took the flag down is still under way (pending_save.rs:13- *)
(* 23), however changes, saves and failures interleave.                     *)
NothingForgotten ==
  \/ flash >= acked
  \/ dirty
  \/ \E t \in Tasks : pc[t] \in Saving

(* A save that reports success has in flash every change that was            *)
(* acknowledged before it was called, also when it found the flag down       *)
(* because another task was saving: what a reset relies on                   *)
(* (device/mod.rs:836-861).                                                 *)
SuccessMeansSaved ==
  \A t \in Tasks : pc[t] = "saved" => flash >= owed[t]

(* An older image never replaces a newer one: the snapshot is read under the *)
(* lock that covers its write.                                              *)
FlashAdvances == [][flash' >= flash]_flash

(* Changes and failures are bounded here, so this says: once they stop for   *)
(* long enough, the flash catches up without anybody calling for a save.     *)
CatchesUp == []<>(flash >= acked)

=============================================================================
