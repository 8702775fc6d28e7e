---------------------------- MODULE RebootProofs ----------------------------
(***************************************************************************)
(* Proofs about what a reboot finds in flash and what it starts.             *)
(*                                                                         *)
(* The images (PendingSave), for any number of tasks, images, failures and   *)
(* power cuts.  The argument: the flag is only taken down under the persist   *)
(* lock, so at most one task is between taking it down and the flash; a       *)
(* change that is acknowledged after that puts the flag up again.  What such   *)
(* a task is about to write is therefore as new as every acknowledged change,  *)
(* or the flag is up.                                                       *)
(*                                                                         *)
(* The firmware (Services, Firmware), for any size of images and any number   *)
(* of sessions, refusals, restarts and power cuts.  The argument: what is on   *)
(* trial cannot begin an update, so the firmware it came from is still there;  *)
(* what is confirmed has brought up all services, which a bad image does not.  *)
(*                                                                         *)
(* The network (Services, Network), for any addresses, thresholds, changes,    *)
(* pulled cables and faults.  The argument: what start has allocated is         *)
(* determined by its step, and handlers are registered before the driver        *)
(* runs; so whoever has a lease announces it into the slot, and no older        *)
(* address can come after it.                                              *)
(***************************************************************************)
EXTENDS PendingSave, Services, TLAPS

-----------------------------------------------------------------------------
(* The images                                                              *)

(* Nothing is newer than the RAM, and nothing is owed that is not acked.    *)
Ordered ==
  /\ flash <= ram /\ acked <= ram
  /\ \A t \in Tasks : owed[t] <= acked /\ mine[t] <= ram

(* A snapshot on its way to the flash.                                     *)
WritesAreCurrent ==
  \A t \in Tasks : pc[t] = "flash" =>
    /\ flash <= snap[t] /\ snap[t] <= ram
    /\ dirty \/ snap[t] >= acked

(* It holds what the caller of this save is owed, and so does the flash.    *)
WritesAreOwed ==
  \A t \in Tasks :
    /\ pc[t] \in {"flash", "check"} => snap[t] >= owed[t]
    /\ pc[t] = "check" => flash = snap[t]

AnswersAreTrue ==
  \A t \in Tasks : pc[t] \in {"confirm", "saved"} => flash >= owed[t]

IInv ==
  /\ TypeOK
  /\ Ordered
  /\ WritesAreCurrent
  /\ WritesAreOwed
  /\ AnswersAreTrue
  /\ NothingForgotten

-----------------------------------------------------------------------------
(* The initial state satisfies the inductive invariant.                     *)
LEMMA InitIInv == Init => IInv
<1> SUFFICES ASSUME Init PROVE IInv
  OBVIOUS
<1> USE TasksAssumption DEF Init, Everywhere
<1>1. TypeOK
  BY DEF TypeOK, Steps, Inside, Saving
<1>2. Ordered /\ WritesAreCurrent /\ WritesAreOwed /\ AnswersAreTrue
  BY DEF Ordered, WritesAreCurrent, WritesAreOwed, AnswersAreTrue
<1>3. NothingForgotten
  BY DEF NothingForgotten
<1> QED  BY <1>1, <1>2, <1>3 DEF IInv

(* Every step of every task, and a power cut, keeps the types and the lock.  *)
LEMMA TypeStep == TypeOK /\ [Next]_vars => TypeOK'
<1> SUFFICES ASSUME TypeOK, [Next]_vars PROVE TypeOK'
  OBVIOUS
<1> USE TasksAssumption DEF TypeOK, Goto, imageVars, local, Steps, Inside, Saving
<1>1. ASSUME NEW t \in Tasks, ChangeOnly(t) PROVE TypeOK'
  BY <1>1 DEF ChangeOnly
<1>2. ASSUME NEW t \in Tasks, Change(t) PROVE TypeOK'
  BY <1>2 DEF Change
<1>3. ASSUME NEW t \in Tasks, Bump(t) PROVE TypeOK'
  BY <1>3 DEF Bump
<1>4. ASSUME NEW t \in Tasks, Mark(t) PROVE TypeOK'
  BY <1>4 DEF Mark
<1>5. ASSUME NEW t \in Tasks, NEW forced \in BOOLEAN, CallSave(t, forced) PROVE TypeOK'
  BY <1>5 DEF CallSave
<1>6. ASSUME NEW t \in Tasks, TakeLock(t) PROVE TypeOK'
  BY <1>6 DEF TakeLock
<1>7. ASSUME NEW t \in Tasks, FindClean(t) PROVE TypeOK'
  BY <1>7 DEF FindClean, Success
<1>8. ASSUME NEW t \in Tasks, SwapDirty(t) PROVE TypeOK'
  BY <1>8 DEF SwapDirty
<1>9. ASSUME NEW t \in Tasks, SeeGeneration(t) PROVE TypeOK'
  BY <1>9 DEF SeeGeneration
<1>10. ASSUME NEW t \in Tasks, TakeSnapshot(t) PROVE TypeOK'
  BY <1>10 DEF TakeSnapshot
<1>11. ASSUME NEW t \in Tasks, WriteFlash(t) PROVE TypeOK'
  BY <1>11 DEF WriteFlash
<1>12. ASSUME NEW t \in Tasks, WriteFails(t) PROVE TypeOK'
  BY <1>12 DEF WriteFails
<1>13. ASSUME NEW t \in Tasks, FindChanged(t) PROVE TypeOK'
  BY <1>13 DEF FindChanged
<1>14. ASSUME NEW t \in Tasks, FindUnchanged(t) PROVE TypeOK'
  BY <1>14 DEF FindUnchanged, Success
<1>15. ASSUME NEW t \in Tasks, RestoreDirty(t) PROVE TypeOK'
  BY <1>15 DEF RestoreDirty, Forget
<1>16. ASSUME NEW t \in Tasks, MarkAgain(t) PROVE TypeOK'
  BY <1>16 DEF MarkAgain
<1>17. ASSUME NEW t \in Tasks, ConfirmClean(t) PROVE TypeOK'
  BY <1>17 DEF ConfirmClean
<1>18. ASSUME NEW t \in Tasks, ConfirmDirty(t) PROVE TypeOK'
  BY <1>18 DEF ConfirmDirty, Forget
<1>19. ASSUME NEW t \in Tasks, Done(t) PROVE TypeOK'
  BY <1>19 DEF Done, Forget
<1>20. CASE PowerCut
  <2>1. \A t \in Tasks : lock' = t <=> pc'[t] \in Inside
    BY <1>20 DEF PowerCut, Everywhere
  <2>2. pc' \in [Tasks -> Steps] /\ force' \in [Tasks -> BOOLEAN]
    BY <1>20 DEF PowerCut, Everywhere
  <2>3. /\ mine' \in [Tasks -> Nat] /\ snap' \in [Tasks -> Nat]
        /\ seen' \in [Tasks -> Nat] /\ owed' \in [Tasks -> Nat]
    BY <1>20 DEF PowerCut, Everywhere
  <2>4. /\ kind' \in Kinds /\ dirty' \in BOOLEAN
        /\ lock' \in Tasks \union {NoTask}
    BY <1>20 DEF PowerCut
  <2>5. /\ ram' \in Nat /\ flash' \in Nat /\ generation' \in Nat
        /\ acked' \in Nat /\ failures' \in Nat /\ cuts' \in Nat
    BY <1>20 DEF PowerCut
  <2> QED  BY <2>1, <2>2, <2>3, <2>4, <2>5
<1>21. CASE UNCHANGED vars
  BY <1>21 DEF vars
<1> QED
  BY <1>1, <1>2, <1>3, <1>4, <1>5, <1>6, <1>7, <1>8, <1>9, <1>10, <1>11, <1>12, <1>13, <1>14,
       <1>15, <1>16, <1>17, <1>18, <1>19, <1>20, <1>21 DEF Next, Call, Progress

(* Every step keeps the rest of the invariant.                               *)
LEMMA NextIInv == IInv /\ [Next]_vars => IInv'
<1> SUFFICES ASSUME IInv, [Next]_vars PROVE IInv'
  OBVIOUS
<1>0. TypeOK'
  BY TypeStep DEF IInv
<1> DEFINE Rest == /\ Ordered /\ WritesAreCurrent /\ WritesAreOwed
                   /\ AnswersAreTrue /\ NothingForgotten
<1> USE <1>0 DEF IInv, Ordered, WritesAreCurrent, WritesAreOwed, AnswersAreTrue,
               NothingForgotten, TypeOK, Goto, imageVars, local, Inside, Saving
<1>1. ASSUME NEW t \in Tasks, ChangeOnly(t) PROVE Rest'
  BY <1>1 DEF ChangeOnly
<1>2. ASSUME NEW t \in Tasks, Change(t) PROVE Rest'
  BY <1>2 DEF Change
<1>3. ASSUME NEW t \in Tasks, Bump(t) PROVE Rest'
  BY <1>3 DEF Bump
<1>4. ASSUME NEW t \in Tasks, Mark(t) PROVE Rest'
  BY <1>4 DEF Mark
<1>5. ASSUME NEW t \in Tasks, NEW forced \in BOOLEAN, CallSave(t, forced) PROVE Rest'
  BY <1>5 DEF CallSave
<1>6. ASSUME NEW t \in Tasks, TakeLock(t) PROVE Rest'
  BY <1>6 DEF TakeLock
<1>7. ASSUME NEW t \in Tasks, FindClean(t) PROVE Rest'
  BY <1>7 DEF FindClean, Success
<1>8. ASSUME NEW t \in Tasks, SwapDirty(t) PROVE Rest'
  BY <1>8 DEF SwapDirty
<1>9. ASSUME NEW t \in Tasks, SeeGeneration(t) PROVE Rest'
  BY <1>9 DEF SeeGeneration
<1>10. ASSUME NEW t \in Tasks, TakeSnapshot(t) PROVE Rest'
  BY <1>10 DEF TakeSnapshot
<1>11. ASSUME NEW t \in Tasks, WriteFlash(t) PROVE Rest'
  BY <1>11 DEF WriteFlash
<1>12. ASSUME NEW t \in Tasks, WriteFails(t) PROVE Rest'
  BY <1>12 DEF WriteFails
<1>13. ASSUME NEW t \in Tasks, FindChanged(t) PROVE Rest'
  BY <1>13 DEF FindChanged
<1>14. ASSUME NEW t \in Tasks, FindUnchanged(t) PROVE Rest'
  BY <1>14 DEF FindUnchanged, Success
<1>15. ASSUME NEW t \in Tasks, RestoreDirty(t) PROVE Rest'
  BY <1>15 DEF RestoreDirty, Forget
<1>16. ASSUME NEW t \in Tasks, MarkAgain(t) PROVE Rest'
  BY <1>16 DEF MarkAgain
<1>17. ASSUME NEW t \in Tasks, ConfirmClean(t) PROVE Rest'
  BY <1>17 DEF ConfirmClean
<1>18. ASSUME NEW t \in Tasks, ConfirmDirty(t) PROVE Rest'
  BY <1>18 DEF ConfirmDirty, Forget
<1>19. ASSUME NEW t \in Tasks, Done(t) PROVE Rest'
  BY <1>19 DEF Done, Forget
<1>20. CASE PowerCut
  BY <1>20 DEF PowerCut, Everywhere
<1>21. CASE UNCHANGED vars
  BY <1>21 DEF vars
<1> QED
  BY <1>0, <1>1, <1>2, <1>3, <1>4, <1>5, <1>6, <1>7, <1>8, <1>9, <1>10, <1>11, <1>12, <1>13, <1>14,
       <1>15, <1>16, <1>17, <1>18, <1>19, <1>20, <1>21 DEF Next, Call, Progress

(* The inductive invariant holds in every reachable state.                   *)
LEMMA Inductive == Spec => []IInv
  BY InitIInv, NextIInv, PTL DEF Spec

-----------------------------------------------------------------------------
(* Every image keeps its types, and one task at a time saves it.             *)
THEOREM TypeCorrect == Spec => []TypeOK
<1>1. IInv => TypeOK
  BY DEF IInv
<1> QED  BY <1>1, Inductive, PTL

(* A change whose dirty mark was set is never forgotten, whatever changes,   *)
(* saves, failures and power cuts interleave (pending_save.rs:13-23).        *)
THEOREM NeverForgotten == Spec => []NothingForgotten
<1>1. IInv => NothingForgotten
  BY DEF IInv
<1> QED  BY <1>1, Inductive, PTL

(* A save that reports success has saved what was acknowledged before it was *)
(* called, also when it found the flag down (device/mod.rs:846-861).         *)
THEOREM Honest == Spec => []SuccessMeansSaved
<1>1. IInv => SuccessMeansSaved
  BY DEF IInv, AnswersAreTrue, SuccessMeansSaved
<1> QED  BY <1>1, Inductive, PTL

(* A step that writes the flash is a save, and its snapshot is not older.    *)
LEMMA FlashStep == IInv /\ [Next]_vars => [flash' >= flash]_flash
<1> SUFFICES ASSUME IInv, [Next]_vars PROVE [flash' >= flash]_flash
  OBVIOUS
<1>1. ASSUME NEW t \in Tasks, WriteFlash(t) \/ WriteFails(t)
      PROVE  [flash' >= flash]_flash
  BY <1>1 DEF WriteFlash, WriteFails, Goto, IInv, WritesAreCurrent, TypeOK
<1>2. ASSUME NEW t \in Tasks, Progress(t), ~ WriteFlash(t), ~ WriteFails(t)
      PROVE  UNCHANGED flash
  BY <1>2 DEF Progress, Bump, Mark, TakeLock, FindClean, SwapDirty,
     SeeGeneration, TakeSnapshot, FindChanged, FindUnchanged, RestoreDirty,
     MarkAgain, ConfirmClean, ConfirmDirty, Done, imageVars
<1>3. ASSUME NEW t \in Tasks, Call(t) PROVE UNCHANGED flash
  BY <1>3 DEF Call, ChangeOnly, Change, CallSave, imageVars
<1>4. PowerCut => UNCHANGED flash
  BY DEF PowerCut
<1>5. UNCHANGED vars => UNCHANGED flash
  BY DEF vars, imageVars
<1> QED  BY <1>1, <1>2, <1>3, <1>4, <1>5 DEF Next

(* An older image never replaces a newer one in flash, whoever saves it.     *)
THEOREM NeverBack == Spec => FlashAdvances
  BY Inductive, FlashStep, PTL DEF Spec, FlashAdvances

-----------------------------------------------------------------------------
(* The firmware: the invariant                                              *)

(* Types of the update, and the factory image works.                         *)
Partitions == Slots \cup {"factory"}

OtaSessions ==
  [target : Slots, handle : Nat, active : BOOLEAN, total : Nat, written : Nat,
   kind : Firmwares \cup {"none", "part"}, status : {"Receiving", "DonePendingReboot"}]

OtaTypes ==
  /\ image \in [Partitions -> Firmwares \cup {"none", "part"}] /\ image["factory"] = "good"
  /\ booted \in Partitions /\ newest \in Slots
  /\ entries \in [Slots -> {"none", "new", "pending", "valid", "aborted"}]
  /\ session \in {NoSession} \cup OtaSessions /\ begins \in Nat
  /\ upload.pc = "write" => upload.kind \in Firmwares

(* The slot that runs is whole and on trial or confirmed; only what works is   *)
(* confirmed, and while it is on trial nothing new is selected.               *)
Marked ==
  /\ booted \in Slots =>
       /\ entries[booted] \in {"pending", "valid"} /\ Whole(booted)
       /\ entries[booted] = "valid" => image[booted] = "good"
  /\ StateOf(booted) = "pending" => \A p \in Slots \ {booted} : entries[p] # "new"
  /\ image[booted] = "bad" => Broken \notin running

(* The other slots: one that is new was selected last, and is not the one that *)
(* runs.  One that was confirmed still works as long as the running firmware   *)
(* could need it, and is never taken before the running one.                  *)
Retained ==
  \A p \in Slots \ {booted} :
    /\ entries[p] = "new" => p = newest /\ p = NextUpdate
    /\ entries[p] = "valid" =>
         /\ image[p] = "good" \/ StateOf(booted) = "valid"
         /\ IF booted = "factory" THEN p = "ota_1" ELSE newest = booted

(* A session writes to the slot that does not run, never for firmware on trial; *)
(* when it is done its slot is whole and selected.  While it has its handle no    *)
(* earlier session's end is what clients are told.                             *)
Downloads ==
  IF session = NoSession THEN last # "DonePendingReboot"
  ELSE /\ StateOf(booted) # "pending" /\ session.target = NextUpdate
       /\ session.active => last # "DonePendingReboot"
       /\ session.status = "DonePendingReboot" =>
            Whole(session.target) /\ newest = session.target /\ entries[newest] = "new"

(* The platform has given out just the handle of the session.                *)
Handle == handles = IF session = NoSession \/ ~session.active THEN {} ELSE {session.handle}

OtaInv == OtaTypes /\ Marked /\ Retained /\ Downloads /\ Handle

LEMMA NoSessionIsNone == NoSession \notin OtaSessions
<1>1. \A s \in OtaSessions : s.target \in Slots
  BY DEF OtaSessions
<1> QED
  BY <1>1 DEF NoSession, Slots

LEMMA OtaStarts == ServicesInit => OtaInv
  BY FirmwareAssumption DEF ServicesInit, OtaInit, OtaInv, OtaTypes, Marked, Retained, Downloads,
       Handle, Partitions, Slots, Firmwares,
     NoSession, NoUpload, StateOf, NextUpdate, Other

(* It says what is to be proved.                                            *)
LEMMA Kept ==
  ASSUME OtaInv PROVE OtaIsTrue /\ AlwaysAWayBack
<1>1. OtaIsTrue
  BY DEF OtaInv, OtaTypes, Downloads, Handle, OtaIsTrue, Status, Choice, Selected, Usable, Judged,
       Whole, Partitions, Slots, Other, Firmwares
<1>2. AlwaysAWayBack
  BY DEF OtaInv, OtaTypes, Marked, Retained, AlwaysAWayBack, Choice, Selected, FallBack, Usable,
       Judged, Whole, Partitions, Slots, Other, Firmwares, StateOf
<1> QED
  BY <1>1, <1>2

(* The bootloader: what was on trial is aborted, what is new is tried, and what *)
(* was confirmed comes back.                                                *)
LEMMA BootKeeps ==
  ASSUME OtaInv, Boot, running' = {} PROVE OtaInv'
<1>0. /\ newest \in {"ota_0", "ota_1"} /\ booted \in {"factory", "ota_0", "ota_1"}
      /\ Choice \in {"factory", "ota_0", "ota_1"}
  <2>1. newest \in Slots /\ booted \in Partitions
    BY DEF OtaInv, OtaTypes
  <2>2. Selected \in {newest, Other(newest), "factory"}
    BY DEF Selected
  <2> QED
    BY <2>1, <2>2 DEF Choice, FallBack, Slots, Partitions, Other
<1>1. OtaTypes'
  <2>1. entries' \in [Slots -> {"none", "new", "pending", "valid", "aborted"}]
    BY DEF OtaInv, OtaTypes, Boot, Tried, Judged
  <2>2. booted' \in Partitions
    BY <1>0 DEF Boot, Partitions, Slots
  <2> QED
    BY <2>1, <2>2 DEF OtaInv, OtaTypes, Boot, NoUpload
<1>2. Marked' /\ Retained'
  <2>1. \A p \in {"ota_0", "ota_1"} :
          Judged[p] = IF entries[p] = "pending" THEN "aborted" ELSE entries[p]
    BY DEF Judged, Slots
  <2>2. \A p \in {"ota_0", "ota_1"} :
          entries'[p] = IF p = Selected /\ Judged[p] = "new" THEN "pending" ELSE Judged[p]
    BY DEF Boot, Tried, Slots
  <2>3. /\ newest = "ota_0" => Selected = IF Judged["ota_0"] \in {"new", "valid"} THEN "ota_0"
                                         ELSE IF Judged["ota_1"] \in {"new", "valid"} THEN "ota_1" ELSE "factory"
        /\ newest = "ota_1" => Selected = IF Judged["ota_1"] \in {"new", "valid"} THEN "ota_1"
                                         ELSE IF Judged["ota_0"] \in {"new", "valid"} THEN "ota_0" ELSE "factory"
    BY DEF Selected, Usable, Other
  <2>4. Choice = IF image[Selected] \in {"good", "bad"} THEN Selected
                 ELSE IF Selected = "ota_1" /\ image["ota_0"] \in {"good", "bad"} THEN "ota_0" ELSE "factory"
    BY DEF Choice, FallBack, Whole, Firmwares
  <2>5. booted' = Choice /\ newest' = newest /\ image' = image
    BY DEF Boot
  <2>6. image["factory"] = "good"
    BY DEF OtaInv, OtaTypes
  <2>7. /\ booted \in {"ota_0", "ota_1"} =>
             /\ entries[booted] \in {"pending", "valid"} /\ image[booted] \in {"good", "bad"}
             /\ entries[booted] = "valid" => image[booted] = "good"
        /\ booted \in {"ota_0", "ota_1"} /\ entries[booted] = "pending" =>
             \A p \in {"ota_0", "ota_1"} \ {booted} : entries[p] # "new"
    BY DEF OtaInv, Marked, StateOf, Slots, Whole, Firmwares
  <2>8. \A p \in {"ota_0", "ota_1"} \ {booted} :
          /\ entries[p] = "new" => p = newest /\ p = Other(booted)
          /\ entries[p] = "valid" =>
               /\ image[p] = "good" \/ (booted \in {"ota_0", "ota_1"} /\ entries[booted] = "valid")
               /\ IF booted = "factory" THEN p = "ota_1" ELSE newest = booted
    BY DEF OtaInv, Retained, StateOf, Slots, NextUpdate
  <2>9. Other("factory") = "ota_0" /\ Other("ota_0") = "ota_1" /\ Other("ota_1") = "ota_0"
    BY DEF Other
  <2>10. Marked'
    BY <1>0, <2>1, <2>2, <2>3, <2>4, <2>5, <2>6, <2>7, <2>8, <2>9, SMTT(30)
       DEF Marked, StateOf, Slots, Whole, Firmwares
  <2>11. Retained'
    BY <1>0, <2>1, <2>2, <2>3, <2>4, <2>5, <2>6, <2>7, <2>8, <2>9, SMTT(30)
       DEF Retained, StateOf, Slots, NextUpdate, Other
  <2> QED
    BY <2>10, <2>11
<1>3. Downloads' /\ Handle'
  BY DEF Boot, Downloads, Handle
<1> QED
  BY <1>1, <1>2, <1>3 DEF OtaInv

(* The operations of a session                                              *)
LEMMA BeginsKeeps ==
  ASSUME OtaInv, NEW total \in Nat, Begins(total), UNCHANGED <<booted, running>>,
         upload'.pc = "write" => upload'.kind \in Firmwares
  PROVE  OtaInv'
<1> USE DEF Begins
<1>1. session' \in OtaSessions /\ session' # NoSession
  <2>1. NextUpdate \in Slots /\ begins \in Nat
    BY DEF OtaInv, OtaTypes, NextUpdate, Other, Slots
  <2>2. session' \in OtaSessions
    BY <2>1 DEF OtaSessions
  <2> QED
    BY <2>2, NoSessionIsNone
<1>2. OtaTypes'
  BY <1>1 DEF OtaInv, OtaTypes, Partitions, Slots, Firmwares, NextUpdate, Other, bootData
<1>3. Marked' /\ Retained'
  BY DEF OtaInv, OtaTypes, Marked, Retained, Partitions, Slots, Firmwares, NextUpdate, Other,
       StateOf, Whole, bootData
<1>4. Downloads' /\ Handle'
  BY <1>1 DEF OtaInv, OtaTypes, Downloads, Handle, NextUpdate, Other, StateOf, bootData, Slots
<1> QED
  BY <1>2, <1>3, <1>4 DEF OtaInv

LEMMA WritesKeeps ==
  ASSUME OtaInv, NEW k \in Firmwares, Writes(k), UNCHANGED <<booted, running>>,
         upload'.pc = "write" => upload'.kind \in Firmwares
  PROVE  OtaInv'
<1>1. /\ session \in OtaSessions /\ session' \in OtaSessions /\ session' # NoSession
      /\ session'.target = session.target /\ session'.status = "Receiving"
      /\ session'.handle = session.handle /\ session'.active = session.active
  <2>1. session \in OtaSessions
    BY DEF OtaInv, OtaTypes, Writes, Receiving
  <2>2. session.written + 1 \in Nat
    BY <2>1 DEF OtaSessions
  <2>3. PICK mixed \in Firmwares \cup {"part"}, n \in Nat :
          session' = [session EXCEPT !.written = n, !.kind = mixed]
    BY <2>2 DEF Writes
  <2>4. /\ session' \in OtaSessions
        /\ session'.target = session.target /\ session'.status = session.status
        /\ session'.handle = session.handle /\ session'.active = session.active
    BY <2>1, <2>3 DEF OtaSessions
  <2> QED
    BY <2>1, <2>4, NoSessionIsNone DEF Writes, Receiving
<1>2. OtaTypes'
  BY <1>1 DEF OtaInv, OtaTypes, OtaSessions, Partitions, Slots, Firmwares, bootData, Writes, Receiving
<1>3. Marked' /\ Retained'
  BY DEF OtaInv, OtaTypes, Marked, Retained, Downloads, Partitions, Slots, Firmwares, NextUpdate,
       Other, StateOf, Whole, bootData, Writes, Receiving
<1>4. Downloads' /\ Handle'
  BY <1>1 DEF OtaInv, OtaTypes, Downloads, Handle, NextUpdate, Other, StateOf, bootData, Slots,
       Writes, Receiving
<1> QED
  BY <1>2, <1>3, <1>4 DEF OtaInv

(* The session ends, or stays as it is, and nothing is selected.             *)
NothingSelected ==
  /\ UNCHANGED <<image, newest, entries, booted, running, begins>>
  /\ upload'.pc = "write" => upload'.kind \in Firmwares
  /\ \/ UNCHANGED <<session, last, handles>>
     \/ session = NoSession /\ last' # "DonePendingReboot" /\ UNCHANGED <<session, handles>>
     \/ /\ session # NoSession /\ session' = NoSession /\ last' # "DonePendingReboot"
        /\ handles' = handles \ {session.handle} \/ (~session.active /\ UNCHANGED handles)

LEMMA LeavesKeeps ==
  ASSUME OtaInv, NothingSelected PROVE OtaInv'
<1>1. OtaTypes' /\ Marked' /\ Retained'
  BY DEF OtaInv, OtaTypes, Marked, Retained, NextUpdate, Other, StateOf, Whole, Slots, Partitions,
       NothingSelected
<1>2. Downloads'
  BY DEF OtaInv, Downloads, NextUpdate, Other, StateOf, Whole, NothingSelected
<1>3. Handle'
  BY DEF OtaInv, Handle, NothingSelected
<1> QED
  BY <1>1, <1>2, <1>3 DEF OtaInv

(* No session, and the slot that does not run loses what it had.             *)
LEMMA ErasesKeeps ==
  ASSUME OtaInv, NEW total \in Nat, HalfErased(total), session = NoSession,
         UNCHANGED <<newest, entries, session, last, handles, begins, booted, running>>,
         upload'.pc = "write" => upload'.kind \in Firmwares
  PROVE  OtaInv'
<1>1. StateOf(booted) # "pending" /\ image' = [image EXCEPT ![NextUpdate] = "part"]
  BY DEF HalfErased
<1>2. OtaTypes'
  BY <1>1 DEF OtaInv, OtaTypes, Partitions, Slots, Firmwares, NextUpdate, Other
<1>3. Marked' /\ Retained'
  BY <1>1 DEF OtaInv, OtaTypes, Marked, Retained, Partitions, Slots, Firmwares, NextUpdate, Other,
       StateOf, Whole
<1>4. Downloads' /\ Handle'
  BY DEF OtaInv, Downloads, Handle
<1> QED
  BY <1>2, <1>3, <1>4 DEF OtaInv

LEMMA EndsKeeps ==
  ASSUME OtaInv, Ends, UNCHANGED <<booted, running>>, upload'.pc = "write" => upload'.kind \in Firmwares
  PROVE  OtaInv'
<1> USE DEF Ends, EndsWell, SetBoot, Released, Complete
<1>1. /\ session \in OtaSessions /\ session' \in OtaSessions /\ session' # NoSession
      /\ session'.target = session.target /\ session'.status = "DonePendingReboot"
      /\ session'.handle = session.handle /\ ~session'.active /\ session.active
  BY NoSessionIsNone DEF OtaInv, OtaTypes, OtaSessions
<1>2. session.target \in Slots
  BY <1>1 DEF OtaSessions
<1>3. OtaTypes'
  BY <1>1, <1>2 DEF OtaInv, OtaTypes, OtaSessions, Partitions, Slots, Firmwares
<1>4. session.target = NextUpdate /\ StateOf(booted) # "pending"
  BY DEF OtaInv, Downloads
<1>5. Marked'
  BY <1>2, <1>4 DEF OtaInv, OtaTypes, Marked, Slots, NextUpdate, Other, StateOf, Whole
<1>6. Retained'
  BY <1>2, <1>4 DEF OtaInv, OtaTypes, Retained, Slots, NextUpdate, Other, StateOf, Whole, Partitions
<1>7. Downloads' /\ Handle'
  BY <1>1, <1>2, <1>4 DEF OtaInv, OtaTypes, Downloads, Handle, NextUpdate, Other, StateOf, Slots,
       Whole, Partitions
<1> QED
  BY <1>3, <1>5, <1>6, <1>7 DEF OtaInv

LEMMA OperationKeeps ==
  ASSUME OtaInv, UNCHANGED <<booted, running>>, upload'.pc = "write" => upload'.kind \in Firmwares,
         DoesNotWrite \/ DoesNotEnd \/ Abort \/ \E total \in Nat : DoesNotBegin(total)
  PROVE  OtaInv'
<1>1. CASE DoesNotWrite
  <2>1. NothingSelected
    BY <1>1 DEF DoesNotWrite, Receiving, NothingSelected, bootData
  <2> QED
    BY <2>1, LeavesKeeps
<1>2. CASE DoesNotEnd
  <2>1. NothingSelected
    BY <1>2 DEF DoesNotEnd, Complete, Fails, NothingSelected, bootData
  <2> QED
    BY <2>1, LeavesKeeps
<1>3. CASE Abort
  <2>1. session # NoSession /\ session.active => last # "DonePendingReboot"
    BY DEF OtaInv, Downloads
  <2>2. NothingSelected
    BY <1>3, <2>1 DEF Abort, NothingSelected, bootData
  <2> QED
    BY <2>2, LeavesKeeps
<1>4. ASSUME NEW total \in Nat, DoesNotBegin(total) PROVE OtaInv'
  <2>1. CASE UNCHANGED image
    <3>1. NothingSelected
      BY <1>4, <2>1 DEF DoesNotBegin, NothingSelected, bootData
    <3> QED
      BY <3>1, LeavesKeeps
  <2>2. CASE ~ UNCHANGED image
    <3>1. HalfErased(total) /\ session = NoSession /\ UNCHANGED <<newest, entries, session, last, handles, begins>>
      BY <1>4, <2>2 DEF DoesNotBegin, bootData
    <3> QED
      BY <3>1, ErasesKeeps
  <2> QED
    BY <2>1, <2>2
<1> QED
  BY <1>1, <1>2, <1>3, <1>4

LEMMA AtOtaKeeps ==
  ASSUME OtaInv, AtOta, UNCHANGED running PROVE OtaInv'
<1> USE FirmwareAssumption DEF AtOta, OtaInv, OtaTypes, Unknown
<1>1. UNCHANGED <<booted, running>> /\ (upload'.pc = "write" => upload'.kind \in Firmwares)
  OBVIOUS
<1>2. {Unknown, Size, Size + 1} \subseteq Nat
  OBVIOUS
<1> QED
  BY <1>1, <1>2, BeginsKeeps, WritesKeeps, EndsKeeps, OperationKeeps

LEMMA UploadKeeps ==
  ASSUME OtaInv, Upload, UNCHANGED running PROVE OtaInv'
<1>1. UNCHANGED <<booted, running>> /\ Size \in Nat /\ (upload.pc = "write" => upload.kind \in Firmwares)
  BY FirmwareAssumption DEF Upload, OtaInv, OtaTypes
<1>2. CASE UploadBegins
  BY <1>1, <1>2, BeginsKeeps, OperationKeeps DEF UploadBegins
<1>3. CASE UploadWrites
  <2>1. CASE Writes(upload.kind) /\ upload' = [upload EXCEPT !.sent = @ + 1]
    <3>1. upload.kind \in Firmwares /\ (upload'.pc = "write" => upload'.kind \in Firmwares)
      BY <1>1, <1>3, <2>1 DEF UploadWrites
    <3> QED
      BY <1>1, <2>1, <3>1, WritesKeeps
  <2>2. CASE DoesNotWrite /\ upload' = [pc |-> "abort"]
    BY <1>1, <2>2, OperationKeeps
  <2> QED
    BY <1>3, <2>1, <2>2 DEF UploadWrites
<1>4. CASE UploadGone
  <2>1. NothingSelected
    BY <1>1, <1>4 DEF UploadGone, NothingSelected, bootData
  <2> QED
    BY <2>1, LeavesKeeps
<1>5. CASE UploadEnds
  <2>1. upload' \in {[pc |-> "restart"], NoUpload, [pc |-> "abort"]}
    BY <1>5 DEF UploadEnds
  <2>2. upload'.pc = "write" => upload'.kind \in Firmwares
    BY <2>1 DEF NoUpload
  <2> QED
    BY <1>1, <1>5, <2>2, EndsKeeps, OperationKeeps DEF UploadEnds
<1>6. CASE UploadAborts
  BY <1>1, <1>6, OperationKeeps DEF UploadAborts, NoUpload
<1> QED
  BY <1>2, <1>3, <1>4, <1>5, <1>6 DEF Upload

(* Only firmware that brings up all services is confirmed ...                *)
LEMMA ConfirmKeeps ==
  ASSUME OtaInv, Healthy, ConfirmNewFirmware, UNCHANGED running PROVE OtaInv'
<1>1. image[booted] # "bad"
  BY ServicesAssumption DEF OtaInv, Marked, Healthy
<1> QED
  BY <1>1 DEF OtaInv, OtaTypes, Marked, Retained, Downloads, Handle, ConfirmNewFirmware, NeedsConfirmation,
     StateOf, NextUpdate, Other, Whole, Slots, Partitions, Firmwares, bootData

(* ... and a bad image never brings up one of them.                          *)
LEMMA LaunchKeeps ==
  ASSUME OtaInv, Launch, UNCHANGED otaVars PROVE OtaInv'
<1>1. image[booted] = "bad" => Broken \notin running'
  BY DEF OtaInv, Marked, Launch, Able
<1> QED
  BY <1>1 DEF OtaInv, OtaTypes, Marked, Retained, Downloads, Handle, StateOf, NextUpdate, Other,
       Whole, otaVars, bootData

LEMMA RestKeeps ==
  ASSUME OtaInv, UNCHANGED <<otaVars, running>> PROVE OtaInv'
BY DEF OtaInv, OtaTypes, Marked, Retained, Downloads, Handle, StateOf, NextUpdate, Other, Whole,
     otaVars, bootData

(* Every step keeps the invariant.                                          *)
LEMMA OtaStep ==
  ASSUME OtaInv, [ServicesNext]_servicesVars PROVE OtaInv'
<1>1. CASE Launches \/ Supervise
  BY <1>1, LaunchKeeps DEF Launches, Supervise, otaVars, bootData
<1>2. CASE AtCommand
  <2>1. UNCHANGED running
    BY <1>2 DEF AtCommand
  <2>2. CASE UNCHANGED otaVars
    BY <2>1, <2>2, RestKeeps
  <2>3. CASE AtOta
    BY <2>1, <2>3, AtOtaKeeps
  <2> QED
    BY <1>2, <2>2, <2>3 DEF AtCommand
<1>3. CASE RequestedRestart \/ UploadRestart \/ PowerFails
  BY <1>3, BootKeeps DEF RequestedRestart, UploadRestart, PowerFails, Restart
<1>4. CASE Confirm
  <2>1. UNCHANGED running
    BY <1>4 DEF Confirm, lifeVars
  <2> QED
    BY <1>4, <2>1, ConfirmKeeps, RestKeeps DEF Confirm
<1>5. CASE Uploading
  BY <1>5, UploadKeeps DEF Uploading, lifeVars
<1>6. CASE \/ BootBegins \/ StartEthernet \/ NoRestart \/ (NetMain /\ UNCHANGED <<otaVars, lifeVars>>)
           \/ NetworkEvents \/ World \/ RequestRestart \/ HalfMinute \/ Stall \/ Recover \/ UNCHANGED servicesVars
  <2>1. UNCHANGED <<otaVars, running>>
    BY <1>6 DEF BootBegins, StartEthernet, NoRestart, NetworkEvents, World, RequestRestart,
         HalfMinute, Stall, Recover, servicesVars, lifeVars
  <2> QED
    BY <2>1, RestKeeps
<1> QED
  BY <1>1, <1>2, <1>3, <1>4, <1>5, <1>6 DEF ServicesNext, Main

-----------------------------------------------------------------------------
(* The results                                                             *)

(* The invariant holds in every reachable state, for images of any size and    *)
(* any number of sessions, refusals, restarts and power cuts.                  *)
THEOREM OtaInvariant == ServicesSpec => []OtaInv
BY OtaStarts, OtaStep, PTL DEF ServicesSpec

(* "Done" means that the session's partition is whole and boots next, and the  *)
(* platform holds the session's handle and no other, whichever client began,    *)
(* wrote, ended or aborted (ota/mod.rs:258-338).                              *)
THEOREM ClientsAreToldTheTruth == ServicesSpec => []OtaIsTrue
<1>1. OtaInv => OtaIsTrue
  BY Kept
<1> QED
  BY <1>1, OtaInvariant, PTL

(* While firmware runs that does not bring up its services, the next boot       *)
(* brings back firmware that does (main.rs:545-561, 698-746).                 *)
THEOREM BadFirmwareRunsOnce == ServicesSpec => []AlwaysAWayBack
<1>1. OtaInv => AlwaysAWayBack
  BY Kept
<1> QED
  BY <1>1, OtaInvariant, PTL
-----------------------------------------------------------------------------
(* The network: the driver                                                  *)

(* What start has made before it comes to its step n.                         *)
Calls   == {"config", "handlers", "heartbeat"}
Made(n) == {StartSteps[i] : i \in 1 .. n - 1} \ Calls

(* A start that is under way has made what comes before its step and nothing   *)
(* else; between starts there is a whole driver or none of it.                 *)
StartIsWhole ==
  /\ step \in 0 .. Len(StartSteps) /\ (step > 0 <=> at = "ethernet")
  /\ held = IF started THEN Made(11) ELSE IF step > 0 THEN Made(step) ELSE {}
  /\ started => step = 0 /\ at # "boot"
  /\ at = "apply" => started

(* Who has a link or an address can hear of it.                                *)
Told ==
  /\ "start" \in held \/ step > 8 => handlers
  /\ carrier => "start" \in held /\ linkUp
  /\ announce => carrier /\ netif.ip # NoAddress
  /\ netif.dhcp /\ netif.ip # NoAddress => netif.ip = Lease /\ carrier
  /\ step = 0 /\ ~started => netif = NoNetif

DriverInv == StartIsWhole /\ Told

-----------------------------------------------------------------------------
(* The network: the configuration                                           *)
Known == Addresses \cup {Lease}

Leasing == netif = [dhcp |-> TRUE, ip |-> Lease]

NetTypes ==
  /\ cfg \in [dhcp : BOOLEAN, ip : Known]
  /\ netif \in [dhcp : BOOLEAN, ip : Known \cup {NoAddress}]
  /\ slot \in {NoEvent, Link(TRUE), Link(FALSE)} \cup {GotIp(a) : a \in Known}
  /\ at = "assign" => got \in Known
  /\ over \in BOOLEAN /\ carrier \in BOOLEAN /\ announce \in BOOLEAN

(* An address that is not a lease is a client's.                               *)
StaticIsAClients == cfg.dhcp = chosen.dhcp /\ (~cfg.dhcp => cfg = chosen)

(* What was requested has been tried, or will be.                              *)
RequestsAreApplied == stamp = "none" /\ at # "apply" => applied \in since

(* A lease is shown, or on its way to the configuration.                       *)
Underway == announce \/ slot = GotIp(Lease) \/ (at = "assign" /\ got = Lease)

LeaseIsShown == Leasing /\ cfg.dhcp /\ ~over => cfg.ip = Lease \/ Underway

(* An older address does not arrive after it.                                  *)
OlderFirst ==
  /\ Leasing /\ slot.kind = "ip" /\ slot # GotIp(Lease) => announce
  /\ Leasing /\ at = "assign" /\ got # Lease => announce \/ slot = GotIp(Lease)

ConfigInv ==
  NetTypes /\ StaticIsAClients /\ cfg \in since /\ RequestsAreApplied /\ LeaseIsShown /\ OlderFirst

-----------------------------------------------------------------------------
(* The network: the mode is the one of the failures in a row.                  *)
ModeOf(n) ==
  IF n < Thresholds[1] THEN "Normal"
  ELSE IF n < Thresholds[2] THEN "BleOnly"
  ELSE IF n < Thresholds[3] THEN "LocalOnly" ELSE "Minimal"

ModeInv ==
  /\ beats \in 0 .. Thresholds[3] \cup {NotYet}
  /\ started => beats # NotYet
  /\ mode = IF beats = NotYet THEN "Normal" ELSE ModeOf(beats)

Quiet ==
  /\ started /\ carrier /\ stamp = "none" /\ beats = 0
  /\ slot = NoEvent /\ ~announce /\ at \notin {"apply", "assign"}

QuietIsSettled == Quiet => NetworkIsSettled

-----------------------------------------------------------------------------
(* The steps of start, one by one.                                          *)
LEMMA StepsOfStart ==
  /\ Len(StartSteps) = 10 /\ Len(Parts) = 6
  /\ Parts[1] = "bus" /\ Parts[2] = "mac" /\ Parts[3] = "phy"
  /\ Parts[4] = "driver" /\ Parts[5] = "netif" /\ Parts[6] = "glue"
  /\ StartSteps[1] = "bus" /\ StartSteps[2] = "mac" /\ StartSteps[3] = "phy"
  /\ StartSteps[4] = "driver" /\ StartSteps[5] = "netif" /\ StartSteps[6] = "glue"
  /\ StartSteps[7] = "config" /\ StartSteps[8] = "handlers" /\ StartSteps[9] = "start"
  /\ StartSteps[10] = "heartbeat"
BY DEF StartSteps, Parts

LEMMA PartsOfStart ==
  \A n \in 1 .. 6 : StartSteps[n] = Parts[n] /\ StartSteps[n] \notin Calls \cup {"start"}
BY StepsOfStart DEF Calls

(* Nothing is made before the first step; a step makes one thing, or is a call. *)
LEMMA MadeFirst == Made(1) = {}
BY DEF Made

LEMMA MadeNext ==
  \A n \in 1 .. 10 :
    /\ StartSteps[n] \notin Calls => Made(n + 1) = Made(n) \cup {StartSteps[n]}
    /\ StartSteps[n] \in Calls => Made(n + 1) = Made(n)
<1> TAKE n \in 1 .. 10
<1>1. 1 .. (n + 1) - 1 = (1 .. n - 1) \cup {n}
  OBVIOUS
<1> QED
  BY <1>1 DEF Made

(* No part is made twice, and the driver runs only after the handlers.         *)
LEMMA MadeOnce ==
  /\ \A n \in 1 .. 10 : StartSteps[n] \notin Made(n)
  /\ \A n \in 1 .. 11 : "start" \in Made(n) <=> n > 9
<1>1. \A n \in 1 .. 10 : \A i \in 1 .. n - 1 : StartSteps[i] # StartSteps[n]
  BY StepsOfStart
<1>2. \A i \in 1 .. 10 : StartSteps[i] = "start" <=> i = 9
  BY StepsOfStart
<1> QED
  BY <1>1, <1>2 DEF Made, Calls

-----------------------------------------------------------------------------
(* The main loop takes its turns; a start begins where there is no driver.     *)
Turns ==
  /\ UNCHANGED <<config, stamp, held, started, handlers, netif, applied, wire, slot, got, beats, mode>>
  /\ \/ UNCHANGED <<at, step>>
     \/ at \notin {"ethernet", "apply", "assign"} /\ UNCHANGED step
        /\ at' \notin {"boot", "ethernet", "apply", "assign"}
     \/ at \in {"boot", "supervise"} /\ ~started /\ at' = "ethernet" /\ step' = 1

(* What a step of the firmware is for the network.                             *)
LEMMA StepsOfTheNetwork ==
  ASSUME [ServicesNext]_servicesVars, at = "boot" => ~started
  PROVE  \/ NetRestart /\ at' = "boot"
         \/ Turns \/ StartEthernet \/ TickSwaps \/ TickApplies \/ Heartbeat \/ Receive \/ Assign
         \/ EventLoop \/ Outside \/ NetClient
<1> USE DEF config, driver, wire, counters, netVars
<1>1. CASE RequestedRestart \/ UploadRestart \/ PowerFails
  BY <1>1 DEF RequestedRestart, UploadRestart, PowerFails, Restart
<1>2. CASE BootBegins
  BY <1>2 DEF BootBegins, Turns
<1>3. CASE Launches \/ AtCommand \/ NoRestart \/ Confirm
  BY <1>3 DEF Launches, AtCommand, NoRestart, Confirm, Turns
<1>4. CASE Supervise
  BY <1>4 DEF Supervise, Turns
<1>5. CASE NetMain /\ UNCHANGED <<otaVars, lifeVars>>
  BY <1>5 DEF NetMain, TickLoads, Turns
<1>6. CASE StartEthernet \/ NetworkEvents \/ World
  BY <1>6 DEF NetworkEvents, World
<1>7. CASE Uploading \/ RequestRestart \/ HalfMinute \/ Recover \/ UNCHANGED servicesVars
  BY <1>7 DEF Uploading, RequestRestart, HalfMinute, Recover, servicesVars, Turns
<1>8. CASE Stall
  BY <1>8 DEF Stall, Turns
<1> QED
  BY <1>1, <1>2, <1>3, <1>4, <1>5, <1>6, <1>7, <1>8 DEF ServicesNext, Main

-----------------------------------------------------------------------------
(* The driver                                                              *)
LEMMA DriverStarts == ServicesInit => DriverInv
BY StepsOfStart DEF ServicesInit, NetInit, DriverInv, StartIsWhole, Told, NoNetif

LEMMA StartKeepsDriver ==
  ASSUME DriverInv, StartEthernet PROVE DriverInv'
<1>0. /\ step \in 1 .. 10 /\ at = "ethernet" /\ ~started /\ held = Made(step)
      /\ UNCHANGED linkUp /\ at' # "boot" /\ at' # "apply" /\ (step' > 0 => at' = "ethernet")
      /\ step' = 0 => at' # "ethernet"
  BY StepsOfStart DEF StartEthernet, Start, DriverInv, StartIsWhole
<1>1. CASE StartFails
  BY <1>0, <1>1, StepsOfStart DEF StartFails, Release, DriverInv, StartIsWhole, Told, NoNetif
<1>2. CASE Allocate
  <2>1. step \in 1 .. 6 /\ held' = held \cup {StartSteps[step]} /\ step' = step + 1
    BY <1>2, StepsOfStart, PartsOfStart DEF Allocate
  <2>2. held' = Made(step + 1) /\ ("start" \in held' <=> "start" \in held)
    BY <1>0, <2>1, PartsOfStart, MadeNext
  <2> QED
    BY <1>0, <1>2, <2>1, <2>2, StepsOfStart DEF Allocate, DriverInv, StartIsWhole, Told
<1>3. CASE StartConfigures
  <2>1. step = 7 /\ held' = held /\ step' = 8
    BY <1>0, <1>3, StepsOfStart DEF StartConfigures
  <2>2. held' = Made(8) /\ "start" \notin held
    BY <1>0, <2>1, StepsOfStart, MadeNext, MadeOnce DEF Calls
  <2>3. ~carrier /\ ~announce
    BY <2>2 DEF DriverInv, Told
  <2>4. ~announce' /\ (netif'.dhcp /\ netif'.ip # NoAddress => netif' = netif)
    <3>1. Configure
      BY <1>3 DEF StartConfigures
    <3>2. CASE cfg.dhcp
      <4>1. netif' = IF netif.dhcp THEN netif ELSE NoNetif
        BY <3>1, <3>2 DEF Configure
      <4>2. ~announce'
        BY <2>3, <3>1, <3>2 DEF Configure
      <4> QED
        BY <4>1, <4>2 DEF NoNetif
    <3>3. CASE ~cfg.dhcp
      BY <2>3, <3>1, <3>3 DEF Configure
    <3> QED
      BY <3>2, <3>3
  <2>5. ~carrier' /\ UNCHANGED <<started, handlers>>
    BY <1>3, <2>3 DEF StartConfigures
  <2> QED
    BY <1>0, <2>1, <2>2, <2>3, <2>4, <2>5, StepsOfStart DEF DriverInv, StartIsWhole, Told
<1>4. CASE RegisterHandlers
  <2>1. step = 8 /\ held' = held /\ step' = 9
    BY <1>0, <1>4, StepsOfStart DEF RegisterHandlers
  <2>2. held' = Made(9)
    BY <1>0, <2>1, StepsOfStart, MadeNext DEF Calls
  <2> QED
    BY <1>0, <1>4, <2>1, <2>2, StepsOfStart DEF RegisterHandlers, DriverInv, StartIsWhole, Told
<1>5. CASE StartDriver
  <2>1. step = 9 /\ held' = held \cup {"start"} /\ step' = 10
    BY <1>0, <1>5, StepsOfStart DEF StartDriver
  <2>2. held' = Made(10)
    BY <1>0, <2>1, StepsOfStart, MadeNext DEF Calls
  <2> QED
    BY <1>0, <1>5, <2>1, <2>2, StepsOfStart DEF StartDriver, DriverInv, StartIsWhole, Told
<1>6. CASE Commit
  <2>1. step = 10 /\ held' = held /\ step' = 0 /\ started'
    BY <1>0, <1>6, StepsOfStart DEF Commit
  <2>2. held' = Made(11)
    BY <1>0, <2>1, StepsOfStart, MadeNext DEF Calls
  <2> QED
    BY <1>0, <1>6, <2>1, <2>2, StepsOfStart DEF Commit, DriverInv, StartIsWhole, Told
<1> QED
  BY <1>1, <1>2, <1>3, <1>4, <1>5, <1>6 DEF StartEthernet, Start

LEMMA DriverStep ==
  ASSUME DriverInv, NetTypes, [ServicesNext]_servicesVars PROVE DriverInv'
<1> USE DEF config, driver, wire, counters
<1>1. CASE NetRestart /\ at' = "boot"
  BY <1>1, StepsOfStart DEF NetRestart, DriverInv, StartIsWhole, Told, NoNetif
<1>2. CASE Turns
  BY <1>2, StepsOfStart, MadeFirst DEF Turns, DriverInv, StartIsWhole, Told
<1>3. CASE TickSwaps \/ Heartbeat \/ Receive \/ Assign
  BY <1>3 DEF TickSwaps, Heartbeat, Receive, Assign, DriverInv, StartIsWhole, Told
<1>4. CASE TickApplies
  <2>1. started /\ step = 0 /\ held = Made(11) /\ at = "apply" /\ at' = "beat" /\ handlers
        /\ UNCHANGED <<driver, carrier, linkUp>>
    BY <1>4, MadeOnce DEF TickApplies, DriverInv, StartIsWhole, Told
  <2>2. netif'.dhcp /\ netif'.ip # NoAddress => netif' = netif
    BY <1>4 DEF TickApplies, Configure, Misconfigure, NoNetif, NetTypes
  <2>3. announce' => carrier /\ netif'.ip # NoAddress
    BY <1>4, NetworkAssumption DEF TickApplies, Configure, Misconfigure, NetTypes, DriverInv, Told, Known
  <2> QED
    BY <2>1, <2>2, <2>3 DEF DriverInv, StartIsWhole, Told
<1>5. CASE Connected
  BY <1>5 DEF Connected, Running, DriverInv, StartIsWhole, Told
<1>6. CASE Disconnected
  BY <1>6 DEF Disconnected, Running, DriverInv, StartIsWhole, Told, NoNetif
<1>7. CASE Leased
  BY <1>7, NetworkAssumption DEF Leased, DriverInv, StartIsWhole, Told, NoNetif, NetTypes
<1>8. CASE Announced
  BY <1>8 DEF Announced, DriverInv, StartIsWhole, Told
<1>9. CASE Outside
  BY <1>9 DEF Outside, Plugged, Pulled, HalfSecond, DriverInv, StartIsWhole, Told
<1>10. CASE NetClient
  <2>1. UNCHANGED <<at, step, held, started, handlers, netif, carrier, announce, linkUp>>
    BY <1>10 DEF NetClient, EditAddress, EditDhcp, EditOnPage, RequestReconfigure
  <2> QED
    BY <2>1 DEF DriverInv, StartIsWhole, Told
<1> QED
  BY <1>1, <1>2, <1>3, <1>4, <1>5, <1>6, <1>7, <1>8, <1>9, <1>10, StartKeepsDriver, StepsOfTheNetwork
     DEF EventLoop, DriverInv, StartIsWhole

-----------------------------------------------------------------------------
(* The configuration                                                       *)
LEMMA ConfigStarts == ServicesInit => ConfigInv
<1> SUFFICES ASSUME ServicesInit PROVE ConfigInv
  OBVIOUS
<1>1. /\ cfg \in [dhcp : BOOLEAN, ip : Addresses] /\ chosen = cfg /\ since = {cfg} /\ applied = cfg
      /\ at = "boot" /\ slot = NoEvent /\ netif = NoNetif /\ over = FALSE
      /\ carrier = FALSE /\ announce = FALSE
  BY DEF ServicesInit, NetInit
<1>2. NetTypes
  BY <1>1 DEF NetTypes, NoNetif, Known
<1>3. ~Leasing
  BY <1>1, NetworkAssumption DEF Leasing, NoNetif
<1> QED
  BY <1>1, <1>2, <1>3 DEF ConfigInv, StaticIsAClients, RequestsAreApplied, LeaseIsShown, OlderFirst

(* What the slot holds.                                                     *)
LEMMA Events ==
  /\ NoEvent.kind # "ip" /\ Link(TRUE).kind # "ip" /\ Link(FALSE).kind # "ip"
  /\ \A a : GotIp(a).kind = "ip" /\ GotIp(a).ip = a /\ GotIp(a) # NoEvent
BY DEF NoEvent, Link, GotIp

(* The configuration and the requests are left alone.                        *)
LEMMA ConfigRests ==
  ASSUME ConfigInv, UNCHANGED <<config, netif, carrier, announce, slot, got>>,
         stamp' = "none" /\ at' # "apply" => stamp = "none" /\ at # "apply" /\ applied' = applied,
         at' = "assign" <=> at = "assign"
  PROVE  ConfigInv'
<1>1. /\ UNCHANGED <<cfg, chosen, since, over, netif, carrier, announce, slot, got>>
      /\ at' = "assign" <=> at = "assign"
  BY DEF config
<1>2. NetTypes' /\ StaticIsAClients' /\ (cfg \in since)'
  BY <1>1 DEF ConfigInv, NetTypes, StaticIsAClients
<1>3. RequestsAreApplied'
  BY <1>1 DEF ConfigInv, RequestsAreApplied
<1>4. LeaseIsShown' /\ OlderFirst'
  BY <1>1 DEF ConfigInv, LeaseIsShown, OlderFirst, Leasing, Underway
<1> QED
  BY <1>2, <1>3, <1>4 DEF ConfigInv

LEMMA ClientKeepsConfig ==
  ASSUME ConfigInv, NetClient PROVE ConfigInv'
<1>1. UNCHANGED <<at, netif, slot, got, carrier, announce, applied>>
  BY DEF NetClient, EditAddress, EditDhcp, EditOnPage, RequestReconfigure, wire
<1>2. CASE RequestReconfigure
  BY <1>1, <1>2 DEF RequestReconfigure, ConfigInv, NetTypes, StaticIsAClients, RequestsAreApplied,
       LeaseIsShown, OlderFirst, Leasing, Underway
<1>3. CASE EditAddress \/ EditDhcp \/ EditOnPage
  <2>1. PICK c \in [dhcp : BOOLEAN, ip : Known] : Edited(c)
    <3>1. cfg \in [dhcp : BOOLEAN, ip : Known] /\ Addresses \subseteq Known
      BY DEF ConfigInv, NetTypes, Known
    <3> QED
      BY <1>3, <3>1 DEF EditAddress, EditDhcp, EditOnPage
  <2>2. cfg' = c /\ chosen' = c /\ since' = since \cup {c} /\ over' = TRUE
    BY <2>1 DEF Edited
  <2>3. stamp' = stamp
    BY <1>3 DEF EditAddress, EditDhcp, EditOnPage
  <2>4. NetTypes' /\ StaticIsAClients' /\ (cfg \in since)'
    BY <1>1, <2>2 DEF ConfigInv, NetTypes, StaticIsAClients
  <2>5. RequestsAreApplied'
    BY <1>1, <2>2, <2>3 DEF ConfigInv, RequestsAreApplied
  <2>6. LeaseIsShown' /\ OlderFirst'
    BY <1>1, <2>2 DEF ConfigInv, LeaseIsShown, OlderFirst, Leasing
  <2> QED
    BY <2>4, <2>5, <2>6 DEF ConfigInv
<1> QED
  BY <1>2, <1>3 DEF NetClient

(* A lease appears and is announced; what an interface gets otherwise is none. *)
LEMMA LoopKeepsConfig ==
  ASSUME ConfigInv, DriverInv, EventLoop PROVE ConfigInv'
<1> USE DEF config, Send
<1>0. UNCHANGED <<cfg, chosen, since, stamp, at, got, applied>>
  BY DEF EventLoop, Connected, Disconnected, Leased, Announced
<1>1. CASE Connected
  <2>1. UNCHANGED <<netif, over>> /\ slot' \in {slot, Link(TRUE)}
    BY <1>1 DEF Connected
  <2>2. ~carrier /\ carrier' \in BOOLEAN /\ announce' \in BOOLEAN
    BY <1>1 DEF Connected
  <2>3. ~Leasing
    BY <2>2, NetworkAssumption DEF DriverInv, Told, Leasing
  <2> QED
    BY <1>0, <2>1, <2>2, <2>3, Events DEF ConfigInv, NetTypes, StaticIsAClients, RequestsAreApplied, LeaseIsShown, OlderFirst,
         Leasing
<1>2. CASE Disconnected
  <2>1. /\ over' = over /\ slot' \in {slot, Link(FALSE)}
        /\ netif' = IF netif.dhcp THEN NoNetif ELSE netif
        /\ carrier' = FALSE /\ announce' = FALSE
    BY <1>2 DEF Disconnected
  <2>2. NetTypes'
    BY <1>0, <2>1 DEF ConfigInv, NetTypes, NoNetif
  <2>3. ~Leasing'
    BY <2>1, NetworkAssumption DEF Leasing, NoNetif
  <2> QED
    BY <1>0, <2>2, <2>3 DEF ConfigInv, StaticIsAClients, RequestsAreApplied, LeaseIsShown, OlderFirst
<1>3. CASE Leased
  <2>1. /\ announce' = TRUE /\ over' = FALSE /\ slot' = slot /\ carrier' = carrier
        /\ netif' = [netif EXCEPT !.ip = Lease]
    BY <1>3 DEF Leased
  <2>2. NetTypes'
    BY <1>0, <2>1 DEF ConfigInv, NetTypes, Known
  <2> QED
    BY <1>0, <2>1, <2>2 DEF ConfigInv, StaticIsAClients, RequestsAreApplied, LeaseIsShown, OlderFirst, Underway
<1>4. CASE Announced
  <2>1. /\ UNCHANGED <<netif, over, carrier>> /\ announce' = FALSE
        /\ slot' = GotIp(netif.ip) /\ netif.ip \in Known
    BY <1>4 DEF Announced, DriverInv, StartIsWhole, Told, ConfigInv, NetTypes
  <2>2. NetTypes'
    BY <1>0, <2>1 DEF ConfigInv, NetTypes
  <2>3. Leasing => slot' = GotIp(Lease)
    BY <2>1 DEF Leasing
  <2> QED
    BY <1>0, <2>1, <2>2, <2>3 DEF ConfigInv, StaticIsAClients, RequestsAreApplied, LeaseIsShown, OlderFirst, Underway, Leasing
<1> QED
  BY <1>1, <1>2, <1>3, <1>4 DEF EventLoop

(* Applying takes the configuration as it is; a lease may stay, but none comes. *)
LEMMA ConfigureKeepsConfig ==
  ASSUME ConfigInv, Configure \/ Misconfigure, applied' = cfg,
         UNCHANGED <<config, slot, got, carrier>>, at # "assign", at' # "assign"
  PROVE  ConfigInv'
<1> USE DEF config
<1>0. /\ cfg \in [dhcp : BOOLEAN, ip : Known] /\ netif \in [dhcp : BOOLEAN, ip : Known \cup {NoAddress}]
      /\ carrier \in BOOLEAN /\ announce \in BOOLEAN
  BY DEF ConfigInv, NetTypes
<1>1. netif' \in [dhcp : BOOLEAN, ip : Known \cup {NoAddress}] /\ announce' \in BOOLEAN
  <2>1. CASE Misconfigure
    <3>1. PICK b \in BOOLEAN : netif' \in {netif, [netif EXCEPT !.dhcp = b]}
      BY <1>0, <2>1, Zenon DEF Misconfigure
    <3>2. announce' = announce
      BY <2>1 DEF Misconfigure
    <3>3. [netif EXCEPT !.dhcp = b] \in [dhcp : BOOLEAN, ip : Known \cup {NoAddress}]
      BY <1>0, <3>1
    <3> QED
      BY <1>0, <3>1, <3>2, <3>3, Zenon
  <2>2. CASE Configure /\ cfg.dhcp
    <3>1. netif' = IF netif.dhcp THEN netif ELSE NoNetif
      BY <2>2 DEF Configure
    <3>2. announce' \in BOOLEAN
      BY <2>2, Zenon DEF Configure
    <3> QED
      BY <1>0, <3>1, <3>2 DEF NoNetif
  <2>3. CASE Configure /\ ~cfg.dhcp
    BY <1>0, <2>3 DEF Configure
  <2> QED
    BY <2>1, <2>2, <2>3
<1>2. Leasing' => Leasing /\ announce' = announce
  <2>1. CASE Misconfigure
    BY <1>0, <2>1 DEF Misconfigure, Leasing
  <2>2. CASE Configure /\ cfg.dhcp
    <3>1. netif' = IF netif.dhcp THEN netif ELSE NoNetif
      BY <2>2 DEF Configure
    <3>2. Leasing' => netif.dhcp /\ Leasing
      BY <3>1, NetworkAssumption DEF Leasing, NoNetif
    <3>3. netif.dhcp => announce' = announce
      BY <1>0, <2>2 DEF Configure
    <3> QED
      BY <3>2, <3>3
  <2>3. CASE Configure /\ ~cfg.dhcp
    BY <2>3 DEF Configure, Leasing
  <2> QED
    BY <2>1, <2>2, <2>3
<1> QED
  BY <1>1, <1>2 DEF ConfigInv, NetTypes, StaticIsAClients, RequestsAreApplied, LeaseIsShown, OlderFirst, Underway

LEMMA ConfigStep ==
  ASSUME ConfigInv, DriverInv, [ServicesNext]_servicesVars PROVE ConfigInv'
<1> USE DEF config, wire
<1>1. CASE NetRestart /\ at' = "boot"
  <2>1. /\ UNCHANGED <<cfg, chosen>> /\ since' = {cfg} /\ applied' = cfg
        /\ slot' = NoEvent /\ netif' = NoNetif /\ over' = FALSE /\ carrier' = FALSE /\ announce' = FALSE
    BY <1>1 DEF NetRestart
  <2>2. NetTypes'
    BY <1>1, <2>1 DEF ConfigInv, NetTypes, NoNetif
  <2>3. ~Leasing'
    BY <2>1, NetworkAssumption DEF Leasing, NoNetif
  <2> QED
    BY <2>1, <2>2, <2>3 DEF ConfigInv, StaticIsAClients, RequestsAreApplied, LeaseIsShown, OlderFirst
<1>2. CASE Turns
  BY <1>2, ConfigRests DEF Turns
<1>3. CASE StartEthernet
  <2>1. /\ UNCHANGED <<config, stamp, slot, got>> /\ at = "ethernet" /\ at' \notin {"apply", "assign"}
        /\ step \in 1 .. 10
    BY <1>3, StepsOfStart DEF StartEthernet, Start, DriverInv, StartIsWhole
  <2>2. CASE StartFails
    <3>1. /\ netif' = NoNetif /\ carrier' = FALSE /\ announce' = FALSE /\ applied' = applied
      BY <2>2 DEF StartFails
    <3>2. NetTypes'
      BY <2>1, <3>1 DEF ConfigInv, NetTypes, NoNetif
    <3>3. ~Leasing'
      BY <3>1, NetworkAssumption DEF Leasing, NoNetif
    <3> QED
      BY <2>1, <3>1, <3>2, <3>3 DEF ConfigInv, StaticIsAClients, RequestsAreApplied, LeaseIsShown, OlderFirst
  <2>3. CASE StartConfigures
    BY <2>1, <2>3, ConfigureKeepsConfig DEF StartConfigures
  <2>4. CASE Allocate \/ RegisterHandlers \/ StartDriver \/ Commit
    <3>1. UNCHANGED <<netif, applied, carrier, announce>>
      BY <2>4 DEF Allocate, RegisterHandlers, StartDriver, Commit
    <3> QED
      BY <2>1, <3>1, ConfigRests
  <2> QED
    BY <1>3, <2>2, <2>3, <2>4 DEF StartEthernet, Start
<1>4. CASE TickSwaps \/ Heartbeat \/ Outside
  BY <1>4, ConfigRests DEF TickSwaps, Heartbeat, Outside, Plugged, Pulled, HalfSecond
<1>5. CASE TickApplies
  BY <1>5, ConfigureKeepsConfig DEF TickApplies
<1>6. CASE Receive
  <2>1. /\ UNCHANGED <<cfg, chosen, since, over, stamp, netif, applied, carrier, announce>>
        /\ at = "events" /\ slot' = NoEvent /\ at' # "apply"
        /\ slot.kind = "ip" /\ cfg.dhcp => at' = "assign" /\ got' = slot.ip
        /\ at' = "assign" => slot.kind = "ip" /\ got' = slot.ip
    <3>1. CASE slot.kind = "ip" /\ cfg.dhcp
      BY <1>6, <3>1 DEF Receive
    <3>2. CASE ~(slot.kind = "ip" /\ cfg.dhcp)
      BY <1>6, <3>2 DEF Receive
    <3> QED
      BY <3>1, <3>2
  <2>2. slot.kind = "ip" => slot = GotIp(slot.ip) /\ slot.ip \in Known
    <3>1. SUFFICES ASSUME slot.kind = "ip" PROVE slot = GotIp(slot.ip) /\ slot.ip \in Known
      OBVIOUS
    <3>2. PICK a \in Known : slot = GotIp(a)
      BY <3>1, Events, Zenon DEF ConfigInv, NetTypes
    <3>3. slot.ip = a
      BY <3>2, Events, Zenon
    <3> QED
      BY <3>2, <3>3
  <2>3. NetTypes'
    BY <2>1, <2>2 DEF ConfigInv, NetTypes
  <2>4. slot = GotIp(Lease) => slot.kind = "ip" /\ slot.ip = Lease
    BY Events
  <2>5. LeaseIsShown'
    BY <2>1, <2>4 DEF ConfigInv, LeaseIsShown, Underway, Leasing
  <2>6. OlderFirst'
    BY <2>1, <2>2, Events DEF ConfigInv, OlderFirst, Leasing
  <2> QED
    BY <2>1, <2>3, <2>5, <2>6 DEF ConfigInv, StaticIsAClients, RequestsAreApplied
<1>7. CASE Assign
  <2>1. /\ UNCHANGED <<chosen, stamp, netif, applied, slot, carrier, announce>>
        /\ at = "assign" /\ at' = "events" /\ over \in BOOLEAN /\ got \in Known
        /\ cfg \in [dhcp : BOOLEAN, ip : Known]
        /\ since' = since \cup {cfg'}
    BY <1>7 DEF Assign, ConfigInv, NetTypes
  <2>2. CASE cfg.dhcp
    <3>1. cfg' = [cfg EXCEPT !.ip = got] /\ over' = FALSE
      BY <1>7, <2>1, <2>2 DEF Assign
    <3>2. NetTypes'
      BY <2>1, <3>1 DEF ConfigInv, NetTypes
    <3>3. StaticIsAClients' /\ cfg'.ip = got
      BY <2>1, <2>2, <3>1 DEF ConfigInv, StaticIsAClients
    <3>4. LeaseIsShown' /\ OlderFirst'
      BY <2>1, <3>1, <3>3 DEF ConfigInv, LeaseIsShown, OlderFirst, Underway, Leasing
    <3> QED
      BY <2>1, <3>2, <3>3, <3>4 DEF ConfigInv, RequestsAreApplied
  <2>3. CASE ~cfg.dhcp
    <3>1. cfg' = cfg /\ over' = over
      BY <1>7, <2>1, <2>3 DEF Assign
    <3> QED
      BY <2>1, <2>3, <3>1 DEF ConfigInv, NetTypes, StaticIsAClients, RequestsAreApplied, LeaseIsShown, OlderFirst,
           Leasing
  <2> QED
    BY <2>2, <2>3
<1>8. at = "boot" => ~started
  BY DEF DriverInv, StartIsWhole
<1> QED
  BY <1>1, <1>2, <1>3, <1>4, <1>5, <1>6, <1>7, <1>8, LoopKeepsConfig, ClientKeepsConfig, StepsOfTheNetwork

-----------------------------------------------------------------------------
(* The mode                                                                *)
LEMMA Limits ==
  \A i \in 1 .. 3 : Thresholds[i] \in 1 .. 98
<1>1. ASSUME NEW S, NEW s \in Seq(S), Len(s) = 3 PROVE \A i \in 1 .. 3 : s[i] \in S
  <2>1. \A i \in 1 .. Len(s) : s[i] \in S
    OBVIOUS
  <2> QED
    BY <1>1, <2>1
<1>2. Thresholds \in Seq(1 .. 98) /\ Len(Thresholds) = 3
  <2>1. 1 .. NotYet - 1 = 1 .. 98
    BY DEF NotYet
  <2> QED
    BY <2>1, NetworkAssumption
<1> QED
  BY <1>1, <1>2

LEMMA HeartbeatKeepsMode ==
  ASSUME ModeInv, Heartbeat PROVE ModeInv'
<1>1. /\ Thresholds[1] \in 1 .. 98 /\ Thresholds[2] \in 1 .. 98 /\ Thresholds[3] \in 1 .. 98
      /\ started' = started
  BY Limits DEF Heartbeat, driver
<1>2. CASE beats = NotYet
  BY <1>1, <1>2 DEF Heartbeat, ModeInv
<1>3. CASE beats # NotYet /\ Reachable
  BY <1>1, <1>3 DEF Heartbeat, ModeInv, ModeOf, NotYet
<1>4. CASE beats # NotYet /\ ~Reachable
  <2>1. /\ beats \in 0 .. Thresholds[3] /\ mode = ModeOf(beats)
        /\ beats' = IF beats = Thresholds[3] THEN beats ELSE beats + 1
        /\ mode' = ModeAfter(beats')
    BY <1>4 DEF Heartbeat, ModeInv
  <2>2. beats' \in 0 .. Thresholds[3] /\ beats <= beats' /\ beats' # NotYet
    BY <1>1, <2>1 DEF NotYet
  <2>3. mode' = ModeOf(beats')
    BY <1>1, <2>1, <2>2 DEF ModeAfter, ModeOf
  <2> QED
    BY <1>1, <2>2, <2>3 DEF ModeInv, ModeOf
<1> QED
  BY <1>2, <1>3, <1>4

LEMMA ModeStep ==
  ASSUME ModeInv, DriverInv, [ServicesNext]_servicesVars PROVE ModeInv'
<1> USE DEF ModeInv, ModeOf
<1>0. 0 \in 0 .. Thresholds[3] /\ 0 # NotYet /\ 0 < Thresholds[1]
  BY Limits DEF NotYet
<1>1. CASE NetRestart
  BY <1>1 DEF NetRestart
<1>2. CASE Commit /\ mode' = mode
  BY <1>0, <1>2 DEF Commit
<1>3. CASE UNCHANGED <<beats, mode, started>>
  BY <1>3
<1>4. NetRestart \/ (Commit /\ mode' = mode) \/ UNCHANGED <<beats, mode, started>> \/ Heartbeat
  <2>1. at = "boot" => ~started
    BY DEF DriverInv, StartIsWhole
  <2>2. StartEthernet => (Commit /\ mode' = mode) \/ UNCHANGED <<beats, mode, started>>
    BY DEF StartEthernet, Start, StartFails, Allocate, StartConfigures, RegisterHandlers, StartDriver
  <2>3. Turns \/ TickSwaps \/ TickApplies \/ Receive \/ Assign => UNCHANGED <<beats, mode, started>>
    BY DEF Turns, TickSwaps, TickApplies, Receive, Assign, driver
  <2>4. EventLoop \/ Outside \/ NetClient => UNCHANGED <<beats, mode, started>>
    BY DEF EventLoop, Connected, Disconnected, Leased, Announced, Outside, Plugged, Pulled, HalfSecond,
         NetClient, EditAddress, EditDhcp, EditOnPage, RequestReconfigure, driver
  <2> QED
    BY <2>1, <2>2, <2>3, <2>4, StepsOfTheNetwork
<1> QED
  BY <1>1, <1>2, <1>3, <1>4, HeartbeatKeepsMode

-----------------------------------------------------------------------------
NetworkInv == DriverInv /\ ConfigInv /\ ModeInv

(* The invariant holds in every reachable state, for any addresses and         *)
(* thresholds and any number of changes, pulled cables, faults and restarts.   *)
THEOREM NetworkInvariant == ServicesSpec => []NetworkInv
<1>1. ServicesInit => NetworkInv
  <2>1. ServicesInit => ModeInv
    BY DEF ServicesInit, NetInit, ModeInv
  <2> QED
    BY <2>1, DriverStarts, ConfigStarts DEF NetworkInv
<1>2. NetworkInv /\ [ServicesNext]_servicesVars => NetworkInv'
  BY DriverStep, ConfigStep, ModeStep DEF NetworkInv, ConfigInv
<1> QED
  BY <1>1, <1>2, PTL DEF ServicesSpec

(* Between two starts there is the whole driver or nothing of it, whatever step *)
(* of a start was refused (w5500.rs:34-94, 101-269).                         *)
StartIsAllOrNothing ==
  step = 0 =>
    IF started THEN handlers /\ held = {Parts[i] : i \in 1 .. Len(Parts)} \cup {"start"}
    ELSE held = {} /\ netif = NoNetif /\ ~carrier /\ ~announce

THEOREM FailedStartsAreUndone == ServicesSpec => []StartIsAllOrNothing
<1>1. Made(11) = {Parts[i] : i \in 1 .. Len(Parts)} \cup {"start"}
  <2>1. Made(7) = {StartSteps[i] : i \in 1 .. 6}
    BY PartsOfStart DEF Made, Calls
  <2>2. Made(11) = Made(7) \cup {"start"}
    BY MadeNext, StepsOfStart DEF Calls
  <2> QED
    BY <2>1, <2>2, PartsOfStart, StepsOfStart
<1>2. NetworkInv => StartIsAllOrNothing
  BY <1>1, MadeOnce DEF NetworkInv, DriverInv, StartIsWhole, Told, StartIsAllOrNothing
<1> QED
  BY <1>2, NetworkInvariant, PTL

(* A start never finds a part that an earlier one left allocated, which the    *)
(* platform would refuse again and again (w5500.rs:63-94, 101-236).            *)
NothingLeftOver == step \in 1 .. Len(Parts) => Parts[step] \notin held

THEOREM StartsFindNothing == ServicesSpec => []NothingLeftOver
<1>1. NetworkInv => NothingLeftOver
  BY PartsOfStart, StepsOfStart, MadeOnce DEF NetworkInv, DriverInv, StartIsWhole, NothingLeftOver
<1> QED
  BY <1>1, NetworkInvariant, PTL

(* A static address is one a client chose: no lease, however late its event is *)
(* handled, is written over it (w5500.rs:647-658).                           *)
THEOREM StaticAddressesStay == ServicesSpec => []StaticIsAClients
<1>1. NetworkInv => StaticIsAClients
  BY DEF NetworkInv, ConfigInv
<1> QED
  BY <1>1, NetworkInvariant, PTL

(* When no request is open, the configuration tried last is not older than     *)
(* the last request (w5500.rs:568-573, 724-775).                              *)
THEOREM NoRequestIsLost == ServicesSpec => []RequestsAreApplied
<1>1. NetworkInv => RequestsAreApplied
  BY DEF NetworkInv, ConfigInv
<1> QED
  BY <1>1, NetworkInvariant, PTL

(* The lease of the interface is in the configuration or on its way to it,     *)
(* though the slot keeps only the latest event (event_bus.rs:41-73,           *)
(* w5500.rs:491-533, 647-658).                                              *)
THEOREM NoLeaseIsLost == ServicesSpec => []LeaseIsShown
<1>1. NetworkInv => LeaseIsShown
  BY DEF NetworkInv, ConfigInv
<1> QED
  BY <1>1, NetworkInvariant, PTL

(* The degraded mode is the one of the heartbeats that failed in a row         *)
(* (w5500.rs:692-722, recovery.rs:182-229).                                  *)
THEOREM ModeIsOfFailures == ServicesSpec => []ModeInv
<1>1. NetworkInv => ModeInv
  BY DEF NetworkInv
<1> QED
  BY <1>1, NetworkInvariant, PTL

(* Wherever the services come to rest, with the driver started, the link up,   *)
(* an answered heartbeat and nothing open or in the slot, the network is as    *)
(* ServicesSettle asks: what it promises can only fail by never resting.       *)
THEOREM RestIsSettled == ServicesSpec => []QuietIsSettled
<1>1. ASSUME NetworkInv PROVE QuietIsSettled
  <2>1. SUFFICES ASSUME Quiet PROVE NetworkIsSettled
    BY DEF QuietIsSettled
  <2>2. started /\ stamp = "none" /\ linkUp
    BY <1>1, <2>1 DEF Quiet, NetworkInv, DriverInv, Told
  <2>3. applied \in since /\ (~cfg.dhcp => cfg = chosen)
    BY <1>1, <2>1 DEF Quiet, NetworkInv, ConfigInv, RequestsAreApplied, StaticIsAClients
  <2>4. Leasing /\ cfg.dhcp /\ ~over => cfg.ip = Lease
    BY <1>1, <2>1, Events DEF Quiet, NetworkInv, ConfigInv, LeaseIsShown, Underway
  <2>5. mode = "Normal"
    <3>1. beats = 0 /\ 0 < Thresholds[1]
      BY <2>1, Limits DEF Quiet
    <3> QED
      BY <1>1, <3>1 DEF NetworkInv, ModeInv, ModeOf, NotYet
  <2> QED
    BY <2>2, <2>3, <2>4, <2>5 DEF NetworkIsSettled, Leasing
<1> QED
  BY <1>1, NetworkInvariant, PTL

=============================================================================
