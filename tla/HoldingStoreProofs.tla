------------------------- MODULE HoldingStoreProofs -------------------------
(***************************************************************************)
(* The two flash slots of the holding registers are one durable cell, for   *)
(* any savers, any number of changes, failures and power cuts, and any      *)
(* generation modulus above 2.                                             *)
(***************************************************************************)
EXTENDS HoldingStore, TLAPS

-----------------------------------------------------------------------------
(* The inductive invariant                                                 *)

(* The published slot is whole and has the published generation.             *)
ActiveIsGood ==
  active # NoSlot =>
    slots[active].whole /\ slots[active].generation = generation

(* A complete image that was not published: one generation ahead, and at     *)
(* least as new as the published one.                                       *)
Pending ==
  /\ slots[Target].generation = NextGen(generation)
  /\ Saved <= slots[Target].version /\ slots[Target].version <= cache

(* What the other slot may hold besides nothing.                             *)
TargetIsKnown ==
  slots[Target].whole =>
    \/ Pending
    \/ active # NoSlot /\ generation = NextGen(slots[Target].generation)

FirstIsFirst == active = NoSlot => ~ slots[1].whole

Late == {"erase", "write", "verify"}

FlagsAreReturned == holder = NoOne => taken = {}

(* What the task inside the save knows.                                     *)
HolderKnows ==
  \A t \in Savers :
    /\ pc[t] = "flags" => taken = {}
    /\ pc[t] = "write" => ~ slots[Target].whole
    /\ pc[t] = "verify" /\ slots[Target].whole => slots[Target] = Image
    /\ pc[t] \in Late =>
         /\ Saved <= copy /\ copy <= cache /\ owed[t] <= copy
         /\ acked > copy => flags # {}

Ordered ==
  /\ Saved <= cache /\ acked <= cache /\ cache <= latest
  /\ \A t \in Savers : owed[t] <= acked

IInv ==
  /\ TypeOK
  /\ ActiveIsGood
  /\ TargetIsKnown
  /\ FirstIsFirst
  /\ FlagsAreReturned
  /\ HolderKnows
  /\ Ordered
  /\ NothingForgotten
  /\ SuccessMeansSaved

-----------------------------------------------------------------------------
(* Generations                                                             *)

LEMMA NextGenType ==
  ASSUME NEW g \in Generations
  PROVE  NextGen(g) \in Generations
BY GenAssumption DEF NextGen, Generations

(* The next generation is newer, also where the numbers wrap.                *)
LEMMA NextIsNewer ==
  ASSUME NEW g \in Generations
  PROVE  IsNewer(NextGen(g), g)
<1>1. CASE g = GenMod - 1
  <2>1. NextGen(g) = 0 /\ Since(0, g) = 1
    BY <1>1, GenAssumption DEF NextGen, Since, Generations
  <2> QED  BY <1>1, <2>1, GenAssumption DEF IsNewer, Generations
<1>2. CASE g # GenMod - 1
  <2>1. NextGen(g) = g + 1 /\ Since(g + 1, g) = 1
    BY <1>2, GenAssumption DEF NextGen, Since, Generations
  <2> QED  BY <2>1, GenAssumption DEF IsNewer, Generations
<1> QED  BY <1>1, <1>2

LEMMA LastIsOlder ==
  ASSUME NEW g \in Generations
  PROVE  ~ IsNewer(g, NextGen(g))
<1>1. CASE g = GenMod - 1
  <2>1. NextGen(g) = 0 /\ Since(g, 0) = GenMod - 1
    BY <1>1, GenAssumption DEF NextGen, Since, Generations
  <2> QED  BY <2>1, GenAssumption DEF IsNewer, Generations
<1>2. CASE g # GenMod - 1
  <2>1. NextGen(g) = g + 1 /\ Since(g, g + 1) = GenMod - 1
    BY <1>2, GenAssumption DEF NextGen, Since, Generations
  <2> QED  BY <2>1, GenAssumption DEF IsNewer, Generations
<1> QED  BY <1>1, <1>2

-----------------------------------------------------------------------------
(* Types                                                                   *)

LEMMA InitIInv == Init => IInv
<1> SUFFICES ASSUME Init PROVE IInv
  OBVIOUS
<1>1. TypeOK
  BY GenAssumption, SaversAssumption
  DEF Init, TypeOK, Slot, Broken, Generations, Steps, Inside, Kinds, NoSlot
<1>2. ~ slots[0].whole /\ ~ slots[1].whole
  BY DEF Init, Broken
<1>3. Saved = 0
  BY DEF Init, Saved, VersionIn
<1> QED
  BY <1>1, <1>2, <1>3
  DEF Init, IInv, ActiveIsGood, TargetIsKnown, FirstIsFirst, FlagsAreReturned,
      HolderKnows, Ordered, NothingForgotten, SuccessMeansSaved, Target, Other, NoSlot, Late

LEMMA TargetType == TypeOK => Target \in 0 .. 1 /\ Target # active
BY DEF TypeOK, Target, Other, NoSlot

LEMMA ImageType == TypeOK => Image \in Slot
BY NextGenType DEF TypeOK, Image, Whole, Slot

LEMMA BrokenType == Broken \in Slot
BY GenAssumption DEF Broken, Slot, Generations

LEMMA TypeStep == TypeOK /\ [Next]_vars => TypeOK'
<1> SUFFICES ASSUME TypeOK, [Next]_vars PROVE TypeOK'
  OBVIOUS
<1> USE DEF TypeOK
<1>1. CASE \E k \in Kinds : Change(k)
  BY <1>1 DEF Change, known, work, count
<1>2. CASE Mark
  BY <1>2 DEF Mark, known, work, count
<1>3. ASSUME NEW t \in Savers, SaveStep(t) PROVE TypeOK'
  <2> USE DEF Goto, Steps, Inside
  <2>1. CASE Call(t)
    BY <2>1 DEF Call, ram, known, work, count
  <2>2. CASE Lock(t)
    BY <2>2, SaversAssumption DEF Lock, ram, known, work, count
  <2>3. CASE FindClean(t)
    BY <2>3, SaversAssumption DEF FindClean, ram, known, work, count
  <2>4. CASE TakeFlags(t)
    BY <2>4 DEF TakeFlags, ram, known, work, count
  <2>5. CASE Encode(t)
    BY <2>5 DEF Encode, ram, known, work, count
  <2>6. CASE Erase(t)
    BY <2>6, BrokenType, TargetType DEF Erase, ram, known, work, count
  <2>7. CASE Write(t)
    BY <2>7, ImageType, TargetType DEF Write, ram, known, work, count
  <2>8. CASE WriteBadly(t)
    BY <2>8 DEF WriteBadly, MayFail, ram, known, work, count
  <2>9. CASE Publish(t)
    BY <2>9, SaversAssumption, NextGenType, TargetType
    DEF Publish, ram, known, work, count
  <2>10. CASE Fail(t)
    <3>1. slots' \in [0 .. 1 -> Slot]
      BY <2>10, ImageType, BrokenType, TargetType DEF Fail, Abandon
    <3>2. pc' = [pc EXCEPT ![t] = "failed"] /\ holder = t /\ holder' = NoOne
      BY <2>10 DEF Fail, Abandon
    <3>3. failures' \in Nat
      BY <2>10 DEF Fail, Abandon, MayFail
    <3>4. flags' \subseteq Kinds /\ taken' \subseteq Kinds /\ copy' \in Nat
      BY <2>10 DEF Fail, Kinds
    <3> QED
      BY <2>10, <3>1, <3>2, <3>3, <3>4, SaversAssumption
      DEF Fail, ram, known
  <2>11. CASE Return(t)
    BY <2>11 DEF Return, ram, known, work, count
  <2> QED
    BY <1>3, <2>1, <2>2, <2>3, <2>4, <2>5, <2>6, <2>7, <2>8, <2>9, <2>10, <2>11
    DEF SaveStep
<1>4. CASE PowerCut
  <2>1. slots' \in [0 .. 1 -> Slot]
    BY <1>4, BrokenType, TargetType DEF PowerCut, AfterCut
  <2>2. Best(slots') \in {0, 1, NoSlot}
    BY DEF Best
  <2>3. VersionIn(slots', Best(slots')) \in Nat
    BY <2>1, <2>2 DEF VersionIn, Slot, NoSlot
  <2>4. GenerationIn(slots', Best(slots')) \in Generations
    BY <2>1, <2>2, GenAssumption DEF GenerationIn, Slot, NoSlot, Generations
  <2> QED
    BY <1>4, <2>1, <2>2, <2>3, <2>4, SaversAssumption
    DEF PowerCut, Forget, Steps, Inside
<1>5. CASE UNCHANGED vars
  BY <1>5 DEF vars, ram, known, work, count
<1> QED  BY <1>1, <1>2, <1>3, <1>4, <1>5 DEF Next

-----------------------------------------------------------------------------
(* The inductive step                                                      *)

LEMMA ChangeStep == IInv /\ TypeOK' /\ (\E k \in Kinds : Change(k)) => IInv'
<1> SUFFICES ASSUME IInv, TypeOK', NEW k \in Kinds, Change(k) PROVE IInv'
  OBVIOUS
<1>1. /\ UNCHANGED <<slots, acked, flags, active, generation, pc, taken, copy, owed>>
      /\ cache' = latest + 1 /\ latest' = latest + 1 /\ cache' >= cache
  BY DEF Change, known, work, count, IInv, Ordered, TypeOK
<1>2. Saved' = Saved /\ Target' = Target /\ Image' = Image
  BY <1>1 DEF Saved, VersionIn, Target, Image
<1>3. ActiveIsGood' /\ FirstIsFirst' /\ NothingForgotten' /\ SuccessMeansSaved'
  BY <1>1, <1>2
  DEF IInv, ActiveIsGood, FirstIsFirst, NothingForgotten, SuccessMeansSaved
<1>4. TargetIsKnown'
  <2>1. Pending => Pending'
    <3>1. slots[Target].version \in Nat
      BY TargetType DEF IInv, TypeOK, Slot
    <3> QED  BY <1>1, <1>2, <3>1 DEF Pending, IInv, TypeOK
  <2> QED  BY <1>1, <1>2, <2>1 DEF IInv, TargetIsKnown
<1>5. HolderKnows'
  BY <1>1, <1>2 DEF IInv, TypeOK, HolderKnows
<1>7. FlagsAreReturned'
  BY <1>1 DEF Change, IInv, FlagsAreReturned
<1>6. Ordered'
  <2>1. Saved \in Nat
    BY DEF Saved, VersionIn, IInv, TypeOK, Slot, NoSlot
  <2> QED  BY <1>1, <1>2, <2>1 DEF IInv, TypeOK, Ordered
<1> QED  BY <1>3, <1>4, <1>5, <1>6, <1>7 DEF IInv

LEMMA MarkStep == IInv /\ TypeOK' /\ Mark => IInv'
<1> SUFFICES ASSUME IInv, TypeOK', Mark PROVE IInv'
  OBVIOUS
<1>1. /\ UNCHANGED <<slots, cache, latest, active, generation, pc, taken, copy, owed>>
      /\ flags' # {} /\ acked' = cache /\ acked' >= acked
  BY DEF Mark, known, work, count, IInv, Ordered, TypeOK
<1>2. Saved' = Saved /\ Target' = Target /\ Image' = Image /\ Saved \in Nat
  BY <1>1 DEF Saved, VersionIn, Target, Image, IInv, TypeOK, Slot, NoSlot
<1>3. ActiveIsGood' /\ FirstIsFirst' /\ TargetIsKnown' /\ SuccessMeansSaved'
  BY <1>1, <1>2
  DEF IInv, ActiveIsGood, FirstIsFirst, TargetIsKnown, Pending, SuccessMeansSaved
<1>4. NothingForgotten' /\ HolderKnows'
  BY <1>1, <1>2 DEF IInv, NothingForgotten, HolderKnows
<1>5. Ordered' /\ FlagsAreReturned'
  BY <1>1, <1>2 DEF IInv, TypeOK, Ordered, FlagsAreReturned, Mark
<1> QED  BY <1>3, <1>4, <1>5 DEF IInv

(* Steps of a save that leave the flash and the published slot alone.        *)
LEMMA QuietStep ==
  ASSUME IInv, UNCHANGED <<slots, cache, latest, active, generation, acked>>
  PROVE  /\ Saved' = Saved /\ Target' = Target /\ Saved \in Nat
         /\ ActiveIsGood' /\ FirstIsFirst' /\ TargetIsKnown'
<1>1. Saved' = Saved /\ Target' = Target /\ Saved \in Nat
  BY DEF Saved, VersionIn, Target, IInv, TypeOK, Slot, NoSlot
<1> QED
  BY <1>1 DEF IInv, ActiveIsGood, FirstIsFirst, TargetIsKnown, Pending

LEMMA SaveQuietly ==
  ASSUME IInv, TypeOK', NEW t \in Savers,
         \/ Call(t) \/ Lock(t) \/ FindClean(t) \/ TakeFlags(t) \/ Encode(t)
         \/ WriteBadly(t) \/ Return(t)
  PROVE  IInv'
<1> USE DEF Goto, Steps, Inside, Late
<1>1. UNCHANGED <<slots, cache, latest, active, generation, acked>>
  BY DEF Call, Lock, FindClean, TakeFlags, Encode, WriteBadly, Return,
         ram, known, work, count
<1>2. /\ Saved' = Saved /\ Target' = Target /\ Saved \in Nat
      /\ ActiveIsGood' /\ FirstIsFirst' /\ TargetIsKnown'
  BY <1>1, QuietStep
<1>3. copy' = copy => Image' = Image
  BY <1>1 DEF Image
<1>4. CASE Call(t)
  <2>1. FlagsAreReturned' /\ HolderKnows'
    BY <1>1, <1>2, <1>3, <1>4
    DEF IInv, TypeOK, FlagsAreReturned, HolderKnows, Call, ram, known, work, count
  <2>2. Ordered' /\ NothingForgotten' /\ SuccessMeansSaved'
    BY <1>1, <1>2, <1>4
    DEF IInv, TypeOK, Ordered, NothingForgotten, SuccessMeansSaved, Call, ram, work
  <2> QED  BY <1>2, <2>1, <2>2 DEF IInv
<1>5. CASE Lock(t)
  <2>3. FlagsAreReturned' /\ HolderKnows' /\ Ordered' /\ NothingForgotten' /\ SuccessMeansSaved'
    BY <1>1, <1>2, <1>3, <1>5
    DEF IInv, TypeOK, FlagsAreReturned, HolderKnows, Ordered, NothingForgotten,
        SuccessMeansSaved, Lock, ram, known, work, count
  <2> QED  BY <1>2, <2>3 DEF IInv
<1>6. CASE FindClean(t)
  <2>3. FlagsAreReturned' /\ HolderKnows' /\ Ordered' /\ NothingForgotten' /\ SuccessMeansSaved'
    BY <1>1, <1>2, <1>3, <1>6
    DEF IInv, TypeOK, FlagsAreReturned, HolderKnows, Ordered, NothingForgotten,
        SuccessMeansSaved, FindClean, ram, known, work, count
  <2> QED  BY <1>2, <2>3 DEF IInv
<1>7. CASE TakeFlags(t)
  <2>3. FlagsAreReturned' /\ HolderKnows' /\ Ordered' /\ NothingForgotten' /\ SuccessMeansSaved'
    BY <1>1, <1>2, <1>3, <1>7, SaversAssumption
    DEF IInv, TypeOK, FlagsAreReturned, HolderKnows, Ordered, NothingForgotten,
        SuccessMeansSaved, TakeFlags, ram, known, work, count
  <2> QED  BY <1>2, <2>3 DEF IInv
<1>8. CASE Encode(t)
  <2>3. FlagsAreReturned' /\ HolderKnows' /\ Ordered' /\ NothingForgotten' /\ SuccessMeansSaved'
    BY <1>1, <1>2, <1>3, <1>8
    DEF IInv, TypeOK, FlagsAreReturned, HolderKnows, Ordered, NothingForgotten,
        SuccessMeansSaved, Encode, ram, known, work, count
  <2> QED  BY <1>2, <2>3 DEF IInv
<1>9. CASE WriteBadly(t)
  <2>3. FlagsAreReturned' /\ HolderKnows' /\ Ordered' /\ NothingForgotten' /\ SuccessMeansSaved'
    BY <1>1, <1>2, <1>3, <1>9
    DEF IInv, TypeOK, FlagsAreReturned, HolderKnows, Ordered, NothingForgotten,
        SuccessMeansSaved, WriteBadly, ram, known, work, count
  <2> QED  BY <1>2, <2>3 DEF IInv
<1>10. CASE Return(t)
  <2>3. FlagsAreReturned' /\ HolderKnows' /\ Ordered' /\ NothingForgotten' /\ SuccessMeansSaved'
    BY <1>1, <1>2, <1>3, <1>10
    DEF IInv, TypeOK, FlagsAreReturned, HolderKnows, Ordered, NothingForgotten,
        SuccessMeansSaved, Return, ram, known, work, count
  <2> QED  BY <1>2, <2>3 DEF IInv
<1> QED  BY <1>4, <1>5, <1>6, <1>7, <1>8, <1>9, <1>10

(* The slot that is written is not the published one.                        *)
LEMMA TargetOnly ==
  ASSUME IInv, NEW x \in Slot, slots' = [slots EXCEPT ![Target] = x],
         UNCHANGED <<active, generation>>
  PROVE  /\ Saved' = Saved /\ Target' = Target /\ Saved \in Nat
         /\ slots'[Target] = x
         /\ ActiveIsGood'
         /\ (x.whole => Target = 0 \/ active # NoSlot) => FirstIsFirst'
<1>1. Target \in 0 .. 1 /\ Target # active /\ (active = NoSlot => Target = 0)
  BY DEF IInv, TypeOK, Target, Other, NoSlot
<1>2. slots \in [0 .. 1 -> Slot] /\ active \in {0, 1, NoSlot}
  BY DEF IInv, TypeOK
<1>3. Target' = Target
  BY DEF Target
<1>4. active # NoSlot => slots'[active] = slots[active]
  BY <1>1, <1>2 DEF NoSlot
<1>5. Saved' = Saved /\ Saved \in Nat
  BY <1>2, <1>4 DEF Saved, VersionIn, Slot, NoSlot
<1>6. slots'[Target] = x /\ (Target = 0 => slots'[1] = slots[1])
  BY <1>1, <1>2
<1> QED
  BY <1>1, <1>3, <1>4, <1>5, <1>6 DEF IInv, ActiveIsGood, FirstIsFirst

LEMMA EraseStep ==
  ASSUME IInv, TypeOK', NEW t \in Savers, Erase(t) PROVE IInv'
<1> USE DEF Goto, Steps, Inside, Late
<1>1. /\ UNCHANGED <<cache, latest, active, generation, acked, copy, taken, flags, owed>>
      /\ slots' = [slots EXCEPT ![Target] = Broken]
  BY DEF Erase, ram, known, work
<1>2. /\ Saved' = Saved /\ Target' = Target /\ Saved \in Nat
      /\ slots'[Target] = Broken
      /\ ActiveIsGood' /\ FirstIsFirst'
  BY <1>1, TargetOnly, BrokenType DEF Broken
<1>3. TargetIsKnown'
  BY <1>2 DEF TargetIsKnown, Broken
<1>4. HolderKnows'
  BY <1>1, <1>2 DEF IInv, TypeOK, HolderKnows, Erase, Broken
<1> QED
  BY <1>1, <1>2, <1>3, <1>4
  DEF IInv, TypeOK, FlagsAreReturned, Ordered, NothingForgotten,
      SuccessMeansSaved, Erase

LEMMA WriteStep ==
  ASSUME IInv, TypeOK', NEW t \in Savers, Write(t) PROVE IInv'
<1> USE DEF Goto, Steps, Inside, Late
<1>1. /\ UNCHANGED <<cache, latest, active, generation, acked, copy, taken, flags, owed>>
      /\ slots' = [slots EXCEPT ![Target] = Image]
  BY DEF Write, ram, known, work
<1>2. /\ Saved' = Saved /\ Target' = Target /\ Saved \in Nat
      /\ slots'[Target] = Image
      /\ ActiveIsGood'
      /\ FirstIsFirst'
  <2>1. Target = 0 \/ active # NoSlot
    BY DEF IInv, TypeOK, Target, Other, NoSlot
  <2>2. Image \in Slot
    BY ImageType DEF IInv
  <2> QED  BY <1>1, <2>1, <2>2, TargetOnly
<1>3. Image' = Image
  BY <1>1 DEF Image
<1>4. TargetIsKnown'
  <2>1. Pending'
    BY <1>1, <1>2 DEF Pending, Image, Whole, IInv, TypeOK, HolderKnows, Write
  <2> QED  BY <2>1 DEF TargetIsKnown
<1>5. HolderKnows'
  BY <1>1, <1>2, <1>3 DEF IInv, TypeOK, HolderKnows, Write
<1> QED
  BY <1>1, <1>2, <1>4, <1>5
  DEF IInv, TypeOK, FlagsAreReturned, Ordered, NothingForgotten,
      SuccessMeansSaved, Write

LEMMA PublishStep ==
  ASSUME IInv, TypeOK', NEW t \in Savers, Publish(t) PROVE IInv'
<1> USE DEF Goto, Steps, Inside, Late
<1>1. /\ UNCHANGED <<slots, cache, latest, acked, flags, owed>>
      /\ active' = Target /\ generation' = NextGen(generation)
      /\ taken' = {} /\ holder' = NoOne /\ holder = t
      /\ pc' = [pc EXCEPT ![t] = "ok"] /\ pc[t] = "verify"
  BY DEF Publish, ram, IInv, TypeOK
<1>2. Target \in 0 .. 1 /\ slots[Target] = Image /\ slots[Target].whole
  BY TargetType DEF IInv, HolderKnows, Publish
<1>3. Saved' = copy /\ Saved <= copy /\ copy <= cache /\ owed[t] <= copy
      /\ (acked > copy => flags # {})
  BY <1>1, <1>2 DEF Saved, VersionIn, Image, Whole, NoSlot, IInv, HolderKnows
<1>4. ActiveIsGood' /\ FirstIsFirst'
  BY <1>1, <1>2 DEF ActiveIsGood, FirstIsFirst, Image, Whole, NoSlot
<1>5. TargetIsKnown'
  <2>1. active = NoSlot => ~ slots'[Target'].whole
    BY <1>1 DEF Target, Other, NoSlot, IInv, FirstIsFirst
  <2>2. active # NoSlot => Target' = active /\ slots[active].generation = generation
    BY <1>1 DEF Target, Other, NoSlot, IInv, ActiveIsGood, TypeOK
  <2> QED  BY <1>1, <1>2, <2>1, <2>2 DEF TargetIsKnown, NoSlot
<1>6. HolderKnows' /\ FlagsAreReturned'
  BY <1>1, SaversAssumption DEF IInv, TypeOK, HolderKnows, FlagsAreReturned
<1>7. Ordered' /\ NothingForgotten' /\ SuccessMeansSaved'
  <2>1. Saved \in Nat
    BY DEF Saved, VersionIn, IInv, TypeOK, Slot, NoSlot
  <2> QED
    BY <1>1, <1>3, <2>1
    DEF IInv, TypeOK, Ordered, NothingForgotten, SuccessMeansSaved
<1> QED  BY <1>4, <1>5, <1>6, <1>7 DEF IInv

LEMMA FailStep ==
  ASSUME IInv, TypeOK', NEW t \in Savers, Fail(t) PROVE IInv'
<1> USE DEF Goto, Steps, Inside, Late
<1>1. /\ UNCHANGED <<cache, latest, active, generation, acked, owed>>
      /\ flags' # {} /\ taken' = {} /\ holder' = NoOne /\ holder = t
      /\ pc' = [pc EXCEPT ![t] = "failed"]
  BY DEF Fail, Abandon, ram, known, IInv, TypeOK
<1>2. Saved' = Saved /\ ActiveIsGood' /\ FirstIsFirst' /\ TargetIsKnown'
  <2>1. CASE slots' = slots
    BY <1>1, <2>1, QuietStep
  <2>2. CASE slots' = [slots EXCEPT ![Target] = Broken]
    <3>1. /\ Saved' = Saved /\ Target' = Target /\ slots'[Target] = Broken
          /\ ActiveIsGood' /\ FirstIsFirst'
      BY <1>1, <2>2, TargetOnly, BrokenType DEF Broken
    <3> QED  BY <3>1 DEF TargetIsKnown, Broken
  <2>3. CASE slots' = [slots EXCEPT ![Target] = Image] /\ pc[t] = "write"
    <3>1. Target = 0 \/ active # NoSlot
      BY DEF IInv, TypeOK, Target, Other, NoSlot
    <3>2. Image \in Slot
      BY ImageType DEF IInv
    <3>3. /\ Saved' = Saved /\ Target' = Target /\ slots'[Target] = Image
          /\ ActiveIsGood' /\ FirstIsFirst'
      BY <1>1, <2>3, <3>1, <3>2, TargetOnly
    <3>4. Pending'
      BY <1>1, <2>3, <3>3 DEF Pending, Image, Whole, IInv, HolderKnows
    <3> QED  BY <3>3, <3>4 DEF TargetIsKnown
  <2> QED  BY <2>1, <2>2, <2>3 DEF Fail, Abandon
<1>3. HolderKnows' /\ FlagsAreReturned'
  BY <1>1, SaversAssumption DEF IInv, TypeOK, HolderKnows, FlagsAreReturned
<1>4. Ordered' /\ NothingForgotten' /\ SuccessMeansSaved'
  BY <1>1, <1>2
  DEF IInv, TypeOK, Ordered, NothingForgotten, SuccessMeansSaved
<1> QED  BY <1>2, <1>3, <1>4 DEF IInv

(* A restart finds the published slot, or the complete one that was not yet  *)
(* published.                                                              *)
LEMMA BestSlot ==
  ASSUME IInv, TypeOK', slots' \in AfterCut, active' = Best(slots'),
         generation' = GenerationIn(slots', Best(slots'))
  PROVE  /\ Saved <= Saved' /\ Saved' <= cache
         /\ ActiveIsGood' /\ TargetIsKnown' /\ FirstIsFirst'
<1> USE DEF NoSlot
<1>1. /\ Target \in 0 .. 1 /\ Target # active /\ active \in {0, 1, 2}
      /\ (active = 2 => Target = 0)
  BY DEF IInv, TypeOK, Target, Other
<1>2. slots' \in [0 .. 1 -> Slot] /\ slots \in [0 .. 1 -> Slot]
  BY DEF IInv, TypeOK
<1>3. slots'[Target] = slots[Target] \/ ~ slots'[Target].whole
  BY <1>1, <1>2 DEF AfterCut, Broken
<1>4. \A k \in 0 .. 1 : k # Target => slots'[k] = slots[k]
  BY <1>1, <1>2 DEF AfterCut
<1>5. active # 2 =>
         slots'[active].whole /\ slots'[active].generation = generation
  BY <1>1, <1>4 DEF IInv, ActiveIsGood
<1>6. Saved \in Nat /\ cache \in Nat /\ Saved <= cache /\ generation \in Generations
  BY <1>1, <1>2 DEF Saved, VersionIn, IInv, TypeOK, Slot, Ordered
<1>7. CASE active = 2
  <2>1. ~ slots'[1].whole
    BY <1>1, <1>4, <1>7 DEF IInv, FirstIsFirst
  <2>2. CASE slots'[0].whole
    <3>1. Pending /\ slots'[0] = slots[0]
      BY <1>1, <1>3, <1>7, <2>2 DEF IInv, TargetIsKnown
    <3>2. active' = 0
      BY <2>1, <2>2 DEF Best
    <3>3. Saved' = slots[0].version /\ Target' = 1
      BY <3>1, <3>2 DEF Saved, VersionIn, Target, Other
    <3> QED
      BY <1>1, <1>7, <2>1, <2>2, <3>1, <3>2, <3>3
      DEF Pending, ActiveIsGood, TargetIsKnown, FirstIsFirst, GenerationIn
  <2>3. CASE ~ slots'[0].whole
    <3>1. active' = 2 /\ Saved' = 0 /\ Saved = 0 /\ Target' = 0
      BY <1>7, <2>1, <2>3 DEF Best, Saved, VersionIn, Target, Other
    <3> QED
      BY <1>6, <2>1, <2>3, <3>1 DEF ActiveIsGood, TargetIsKnown, FirstIsFirst
  <2> QED  BY <2>2, <2>3
<1>8. CASE active # 2 /\ (slots'[Target].whole => ~ Pending)
  <2>1. slots'[Target].whole => generation = NextGen(slots'[Target].generation)
    BY <1>3, <1>8 DEF IInv, TargetIsKnown
  <2>2. slots'[Target].whole =>
          /\ IsNewer(generation, slots'[Target].generation)
          /\ ~ IsNewer(slots'[Target].generation, generation)
    BY <1>1, <1>2, <2>1, NextIsNewer, LastIsOlder DEF Slot
  <2>3. active' = active
    BY <1>1, <1>5, <1>8, <2>2 DEF Best
  <2>4. generation' = generation /\ Target' = Target /\ Saved' = Saved
    BY <1>1, <1>4, <1>5, <1>8, <2>3
    DEF GenerationIn, Target, Saved, VersionIn
  <2> QED
    BY <1>5, <1>6, <1>8, <2>1, <2>3, <2>4
    DEF ActiveIsGood, TargetIsKnown, FirstIsFirst
<1>9. CASE active # 2 /\ slots'[Target].whole /\ Pending
  <2>1. slots'[Target] = slots[Target]
    BY <1>3, <1>9
  <2>2. /\ IsNewer(slots'[Target].generation, generation)
        /\ ~ IsNewer(generation, slots'[Target].generation)
    BY <1>6, <1>9, <2>1, NextIsNewer, LastIsOlder DEF Pending
  <2>3. active' = Target
    BY <1>1, <1>5, <1>9, <2>2 DEF Best
  <2>4. /\ generation' = NextGen(generation) /\ Target' = active
        /\ Saved' = slots[Target].version
    BY <1>1, <1>9, <2>1, <2>3
    DEF GenerationIn, Target, Other, Saved, VersionIn, Pending
  <2> QED
    BY <1>1, <1>5, <1>6, <1>9, <2>1, <2>3, <2>4
    DEF Pending, ActiveIsGood, TargetIsKnown, FirstIsFirst
<1> QED  BY <1>7, <1>8, <1>9

LEMMA PowerCutStep == IInv /\ TypeOK' /\ PowerCut => IInv'
<1> SUFFICES ASSUME IInv, TypeOK', PowerCut PROVE IInv'
  OBVIOUS
<1>1. /\ Saved <= Saved' /\ Saved' <= cache
      /\ ActiveIsGood' /\ TargetIsKnown' /\ FirstIsFirst'
  BY BestSlot DEF PowerCut
<1>2. /\ flags' = {} /\ taken' = {} /\ holder' = NoOne
      /\ pc' = [t \in Savers |-> "idle"] /\ owed' = [t \in Savers |-> 0]
      /\ latest' = latest
  BY DEF PowerCut, Forget
<1>3. cache' = Saved' /\ acked' = Saved'
  BY DEF PowerCut, Saved
<1>4. HolderKnows' /\ FlagsAreReturned' /\ SuccessMeansSaved'
  BY <1>2 DEF HolderKnows, FlagsAreReturned, SuccessMeansSaved, Late
<1>5. Ordered' /\ NothingForgotten'
  BY <1>1, <1>2, <1>3 DEF IInv, TypeOK, Ordered, NothingForgotten
<1> QED  BY <1>1, <1>4, <1>5 DEF IInv

LEMMA NextIInv == IInv /\ [Next]_vars => IInv'
<1> SUFFICES ASSUME IInv, [Next]_vars PROVE IInv'
  OBVIOUS
<1>1. TypeOK'
  BY TypeStep DEF IInv
<1>2. CASE \E k \in Kinds : Change(k)
  BY <1>1, <1>2, ChangeStep
<1>3. CASE Mark
  BY <1>1, <1>3, MarkStep
<1>4. CASE \E t \in Savers : SaveStep(t)
  BY <1>1, <1>4, SaveQuietly, EraseStep, WriteStep, PublishStep, FailStep
  DEF SaveStep
<1>5. CASE PowerCut
  BY <1>1, <1>5, PowerCutStep
<1>6. CASE UNCHANGED vars
  <2>1. UNCHANGED <<slots, cache, latest, active, generation, acked, flags,
                    holder, pc, taken, copy, owed>>
    BY <1>6 DEF vars, ram, known, work
  <2>2. Saved' = Saved /\ Target' = Target /\ Image' = Image
    BY <2>1 DEF Saved, VersionIn, Target, Image
  <2>3. ActiveIsGood' /\ FirstIsFirst' /\ TargetIsKnown'
    BY <2>1, QuietStep
  <2> QED
    BY <1>1, <2>1, <2>2, <2>3
    DEF IInv, HolderKnows, FlagsAreReturned, Ordered, NothingForgotten,
        SuccessMeansSaved
<1> QED  BY <1>2, <1>3, <1>4, <1>5, <1>6 DEF Next

-----------------------------------------------------------------------------
(* Theorems                                                                *)

LEMMA Inductive == Spec => []IInv
BY InitIInv, NextIInv, PTL DEF Spec

(* Types, and the lock: only its holder is between taking the flags and the   *)
(* answer of save_to_nvs.                                                   *)
THEOREM TypeCorrect == Spec => []TypeOK
<1>1. IInv => TypeOK
  BY DEF IInv
<1> QED  BY <1>1, Inductive, PTL

(* Once a save has been published, a complete slot is there at every moment. *)
THEOREM KeepsASlot == Spec => []OneCompleteSlot
<1>1. IInv => OneCompleteSlot
  BY DEF IInv, ActiveIsGood, OneCompleteSlot
<1> QED  BY <1>1, Inductive, PTL

(* An acknowledged change is in flash, has its flag up, or is in the hands of *)
(* a save that will publish it or raise the flag again.                      *)
THEOREM NeverForgotten == Spec => []NothingForgotten
<1>1. IInv => NothingForgotten
  BY DEF IInv
<1> QED  BY <1>1, Inductive, PTL

(* save_to_nvs that answers Ok has saved what was acknowledged before it was *)
(* called, whoever wrote it to flash.                                      *)
THEOREM Honest == Spec => []SuccessMeansSaved
<1>1. IInv => SuccessMeansSaved
  BY DEF IInv
<1> QED  BY <1>1, Inductive, PTL

LEMMA CellStep ==
  ASSUME IInv, IInv', [Next]_vars
  PROVE  [Cell!CellNext]_<<cache, Saved>>
<1> USE DEF Cell!CellNext, Cell!Change, Cell!Save, Cell!Restart
<1>1. Saved \in Nat /\ Saved' \in Nat /\ {cache, latest} \subseteq Nat
  BY DEF Saved, VersionIn, IInv, TypeOK, Slot, NoSlot
<1>2. CASE \E k \in Kinds : Change(k)
  <2>1. cache' = latest + 1 /\ Saved' = Saved /\ cache <= latest
    BY <1>2 DEF Change, Saved, VersionIn, known, IInv, Ordered
  <2> QED  BY <1>1, <2>1
<1>3. CASE Mark
  BY <1>3 DEF Mark, Saved, VersionIn, known
<1>4. ASSUME NEW t \in Savers, SaveStep(t)
      PROVE  [Cell!CellNext]_<<cache, Saved>>
  <2>1. cache' = cache
    BY <1>4 DEF SaveStep, Call, Lock, FindClean, TakeFlags, Encode, Erase, Write,
                WriteBadly, Publish, Fail, Return, ram
  <2>2. CASE UNCHANGED <<slots, active>>
    BY <2>1, <2>2 DEF Saved, VersionIn
  <2>3. CASE Publish(t)
    <3>1. Target \in 0 .. 1 /\ slots[Target] = Image
      BY <2>3, TargetType DEF IInv, HolderKnows, Publish, Goto
    <3>2. Saved' = copy /\ Saved <= copy /\ copy <= cache
      BY <2>3, <3>1
      DEF Publish, Goto, Saved, VersionIn, Image, Whole, NoSlot, IInv,
          HolderKnows, Late
    <3> QED  BY <1>1, <2>1, <3>2
  <2>4. CASE Erase(t) \/ Write(t) \/ Fail(t)
    <3>1. active' = active /\ slots' \in [0 .. 1 -> Slot]
      BY <2>4 DEF Erase, Write, Fail, known, IInv, TypeOK
    <3>2. active # NoSlot => slots'[active] = slots[active]
      BY <2>4, TargetType
      DEF Erase, Write, Fail, Abandon, IInv, TypeOK, NoSlot
    <3> QED  BY <2>1, <3>1, <3>2 DEF Saved, VersionIn
  <2> QED
    BY <1>4, <2>2, <2>3, <2>4
    DEF SaveStep, Call, Lock, FindClean, TakeFlags, Encode, WriteBadly, Return,
        known
<1>5. CASE PowerCut
  <2>1. Saved <= Saved' /\ Saved' <= cache
    BY <1>5, BestSlot DEF PowerCut, IInv
  <2>2. cache' = Saved'
    BY <1>5 DEF PowerCut, Saved
  <2> QED  BY <1>1, <2>1, <2>2
<1>6. CASE UNCHANGED vars
  BY <1>6 DEF vars, ram, known, Saved, VersionIn
<1> QED  BY <1>2, <1>3, <1>4, <1>5, <1>6 DEF Next

(* The two slots implement one durable cell: a published save is one step of *)
(* it, a restart finds the published version or a later one, and every other *)
(* step of a save leaves the cell as it is.                                 *)
THEOREM Refines == Spec => ImplementsCell
<1>1. Init => Cell!CellInit
  BY DEF Init, Cell!CellInit, Saved, VersionIn, NoSlot
<1>2. IInv /\ IInv' /\ [Next]_vars => [Cell!CellNext]_Cell!cell
  BY CellStep DEF Cell!cell
<1> QED  BY <1>1, <1>2, Inductive, PTL DEF Spec, ImplementsCell, Cell!CellSpec

=============================================================================
