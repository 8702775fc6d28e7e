---------------------------- MODULE BleLinkProofs ---------------------------
(***************************************************************************)
(* The slots, the frames and the answers of the binary channel, for any        *)
(* number of slots, places, frames and connections.  Between two locks of a     *)
(* slot the other task may clear it, so a request may be left in the queue for   *)
(* a slot that is used again by then; what saves the frame under way is that    *)
(* whoever took such a request has made room in the queue.                    *)
(*                                                                           *)
(* And the name on the air, which is about every order of completions, faults   *)
(* and renames in BleAdvertising.                                            *)
(***************************************************************************)
EXTENDS BleLink, WellFoundedInduction, TLAPS

Chunk == [epoch : Nat, number : Int, part : Int]
Slot ==
  [state : {"free", "assembling", "ready", "processing"}, known : BOOLEAN, epoch : Nat, bytes : Seq(Chunk)]

LinkTypes ==
  /\ epoch \in Nat /\ writes \in Nat
  /\ slots \in [Slots -> Slot]
  /\ active \in Slots \union {NoSlot} /\ requests \in Seq(Slots) /\ Len(requests) <= QueueSize
  /\ tx \in Seq([epoch : Nat, sent : {0, 1}])
  /\ feeding \in [at : {"idle", "claimed", "append", "enqueue"}, slot : Slots \union {NoSlot}]
  /\ job \in [slot : Slots \union {NoSlot}, epoch : Nat]

(* The stack's task fills a slot that is not being handled, or one whose request   *)
(* was already in the queue: then there is room.                               *)
Filling ==
  /\ active # NoSlot => slots[active].state \in {"assembling", "free"}
  /\ feeding.at = "idle" => feeding = NoFeeding
  /\ feeding.at # "idle" => feeding.slot \in Slots /\ active \in {NoSlot, feeding.slot}
  /\ feeding.at \in {"claimed", "append"} => slots[feeding.slot].state \in {"assembling", "free"}
  /\ feeding.at = "enqueue" =>
       /\ active = NoSlot /\ slots[feeding.slot].state # "assembling"
       /\ slots[feeding.slot].state = "processing" => Len(requests) < QueueSize

Clearing == dirty \/ tick = "clear" \/ Releasing

Owned ==
  \A i \in Slots :
    /\ slots[i].state = "assembling" =>
         i = active \/ (feeding.at = "claimed" /\ i = feeding.slot) \/ Clearing
    /\ slots[i].state = "ready" =>
         i \in ToSet(requests) \/ (feeding.at = "enqueue" /\ i = feeding.slot) \/ Clearing
    /\ slots[i].state = "processing" => tick = "handle" /\ i = job.slot

(* What is in a slot of this connection was written during this connection.       *)
Own ==
  /\ \A i \in Slots :
       /\ slots[i].epoch <= epoch
       /\ slots[i].known /\ slots[i].epoch = epoch =>
            \A k \in DOMAIN slots[i].bytes : slots[i].bytes[k].epoch = epoch
       /\ slots[i].state = "ready" => slots[i].bytes # <<>>
  /\ tick = "handle" =>
       /\ job.slot \in Slots
       /\ slots[job.slot].state = "processing" /\ slots[job.slot].bytes # <<>>
       /\ \A k \in DOMAIN slots[job.slot].bytes : slots[job.slot].bytes[k].epoch = job.epoch

Answers ==
  /\ dirty \/ tick \in {"clear", "left"} \/ tx = <<>> \/ (Connected /\ \A k \in DOMAIN tx : tx[k].epoch = epoch)
  /\ tick = "handle" => dirty \/ (Connected /\ job.epoch = epoch)
  /\ notify => Connected

IInv == LinkTypes /\ Filling /\ Owned /\ Own /\ Answers

LEMMA SlotFacts ==
  ASSUME LinkTypes, NEW i \in Slots
  PROVE  /\ slots[i] \in Slot /\ slots[i].epoch \in Nat /\ slots[i].bytes \in Seq(Chunk)
         /\ i # NoSlot /\ Free \in Slot
<1>1. slots[i] \in Slot
  BY DEF LinkTypes
<1>2. i # NoSlot
  BY DEF Slots, NoSlot
<1> QED
  BY <1>1, <1>2 DEF Slot, Free

LEMMA InitOk == Init => IInv
<1> SUFFICES ASSUME Init PROVE IInv
  OBVIOUS
<1>0. MaxWrites \in Nat /\ writes \in {0, MaxWrites}
  BY LinkAssumption DEF Init
<1>1. /\ epoch = 0 /\ writes \in Nat /\ slots = [i \in Slots |-> Free] /\ active = NoSlot
      /\ requests = <<>> /\ tx = <<>> /\ notify = FALSE /\ dirty = FALSE /\ feeding = NoFeeding
      /\ tick = "maintain" /\ job = NoJob
  BY <1>0 DEF Init, GapInit
<1>2. /\ Free \in Slot /\ QueueSize \in Nat /\ <<>> \in Seq(Slots) /\ Len(<<>>) = 0
      /\ <<>> \in Seq([epoch : Nat, sent : {0, 1}])
  BY LinkAssumption DEF Free, Slot
<1>3. /\ NoFeeding \in [at : {"idle", "claimed", "append", "enqueue"}, slot : Slots \union {NoSlot}]
      /\ NoJob \in [slot : Slots \union {NoSlot}, epoch : Nat]
  BY DEF NoFeeding, NoJob
<1>4. LinkTypes
  BY <1>1, <1>2, <1>3 DEF LinkTypes
<1>5. \A i \in Slots : slots[i].state = "free" /\ ~slots[i].known /\ slots[i].epoch = 0
  BY <1>1 DEF Free
<1>6. Filling /\ Owned /\ Own
  BY <1>1, <1>5 DEF Filling, Owned, Own, NoFeeding
<1>7. Answers
  BY <1>1 DEF Answers
<1> QED
  BY <1>4, <1>6, <1>7 DEF IInv

(* Steps that leave the slots and their owners alone.                           *)
SlotVars == <<slots, active, requests, feeding, tick, job>>

LEMMA SlotsSame ==
  ASSUME IInv, UNCHANGED SlotVars, dirty => dirty', epoch' \in Nat, epoch' >= epoch,
         UNCHANGED epoch \/ epoch' = epoch + 1
  PROVE  Filling' /\ Owned' /\ Own'
<1>1. Filling'
  BY DEF IInv, Filling, SlotVars
<1>2. Owned'
  BY DEF IInv, Owned, SlotVars, Clearing, Releasing
<1>3. Own'
  <2>1. \A i \in Slots : slots[i].epoch \in Nat /\ slots[i].epoch <= epoch
    BY SlotFacts DEF IInv, Own
  <2>2. epoch \in Nat
    BY DEF IInv, LinkTypes
  <2>3. \A i \in Slots : slots[i].epoch <= epoch' /\ (slots[i].epoch = epoch' => epoch' = epoch)
    BY <2>1, <2>2
  <2> QED
    BY <2>3 DEF IInv, Own, SlotVars
<1> QED
  BY <1>1, <1>2, <1>3

LEMMA Longer ==
  ASSUME NEW S, NEW s \in Seq(S), NEW a \in S
  PROVE  /\ Append(s, a) \in Seq(S) /\ Append(s, a) # <<>>
         /\ \A k \in DOMAIN Append(s, a) :
              Append(s, a)[k] = a \/ (k \in DOMAIN s /\ Append(s, a)[k] = s[k])
OBVIOUS

LEMMA RingKept ==
  ASSUME LinkTypes, NEW e \in Nat
  PROVE  /\ Queued(tx, Answer(e)) \in Seq([epoch : Nat, sent : {0, 1}])
         /\ \A k \in DOMAIN Queued(tx, Answer(e)) :
              Queued(tx, Answer(e))[k].epoch = e \/ (k \in DOMAIN tx /\ Queued(tx, Answer(e))[k] = tx[k])
<1>1. Answer(e) \in [epoch : Nat, sent : {0, 1}] /\ Answer(e).epoch = e
  BY DEF Answer
<1>2. tx \in Seq([epoch : Nat, sent : {0, 1}])
  BY DEF LinkTypes
<1>3. CASE Len(tx) < RingSize
  <2> DEFINE S == [epoch : Nat, sent : {0, 1}]
             a == Answer(e)
  <2>1. a \in S /\ a.epoch = e /\ tx \in Seq(S) /\ Queued(tx, a) = Append(tx, a)
    BY <1>1, <1>2, <1>3 DEF Queued
  <2> HIDE DEF S, a
  <2>2. Append(tx, a) \in Seq(S) /\ \A k \in DOMAIN Append(tx, a) :
          Append(tx, a)[k] = a \/ (k \in DOMAIN tx /\ Append(tx, a)[k] = tx[k])
    BY <2>1, Longer
  <2>3. \A k \in DOMAIN Append(tx, a) :
          Append(tx, a)[k].epoch = e \/ (k \in DOMAIN tx /\ Append(tx, a)[k] = tx[k])
    BY <2>1, <2>2
  <2> QED
    BY <2>1, <2>2, <2>3 DEF S, a
<1>4. CASE ~(Len(tx) < RingSize)
  BY <1>2, <1>4 DEF Queued
<1> QED
  BY <1>3, <1>4

LEMMA StackEventKept ==
  ASSUME IInv, StackEvent \/ Environment \/ UNCHANGED vars
  PROVE  IInv'
<1>1. UNCHANGED <<epoch, linkVars>>
  BY DEF StackEvent, Environment, GapEvent, ConfigureDone, StartDone, StopDone, Event, GapEnvironment,
    Rename, FiveSeconds, Minute, Misbehave, vars, gapVars
<1> QED
  BY <1>1 DEF linkVars, rx, mainVars, IInv, LinkTypes, Filling, Owned, Own, Answers, Clearing, Releasing, Connected

LEMMA ConnectKept ==
  ASSUME IInv, Connect
  PROVE  IInv'
<1>1. /\ ~Connected /\ epoch' = epoch + 1 /\ (tx' = tx \/ tx' = Queued(tx, Answer(epoch + 1)))
      /\ writes' = writes + (writes % 2)
      /\ UNCHANGED <<slots, active, requests, feeding, notify, dirty, tick, job>>
  BY DEF Connect, GapConnect, mainVars
<1>2. epoch \in Nat /\ writes \in Nat
  BY DEF IInv, LinkTypes
<1>3. Connected' /\ writes' \in Nat /\ epoch' \in Nat
  BY <1>1, <1>2 DEF Connected
<1>4. LinkTypes'
  <2>1. Queued(tx, Answer(epoch + 1)) \in Seq([epoch : Nat, sent : {0, 1}])
    BY <1>1, <1>2, <1>3, RingKept DEF IInv
  <2>2. tx' \in Seq([epoch : Nat, sent : {0, 1}])
    BY <1>1, <2>1 DEF IInv, LinkTypes
  <2> QED
    BY <1>1, <1>3, <2>2 DEF IInv, LinkTypes
<1>5. Answers'
  <2>1. \A k \in DOMAIN tx' : tx'[k].epoch = epoch' \/ (k \in DOMAIN tx /\ tx'[k] = tx[k])
    BY <1>1, <1>2, RingKept DEF IInv
  <2>2. dirty \/ tick \in {"clear", "left"} \/ tx = <<>>
    BY <1>1 DEF IInv, Answers
  <2>3. tx = <<>> => DOMAIN tx = {}
    OBVIOUS
  <2> QED
    BY <1>1, <1>3, <2>1, <2>2, <2>3 DEF IInv, Answers
<1> QED
  BY <1>1, <1>2, <1>3, <1>4, <1>5, SlotsSame DEF IInv, SlotVars

LEMMA DisconnectKept ==
  ASSUME IInv, Disconnect
  PROVE  IInv'
<1>1. /\ epoch' = epoch + 1 /\ ~notify' /\ dirty' = TRUE
      /\ UNCHANGED <<slots, active, requests, feeding, writes, tx, tick, job>>
  BY DEF Disconnect, GapDisconnect, mainVars, rx
<1>2. epoch \in Nat
  BY DEF IInv, LinkTypes
<1>3. LinkTypes' /\ Answers'
  BY <1>1, <1>2 DEF IInv, LinkTypes, Answers
<1> QED
  BY <1>1, <1>2, <1>3, SlotsSame DEF IInv, SlotVars

LEMMA EnableKept ==
  ASSUME IInv, EnableNotify
  PROVE  IInv'
<1>1. /\ Connected /\ notify' = TRUE /\ UNCHANGED <<epoch, slots, active, requests, feeding, writes, tx, dirty, tick, job>>
  BY DEF EnableNotify, gapVars, mainVars, rx
<1>2. epoch \in Nat
  BY DEF IInv, LinkTypes
<1>3. LinkTypes' /\ Answers'
  BY <1>1 DEF IInv, LinkTypes, Answers, Connected
<1> QED
  BY <1>1, <1>2, <1>3, SlotsSame DEF IInv, SlotVars

(* The slot a frame is received into: the one being filled, or the first free one.   *)
LEMMA FirstFree ==
  ASSUME NEW S, S \subseteq Slots, S # {}
  PROVE  (CHOOSE i \in S : \A k \in S : i <= k) \in S
<1>1. S \subseteq Nat
  BY LinkAssumption DEF Slots
<1>2. PICK i \in S : \A k \in S : ~(<<k, i>> \in OpToRel(<, Nat))
  BY <1>1, WFMin, NatLessThanWellFounded
<1>3. \A k \in S : ~(k < i)
  BY <1>1, <1>2 DEF OpToRel
<1>4. \A k \in S : i <= k
  BY <1>1, <1>3
<1> QED
  BY <1>4

LEMMA FeedKept ==
  ASSUME IInv, Feed
  PROVE  IInv'
<1>1. /\ feeding = NoFeeding /\ Connected /\ writes' = writes + 1
      /\ UNCHANGED <<epoch, active, requests, tx, notify, dirty, tick, job>>
  BY DEF Feed, Idle, gapVars, mainVars
<1>2. CASE UNCHANGED <<feeding, slots>>
  BY <1>1, <1>2 DEF IInv, LinkTypes, Filling, Owned, Own, Answers, Clearing, Releasing, Connected
<1>3. CASE active # NoSlot /\ feeding' = [at |-> "append", slot |-> active] /\ UNCHANGED slots
  BY <1>1, <1>3 DEF IInv, LinkTypes, Filling, Owned, Own, Answers, Clearing, Releasing, Connected, NoFeeding
<1>4. ASSUME NEW i \in Slots, active = NoSlot, slots[i].state = "free",
             feeding' = [at |-> "claimed", slot |-> i],
             slots' = [slots EXCEPT ![i] =
               [state |-> "assembling", known |-> TRUE, epoch |-> epoch, bytes |-> <<>>]]
      PROVE  IInv'
  <2> DEFINE new == [state |-> "assembling", known |-> TRUE, epoch |-> epoch, bytes |-> <<>>]
  <2>1. /\ new.state = "assembling" /\ new.known = TRUE /\ new.epoch = epoch /\ new.bytes = <<>>
        /\ slots'[i] = new /\ \A j \in Slots \ {i} : slots'[j] = slots[j]
        /\ feeding'.at = "claimed" /\ feeding'.slot = i
    BY <1>4 DEF IInv, LinkTypes
  <2>2. LinkTypes'
    <3>1. new \in Slot
      BY DEF Slot, IInv, LinkTypes
    <3> HIDE DEF new
    <3>2. slots' = [slots EXCEPT ![i] = new]
      BY <1>4 DEF new
    <3>3. slots' \in [Slots -> Slot]
      BY <3>1, <3>2 DEF IInv, LinkTypes
    <3>4. feeding' \in [at : {"idle", "claimed", "append", "enqueue"}, slot : Slots \union {NoSlot}]
      BY <1>4
    <3>5. writes' \in Nat
      BY <1>1 DEF IInv, LinkTypes
    <3> QED
      BY <1>1, <3>3, <3>4, <3>5 DEF IInv, LinkTypes
  <2> HIDE DEF new
  <2>3. Filling'
    BY <1>1, <1>4, <2>1 DEF IInv, Filling
  <2>4. Owned'
    BY <1>1, <1>4, <2>1 DEF IInv, Owned, Clearing, Releasing, NoFeeding
  <2>5. Own'
    <3>1. DOMAIN <<>> = {} /\ epoch \in Nat
      BY DEF IInv, LinkTypes
    <3>2. tick = "handle" => job.slot # i
      BY <1>4 DEF IInv, Own
    <3> QED
      BY <1>1, <1>4, <2>1, <3>1, <3>2 DEF IInv, Own
  <2>6. Answers'
    BY <1>1 DEF IInv, Answers, Connected
  <2> QED
    BY <2>2, <2>3, <2>4, <2>5, <2>6 DEF IInv
<1>5. ASSUME active = NoSlot, ~ UNCHANGED <<feeding, slots>>
      PROVE  IInv'
  <2>1. PICK locked \in {NoSlot} \union (IF Releasing THEN Slots ELSE {}) :
          LET free == {i \in Slots \ {locked} : slots[i].state = "free"}
              i    == CHOOSE j \in free : \A k \in free : j <= k IN
          /\ free # {} /\ feeding' = [at |-> "claimed", slot |-> i]
          /\ slots' = [slots EXCEPT ![i] =
               [state |-> "assembling", known |-> TRUE, epoch |-> epoch, bytes |-> <<>>]]
    BY <1>5 DEF Feed
  <2> DEFINE free == {i \in Slots \ {locked} : slots[i].state = "free"}
             i    == CHOOSE j \in free : \A k \in free : j <= k
  <2>2. i \in free
    BY <2>1, FirstFree
  <2> QED
    BY <1>4, <1>5, <2>1, <2>2
<1> QED
  BY <1>2, <1>3, <1>5 DEF Feed

LEMMA ClaimedKept ==
  ASSUME IInv, FeedClaimed
  PROVE  IInv'
<1>1. /\ feeding.at = "claimed" /\ feeding' = [feeding EXCEPT !.at = "append"] /\ active' = feeding.slot
      /\ UNCHANGED <<epoch, slots, requests, writes, tx, notify, dirty, tick, job>>
  BY DEF FeedClaimed, gapVars, mainVars
<1>2. feeding.slot \in Slots /\ active \in {NoSlot, feeding.slot}
  BY <1>1 DEF IInv, Filling
<1>3. /\ feeding'.at = "append" /\ feeding'.slot = feeding.slot
      /\ feeding' \in [at : {"idle", "claimed", "append", "enqueue"}, slot : Slots \union {NoSlot}]
  BY <1>1 DEF IInv, LinkTypes
<1>4. LinkTypes'
  BY <1>1, <1>2, <1>3 DEF IInv, LinkTypes
<1>5. Filling'
  BY <1>1, <1>2, <1>3 DEF IInv, Filling
<1>6. Owned'
  BY <1>1, <1>2, <1>3, SlotFacts DEF IInv, Owned, Clearing, Releasing
<1>7. Own' /\ Answers'
  BY <1>1 DEF IInv, Own, Answers, Connected
<1> QED
  BY <1>4, <1>5, <1>6, <1>7 DEF IInv

(* A write is added to a slot nobody else handles; if the slot is of this connection  *)
(* so is all that is in it.                                                     *)
LEMMA AppendKept ==
  ASSUME IInv, FeedAppend
  PROVE  IInv'
<1> DEFINE i     == feeding.slot
           chunk == [epoch |-> epoch, number |-> (writes - 1) \div 2, part |-> (writes - 1) % 2]
           bytes == Append(slots[i].bytes, chunk)
<1>1. /\ feeding.at = "append" /\ i \in Slots /\ slots[i].state \in {"assembling", "free"}
      /\ active \in {NoSlot, i}
      /\ UNCHANGED <<epoch, requests, tx, notify, dirty, writes, tick, job>>
  BY DEF FeedAppend, IInv, Filling, gapVars, mainVars
<1>2. chunk \in Chunk /\ chunk.epoch = epoch
  <2>1. epoch \in Nat /\ writes \in Nat
    BY DEF IInv, LinkTypes
  <2>2. (writes - 1) \div 2 \in Int /\ (writes - 1) % 2 \in Int
    BY <2>1
  <2> QED
    BY <2>1, <2>2 DEF Chunk
<1> HIDE DEF chunk
<1>3. slots[i].bytes \in Seq(Chunk)
  BY <1>1, SlotFacts DEF IInv
<1>4. /\ bytes \in Seq(Chunk) /\ bytes # <<>>
      /\ \A k \in DOMAIN bytes : bytes[k] = chunk \/ (k \in DOMAIN slots[i].bytes /\ bytes[k] = slots[i].bytes[k])
  BY <1>2, <1>3, Longer
<1>5. Answers'
  BY <1>1 DEF IInv, Answers, Connected
<1> HIDE DEF bytes
<1>9. /\ slots[i].known /\ slots[i].epoch = epoch => \A k \in DOMAIN bytes : bytes[k].epoch = epoch
      /\ tick = "handle" => job.slot # i
  BY <1>1, <1>2, <1>4 DEF IInv, Own
<1>10. slots \in [Slots -> Slot] /\ slots[i] \in Slot
  BY <1>1 DEF IInv, LinkTypes
<1>11. CASE Releasing /\ UNCHANGED <<active, slots>> /\ feeding' = NoFeeding
  <2>1. LinkTypes' /\ Filling'
    BY <1>1, <1>11 DEF IInv, LinkTypes, Filling, NoFeeding
  <2>2. Owned' /\ Own'
    BY <1>1, <1>11 DEF IInv, Owned, Own, Clearing, Releasing, NoFeeding
  <2> QED
    BY <1>5, <2>1, <2>2 DEF IInv
<1>6. CASE UNCHANGED active /\ slots' = [slots EXCEPT ![i].bytes = bytes] /\ feeding' = NoFeeding
  <2> DEFINE new == [slots[i] EXCEPT !.bytes = bytes]
  <2>0. new \in Slot /\ new.state = slots[i].state /\ new.known = slots[i].known
        /\ new.epoch = slots[i].epoch /\ new.bytes = bytes
    BY <1>4, <1>10 DEF Slot
  <2>1. slots' = [slots EXCEPT ![i] = new]
    BY <1>6
  <2> HIDE DEF new
  <2>2. /\ slots'[i] = new /\ (\A j \in Slots \ {i} : slots'[j] = slots[j]) /\ slots' \in [Slots -> Slot]
    BY <1>1, <1>10, <2>0, <2>1
  <2>3. LinkTypes'
    BY <1>1, <1>6, <2>2 DEF IInv, LinkTypes, NoFeeding
  <2>4. Filling'
    BY <1>1, <1>6, <2>0, <2>2 DEF IInv, Filling, NoFeeding
  <2>6. Owned'
    BY <1>1, <1>6, <2>0, <2>2, SlotFacts DEF IInv, Owned, Clearing, Releasing, NoFeeding
  <2>5. Own'
    BY <1>1, <1>4, <1>9, <2>0, <2>2 DEF IInv, Own
  <2> QED
    BY <1>5, <2>3, <2>4, <2>5, <2>6 DEF IInv
<1>7. CASE /\ active' = NoSlot /\ feeding' = [feeding EXCEPT !.at = "enqueue"]
           /\ slots' = [slots EXCEPT ![i].bytes = bytes, ![i].state = "ready"]
  <2> DEFINE new == [slots[i] EXCEPT !.bytes = bytes, !.state = "ready"]
  <2>0. new \in Slot /\ new.state = "ready" /\ new.known = slots[i].known
        /\ new.epoch = slots[i].epoch /\ new.bytes = bytes
    BY <1>4, <1>10 DEF Slot
  <2>1. slots' = [slots EXCEPT ![i] = new]
    BY <1>7, <1>10, <1>1 DEF Slot
  <2> HIDE DEF new
  <2>2. /\ slots'[i] = new /\ (\A j \in Slots \ {i} : slots'[j] = slots[j]) /\ slots' \in [Slots -> Slot]
    BY <1>1, <1>10, <2>0, <2>1
  <2>3. /\ feeding'.at = "enqueue" /\ feeding'.slot = i
        /\ feeding' \in [at : {"idle", "claimed", "append", "enqueue"}, slot : Slots \union {NoSlot}]
    BY <1>1, <1>7 DEF IInv, LinkTypes
  <2>4. LinkTypes'
    BY <1>1, <1>7, <2>2, <2>3 DEF IInv, LinkTypes
  <2>5. Filling' /\ Owned'
    BY <1>1, <1>7, <2>0, <2>2, <2>3 DEF IInv, Filling, Owned, Clearing, Releasing
  <2>6. Own'
    BY <1>1, <1>4, <1>9, <2>0, <2>2 DEF IInv, Own
  <2> QED
    BY <1>5, <2>4, <2>5, <2>6 DEF IInv
<1>8. CASE active' = NoSlot /\ slots' = [slots EXCEPT ![i] = Free] /\ feeding' = NoFeeding
  <2>1. /\ slots'[i] = Free /\ \A j \in Slots \ {i} : slots'[j] = slots[j]
        /\ Free.state = "free" /\ Free.known = FALSE /\ Free.epoch = 0
    BY <1>1, <1>8 DEF IInv, LinkTypes, Free
  <2>3. LinkTypes'
    BY <1>1, <1>8 DEF IInv, LinkTypes, NoFeeding, Free, Slot
  <2>4. Filling' /\ Owned'
    BY <1>1, <1>8, <2>1 DEF IInv, Filling, Owned, Clearing, Releasing, NoFeeding
  <2>5. Own'
    <3>1. epoch \in Nat
      BY DEF IInv, LinkTypes
    <3> QED
      BY <1>1, <2>1, <3>1 DEF IInv, Own
  <2> QED
    BY <1>5, <2>3, <2>4, <2>5 DEF IInv
<1> QED
  BY <1>6, <1>7, <1>8, <1>11 DEF FeedAppend, bytes, chunk

LEMMA EnqueueKept ==
  ASSUME IInv, FeedEnqueue
  PROVE  IInv'
<1> DEFINE i == feeding.slot
<1>1. /\ feeding.at = "enqueue" /\ i \in Slots /\ feeding' = NoFeeding /\ active = NoSlot
      /\ UNCHANGED <<epoch, active, tx, notify, dirty, writes, tick, job>>
  BY DEF FeedEnqueue, IInv, Filling, gapVars, mainVars
<1>2. Answers'
  BY <1>1 DEF IInv, Answers, Connected
<1>3. CASE Len(requests) < QueueSize /\ requests' = Append(requests, i) /\ UNCHANGED slots
  <2>1. /\ requests' \in Seq(Slots) /\ Len(requests') <= QueueSize
        /\ ToSet(requests') = ToSet(requests) \union {i}
    <3>1. requests \in Seq(Slots) /\ QueueSize \in Nat
      BY LinkAssumption DEF IInv, LinkTypes
    <3>2. requests' \in Seq(Slots) /\ Len(requests') = Len(requests) + 1 /\ Len(requests) \in Nat
      BY <1>1, <1>3, <3>1
    <3>3. DOMAIN requests' = 1 .. Len(requests) + 1 /\ requests'[Len(requests) + 1] = i
          /\ \A k \in 1 .. Len(requests) : requests'[k] = requests[k]
      BY <1>1, <1>3, <3>1
    <3>4. ToSet(requests') = ToSet(requests) \union {i}
      BY <3>1, <3>2, <3>3 DEF ToSet
    <3> QED
      BY <1>3, <3>1, <3>2, <3>4
  <2> QED
    BY <1>1, <1>2, <1>3, <2>1 DEF IInv, LinkTypes, Filling, Owned, Own, Clearing, Releasing, NoFeeding
<1>4. CASE ~(Len(requests) < QueueSize) /\ slots' = [slots EXCEPT ![i] = Free] /\ UNCHANGED requests
  <2>0. slots[i].state # "processing"
    BY <1>1, <1>4 DEF IInv, Filling
  <2>1. /\ slots'[i] = Free /\ \A j \in Slots \ {i} : slots'[j] = slots[j]
        /\ Free.state = "free" /\ Free.known = FALSE /\ Free.epoch = 0
    BY <1>1, <1>4 DEF IInv, LinkTypes, Free
  <2>3. LinkTypes'
    BY <1>1, <1>4 DEF IInv, LinkTypes, NoFeeding, Free, Slot
  <2>4. Filling' /\ Owned'
    BY <1>1, <1>4, <2>1 DEF IInv, Filling, Owned, Clearing, Releasing, NoFeeding
  <2>5. Own'
    <3>1. epoch \in Nat
      BY DEF IInv, LinkTypes
    <3> QED
      BY <1>1, <2>0, <2>1, <3>1 DEF IInv, Own
  <2> QED
    BY <1>2, <2>3, <2>4, <2>5 DEF IInv
<1> QED
  BY <1>3, <1>4 DEF FeedEnqueue

(* The main loop                                                            *)
LEMMA TickKept ==
  ASSUME IInv, TickBegins
  PROVE  IInv'
<1>1. /\ tick = "maintain" /\ dirty' = FALSE /\ tick' = IF dirty THEN "clear" ELSE "take"
      /\ UNCHANGED <<epoch, slots, active, requests, feeding, writes, tx, notify, job>>
  BY DEF TickBegins, Maintain, rx
<1>2. LinkTypes' /\ Filling' /\ Own'
  BY <1>1 DEF IInv, LinkTypes, Filling, Own
<1>3. Owned'
  BY <1>1 DEF IInv, Owned, Clearing, Releasing
<1>4. Answers'
  BY <1>1 DEF IInv, Answers, Connected
<1> QED
  BY <1>2, <1>3, <1>4 DEF IInv

LEMMA ClearQueuesKept ==
  ASSUME IInv, ClearQueues
  PROVE  IInv'
<1>1. /\ tick = "clear" /\ active' = NoSlot /\ requests' = <<>>
      /\ (tick' = "release" /\ tx' = <<>>) \/ (tick' = "left" /\ tx' \in {tx, <<>>})
      /\ UNCHANGED <<epoch, slots, feeding, writes, notify, dirty, job>>
  BY DEF ClearQueues, gapVars
<1>2. /\ <<>> \in Seq(Slots) /\ Len(<<>>) = 0 /\ QueueSize \in Nat \ {0}
      /\ <<>> \in Seq([epoch : Nat, sent : {0, 1}])
  BY LinkAssumption
<1>3. LinkTypes'
  <2>1. tx' = tx \/ tx' = <<>>
    BY <1>1
  <2>2. tx' \in Seq([epoch : Nat, sent : {0, 1}])
    BY <1>2, <2>1 DEF IInv, LinkTypes
  <2> QED
    BY <1>1, <1>2, <2>2 DEF IInv, LinkTypes
<1>4. Filling'
  BY <1>1, <1>2 DEF IInv, Filling
<1>5. Owned' /\ Own'
  BY <1>1 DEF IInv, Owned, Own, Clearing, Releasing
<1>6. Answers'
  BY <1>1 DEF IInv, Answers, Connected
<1> QED
  BY <1>3, <1>4, <1>5, <1>6 DEF IInv

LEMMA ClearSlotsKept ==
  ASSUME IInv, ClearSlots
  PROVE  IInv'
<1>1. PICK held \in SUBSET (IF feeding.at \in {"claimed", "append"} THEN {feeding.slot} ELSE {}) :
        /\ slots' = [i \in Slots |-> IF i \in held THEN slots[i] ELSE Free]
        /\ dirty' = (dirty \/ held # {} \/ tick = "left")
  BY DEF ClearSlots
<1>2. /\ tick \in {"release", "left"} /\ tick' = "take"
      /\ UNCHANGED <<epoch, active, requests, feeding, writes, tx, notify, job>>
  BY DEF ClearSlots, Releasing, gapVars
<1>3. Free.state = "free" /\ Free.known = FALSE /\ Free.epoch = 0
  BY DEF Free
<1>4. \A i \in Slots : slots'[i] = Free \/ (slots'[i] = slots[i] /\ i = feeding.slot /\ feeding.at \in {"claimed", "append"} /\ dirty')
  BY <1>1
<1>5. LinkTypes'
  <2>1. slots' \in [Slots -> Slot]
    BY <1>1, SlotFacts DEF IInv
  <2> QED
    BY <1>2, <2>1 DEF IInv, LinkTypes
<1>6. Filling'
  BY <1>2, <1>3, <1>4, SlotFacts DEF IInv, Filling, LinkTypes
<1>7. Owned'
  BY <1>2, <1>3, <1>4 DEF IInv, Owned, Clearing, Releasing, Filling
<1>8. Own'
  <2>1. epoch \in Nat
    BY DEF IInv, LinkTypes
  <2> QED
    BY <1>2, <1>3, <1>4, <2>1 DEF IInv, Own
<1>9. Answers'
  BY <1>1, <1>2 DEF IInv, Answers, Connected
<1> QED
  BY <1>5, <1>6, <1>7, <1>8, <1>9 DEF IInv

LEMMA First ==
  ASSUME NEW S, NEW s \in Seq(S), s # <<>>
  PROVE  1 \in DOMAIN s /\ s[1] \in S
OBVIOUS

LEMMA Shorter ==
  ASSUME NEW S, NEW s \in Seq(S), s # <<>>
  PROVE  /\ Tail(s) \in Seq(S) /\ Head(s) \in S /\ Len(Tail(s)) = Len(s) - 1 /\ Len(s) \in Nat
         /\ ToSet(s) = ToSet(Tail(s)) \union {Head(s)}
<1>1. /\ Tail(s) \in Seq(S) /\ Head(s) \in S /\ Head(s) = s[1] /\ Len(Tail(s)) = Len(s) - 1
      /\ Len(s) \in Nat \ {0} /\ DOMAIN s = 1 .. Len(s) /\ DOMAIN Tail(s) = 1 .. Len(s) - 1
      /\ \A k \in 1 .. Len(s) - 1 : Tail(s)[k] = s[k + 1]
  OBVIOUS
<1>2. \A x \in ToSet(s) : x \in ToSet(Tail(s)) \union {Head(s)}
  <2> SUFFICES ASSUME NEW k \in DOMAIN s PROVE s[k] \in ToSet(Tail(s)) \union {Head(s)}
    BY DEF ToSet
  <2>1. CASE k = 1
    BY <1>1, <2>1
  <2>2. CASE k # 1
    <3>1. k - 1 \in 1 .. Len(s) - 1
      BY <1>1, <2>2
    <3>2. Tail(s)[k - 1] = s[(k - 1) + 1] /\ (k - 1) + 1 = k
      BY <1>1, <3>1
    <3> QED
      BY <1>1, <3>1, <3>2 DEF ToSet
  <2> QED
    BY <2>1, <2>2
<1>3. \A x \in ToSet(Tail(s)) : x \in ToSet(s)
  <2> SUFFICES ASSUME NEW k \in DOMAIN Tail(s) PROVE Tail(s)[k] \in ToSet(s)
    BY DEF ToSet
  <2>1. k + 1 \in DOMAIN s /\ Tail(s)[k] = s[k + 1]
    BY <1>1
  <2> QED
    BY <2>1 DEF ToSet
<1>4. Head(s) \in ToSet(s)
  BY <1>1 DEF ToSet
<1> QED
  BY <1>1, <1>2, <1>3, <1>4

LEMMA TakeKept ==
  ASSUME IInv, Take
  PROVE  IInv'
<1> DEFINE i == Head(requests)
<1>1. tick = "take" /\ UNCHANGED <<epoch, active, feeding, writes, tx, notify, dirty>>
  BY DEF Take, gapVars
<1>2. QueueSize \in Nat /\ Len(requests) \in Nat /\ Len(requests) <= QueueSize
  BY LinkAssumption DEF IInv, LinkTypes
<1>3. CASE UNCHANGED <<job, slots, requests>> /\ tick' \in {"maintain", "send"}
  <2>1. LinkTypes' /\ Filling'
    BY <1>1, <1>3 DEF IInv, LinkTypes, Filling
  <2>2. Owned' /\ Own'
    BY <1>1, <1>3 DEF IInv, Owned, Own, Clearing, Releasing
  <2>3. Answers'
    BY <1>1, <1>3 DEF IInv, Answers, Connected
  <2> QED
    BY <2>1, <2>2, <2>3 DEF IInv
<1>4. ASSUME requests # <<>>, requests' = Tail(requests), Connected,
             \/ slots[i].state # "ready" /\ tick' = "send" /\ UNCHANGED <<job, slots>>
             \/ slots[i].state = "ready" /\ tick' = "send" /\ slots' = FreeStale(i) /\ UNCHANGED job
             \/ /\ slots[i].state = "ready" /\ Current(i) /\ tick' = "handle"
                /\ job' = [slot |-> i, epoch |-> epoch]
                /\ slots' = [slots EXCEPT ![i].state = "processing"]
      PROVE  IInv'
  <2>1. /\ requests' \in Seq(Slots) /\ i \in Slots /\ Len(requests') = Len(requests) - 1
        /\ ToSet(requests) = ToSet(requests') \union {i}
    BY <1>4, Shorter DEF IInv, LinkTypes
  <2>2. Len(requests') < QueueSize
    BY <1>2, <2>1
  <2>3. /\ slots \in [Slots -> Slot] /\ slots[i] \in Slot /\ i # NoSlot
        /\ epoch \in Nat /\ Free \in Slot
    BY <2>1, SlotFacts DEF IInv, LinkTypes, Filling
  <2> HIDE DEF i
  <2>4. CASE slots[i].state # "ready" /\ tick' = "send" /\ UNCHANGED <<job, slots>>
    <3>1. LinkTypes'
      BY <1>1, <1>2, <2>1, <2>2, <2>4 DEF IInv, LinkTypes
    <3>2. Filling' /\ Owned' /\ Own'
      BY <1>1, <1>2, <2>1, <2>2, <2>4 DEF IInv, Filling, Owned, Own, Clearing, Releasing
    <3>3. Answers'
      BY <1>1, <2>4 DEF IInv, Answers, Connected
    <3> QED
      BY <3>1, <3>2, <3>3 DEF IInv
  <2>5. CASE slots[i].state = "ready" /\ tick' = "send" /\ slots' = FreeStale(i) /\ UNCHANGED job
    <3>1. /\ slots' \in [Slots -> Slot] /\ slots'[i] = Free
          /\ \A j \in Slots \ {i} : slots'[j] = slots[j]
          /\ Free.state = "free" /\ Free.known = FALSE /\ Free.epoch = 0
      BY <2>1, <2>3, <2>5 DEF FreeStale, Free
    <3>2. LinkTypes'
      BY <1>1, <1>2, <2>1, <2>2, <2>5, <3>1 DEF IInv, LinkTypes
    <3>3. Filling'
      BY <1>1, <1>2, <2>1, <2>2, <2>5, <3>1, SlotFacts DEF IInv, Filling, LinkTypes
    <3>4. Owned'
      BY <1>1, <2>1, <2>5, <3>1 DEF IInv, Owned, Clearing, Releasing
    <3>5. Own'
      BY <1>1, <2>1, <2>3, <2>5, <3>1 DEF IInv, Own
    <3>6. Answers'
      BY <1>1, <2>5 DEF IInv, Answers, Connected
    <3> QED
      BY <3>2, <3>3, <3>4, <3>5, <3>6 DEF IInv
  <2>6. CASE /\ slots[i].state = "ready" /\ Current(i) /\ tick' = "handle"
             /\ job' = [slot |-> i, epoch |-> epoch]
             /\ slots' = [slots EXCEPT ![i].state = "processing"]
    <3> DEFINE new == [slots[i] EXCEPT !.state = "processing"]
    <3>1. /\ new \in Slot /\ new.state = "processing" /\ new.known = slots[i].known
          /\ new.epoch = slots[i].epoch /\ new.bytes = slots[i].bytes
      BY <2>3 DEF Slot
    <3>2. slots' = [slots EXCEPT ![i] = new]
      BY <2>6
    <3> HIDE DEF new
    <3>3. /\ slots' \in [Slots -> Slot] /\ slots'[i] = new
          /\ \A j \in Slots \ {i} : slots'[j] = slots[j]
      BY <2>1, <2>3, <3>1, <3>2
    <3>4. job'.slot = i /\ job'.epoch = epoch /\ job' \in [slot : Slots \union {NoSlot}, epoch : Nat]
      BY <2>1, <2>3, <2>6
    <3>5. LinkTypes'
      BY <1>1, <1>2, <2>1, <2>2, <3>3, <3>4 DEF IInv, LinkTypes
    <3>6. Filling'
      <4>1. active \in Slots \union {NoSlot}
        BY DEF IInv, LinkTypes
      <4> QED
        BY <1>1, <1>2, <2>1, <2>2, <2>6, <3>1, <3>3, <4>1 DEF IInv, Filling
    <3>7. Owned'
      BY <1>1, <2>1, <2>6, <3>1, <3>3, <3>4 DEF IInv, Owned, Clearing, Releasing
    <3>8. Own'
      BY <1>1, <2>1, <2>3, <2>6, <3>1, <3>3, <3>4 DEF IInv, Own, Current
    <3>9. Answers'
      BY <1>1, <1>4, <2>6, <3>4 DEF IInv, Answers, Connected
    <3> QED
      BY <3>5, <3>6, <3>7, <3>8, <3>9 DEF IInv
  <2> QED
    BY <1>4, <2>4, <2>5, <2>6 DEF i
<1> QED
  BY <1>3, <1>4 DEF Take

LEMMA HandleKept ==
  ASSUME IInv, Handle
  PROVE  IInv'
<1> DEFINE i == job.slot
<1>1. /\ tick = "handle" /\ tick' = "send" /\ job' = NoJob
      /\ tx' = tx \/ tx' = Queued(tx, Answer(job.epoch))
      /\ slots' = [slots EXCEPT ![i] = Free]
      /\ UNCHANGED <<epoch, active, requests, feeding, writes, notify, dirty>>
  BY DEF Handle, gapVars
<1>2. /\ i \in Slots /\ slots[i].state = "processing" /\ epoch \in Nat /\ job.epoch \in Nat
      /\ Free \in Slot /\ slots \in [Slots -> Slot]
  BY <1>1, SlotFacts DEF IInv, Own, LinkTypes
<1>3. /\ slots' \in [Slots -> Slot] /\ slots'[i] = Free
      /\ \A j \in Slots \ {i} : slots'[j] = slots[j]
      /\ Free.state = "free" /\ Free.known = FALSE /\ Free.epoch = 0
  BY <1>1, <1>2 DEF Free
<1>4. /\ tx' \in Seq([epoch : Nat, sent : {0, 1}])
      /\ \A k \in DOMAIN tx' : tx'[k].epoch = job.epoch \/ (k \in DOMAIN tx /\ tx'[k] = tx[k])
  <2>1. CASE tx' = tx
    BY <2>1 DEF IInv, LinkTypes
  <2>2. CASE tx' = Queued(tx, Answer(job.epoch))
    BY <1>2, <2>2, RingKept DEF IInv
  <2> QED
    BY <1>1, <2>1, <2>2
<1>5. LinkTypes'
  <2>1. NoJob \in [slot : Slots \union {NoSlot}, epoch : Nat]
    BY DEF NoJob
  <2> QED
    BY <1>1, <1>3, <1>4, <2>1 DEF IInv, LinkTypes
<1>6. Filling'
  <2>1. active \in Slots \union {NoSlot}
    BY DEF IInv, LinkTypes
  <2> QED
    BY <1>1, <1>2, <1>3, <2>1 DEF IInv, Filling
<1>7. Owned'
  BY <1>1, <1>2, <1>3 DEF IInv, Owned, Clearing, Releasing
<1>8. Own'
  BY <1>1, <1>2, <1>3 DEF IInv, Own
<1>9. Answers'
  <2>1. tx = <<>> => DOMAIN tx = {}
    OBVIOUS
  <2> QED
    BY <1>1, <1>4, <2>1 DEF IInv, Answers, Connected
<1> QED
  BY <1>5, <1>6, <1>7, <1>8, <1>9 DEF IInv

LEMMA SendKept ==
  ASSUME IInv, Send
  PROVE  IInv'
<1> DEFINE S == [epoch : Nat, sent : {0, 1}]
<1>1. /\ tick = "send" /\ tick' = "maintain"
      /\ UNCHANGED <<epoch, slots, active, requests, feeding, writes, notify, dirty, job>>
  BY DEF Send, gapVars, rx
<1>2. PICK ring \in {tx} \union (IF notify THEN {Queued(tx, Answer(epoch))} ELSE {}) :
        \/ tx' = ring
        \/ /\ notify /\ ring # <<>>
           /\ tx' = IF Head(ring).sent = 1 THEN Tail(ring) ELSE [ring EXCEPT ![1].sent = 1]
  BY DEF Send
<1>3. epoch \in Nat /\ tx \in Seq(S)
  BY DEF IInv, LinkTypes
<1>4. /\ ring \in Seq(S)
      /\ \A k \in DOMAIN ring : (notify /\ ring[k].epoch = epoch) \/ (k \in DOMAIN tx /\ ring[k] = tx[k])
  <2>1. CASE ring = tx
    BY <1>3, <2>1
  <2>2. CASE notify /\ ring = Queued(tx, Answer(epoch))
    BY <1>3, <2>2, RingKept DEF IInv
  <2> QED
    BY <1>2, <2>1, <2>2
<1>5. /\ tx' \in Seq(S)
      /\ \A k \in DOMAIN tx' : \E l \in DOMAIN ring : tx'[k].epoch = ring[l].epoch
  <2>1. CASE tx' = ring
    BY <1>4, <2>1
  <2>2. CASE ring # <<>> /\ tx' = Tail(ring)
    BY <1>4, <2>2
  <2>3. CASE ring # <<>> /\ tx' = [ring EXCEPT ![1].sent = 1]
    <3>1. 1 \in DOMAIN ring /\ ring[1] \in S
      BY <1>4, <2>3, First
    <3> DEFINE new == [ring[1] EXCEPT !.sent = 1]
    <3>2. new \in S /\ new.epoch = ring[1].epoch
      BY <3>1
    <3>3. tx' = [ring EXCEPT ![1] = new]
      BY <2>3
    <3> HIDE DEF new, S
    <3>4. tx' \in Seq(S) /\ DOMAIN tx' = DOMAIN ring
          /\ \A k \in DOMAIN ring : tx'[k] = IF k = 1 THEN new ELSE ring[k]
      BY <1>4, <3>1, <3>2, <3>3
    <3> QED
      BY <3>2, <3>4
  <2> QED
    BY <1>2, <2>1, <2>2, <2>3
<1>6. LinkTypes'
  BY <1>1, <1>5 DEF IInv, LinkTypes
<1>7. Filling' /\ Owned' /\ Own'
  BY <1>1 DEF IInv, Filling, Owned, Own, Clearing, Releasing
<1>8. Answers'
  <2>1. tx = <<>> => DOMAIN tx = {}
    OBVIOUS
  <2>2. ring = tx /\ tx = <<>> => tx' = <<>> \/ DOMAIN tx' = {}
    BY <1>5, <2>1
  <2>3. dirty \/ (\A k \in DOMAIN ring : Connected /\ ring[k].epoch = epoch)
    BY <1>1, <1>4, <2>1 DEF IInv, Answers
  <2>4. dirty \/ (\A k \in DOMAIN tx' : Connected /\ tx'[k].epoch = epoch)
    BY <1>5, <2>3
  <2>5. tx' = <<>> \/ \E k : k \in DOMAIN tx'
    BY <1>5
  <2> QED
    BY <1>1, <2>4, <2>5 DEF IInv, Answers, Connected
<1> QED
  BY <1>6, <1>7, <1>8 DEF IInv

LEMMA NextKept == IInv /\ [Next]_vars => IInv'
BY StackEventKept, ConnectKept, DisconnectKept, EnableKept, FeedKept, ClaimedKept, AppendKept, EnqueueKept,
  TickKept, ClearQueuesKept, ClearSlotsKept, TakeKept, HandleKept, SendKept DEF Next, Stack, Main

LEMMA Invariant == Spec => []IInv
BY InitOk, NextKept, PTL DEF Spec

(* No slot is lost, however connections come and go while frames are received,      *)
(* queued, handled and cleared.                                               *)
THEOREM NoSlotLost == Spec => []SlotsComeBack
<1>1. IInv => SlotsComeBack
  BY DEF IInv, LinkTypes, Slot, Owned, SlotsComeBack, Clearing, Releasing
<1> QED
  BY <1>1, Invariant, PTL

(* A frame that is handled is what one client wrote, the one connected when its       *)
(* handling began, even if its slot had been cleared and used again before.        *)
THEOREM FramesAreWhole == Spec => []HandledIsOwn
<1>1. IInv => HandledIsOwn
  BY DEF IInv, Own, HandledIsOwn
<1> QED
  BY <1>1, Invariant, PTL

(* No answer stays for another client than the one it is for, unless the ring is     *)
(* about to be cleared.                                                       *)
THEOREM AnswersFollowClients == Spec => []OldAnswersAreMarked
<1>1. IInv => OldAnswersAreMarked
  BY DEF IInv, Answers, OldAnswersAreMarked
<1> QED
  BY <1>1, Invariant, PTL

-----------------------------------------------------------------------------
(* The name                                                                *)
Operations  == {"Configure", "Start", "Stop"}
Completions == [op : Operations, ok : BOOLEAN]
Health ==
  [pending : Operations \union {Nothing}, active : BOOLEAN, backoff : BOOLEAN, due : BOOLEAN]

GapTypes ==
  /\ epoch \in Nat /\ faults \in Nat /\ health \in Health /\ events \in Seq(Completions)
  /\ rename \in BOOLEAN /\ reconfigure \in BOOLEAN /\ onAir \in BOOLEAN

(* A name that the stack was not given is marked, and a stop that is to be       *)
(* followed by new data is pending; a client ends both, and the advertising.    *)
Marks ==
  /\ rename \/ bdName = name
  /\ reconfigure => health.pending = "Stop"
  /\ Connected => ~onAir /\ health = Cancelled

(* Without faults, what is pending is the last completion on its way, and what    *)
(* is older is of starts.                                                     *)
InFlight(list, op) ==
  /\ op # Nothing => list # <<>> /\ list[Len(list)].op = op
  /\ \A k \in DOMAIN list :
       list[k].ok /\ (list[k].op = "Start" \/ (k = Len(list) /\ list[k].op = op))

Undisturbed ==
  /\ InFlight(events, health.pending) /\ (health.pending # Nothing => ~health.due)
  /\ health.pending \in {"Stop", "Configure"} => ~onAir
  /\ onAir /\ health.pending = Nothing => health.active
  /\ rename \/ reconfigure \/ advName = bdName

(* The data have an old name and nothing says so.  Then the device is off the     *)
(* air, and no completion on its way starts it.                                *)
Unmarked == ~rename /\ ~reconfigure /\ advName # bdName

Failures(list) ==
  \A k \in DOMAIN list : list[k].op = "Start" \/ (list[k].op = "Configure" /\ ~list[k].ok)

OffTheAir ==
  /\ ~Connected /\ ~onAir /\ ~health.active /\ health.pending \in {Nothing, "Configure"}
  /\ Failures(events)

NameInv ==
  /\ GapTypes /\ Marks
  /\ faults = 0 => Undisturbed
  /\ faults <= 1 => (Unmarked => OffTheAir)

-----------------------------------------------------------------------------
LEMMA HealthFacts ==
  ASSUME NEW h \in Health, NEW op \in Operations \union {"Name"}, NEW ok \in BOOLEAN
  PROVE  /\ op # "Name" => Reserved(h, op) \in Health
         /\ Reserved(h, op).pending = op /\ Reserved(h, op).active = h.active /\ ~Reserved(h, op).due
         /\ Completed(h, op, ok) \in Health /\ Completed(h, op, ok).pending = Nothing
         /\ Completed(h, op, ok).active <=> op = "Start" /\ ok
<1>1. /\ op # "Name" => Reserved(h, op) \in Health
      /\ Reserved(h, op).pending = op /\ Reserved(h, op).active = h.active /\ ~Reserved(h, op).due
  BY DEF Reserved, Health
<1>2. (op = "Start" /\ ok) \in BOOLEAN /\ (~ok) \in BOOLEAN
  OBVIOUS
<1>3. ASSUME NEW a \in BOOLEAN, NEW b \in BOOLEAN
      PROVE  [pending |-> Nothing, active |-> a, backoff |-> b, due |-> FALSE] \in Health
  BY DEF Health
<1>4. Completed(h, op, ok) \in Health /\ Completed(h, op, ok).pending = Nothing
  BY <1>2, <1>3 DEF Completed
<1>5. Completed(h, op, ok).active <=> op = "Start" /\ ok
  BY Zenon DEF Completed
<1> QED
  BY <1>1, <1>4, <1>5

LEMMA FailedFacts ==
  ASSUME NEW h, NEW op
  PROVE  Completed(h, op, FALSE) = [pending |-> Nothing, active |-> FALSE, backoff |-> TRUE, due |-> FALSE]
<1>1. (op = "Start" /\ FALSE) = FALSE /\ (~FALSE) = TRUE
  OBVIOUS
<1> QED
  BY <1>1, Zenon DEF Completed

LEMMA CancelledFacts ==
  Cancelled \in Health /\ Cancelled.pending = Nothing /\ ~Cancelled.active /\ ~Cancelled.due
BY DEF Cancelled, Health

(* What becomes of a call into the stack.                                     *)
LEMMA OutcomeFacts ==
  ASSUME NEW h \in Health, NEW o \in Outcomes(h)
  PROVE  /\ Connected \/ h.pending # Nothing => o = "busy"
         /\ ~Connected /\ h.pending = Nothing => o \in {"accepted", "fails", "refused"}
BY DEF Outcomes

LEMMA IssueFacts ==
  ASSUME NEW op \in Operations, NEW h \in Health, NEW list \in Seq(Completions),
         NEW o \in {"busy", "accepted", "fails", "refused"}, Issue(op, h, list, o),
         faults \in Nat, onAir \in BOOLEAN
  PROVE  /\ health' \in Health /\ events' \in Seq(Completions) /\ onAir' \in BOOLEAN /\ faults' \in Nat
         /\ o = "busy" => health' = h /\ events' = list /\ UNCHANGED <<advName, onAir, faults>>
         /\ o = "refused" =>
              /\ health'.pending = Nothing /\ ~health'.active /\ events' = list
              /\ UNCHANGED <<advName, onAir>> /\ faults' = faults + 1
         /\ o \in {"accepted", "fails"} =>
              health'.pending = op /\ health'.active = h.active /\ ~health'.due
         /\ o = "accepted" =>
              /\ events' = Append(list, [op |-> op, ok |-> TRUE]) /\ faults' = faults
              /\ advName' = IF op = "Configure" THEN bdName' ELSE advName
              /\ onAir' = IF op = "Start" THEN TRUE ELSE IF op = "Stop" THEN FALSE ELSE onAir
         /\ o = "fails" =>
              /\ events' = Append(list, [op |-> op, ok |-> FALSE]) /\ faults' = faults + 1
              /\ advName' = advName /\ (op # "Start" => onAir' = onAir)
<1>1. CASE o = "busy"
  BY <1>1 DEF Issue
<1>2. CASE o = "refused"
  <2>1. health' = [pending |-> Nothing, active |-> FALSE, backoff |-> TRUE, due |-> FALSE]
    BY <1>2, FailedFacts DEF Issue
  <2>2. events' = list /\ advName' = advName /\ onAir' = onAir /\ faults' = faults + 1
    BY <1>2 DEF Issue
  <2>3. health' \in Health /\ health'.pending = Nothing /\ ~health'.active
    BY <2>1 DEF Health
  <2> QED
    BY <1>2, <2>2, <2>3
<1>3. [op |-> op, ok |-> TRUE] \in Completions /\ [op |-> op, ok |-> FALSE] \in Completions
  BY DEF Completions
<1>4. CASE o = "accepted"
  <2>1. events' = Append(list, [op |-> op, ok |-> TRUE])
    BY <1>4 DEF Issue
  <2>2. health' = Reserved(h, op)
    BY <1>4 DEF Issue
  <2>3. onAir' = IF op = "Start" THEN TRUE ELSE IF op = "Stop" THEN FALSE ELSE onAir
    BY <1>4 DEF Issue, Operations
  <2>4. faults' = faults /\ advName' = IF op = "Configure" THEN bdName' ELSE advName
    BY <1>4 DEF Issue
  <2>5. /\ Reserved(h, op) \in Health /\ Reserved(h, op).pending = op
        /\ Reserved(h, op).active = h.active /\ ~Reserved(h, op).due
    BY HealthFacts DEF Operations
  <2>6. events' \in Seq(Completions)
    BY <1>3, <2>1
  <2> QED
    BY <1>4, <2>1, <2>2, <2>3, <2>4, <2>5, <2>6
<1>5. CASE o = "fails"
  <2>1. events' = Append(list, [op |-> op, ok |-> FALSE])
    BY <1>5 DEF Issue
  <2>2. health' = Reserved(h, op)
    BY <1>5 DEF Issue
  <2>3. onAir' \in BOOLEAN /\ (op # "Start" => onAir' = onAir)
    BY <1>5 DEF Issue, Operations
  <2>4. faults' = faults + 1 /\ advName' = advName
    BY <1>5 DEF Issue
  <2>5. /\ Reserved(h, op) \in Health /\ Reserved(h, op).pending = op
        /\ Reserved(h, op).active = h.active /\ ~Reserved(h, op).due
    BY HealthFacts DEF Operations
  <2>6. events' \in Seq(Completions)
    BY <1>3, <2>1
  <2> QED
    BY <1>5, <2>1, <2>2, <2>3, <2>4, <2>5, <2>6
<1> QED
  BY <1>1, <1>2, <1>4, <1>5

(* A start leaves the data as they are.                                       *)
LEMMA StartFacts ==
  ASSUME NEW h \in Health, NEW list \in Seq(Completions), NEW o \in {"accepted", "fails", "refused"},
         Issue("Start", h, list, o), faults \in Nat, onAir \in BOOLEAN
  PROVE  /\ health' \in Health /\ events' \in Seq(Completions) /\ onAir' \in BOOLEAN /\ faults' \in Nat
         /\ advName' = advName /\ faults' >= faults /\ (faults' = 0 => faults = 0 /\ o = "accepted")
         /\ o = "accepted" =>
              /\ events' = Append(list, [op |-> "Start", ok |-> TRUE])
              /\ health'.pending = "Start" /\ health'.active = h.active /\ ~health'.due
<1>1. "Start" \in Operations /\ o \in {"busy", "accepted", "fails", "refused"}
  BY DEF Operations
<1>2. /\ health' \in Health /\ events' \in Seq(Completions) /\ onAir' \in BOOLEAN /\ faults' \in Nat
      /\ o = "accepted" => advName' = advName /\ faults' = faults
      /\ o = "fails" => advName' = advName /\ faults' = faults + 1
      /\ o = "refused" => advName' = advName /\ faults' = faults + 1
  BY <1>1, IssueFacts
<1>3. o = "accepted" =>
        /\ events' = Append(list, [op |-> "Start", ok |-> TRUE])
        /\ health'.pending = "Start" /\ health'.active = h.active /\ ~health'.due
  BY <1>1, IssueFacts
<1> QED
  BY <1>2, <1>3

-----------------------------------------------------------------------------
(* Completions on their way.                                                 *)
LEMMA Appended ==
  ASSUME NEW list \in Seq(Completions), NEW e \in Completions
  PROVE  /\ Append(list, e) \in Seq(Completions) /\ Append(list, e) # <<>>
         /\ Len(Append(list, e)) = Len(list) + 1
         /\ DOMAIN Append(list, e) = DOMAIN list \union {Len(list) + 1}
         /\ \A k \in DOMAIN list : Append(list, e)[k] = list[k] /\ k # Len(list) + 1
         /\ Append(list, e)[Len(list) + 1] = e
OBVIOUS

LEMMA OnlyStarts ==
  ASSUME NEW list \in Seq(Completions), InFlight(list, Nothing)
  PROVE  Failures(list) /\ \A k \in DOMAIN list : list[k].ok /\ list[k].op = "Start"
<1>1. \A k \in DOMAIN list : list[k] \in Completions
  OBVIOUS
<1>2. \A e \in Completions : e.op # Nothing
  BY DEF Completions, Operations, Nothing
<1>3. \A k \in DOMAIN list : list[k].ok /\ list[k].op = "Start"
  BY <1>1, <1>2 DEF InFlight
<1> QED
  BY <1>3 DEF Failures

LEMMA AppendInFlight ==
  ASSUME NEW list \in Seq(Completions), NEW op \in Operations, InFlight(list, Nothing)
  PROVE  InFlight(Append(list, [op |-> op, ok |-> TRUE]), op)
<1>1. [op |-> op, ok |-> TRUE] \in Completions
  BY DEF Completions
<1>2. \A k \in DOMAIN list : list[k].ok /\ list[k].op = "Start"
  BY OnlyStarts
<1> QED
  BY <1>1, <1>2, Appended DEF InFlight

LEMMA AppendFailures ==
  ASSUME NEW list \in Seq(Completions), Failures(list)
  PROVE  Failures(Append(list, [op |-> "Configure", ok |-> FALSE]))
<1>1. [op |-> "Configure", ok |-> FALSE] \in Completions
  BY DEF Completions, Operations
<1> QED
  BY <1>1, Appended DEF Failures

LEMMA Tailed ==
  ASSUME NEW list \in Seq(Completions), list # <<>>
  PROVE  /\ Tail(list) \in Seq(Completions) /\ Len(Tail(list)) = Len(list) - 1
         /\ Head(list) = list[1] /\ 1 \in DOMAIN list /\ Head(list) \in Completions
         /\ \A k \in DOMAIN Tail(list) : k + 1 \in DOMAIN list /\ Tail(list)[k] = list[k + 1] /\ k \in Nat \ {0}
         /\ Len(list) > 1 => Tail(list) # <<>>
<1>1. /\ Tail(list) \in Seq(Completions) /\ Len(Tail(list)) = Len(list) - 1 /\ Len(list) \in Nat \ {0}
  OBVIOUS
<1>2. Head(list) = list[1] /\ 1 \in DOMAIN list /\ list[1] \in Completions
  BY <1>1
<1>3. \A k \in DOMAIN Tail(list) : k + 1 \in DOMAIN list /\ Tail(list)[k] = list[k + 1] /\ k \in Nat \ {0}
  BY <1>1
<1>4. Len(list) > 1 => Tail(list) # <<>>
  <2>1. Len(list) > 1 => Len(Tail(list)) # 0
    BY <1>1
  <2>2. Len(<<>>) = 0
    OBVIOUS
  <2> QED
    BY <2>1, <2>2
<1> QED
  BY <1>1, <1>2, <1>3, <1>4

LEMMA TailFailures ==
  ASSUME NEW list \in Seq(Completions), list # <<>>, Failures(list)
  PROVE  Failures(Tail(list))
BY Tailed DEF Failures

LEMMA TailInFlight ==
  ASSUME NEW list \in Seq(Completions), list # <<>>, NEW op \in Operations \union {Nothing}, InFlight(list, op)
  PROVE  /\ Head(list).op = op => InFlight(Tail(list), Nothing)
         /\ Head(list).op # op => InFlight(Tail(list), op)
         /\ Head(list).ok /\ Head(list).op \in {"Start", op}
<1>1. Head(list).ok /\ Head(list).op \in {"Start", op}
  BY Tailed DEF InFlight
<1>2. ASSUME NEW k \in DOMAIN Tail(list) PROVE Tail(list)[k].ok /\ (Tail(list)[k].op = "Start" \/ (k = Len(Tail(list)) /\ Tail(list)[k].op = op))
  BY <1>2, Tailed DEF InFlight
<1>3. ASSUME Head(list).op # op PROVE InFlight(Tail(list), op)
  <2>1. op # Nothing => Len(list) > 1
    BY <1>3, Tailed DEF InFlight
  <2>2. op # Nothing => Tail(list)[Len(Tail(list))] = list[Len(list)]
    BY <2>1, Tailed
  <2> QED
    BY <1>2, <2>1, <2>2, Tailed DEF InFlight
<1>4. ASSUME Head(list).op = op PROVE InFlight(Tail(list), Nothing)
  <2>1. ASSUME NEW k \in DOMAIN Tail(list) PROVE Tail(list)[k].op = "Start"
    <3>1. CASE op = "Start"
      BY <1>2, <2>1, <3>1
    <3>2. CASE op # "Start"
      <4>1. Len(list) = 1
        BY <1>4, <3>2, Tailed DEF InFlight
      <4> QED
        BY <2>1, <4>1, Tailed
    <3> QED
      BY <3>1, <3>2
  <2> QED
    BY <1>2, <2>1 DEF InFlight
<1> QED
  BY <1>1, <1>3, <1>4

-----------------------------------------------------------------------------
(* gap_event_cb                                                             *)

(* A completion that is taken, and no call.                                   *)
LEMMA HeadFacts ==
  ASSUME NameInv, events # <<>>
  PROVE  /\ Tail(events) \in Seq(Completions) /\ Head(events).op \in Operations
         /\ Head(events).ok \in BOOLEAN
         /\ health.pending \in Operations \union {Nothing} /\ Head(events).op # Nothing
         /\ faults = 0 => /\ Head(events).ok /\ Head(events).op \in {"Start", health.pending}
                          /\ Matches => InFlight(Tail(events), Nothing)
                          /\ ~Matches => InFlight(Tail(events), health.pending)
         /\ faults <= 1 /\ Unmarked =>
              /\ Head(events).op = "Start" \/ (Head(events).op = "Configure" /\ ~Head(events).ok)
              /\ Failures(Tail(events))
         /\ Matches => ~Connected
<1>1. events \in Seq(Completions) /\ health \in Health /\ health.pending \in Operations \union {Nothing}
  BY DEF NameInv, GapTypes, Health
<1>2. /\ Tail(events) \in Seq(Completions) /\ Head(events) \in Completions
      /\ Head(events) = events[1] /\ 1 \in DOMAIN events
  BY <1>1, Tailed
<1>3. /\ Head(events).op \in Operations /\ Head(events).ok \in BOOLEAN /\ Head(events).op # Nothing
  BY <1>2 DEF Completions, Operations, Nothing
<1>4. faults = 0 => InFlight(events, health.pending)
  BY DEF NameInv, Undisturbed
<1>5. faults = 0 => /\ Head(events).ok /\ Head(events).op \in {"Start", health.pending}
                    /\ Matches => InFlight(Tail(events), Nothing)
                    /\ ~Matches => InFlight(Tail(events), health.pending)
  BY <1>1, <1>4, TailInFlight DEF Matches
<1>6. faults <= 1 /\ Unmarked => Failures(events)
  BY DEF NameInv, OffTheAir
<1>7. faults <= 1 /\ Unmarked =>
        /\ Head(events).op = "Start" \/ (Head(events).op = "Configure" /\ ~Head(events).ok)
        /\ Failures(Tail(events))
  BY <1>1, <1>2, <1>6, TailFailures DEF Failures
<1>8. Matches => ~Connected
  BY <1>3, CancelledFacts DEF Matches, NameInv, Marks
<1> QED
  BY <1>1, <1>2, <1>3, <1>5, <1>7, <1>8

LEMMA ConfigureDoneKept ==
  ASSUME NameInv, ConfigureDone PROVE NameInv'
<1>0. /\ events # <<>> /\ Head(events).op = "Configure"
      /\ UNCHANGED <<epoch, name, bdName, rename, reconfigure>>
      /\ health \in Health /\ faults \in Nat /\ onAir \in BOOLEAN /\ "Configure" \in Operations
  BY DEF ConfigureDone, Event, NameInv, GapTypes, Operations
<1>1. CASE Matches /\ Head(events).ok
  <2>1. Done \in Health /\ Done.pending = Nothing /\ ~Done.active
    BY <1>0, HeadFacts, HealthFacts DEF Done
  <2>2. PICK o \in Outcomes(Done) : Issue("Start", Done, Tail(events), o)
    BY <1>1 DEF ConfigureDone
  <2>3. o \in {"accepted", "fails", "refused"} /\ ~Connected
    BY <1>0, <1>1, <2>1, HeadFacts, OutcomeFacts
  <2>4. /\ health' \in Health /\ events' \in Seq(Completions) /\ onAir' \in BOOLEAN /\ faults' \in Nat
        /\ faults' = 0 => faults = 0 /\ o = "accepted"
        /\ faults' >= faults /\ advName' = advName
        /\ o = "accepted" =>
             /\ events' = Append(Tail(events), [op |-> "Start", ok |-> TRUE])
             /\ health'.pending = "Start" /\ ~health'.due
    BY <1>0, <2>1, <2>2, <2>3, HeadFacts, StartFacts
  <2>5. ~reconfigure /\ (Connected' <=> Connected)
    BY <1>0, <1>1 DEF NameInv, Marks, Matches, Connected
  <2>6. GapTypes' /\ Marks'
    BY <1>0, <2>3, <2>4, <2>5 DEF NameInv, GapTypes, Marks
  <2>7. faults' = 0 => Undisturbed'
    <3>1. SUFFICES ASSUME faults' = 0 PROVE Undisturbed'
      OBVIOUS
    <3>2. InFlight(events', "Start")
      BY <1>0, <1>1, <2>4, <3>1, HeadFacts, AppendInFlight DEF Operations
    <3>3. rename \/ reconfigure \/ advName = bdName
      BY <2>4, <3>1 DEF NameInv, Undisturbed
    <3> QED
      BY <1>0, <2>4, <3>1, <3>2, <3>3 DEF Undisturbed, Nothing
  <2>8. faults' <= 1 => ~Unmarked'
    BY <1>0, <1>1, <2>4, HeadFacts DEF Unmarked
  <2> QED
    BY <2>6, <2>7, <2>8 DEF NameInv
<1>2. CASE ~(Matches /\ Head(events).ok)
  <2>1. /\ health' = IF Matches THEN Done ELSE health
        /\ events' = Tail(events) /\ UNCHANGED <<advName, onAir, faults>>
    BY <1>2 DEF ConfigureDone, NoIssue
  <2>2. Done \in Health /\ Done.pending = Nothing /\ ~Done.active
    BY <1>0, HeadFacts, HealthFacts DEF Done
  <2>3. (Matches => ~reconfigure /\ ~Connected) /\ (Connected' <=> Connected)
    BY <1>0, HeadFacts DEF NameInv, Marks, Matches, Connected
  <2>4. GapTypes' /\ Marks'
    BY <1>0, <2>1, <2>2, <2>3, HeadFacts, CancelledFacts DEF NameInv, GapTypes, Marks
  <2>5. faults # 0
    BY <1>0, <1>2, HeadFacts DEF Matches
  <2>6. faults' <= 1 /\ Unmarked' => OffTheAir'
    BY <1>0, <2>1, <2>2, <2>3, HeadFacts DEF NameInv, Unmarked, OffTheAir
  <2> QED
    BY <2>1, <2>4, <2>5, <2>6 DEF NameInv
<1> QED
  BY <1>1, <1>2

LEMMA StartDoneKept ==
  ASSUME NameInv, StartDone PROVE NameInv'
<1>0. /\ events # <<>> /\ Head(events).op = "Start"
      /\ UNCHANGED <<epoch, name, bdName, rename, reconfigure, advName, onAir, faults>>
      /\ health \in Health /\ faults \in Nat /\ onAir \in BOOLEAN
      /\ health' = (IF Matches THEN Done ELSE health) /\ events' = Tail(events)
  BY DEF StartDone, Event, NoIssue, NameInv, GapTypes
<1>1. Done \in Health /\ Done.pending = Nothing /\ (Done.active <=> Head(events).ok)
  BY <1>0, HeadFacts, HealthFacts DEF Done
<1>2. (Matches => ~reconfigure /\ ~Connected) /\ (Connected' <=> Connected)
  BY <1>0, HeadFacts DEF NameInv, Marks, Matches, Connected
<1>3. GapTypes' /\ Marks'
  BY <1>0, <1>1, <1>2, HeadFacts, CancelledFacts DEF NameInv, GapTypes, Marks
<1>4. faults = 0 => Undisturbed'
  <2>1. SUFFICES ASSUME faults = 0 PROVE Undisturbed'
    OBVIOUS
  <2>2. Undisturbed
    BY <2>1 DEF NameInv
  <2>3. CASE Matches
    BY <1>0, <1>1, <2>1, <2>2, <2>3, HeadFacts DEF Undisturbed, Nothing
  <2>4. CASE ~Matches
    BY <1>0, <2>1, <2>2, <2>4, HeadFacts DEF Undisturbed
  <2> QED
    BY <2>3, <2>4
<1>5. faults <= 1 /\ Unmarked => OffTheAir'
  <2>1. SUFFICES ASSUME faults <= 1, Unmarked PROVE OffTheAir'
    OBVIOUS
  <2>2. OffTheAir
    BY <2>1 DEF NameInv
  <2>3. ~Matches
    BY <1>0, <2>2 DEF OffTheAir, Matches, Nothing
  <2> QED
    BY <1>0, <1>2, <2>1, <2>2, <2>3, HeadFacts DEF OffTheAir
<1> QED
  BY <1>0, <1>3, <1>4, <1>5 DEF NameInv, Unmarked

LEMMA StopDoneKept ==
  ASSUME NameInv, StopDone PROVE NameInv'
<1>0. /\ events # <<>> /\ Head(events).op = "Stop"
      /\ UNCHANGED <<epoch, name, bdName>>
      /\ health \in Health /\ faults \in Nat /\ onAir \in BOOLEAN
  BY DEF StopDone, Event, NameInv, GapTypes
<1>1. Done \in Health /\ Done.pending = Nothing /\ ~Done.active
  BY <1>0, HeadFacts, HealthFacts DEF Done
<1>2. /\ faults <= 1 => ~Unmarked
      /\ faults = 0 => Matches /\ Head(events).ok /\ InFlight(Tail(events), Nothing) /\ ~onAir
      /\ Connected' <=> Connected
  BY <1>0, HeadFacts DEF NameInv, Undisturbed, Matches, Connected
<1>3. CASE ~Matches /\ ~Connected /\ health.pending = Nothing
  <2>1. ~reconfigure /\ UNCHANGED <<rename, reconfigure>>
    BY <1>3 DEF StopDone, NameInv, Marks, Nothing
  <2>2. /\ health' \in Health /\ events' \in Seq(Completions) /\ onAir' \in BOOLEAN /\ faults' \in Nat
        /\ advName' = advName /\ faults' >= faults
    <3>1. CASE Head(events).ok
      <4>1. PICK o \in Outcomes(Cancelled) : Issue("Start", Cancelled, Tail(events), o)
        BY <1>3, <3>1 DEF StopDone
      <4>2. o \in {"accepted", "fails", "refused"}
        BY <1>3, CancelledFacts, OutcomeFacts
      <4> QED
        BY <1>0, <4>1, <4>2, HeadFacts, CancelledFacts, StartFacts
    <3>2. CASE ~Head(events).ok
      BY <1>0, <1>3, <3>2, HeadFacts, CancelledFacts DEF StopDone, NoIssue
    <3> QED
      BY <3>1, <3>2
  <2>3. GapTypes' /\ Marks'
    BY <1>0, <1>2, <1>3, <2>1, <2>2 DEF NameInv, GapTypes, Marks
  <2>4. faults' # 0 /\ (faults' <= 1 => ~Unmarked')
    BY <1>0, <1>2, <1>3, <2>1, <2>2 DEF Unmarked
  <2> QED
    BY <2>3, <2>4 DEF NameInv
<1>4. CASE ~(~Matches /\ ~Connected /\ health.pending = Nothing) /\ (Connected \/ ~reconfigure)
  <2>1. /\ health' = (IF Matches THEN Done ELSE health) /\ events' = Tail(events)
        /\ UNCHANGED <<rename, reconfigure, advName, onAir, faults>>
    BY <1>4 DEF StopDone, NoIssue
  <2>2. Matches => ~Connected /\ ~reconfigure
    BY <1>0, <1>4, HeadFacts
  <2>3. GapTypes' /\ Marks'
    BY <1>0, <1>1, <1>2, <2>1, <2>2, HeadFacts, CancelledFacts DEF NameInv, GapTypes, Marks
  <2>4. faults = 0 => Undisturbed'
    BY <1>0, <1>1, <1>2, <2>1 DEF NameInv, Undisturbed, Nothing
  <2> QED
    BY <1>0, <1>2, <2>1, <2>3, <2>4 DEF NameInv, Unmarked
<1>5. CASE ~Connected /\ reconfigure
  <2>1. Matches /\ health.pending # Nothing
    BY <1>0, <1>5 DEF NameInv, Marks, Matches, Nothing
  <2>2. ~reconfigure' /\ reconfigure' \in BOOLEAN /\ rename' = (rename \/ ~Head(events).ok)
    BY <1>5, <2>1 DEF StopDone
  <2>3. rename' \in BOOLEAN /\ (rename \/ ~Head(events).ok => rename') /\ (rename' => rename \/ ~Head(events).ok)
    BY <2>2
  <2>4. CASE Head(events).ok
    <3>1. PICK o \in Outcomes(Done) : Issue("Configure", Done, Tail(events), o)
      BY <1>5, <2>1, <2>4 DEF StopDone
    <3>2. o \in {"accepted", "fails", "refused"}
      BY <1>1, <1>5, OutcomeFacts
    <3>3. /\ health' \in Health /\ events' \in Seq(Completions) /\ onAir' = onAir /\ faults' \in Nat
          /\ ~health'.active /\ health'.pending \in {Nothing, "Configure"}
          /\ o = "accepted" =>
               /\ events' = Append(Tail(events), [op |-> "Configure", ok |-> TRUE])
               /\ advName' = bdName' /\ faults' = faults /\ health'.pending = "Configure" /\ ~health'.due
          /\ o = "fails" => events' = Append(Tail(events), [op |-> "Configure", ok |-> FALSE])
          /\ o = "refused" => events' = Tail(events)
          /\ o # "accepted" => faults' = faults + 1
      BY <1>0, <1>1, <3>1, <3>2, HeadFacts, IssueFacts DEF Operations
    <3>4. GapTypes' /\ Marks'
      BY <1>0, <1>2, <1>5, <2>2, <2>3, <3>3 DEF NameInv, GapTypes, Marks
    <3>5. faults' = 0 => Undisturbed'
      <4>1. SUFFICES ASSUME faults' = 0 PROVE Undisturbed'
        OBVIOUS
      <4>2. faults = 0 /\ o = "accepted"
        BY <1>0, <3>3, <4>1
      <4>3. InFlight(events', "Configure")
        BY <1>0, <1>2, <3>3, <4>2, HeadFacts, AppendInFlight DEF Operations
      <4> QED
        BY <1>2, <3>3, <4>2, <4>3 DEF Undisturbed, Nothing
    <3>6. faults' <= 1 /\ Unmarked' => OffTheAir'
      <4>1. SUFFICES ASSUME faults' <= 1, Unmarked' PROVE OffTheAir'
        OBVIOUS
      <4>2. o # "accepted" /\ faults = 0
        BY <1>0, <3>2, <3>3, <4>1 DEF Unmarked
      <4>3. Failures(events')
        BY <1>0, <1>2, <3>2, <3>3, <4>2, HeadFacts, OnlyStarts, AppendFailures
      <4> QED
        BY <1>2, <1>5, <3>3, <4>2, <4>3 DEF OffTheAir
    <3> QED
      BY <3>4, <3>5, <3>6 DEF NameInv
  <2>5. CASE ~Head(events).ok
    <3>1. /\ health' = Done /\ events' = Tail(events) /\ UNCHANGED <<advName, onAir, faults>> /\ rename'
      BY <1>5, <2>1, <2>2, <2>5 DEF StopDone, NoIssue
    <3>2. GapTypes' /\ Marks'
      BY <1>0, <1>1, <1>2, <1>5, <2>2, <2>3, <3>1, HeadFacts DEF NameInv, GapTypes, Marks
    <3> QED
      BY <1>2, <2>5, <3>1, <3>2 DEF NameInv, Unmarked
  <2> QED
    BY <2>4, <2>5
<1> QED
  BY <1>3, <1>4, <1>5

-----------------------------------------------------------------------------
(* Clients                                                                  *)
LEMMA Parity ==
  ASSUME epoch \in Nat, epoch' = epoch + 1
  PROVE  epoch' \in Nat /\ (Connected' <=> ~Connected)
BY DEF Connected

LEMMA ConnectedKept ==
  ASSUME NameInv, GapConnect PROVE NameInv'
<1>0. /\ ~Connected /\ onAir /\ epoch' = epoch + 1 /\ onAir' = FALSE /\ health' = Cancelled
      /\ reconfigure' = FALSE /\ UNCHANGED <<events, name, bdName, advName, faults>>
      /\ epoch \in Nat /\ events \in Seq(Completions)
  BY DEF GapConnect, NameInv, GapTypes
<1>1. rename' \in BOOLEAN /\ (rename' <=> rename \/ reconfigure)
  BY DEF GapConnect, NameInv, GapTypes
<1>2. GapTypes' /\ Marks'
  BY <1>0, <1>1, Parity, CancelledFacts DEF NameInv, GapTypes, Marks
<1>3. faults = 0 => Undisturbed'
  <2>1. SUFFICES ASSUME faults = 0 PROVE Undisturbed'
    OBVIOUS
  <2>2. Undisturbed /\ health.pending \in {Nothing, "Start"}
    BY <1>0, <2>1 DEF NameInv, Undisturbed, GapTypes, Health, Operations
  <2>3. InFlight(events, Nothing)
    BY <1>0, <2>2 DEF Undisturbed, InFlight
  <2> QED
    BY <1>0, <1>1, <2>2, <2>3, CancelledFacts DEF Undisturbed, Nothing
<1>4. faults <= 1 => ~Unmarked'
  BY <1>0, <1>1 DEF NameInv, Unmarked, OffTheAir
<1> QED
  BY <1>0, <1>2, <1>3, <1>4 DEF NameInv

LEMMA DisconnectedKept ==
  ASSUME NameInv, GapDisconnect PROVE NameInv'
<1>0. /\ Connected /\ epoch' = epoch + 1 /\ UNCHANGED <<rename, reconfigure, name, bdName>>
      /\ epoch \in Nat /\ events \in Seq(Completions) /\ ~onAir /\ health = Cancelled /\ ~reconfigure
      /\ faults \in Nat /\ onAir \in BOOLEAN /\ rename \in BOOLEAN /\ reconfigure \in BOOLEAN
  BY CancelledFacts DEF GapDisconnect, NameInv, GapTypes, Marks, Nothing
<1>1. ~Connected' /\ epoch' \in Nat
  BY <1>0, Parity
<1>2. faults = 0 => InFlight(events, Nothing) /\ (rename \/ advName = bdName)
  BY <1>0, CancelledFacts DEF NameInv, Undisturbed
<1>3. faults <= 1 => ~Unmarked
  BY <1>0 DEF NameInv, OffTheAir
<1>4. CASE rename
  <2>1. health' = Cancelled /\ UNCHANGED <<events, advName, onAir, faults>>
    BY <1>4 DEF GapDisconnect, NoIssue
  <2>2. GapTypes' /\ Marks'
    BY <1>0, <1>1, <1>4, <2>1, CancelledFacts DEF NameInv, GapTypes, Marks
  <2>3. faults = 0 => Undisturbed'
    BY <1>0, <1>2, <2>1, CancelledFacts DEF Undisturbed, Nothing
  <2> QED
    BY <1>0, <1>4, <2>1, <2>2, <2>3 DEF NameInv, Unmarked
<1>5. CASE ~rename
  <2>1. PICK o \in {"accepted", "fails", "refused"} : Issue("Start", Cancelled, events, o)
    BY <1>5 DEF GapDisconnect
  <2>2. /\ health' \in Health /\ events' \in Seq(Completions) /\ onAir' \in BOOLEAN /\ faults' \in Nat
        /\ advName' = advName /\ faults' >= faults /\ (faults' = 0 => faults = 0 /\ o = "accepted")
        /\ o = "accepted" =>
             /\ events' = Append(events, [op |-> "Start", ok |-> TRUE])
             /\ health'.pending = "Start" /\ ~health'.due
    BY <1>0, <2>1, CancelledFacts, StartFacts
  <2>3. GapTypes' /\ Marks'
    BY <1>0, <1>1, <2>2 DEF NameInv, GapTypes, Marks
  <2>4. faults' = 0 => InFlight(events', "Start")
    BY <1>0, <1>2, <2>2, AppendInFlight DEF Operations
  <2>5. faults' = 0 => Undisturbed'
    BY <1>0, <1>2, <2>2, <2>4 DEF Undisturbed, Nothing
  <2> QED
    BY <1>0, <1>3, <2>2, <2>3, <2>5 DEF NameInv, Unmarked
<1> QED
  BY <1>4, <1>5

-----------------------------------------------------------------------------
(* maintain_advertising: what recovery asks for, and with which health.         *)
Recovering ==
  IF Recovery(health) = "Retry" THEN [health EXCEPT !.pending = Nothing, !.active = FALSE] ELSE health

LEMMA RecoveryFacts ==
  ASSUME NameInv
  PROVE  /\ Recovery(health) \in {"None", "Retry", "Renew"}
         /\ Connected => Recovery(health) = "None"
         /\ Recovery(health) = "Renew" => health.pending = Nothing /\ ~rename /\ health.active
         /\ Recovery(health) = "Retry" =>
              /\ health.due /\ (health.pending = Nothing => ~rename /\ ~health.active)
              /\ Recovering.pending = Nothing /\ ~Recovering.active
         /\ Recovery(health) # "Retry" => Recovering = health
         /\ Recovering \in Health
<1>1. health \in Health
  BY DEF NameInv, GapTypes
<1>2. /\ Recovery(health) \in {"None", "Retry", "Renew"}
      /\ Connected => Recovery(health) = "None"
      /\ Recovery(health) = "Renew" => health.pending = Nothing /\ ~rename /\ health.active
      /\ Recovery(health) = "Retry" => health.due /\ (health.pending = Nothing => ~rename /\ ~health.active)
  <2>1. CASE Connected \/ (health.pending = Nothing /\ rename)
    <3>1. Recovery(health) = "None"
      BY <2>1 DEF Recovery
    <3> QED
      BY <3>1
  <2>2. CASE ~Connected /\ (health.pending # Nothing \/ (~rename /\ ~health.active))
    <3>1. CASE health.due
      <4>1. Recovery(health) = "Retry"
        BY <2>2, <3>1 DEF Recovery
      <4> QED
        BY <2>2, <3>1, <4>1
    <3>2. CASE ~health.due
      <4>1. Recovery(health) = "None"
        BY <2>2, <3>2 DEF Recovery
      <4> QED
        BY <4>1
    <3> QED
      BY <3>1, <3>2
  <2>3. CASE ~Connected /\ health.pending = Nothing /\ ~rename /\ health.active
    <3>1. Recovery(health) \in {"None", "Renew"}
      BY <2>3 DEF Recovery
    <3> QED
      BY <2>3, <3>1
  <2> QED
    BY <2>1, <2>2, <2>3
<1>3. CASE Recovery(health) = "Retry"
  <2>1. Recovering = [health EXCEPT !.pending = Nothing, !.active = FALSE]
    BY <1>3 DEF Recovering
  <2>2. [health EXCEPT !.pending = Nothing, !.active = FALSE] \in Health
        /\ [health EXCEPT !.pending = Nothing, !.active = FALSE].pending = Nothing
        /\ ~[health EXCEPT !.pending = Nothing, !.active = FALSE].active
    BY <1>1 DEF Health
  <2> QED
    BY <1>2, <1>3, <2>1, <2>2
<1>4. CASE Recovery(health) # "Retry"
  BY <1>1, <1>2, <1>4 DEF Recovering
<1> QED
  BY <1>2, <1>3, <1>4

(* The name is given to the stack, and what follows.                            *)
LEMMA UpdateKept ==
  ASSUME NameInv, ~Connected, rename, CanUpdateName(Recovering), UNCHANGED <<epoch, name>>,
         UpdateName(Recovering, reconfigure /\ Recovery(health) # "Retry")
  PROVE  NameInv'
<1> DEFINE h == Recovering
           again == reconfigure /\ Recovery(health) # "Retry"
<1>0. /\ h \in Health /\ h.pending = Nothing /\ events \in Seq(Completions) /\ faults \in Nat /\ onAir \in BOOLEAN
      /\ again = FALSE
      /\ h.active => health.active /\ health.pending = Nothing
      /\ again \in BOOLEAN /\ epoch \in Nat /\ h.active \in BOOLEAN
  <2>1. h.pending = Nothing /\ h \in Health
    BY RecoveryFacts DEF CanUpdateName
  <2>2. ~again
    BY <2>1, RecoveryFacts DEF NameInv, Marks, Nothing
  <2> QED
    BY <2>1, <2>2, RecoveryFacts DEF NameInv, GapTypes, Health
<1>1. faults = 0 => InFlight(events, Nothing) /\ (~h.active => ~onAir)
  <2>1. SUFFICES ASSUME faults = 0 PROVE InFlight(events, Nothing) /\ (~h.active => ~onAir)
    OBVIOUS
  <2>2. Undisturbed
    BY <2>1 DEF NameInv
  <2>3. Recovery(health) # "Retry"
    BY <2>2, RecoveryFacts DEF Undisturbed
  <2>4. h = health
    BY <2>3, RecoveryFacts
  <2> QED
    BY <1>0, <2>2, <2>4 DEF Undisturbed
<1>2. ~Connected' /\ epoch' \in Nat /\ name' = name
  BY <1>0 DEF Connected
<1>3. UpdateName(h, FALSE)
  BY <1>0
<1> HIDE DEF h, again
<1>4. CASE bdName' = name /\ \E o \in Outcomes(Completed(Reserved(h, "Name"), "Name", TRUE)) :
             /\ Issue(IF h.active THEN "Stop" ELSE "Configure", Completed(Reserved(h, "Name"), "Name", TRUE), events, o)
             /\ rename' = (o = "refused") /\ reconfigure' = IF h.active THEN o # "refused" ELSE FALSE
  <2>1. Completed(Reserved(h, "Name"), "Name", TRUE) = Cancelled
    <3>1. ("Name" = "Start" /\ TRUE) = FALSE /\ (~TRUE) = FALSE
      OBVIOUS
    <3> QED
      BY <3>1 DEF Completed, Cancelled
  <2>2. PICK o \in Outcomes(Cancelled) :
          /\ Issue(IF h.active THEN "Stop" ELSE "Configure", Cancelled, events, o)
          /\ rename' = (o = "refused") /\ reconfigure' = IF h.active THEN o # "refused" ELSE FALSE
    BY <1>4, <2>1
  <2>3. o \in {"accepted", "fails", "refused"}
    BY CancelledFacts, OutcomeFacts
  <2>4. /\ rename' \in BOOLEAN /\ (rename' <=> o = "refused")
        /\ reconfigure' \in BOOLEAN /\ (reconfigure' <=> h.active /\ o # "refused")
    BY <1>0, <2>2
  <2>5. CASE h.active
    <3>1. Issue("Stop", Cancelled, events, o)
      BY <2>2, <2>5
    <3>2. /\ health' \in Health /\ events' \in Seq(Completions) /\ onAir' \in BOOLEAN /\ faults' \in Nat
          /\ o \in {"accepted", "fails"} => health'.pending = "Stop" /\ ~health'.due
          /\ o = "accepted" =>
               events' = Append(events, [op |-> "Stop", ok |-> TRUE]) /\ onAir' = FALSE /\ faults' = faults
          /\ o # "accepted" => faults' = faults + 1
      BY <1>0, <2>3, <3>1, CancelledFacts, IssueFacts DEF Operations
    <3>3. GapTypes' /\ Marks'
      BY <1>2, <1>4, <2>3, <2>4, <2>5, <3>2 DEF GapTypes, Marks
    <3>4. faults' = 0 => Undisturbed'
      <4>1. SUFFICES ASSUME faults' = 0 PROVE Undisturbed'
        OBVIOUS
      <4>2. o = "accepted" /\ faults = 0
        BY <1>0, <3>2, <4>1
      <4>3. InFlight(events', "Stop")
        BY <1>0, <1>1, <3>2, <4>2, AppendInFlight DEF Operations
      <4> QED
        BY <2>4, <2>5, <3>2, <4>2, <4>3 DEF Undisturbed, Nothing
    <3>5. ~Unmarked'
      BY <2>4, <2>5 DEF Unmarked
    <3> QED
      BY <3>3, <3>4, <3>5 DEF NameInv
  <2>6. CASE ~h.active
    <3>1. Issue("Configure", Cancelled, events, o)
      BY <2>2, <2>6
    <3>2. /\ health' \in Health /\ events' \in Seq(Completions) /\ onAir' = onAir /\ faults' \in Nat
          /\ ~health'.active
          /\ o \in {"accepted", "fails"} => health'.pending = "Configure" /\ ~health'.due
          /\ o = "accepted" => /\ events' = Append(events, [op |-> "Configure", ok |-> TRUE])
                               /\ advName' = bdName' /\ faults' = faults
          /\ o = "fails" => events' = Append(events, [op |-> "Configure", ok |-> FALSE])
          /\ o # "accepted" => faults' = faults + 1
      BY <1>0, <2>3, <3>1, CancelledFacts, IssueFacts DEF Operations
    <3>3. GapTypes' /\ Marks'
      BY <1>0, <1>2, <1>4, <2>3, <2>4, <2>6, <3>2 DEF GapTypes, Marks
    <3>4. faults' = 0 => Undisturbed'
      <4>1. SUFFICES ASSUME faults' = 0 PROVE Undisturbed'
        OBVIOUS
      <4>2. o = "accepted" /\ faults = 0
        BY <1>0, <3>2, <4>1
      <4>3. InFlight(events', "Configure")
        BY <1>0, <1>1, <3>2, <4>2, AppendInFlight DEF Operations
      <4> QED
        BY <1>1, <2>6, <3>2, <4>2, <4>3 DEF Undisturbed, Nothing
    <3>5. faults' <= 1 /\ Unmarked' => OffTheAir'
      <4>1. SUFFICES ASSUME faults' <= 1, Unmarked' PROVE OffTheAir'
        OBVIOUS
      <4>2. o = "fails" /\ faults = 0
        BY <1>0, <2>3, <2>4, <3>2, <4>1 DEF Unmarked
      <4>3. Failures(events')
        BY <1>0, <1>1, <3>2, <4>2, OnlyStarts, AppendFailures
      <4> QED
        BY <1>1, <1>2, <2>6, <3>2, <4>2, <4>3 DEF OffTheAir
    <3> QED
      BY <3>3, <3>4, <3>5 DEF NameInv
  <2> QED
    BY <2>5, <2>6
<1>5. CASE /\ faults < MaxFaults /\ faults' = faults + 1
           /\ health' = Completed(h, "Name", FALSE) /\ rename' = TRUE
           /\ reconfigure' = FALSE /\ UNCHANGED <<events, bdName, advName, onAir>>
  <2>1. health' = [pending |-> Nothing, active |-> FALSE, backoff |-> TRUE, due |-> FALSE]
    BY <1>5, FailedFacts
  <2>2. health' \in Health
    BY <2>1 DEF Health
  <2>3. /\ rename' /\ rename' \in BOOLEAN /\ ~reconfigure' /\ reconfigure' \in BOOLEAN
        /\ events' \in Seq(Completions) /\ onAir' \in BOOLEAN /\ faults' \in Nat /\ faults' # 0
    <3>1. faults' \in Nat /\ faults' # 0
      BY <1>0, <1>5
    <3>2. events' \in Seq(Completions)
      BY <1>0, <1>5
    <3>3. onAir' = onAir /\ onAir \in BOOLEAN
      BY <1>0, <1>5
    <3>4. rename' = TRUE /\ reconfigure' = FALSE
      BY <1>5, Zenon
    <3>5. rename' /\ rename' \in BOOLEAN /\ ~reconfigure' /\ reconfigure' \in BOOLEAN
      BY <3>4, Zenon
    <3>6. onAir' \in BOOLEAN
      BY <3>3, Zenon
    <3> QED
      BY <3>1, <3>2, <3>5, <3>6, Zenon
  <2>4. GapTypes' /\ Marks'
    BY <1>2, <2>2, <2>3 DEF GapTypes, Marks
  <2> QED
    BY <2>3, <2>4 DEF NameInv, Unmarked
<1> QED
  BY <1>3, <1>4, <1>5 DEF UpdateName

LEMMA MaintainKept ==
  ASSUME NameInv, Maintain PROVE NameInv'
<1> DEFINE again == reconfigure /\ Recovery(health) # "Retry"
<1>0. /\ UNCHANGED <<epoch, name>> /\ epoch \in Nat /\ events \in Seq(Completions) /\ faults \in Nat
      /\ onAir \in BOOLEAN /\ rename \in BOOLEAN /\ health \in Health /\ again \in BOOLEAN
      /\ Connected' = Connected
  BY DEF Maintain, NameInv, GapTypes, Connected
<1>1. CASE ~Connected /\ rename /\ CanUpdateName(Recovering)
  <2>1. UpdateName(Recovering, again)
    BY <1>1 DEF Maintain, Recovering
  <2> QED
    BY <1>0, <1>1, <2>1, UpdateKept
<1>2. CASE ~(~Connected /\ rename /\ CanUpdateName(Recovering))
  <2>1. /\ UNCHANGED <<rename, bdName>> /\ reconfigure' = again
        /\ IF Recovery(health) = "Renew" \/ (Recovery(health) = "Retry" /\ ~rename)
           THEN \E o \in Outcomes(Recovering) :
                  Issue(IF Recovery(health) = "Renew" THEN "Start" ELSE "Configure", Recovering, events, o)
           ELSE NoIssue(Recovering, events)
    BY <1>2 DEF Maintain, Recovering
  <2>2. reconfigure' \in BOOLEAN /\ (reconfigure' <=> reconfigure /\ Recovery(health) # "Retry")
    BY <1>0, <2>1
  <2> HIDE DEF again
  <2>3. CASE Recovery(health) = "Renew"
    <3>1. /\ Recovering = health /\ health.pending = Nothing /\ ~rename /\ health.active /\ ~Connected
      BY <2>3, RecoveryFacts
    <3>2. PICK o \in Outcomes(health) : Issue("Start", health, events, o)
      BY <2>1, <2>3, <3>1
    <3>3. o \in {"accepted", "fails", "refused"}
      BY <1>0, <3>1, <3>2, OutcomeFacts
    <3>4. /\ health' \in Health /\ events' \in Seq(Completions) /\ onAir' \in BOOLEAN /\ faults' \in Nat
          /\ advName' = advName /\ faults' >= faults /\ (faults' = 0 => faults = 0 /\ o = "accepted")
          /\ o = "accepted" =>
               /\ events' = Append(events, [op |-> "Start", ok |-> TRUE])
               /\ health'.pending = "Start" /\ health'.active = health.active /\ ~health'.due
      BY <1>0, <3>2, <3>3, StartFacts
    <3>5. ~reconfigure /\ ~reconfigure'
      BY <2>2, <3>1 DEF NameInv, Marks, Nothing
    <3>6. GapTypes' /\ Marks'
      BY <1>0, <2>1, <2>2, <3>1, <3>4, <3>5 DEF NameInv, GapTypes, Marks
    <3>7. faults' = 0 => Undisturbed'
      <4>1. SUFFICES ASSUME faults' = 0 PROVE Undisturbed'
        OBVIOUS
      <4>2. Undisturbed /\ InFlight(events, Nothing)
        BY <3>1, <3>4, <4>1 DEF NameInv, Undisturbed
      <4>3. InFlight(events', "Start")
        BY <1>0, <3>4, <4>1, <4>2, AppendInFlight DEF Operations
      <4> QED
        BY <2>1, <3>4, <3>5, <4>1, <4>2, <4>3 DEF Undisturbed, Nothing
    <3>8. faults' <= 1 => ~Unmarked'
      BY <1>0, <2>1, <3>1, <3>4, <3>5 DEF NameInv, Unmarked, OffTheAir
    <3> QED
      BY <3>6, <3>7, <3>8 DEF NameInv
  <2>4. CASE Recovery(health) = "Retry" /\ ~rename
    <3>1. /\ Recovering \in Health /\ Recovering.pending = Nothing /\ ~Recovering.active /\ ~Connected
          /\ health.due /\ (health.pending = Nothing => ~health.active)
      BY <2>4, RecoveryFacts
    <3>2. PICK o \in Outcomes(Recovering) : Issue("Configure", Recovering, events, o)
      BY <2>1, <2>4
    <3>3. o \in {"accepted", "fails", "refused"}
      BY <3>1, <3>2, OutcomeFacts
    <3>4. /\ health' \in Health /\ events' \in Seq(Completions) /\ onAir' = onAir /\ faults' \in Nat
          /\ ~health'.active /\ health'.pending \in {Nothing, "Configure"}
          /\ o = "accepted" =>
               /\ events' = Append(events, [op |-> "Configure", ok |-> TRUE])
               /\ advName' = bdName' /\ faults' = faults /\ health'.pending = "Configure" /\ ~health'.due
          /\ o = "fails" => events' = Append(events, [op |-> "Configure", ok |-> FALSE]) /\ advName' = advName
          /\ o = "refused" => events' = events /\ advName' = advName
          /\ o # "accepted" => faults' = faults + 1
      BY <1>0, <3>1, <3>2, <3>3, IssueFacts DEF Operations
    <3>5. GapTypes' /\ Marks'
      BY <1>0, <2>1, <2>2, <2>4, <3>1, <3>4 DEF NameInv, GapTypes, Marks
    <3>6. faults = 0 => /\ InFlight(events, Nothing) /\ ~onAir /\ advName = bdName
      <4>1. faults = 0 => Undisturbed /\ health.pending = Nothing /\ ~reconfigure
        BY <3>1 DEF NameInv, Undisturbed, Marks, Nothing
      <4> QED
        BY <2>4, <3>1, <4>1 DEF Undisturbed
    <3>7. faults' = 0 => Undisturbed'
      <4>1. SUFFICES ASSUME faults' = 0 PROVE Undisturbed'
        OBVIOUS
      <4>2. o = "accepted" /\ faults = 0
        BY <1>0, <3>4, <4>1
      <4>3. InFlight(events', "Configure")
        BY <1>0, <3>4, <3>6, <4>2, AppendInFlight DEF Operations
      <4> QED
        BY <3>4, <3>6, <4>2, <4>3 DEF Undisturbed, Nothing
    <3>8. faults' <= 1 => ~Unmarked'
      BY <1>0, <2>1, <3>3, <3>4, <3>6 DEF Unmarked
    <3> QED
      BY <3>5, <3>7, <3>8 DEF NameInv
  <2>5. CASE Recovery(health) = "None"
    <3>1. health' = health /\ events' = events /\ UNCHANGED <<advName, onAir, faults>> /\ reconfigure' = reconfigure
      BY <2>1, <2>2, <2>5, RecoveryFacts DEF NoIssue, NameInv, GapTypes
    <3> QED
      BY <1>0, <2>1, <3>1 DEF NameInv, GapTypes, Marks, Undisturbed, Unmarked, OffTheAir
  <2>6. CASE Recovery(health) = "Retry" /\ rename
    <3>1. /\ Recovering \in Health /\ ~Connected /\ health.due /\ health.pending # Nothing
      BY <2>6, RecoveryFacts
    <3>2. health' = Recovering /\ events' = events /\ UNCHANGED <<advName, onAir, faults>>
      BY <2>1, <2>6 DEF NoIssue
    <3>3. faults # 0
      BY <3>1 DEF NameInv, Undisturbed
    <3>4. GapTypes' /\ Marks'
      BY <1>0, <2>1, <2>2, <2>6, <3>1, <3>2 DEF NameInv, GapTypes, Marks
    <3> QED
      BY <2>1, <2>6, <3>2, <3>3, <3>4 DEF NameInv, Unmarked
  <2> QED
    BY <2>3, <2>4, <2>5, <2>6, RecoveryFacts
<1> QED
  BY <1>1, <1>2

-----------------------------------------------------------------------------
(* The name is changed, time passes, the controller misbehaves.                 *)
LEMMA EnvironmentKept ==
  ASSUME NameInv, GapEnvironment PROVE NameInv'
<1>0. /\ UNCHANGED <<epoch, bdName, advName, reconfigure>> /\ epoch \in Nat /\ events \in Seq(Completions)
      /\ faults \in Nat /\ health \in Health /\ onAir \in BOOLEAN /\ Connected' = Connected
  BY DEF GapEnvironment, Rename, FiveSeconds, Minute, Misbehave, air, NameInv, GapTypes, Connected
<1>1. CASE Rename
  <2>1. rename' = TRUE /\ UNCHANGED <<health, events, onAir, faults>>
    BY <1>1 DEF Rename, air
  <2> QED
    BY <1>0, <2>1 DEF NameInv, GapTypes, Marks, Undisturbed, Unmarked
<1>2. CASE FiveSeconds
  <2>1. /\ ~Connected /\ health' = [health EXCEPT !.due = TRUE] /\ UNCHANGED <<rename, events, name, onAir>>
        /\ (events = <<>> /\ faults' = faults) \/ faults' = faults + 1
    BY <1>2 DEF FiveSeconds, air
  <2>2. health' \in Health /\ health'.pending = health.pending /\ health'.active = health.active
    BY <1>0, <2>1 DEF Health
  <2>3. GapTypes' /\ Marks'
    BY <1>0, <2>1, <2>2 DEF NameInv, GapTypes, Marks
  <2>4. faults' = 0 => Undisturbed'
    <3>1. faults' = 0 => faults = 0 /\ events = <<>>
      BY <1>0, <2>1
    <3>2. faults' = 0 => Undisturbed /\ health.pending = Nothing
      BY <3>1 DEF NameInv, Undisturbed, InFlight
    <3> QED
      BY <1>0, <2>1, <2>2, <3>2 DEF Undisturbed
  <2>5. faults' <= 1 /\ Unmarked' => OffTheAir'
    BY <1>0, <2>1, <2>2 DEF NameInv, Unmarked, OffTheAir
  <2> QED
    BY <2>3, <2>4, <2>5 DEF NameInv
<1>3. CASE Minute
  <2>1. UNCHANGED <<health, rename, events, name, onAir, faults>>
    BY <1>3 DEF Minute, air
  <2> QED
    BY <1>0, <2>1 DEF NameInv, GapTypes, Marks, Undisturbed, Unmarked, OffTheAir
<1>4. CASE Misbehave
  <2>1. /\ faults' = faults + 1 /\ UNCHANGED <<health, rename, name>>
        /\ \/ events # <<>> /\ events' = Tail(events) /\ onAir' = onAir
           \/ onAir /\ onAir' = FALSE /\ events' \in {events, Append(events, [op |-> "Stop", ok |-> TRUE])}
    BY <1>4 DEF Misbehave
  <2>2. [op |-> "Stop", ok |-> TRUE] \in Completions
    BY DEF Completions, Operations
  <2>3. GapTypes' /\ Marks'
    <3>1. CASE events # <<>> /\ events' = Tail(events) /\ onAir' = onAir
      <4>1. events' \in Seq(Completions)
        BY <1>0, <3>1, Tailed
      <4> QED
        BY <1>0, <2>1, <3>1, <4>1 DEF NameInv, GapTypes, Marks
    <3>2. CASE onAir /\ onAir' = FALSE /\ events' \in {events, Append(events, [op |-> "Stop", ok |-> TRUE])}
      <4>1. events' = events \/ events' = Append(events, [op |-> "Stop", ok |-> TRUE])
        BY <3>2
      <4>2. events' \in Seq(Completions)
        BY <1>0, <2>2, <4>1, Appended
      <4>3. ~onAir' /\ onAir' \in BOOLEAN
        BY <3>2, Zenon
      <4> QED
        BY <1>0, <2>1, <4>2, <4>3 DEF NameInv, GapTypes, Marks
    <3> QED
      BY <2>1, <3>1, <3>2
  <2>4. faults = 0 => ~Unmarked
    BY <1>0 DEF NameInv, Undisturbed, Unmarked
  <2>5. faults' # 0 /\ (faults' <= 1 => ~Unmarked')
    BY <1>0, <2>1, <2>4 DEF Unmarked
  <2> QED
    BY <2>3, <2>5 DEF NameInv
<1> QED
  BY <1>1, <1>2, <1>3, <1>4 DEF GapEnvironment

LEMMA NameStarts == Init => NameInv
<1> SUFFICES ASSUME Init PROVE NameInv
  OBVIOUS
<1>1. /\ epoch = 0 /\ rename = FALSE /\ reconfigure = FALSE /\ onAir = FALSE
      /\ health = [pending |-> "Configure", active |-> FALSE, backoff |-> FALSE, due |-> FALSE]
      /\ events = <<[op |-> "Configure", ok |-> TRUE]>> /\ name = 0 /\ bdName = 0 /\ advName = 0
      /\ faults \in Nat
  BY AdvertisingAssumption DEF Init, GapInit
<1>2. [op |-> "Configure", ok |-> TRUE] \in Completions /\ events \in Seq(Completions)
  BY <1>1 DEF Completions, Operations
<1>3. health \in Health /\ ~Connected
  BY <1>1 DEF Health, Operations, Connected
<1>4. GapTypes /\ Marks
  BY <1>1, <1>2, <1>3 DEF GapTypes, Marks
<1>5. InFlight(events, "Configure")
  BY <1>1 DEF InFlight
<1>6. Undisturbed /\ ~Unmarked
  BY <1>1, <1>5 DEF Undisturbed, Unmarked, Nothing
<1> QED
  BY <1>4, <1>6 DEF NameInv

LEMMA NameKept == NameInv /\ [Next]_vars => NameInv'
<1> SUFFICES ASSUME NameInv, [Next]_vars PROVE NameInv'
  OBVIOUS
<1>1. CASE UNCHANGED gapVars
  BY <1>1 DEF gapVars, air, NameInv, GapTypes, Marks, Undisturbed, Unmarked, OffTheAir, Connected
<1>2. CASE GapEvent
  BY <1>2, ConfigureDoneKept, StartDoneKept, StopDoneKept DEF GapEvent
<1>3. \/ UNCHANGED gapVars \/ GapEvent \/ GapConnect \/ GapDisconnect \/ Maintain \/ GapEnvironment
  BY DEF Next, Stack, Main, Environment, StackEvent, Connect, Disconnect, EnableNotify, Feed, FeedClaimed, FeedAppend,
         FeedEnqueue, TickBegins, ClearQueues, ClearSlots, Take, Handle, Send, vars
<1> QED
  BY <1>1, <1>2, <1>3, ConnectedKept, DisconnectedKept, MaintainKept, EnvironmentKept

LEMMA NameInvariant == Spec => []NameInv
<1> QED
  BY NameStarts, NameKept, PTL DEF Spec

(* What the device is on the air under is the name it was given last, unless     *)
(* a mark says that it is still to be given (the PENDING_GAP_NAME_UPDATE flag,    *)
(* or a stop that new data follow) - whatever operation failed, completion was    *)
(* lost or late, or however the controller stopped, if no more than one of these  *)
(* happened: what Discoverable needs besides that something is done in the end    *)
(* (mod.rs:436-456, 516-606, 1112-1190, advertising_health.rs:93-133).            *)
OnAirAsGiven == faults <= 1 /\ onAir /\ ~rename /\ ~reconfigure => advName = name

THEOREM NameOnAirIsGiven == Spec => []OnAirAsGiven
<1>1. NameInv => OnAirAsGiven
  BY DEF NameInv, Marks, Unmarked, OffTheAir, OnAirAsGiven
<1> QED
  BY <1>1, NameInvariant, PTL
=============================================================================
