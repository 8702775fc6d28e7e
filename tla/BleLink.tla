------------------------------ MODULE BleLink ------------------------------
(***************************************************************************)
(* The binary channel of the BLE service (src/src/ble_at/mod.rs): the task of *)
(* the Bluetooth stack connects and disconnects clients and assembles their    *)
(* writes into frames in static slots; the main loop takes complete frames,   *)
(* handles them, queues the answers and sends them in fragments.  The two      *)
(* share atomics and short locks; buffers of an ended connection are cleared  *)
(* by the main loop, which is told by a flag.  The stack uses connection       *)
(* numbers again, so a connection is known by CONNECTION_EPOCH alone.         *)
(*                                                                           *)
(* Advertising is that of BleAdvertising; both hear of every connection.  A   *)
(* message is two writes, its head and its tail.  Text lines (RX_BUFFER) and  *)
(* what a frame asks for are left out.                                        *)
(***************************************************************************)
EXTENDS BleAdvertising, SequencesExt

CONSTANTS
  SlotCount,     \* BLE_RX_SLOT_COUNT
  QueueSize,     \* usable places of BINARY_REQUESTS
  RingSize,      \* BLE_TX_SLOT_COUNT
  MaxWrites      \* bound: writes of clients

ASSUME LinkAssumption == {SlotCount, QueueSize, RingSize, MaxWrites} \subseteq Nat \ {0}

Slots  == 1 .. SlotCount
NoSlot == 0

VARIABLES
  slots,      \* BINARY_RX_SLOTS: state, conn_id set, epoch, bytes
  active,     \* ACTIVE_RX_SLOT
  requests,   \* BINARY_REQUESTS
  tx,         \* BINARY_TX: [epoch of who it is for, sent: fragments sent]
  notify,     \* TX_NOTIFY_ENABLED
  dirty,      \* CONNECTION_BUFFERS_DIRTY
  feeding,    \* the write the stack's task is in the middle of
  tick,       \* where the main loop is in process_tick
  job,        \* the slot it handles, and the connection when it began
  writes      \* writes so far

rx       == <<slots, active, requests, feeding, writes>>
mainVars == <<tick, job>>
linkVars == <<rx, tx, notify, dirty, mainVars>>
vars     == <<gapVars, linkVars>>

Free      == [state |-> "free", known |-> FALSE, epoch |-> 0, bytes |-> <<>>]
NoFeeding == [at |-> "idle", slot |-> NoSlot]
NoJob     == [slot |-> NoSlot, epoch |-> 0]
Message   == [epoch : Nat, number : Nat, part : {0, 1}]
Whole(bytes) ==
  /\ Len(bytes) = 2 /\ bytes[1].part = 0
  /\ bytes[2] = [bytes[1] EXCEPT !.part = 1]

Init ==
  /\ GapInit
  /\ slots = [i \in Slots |-> Free] /\ active = NoSlot /\ requests = <<>> /\ tx = <<>>
  /\ notify = FALSE /\ dirty = FALSE /\ feeding = NoFeeding /\ tick = "maintain" /\ job = NoJob
  /\ writes \in {0, MaxWrites}

Queued(ring, frame) == IF Len(ring) < RingSize THEN Append(ring, frame) ELSE ring
Answer(e) == [epoch |-> e, sent |-> 0]

-----------------------------------------------------------------------------
(* The stack's task, one callback after the other.                          *)

Idle == feeding = NoFeeding

(* CONNECT_EVT, with its heartbeat, which is dropped when the main loop has the  *)
(* lock of the ring.                                                        *)
Connect ==
  /\ Idle /\ GapConnect /\ writes' = writes + (writes % 2)
  /\ tx' = Queued(tx, Answer(epoch + 1)) \/ (tick \in {"clear", "handle", "send"} /\ tx' = tx)
  /\ UNCHANGED <<slots, active, requests, feeding, notify, dirty, mainVars>>

(* DISCONNECT_EVT.  Variant: nothing is said to the main loop when no frame    *)
(* is being assembled.                                                       *)
DisconnectQuietly ==
  /\ Idle /\ GapDisconnect /\ notify' = FALSE /\ dirty' = (dirty \/ active # NoSlot)
  /\ UNCHANGED <<rx, tx, mainVars>>

Disconnect ==
  /\ Idle /\ GapDisconnect /\ notify' = FALSE /\ dirty' = TRUE
  /\ UNCHANGED <<rx, tx, mainVars>>

(* The client writes 1 to the CCCD.                                          *)
EnableNotify ==
  /\ Idle /\ Connected /\ ~notify /\ notify' = TRUE
  /\ UNCHANGED <<gapVars, rx, tx, dirty, mainVars>>

(* try_feed_binary_protocol: find the slot being filled or claim a free one; one  *)
(* whose lock the main loop holds is passed over.                             *)
Releasing == tick \in {"release", "left"}

Feed ==
  /\ Idle /\ Connected /\ writes < MaxWrites /\ writes' = writes + 1
  /\ UNCHANGED <<gapVars, active, requests, tx, notify, dirty, mainVars>>
  /\ IF active # NoSlot
     THEN feeding' = [at |-> "append", slot |-> active] /\ UNCHANGED slots
     ELSE \E locked \in {NoSlot} \union (IF Releasing THEN Slots ELSE {}) :
          LET free == {i \in Slots \ {locked} : slots[i].state = "free"}
              i    == CHOOSE j \in free : \A k \in free : j <= k IN
          IF free = {} THEN UNCHANGED <<feeding, slots>>
          ELSE /\ feeding' = [at |-> "claimed", slot |-> i]
               /\ slots' = [slots EXCEPT ![i] =
                    [state |-> "assembling", known |-> TRUE, epoch |-> epoch, bytes |-> <<>>]]

FeedClaimed ==
  /\ feeding.at = "claimed" /\ feeding' = [feeding EXCEPT !.at = "append"] /\ active' = feeding.slot
  /\ UNCHANGED <<gapVars, slots, requests, writes, tx, notify, dirty, mainVars>>

(* The write is appended under the lock of the slot, or lost when the main loop  *)
(* has that, and the frame judged by its length.  A sequence that is not one    *)
(* message may have any length.                                              *)
FeedAppend ==
  LET i     == feeding.slot
      chunk == [epoch |-> epoch, number |-> (writes - 1) \div 2, part |-> (writes - 1) % 2]
      bytes == Append(slots[i].bytes, chunk)
      head  == Len(bytes) = 1 /\ chunk.part = 0 IN
  /\ feeding.at = "append" /\ UNCHANGED <<gapVars, requests, tx, notify, dirty, mainVars, writes>>
  /\ \/ Releasing /\ UNCHANGED <<active, slots>> /\ feeding' = NoFeeding
     \/ /\ ~Whole(bytes) /\ Len(bytes) < 3                        \* wait for more
        /\ slots' = [slots EXCEPT ![i].bytes = bytes] /\ UNCHANGED active /\ feeding' = NoFeeding
     \/ /\ ~head                                                  \* complete
        /\ active' = NoSlot /\ feeding' = [feeding EXCEPT !.at = "enqueue"]
        /\ slots' = [slots EXCEPT ![i].bytes = bytes, ![i].state = "ready"]
     \/ /\ ~Whole(bytes) /\ ~head                                 \* too long or bad length
        /\ active' = NoSlot /\ slots' = [slots EXCEPT ![i] = Free] /\ feeding' = NoFeeding

FeedEnqueue ==
  LET i == feeding.slot IN
  /\ feeding.at = "enqueue" /\ feeding' = NoFeeding
  /\ IF Len(requests) < QueueSize
     THEN requests' = Append(requests, i) /\ UNCHANGED slots
     ELSE slots' = [slots EXCEPT ![i] = Free] /\ UNCHANGED requests
  /\ UNCHANGED <<gapVars, active, tx, notify, dirty, mainVars, writes>>

StackEvent == GapEvent /\ Idle /\ UNCHANGED linkVars

Stack == StackEvent \/ Connect \/ Disconnect \/ EnableNotify \/ Feed \/ FeedClaimed \/ FeedAppend \/ FeedEnqueue

-----------------------------------------------------------------------------
(* process_tick                                                             *)

(* maintain_advertising, and the flag taken.                                  *)
TickBegins ==
  /\ tick = "maintain" /\ Maintain
  /\ dirty' = FALSE /\ tick' = IF dirty THEN "clear" ELSE "take"
  /\ UNCHANGED <<rx, tx, notify, job>>

(* The ring, ACTIVE_RX_SLOT and the queue are cleared.  While the stack's task is  *)
(* in CONNECT_EVT or has the text buffer, something is left for the next tick ...  *)
ClearQueues ==
  /\ tick = "clear" /\ active' = NoSlot /\ requests' = <<>>
  /\ \/ tick' = "release" /\ tx' = <<>>
     \/ Idle /\ Connected /\ tick' = "left" /\ tx' \in {tx, <<>>}
  /\ UNCHANGED <<gapVars, slots, feeding, writes, notify, dirty, job>>

(* ... then the slots; one whose lock the stack's task holds is left as well.    *)
ClearSlots ==
  \E held \in SUBSET (IF feeding.at \in {"claimed", "append"} THEN {feeding.slot} ELSE {}) :
    /\ Releasing /\ tick' = "take"
    /\ slots' = [i \in Slots |-> IF i \in held THEN slots[i] ELSE Free]
    /\ dirty' = (dirty \/ held # {} \/ tick = "left")
    /\ UNCHANGED <<gapVars, active, requests, feeding, writes, tx, notify, job>>

(* Variant: a request of an ended connection keeps its slot.                  *)
LeaveStale(i) == slots

FreeStale(i) == [slots EXCEPT ![i] = Free]

(* Variant: the connection is known by its number alone.                      *)
CurrentNumber(i) == slots[i].known

Current(i) == slots[i].known /\ slots[i].epoch = epoch

(* process_binary_request_slot: an entry whose slot is not ready is nothing.   *)
Take ==
  /\ tick = "take" /\ UNCHANGED <<gapVars, active, feeding, writes, tx, notify, dirty>>
  /\ IF ~Connected THEN tick' = "maintain" /\ UNCHANGED <<job, slots, requests>>
     ELSE IF requests = <<>> THEN tick' = "send" /\ UNCHANGED <<job, slots, requests>>
     ELSE LET i == Head(requests) IN
          /\ requests' = Tail(requests)
          /\ IF slots[i].state # "ready" THEN tick' = "send" /\ UNCHANGED <<job, slots>>
             ELSE IF ~Current(i) THEN tick' = "send" /\ slots' = FreeStale(i) /\ UNCHANGED job
             ELSE /\ tick' = "handle" /\ job' = [slot |-> i, epoch |-> epoch]
                  /\ slots' = [slots EXCEPT ![i].state = "processing"]

(* try_handle_binary_protocol: a frame with a bad CRC is not answered; the     *)
(* answer goes into the ring whoever is connected by then, unless the stack's   *)
(* task has the lock.                                                       *)
Handle ==
  /\ tick = "handle" /\ tick' = "send" /\ job' = NoJob
  /\ tx' \in {tx} \union (IF Whole(slots[job.slot].bytes) THEN {Queued(tx, Answer(job.epoch))} ELSE {})
  /\ slots' = [slots EXCEPT ![job.slot] = Free]
  /\ UNCHANGED <<gapVars, active, requests, feeding, writes, notify, dirty>>

(* The heartbeat of every ten seconds, then send_next_notification: one of the *)
(* two fragments of the first frame; a congested or refusing stack leaves it.  *)
Send ==
  /\ tick = "send" /\ tick' = "maintain" /\ UNCHANGED <<gapVars, rx, notify, dirty, job>>
  /\ \E ring \in {tx} \union (IF notify THEN {Queued(tx, Answer(epoch))} ELSE {}) :
       \/ tx' = ring
       \/ /\ notify /\ ring # <<>>
          /\ tx' = IF Head(ring).sent = 1 THEN Tail(ring) ELSE [ring EXCEPT ![1].sent = 1]

Main == TickBegins \/ ClearQueues \/ ClearSlots \/ Take \/ Handle \/ Send

Environment == GapEnvironment /\ UNCHANGED linkVars

Next == Stack \/ Main \/ Environment

(* The stack's task and the main loop run; time passes.  Clients need not     *)
(* write, nor stay, nor come.                                               *)
Fairness ==
  /\ WF_vars(Main) /\ WF_vars(StackEvent \/ FeedClaimed \/ FeedAppend \/ FeedEnqueue)
  /\ WF_vars(FiveSeconds /\ UNCHANGED linkVars) /\ WF_vars(Minute /\ UNCHANGED linkVars)

Spec == Init /\ [][Next]_vars /\ Fairness

-----------------------------------------------------------------------------
(* No slot is lost: one that is not free is being filled, queued, handled, in  *)
(* the hands of the stack's task, or will be freed with the rest of an ended   *)
(* connection (mod.rs:1590-1736).                                            *)
SlotsComeBack ==
  \A i \in Slots : slots[i].state # "free" =>
    \/ i = active \/ i \in ToSet(requests) \/ i = job.slot \/ i = feeding.slot
    \/ dirty \/ tick = "clear" \/ Releasing

(* What is handed to the handler is what the client wrote that was connected   *)
(* at that moment, all of it and in its slot to the end (CONNECTION_EPOCH,     *)
(* mod.rs:96-97, 1638-1665).                                                 *)
HandledIsOwn ==
  tick = "handle" =>
    /\ slots[job.slot].state = "processing" /\ slots[job.slot].bytes # <<>>
    /\ \A k \in DOMAIN slots[job.slot].bytes : slots[job.slot].bytes[k].epoch = job.epoch

(* An answer to a client that has gone stays in the ring only while the flag    *)
(* is up that makes the main loop clear the ring, or about to be put up again    *)
(* because the ring could not be cleared (mod.rs:831-858, 1213-1232).           *)
OldAnswersAreMarked ==
  dirty \/ tick \in {"clear", "left"} \/ \A k \in DOMAIN tx : tx[k].epoch = epoch

(* What the connection epoch is for (mod.rs:104): no client is sent the queued    *)
(* answer of an earlier one.  It is not so, see section 5 of the README.         *)
SentToItsOwn ==
  tick = "send" /\ notify /\ tx # <<>> => Head(tx).epoch = epoch
=============================================================================
