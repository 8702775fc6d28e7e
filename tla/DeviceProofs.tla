---------------------------- MODULE DeviceProofs ----------------------------
(***************************************************************************)
(* Proofs about the two halves of the device.                              *)
(*                                                                         *)
(* The outputs (OutputPath): no notified change is overlooked, no expired    *)
(* edge is replayed after a fault and a readback that is reported with an    *)
(* empty queue is the newest target, for any writers, banks, size of the     *)
(* queue, writes and faults.                                                *)
(*                                                                         *)
(* The saves (DeviceActor): a confirmation and a planned restart mean that   *)
(* everything acknowledged before is in flash, for any clients, images and   *)
(* mailbox.  The argument: only the client that holds the wait slot has a    *)
(* ticket that can still be confirmed, that ticket is the last one in the    *)
(* mailbox, and once the actor serves it no other ticket follows till its    *)
(* client leaves.  What is owed for it is still in the actor's list or saved. *)
(***************************************************************************)
EXTENDS OutputPath, DeviceActor, TLAPS

-----------------------------------------------------------------------------
(* The inductive invariant                                                 *)

(* Once the worker has looked at the queue, or if there was no fault, the     *)
(* queue holds nothing that was replaced before the last fault.              *)
NothingExpired ==
  /\ barred <= latest.generation
  /\ ~ failed \/ worker # "idle" =>
       \A i \in 1 .. Len(queue) : queue[i].generation >= barred
  /\ worker \notin {"idle", "check"} => command.generation >= barred

(* What the worker writes is the front of the queue, and stays there till it  *)
(* is confirmed.                                                           *)
WorksOnFront ==
  worker \in {"write", "verify", "confirm"} => queue # <<>> /\ queue[1] = command

(* A recovery writes the newest target as long as nothing is queued.         *)
RecoversNewest ==
  worker \in {"rewrite", "reverify"} /\ queue = <<>> => command = latest

ConfirmsWritten == worker = "confirm" /\ ~ lost => registers = command.bits

IInv ==
  /\ TypeOK
  /\ NothingMissed
  /\ NothingExpired
  /\ WorksOnFront
  /\ RecoversNewest
  /\ ConfirmsWritten
  /\ EmptyMeansWritten

-----------------------------------------------------------------------------
(* The queue                                                               *)

(* What TypeOK says of the queue, with its last element written out.         *)
LEMMA QueueFacts ==
  ASSUME TypeOK
  PROVE  /\ queue \in Seq(Command) /\ Len(queue) \in Nat /\ Len(queue) <= QueueSize
         /\ latest \in Command /\ latest.generation \in Nat /\ latest.bits \in Bitmaps
         /\ \A i \in 1 .. Len(queue) :
              /\ queue[i] \in Command /\ queue[i].generation \in Nat
              /\ queue[i].generation = latest.generation - (Len(queue) - i)
         /\ queue # <<>> => Len(queue) >= 1 /\ queue[Len(queue)] = latest
<1>1. queue \in Seq(Command) /\ Len(queue) \in Nat
  BY DEF TypeOK
<1>2. \A i \in 1 .. Len(queue) : queue[i] \in Command
  BY <1>1
<1>3. \A r \in Command : r.generation \in Nat /\ r.bits \in Bitmaps
  BY DEF Command
<1>4. queue # <<>> => Len(queue) >= 1
  BY <1>1
<1> QED
  BY <1>1, <1>2, <1>3, <1>4 DEF TypeOK, Last

(* The numbers stay consecutive, and the queue ends in the newest target,     *)
(* whatever is retained, ...                                               *)
LEMMA RetainedFacts ==
  ASSUME TypeOK
  PROVE  /\ Retained \in Seq(Command) /\ Len(Retained) <= QueueSize
         /\ \A i \in 1 .. Len(Retained) :
              Retained[i].generation = latest.generation - (Len(Retained) - i)
         /\ queue # <<>> <=> Retained # <<>>
         /\ Retained # <<>> => /\ Len(Retained) \in Nat \ {0}
                               /\ Last(Retained) = latest
                               /\ Retained[1] \in Command
                               /\ Head(Retained) = Retained[1]
         /\ failed => \A i \in 1 .. Len(Retained) : Retained[i] = latest
         /\ ~ failed => Retained = queue
<1>1. CASE failed /\ queue # <<>>
  <2>1. Retained = <<latest>>
    BY <1>1 DEF Retained
  <2>2. /\ <<latest>> \in Seq(Command) /\ Len(<<latest>>) = 1 /\ <<latest>>[1] = latest
        /\ Head(<<latest>>) = latest /\ Last(<<latest>>) = latest /\ <<latest>> # <<>>
    BY QueueFacts DEF Last
  <2> QED
    BY <1>1, <2>1, <2>2, QueueFacts, BoundsAssumption
<1>2. CASE ~ (failed /\ queue # <<>>)
  <2>1. Retained = queue
    BY <1>2 DEF Retained
  <2>2. queue # <<>> => Len(queue) \in Nat \ {0} /\ queue[1] \in Command /\ Head(queue) = queue[1]
    BY QueueFacts
  <2>3. queue = <<>> => Len(queue) = 0
    OBVIOUS
  <2> QED
    BY <1>2, <2>1, <2>2, <2>3, QueueFacts DEF TypeOK
<1> QED
  BY <1>1, <1>2

(* ... appended ...                                                        *)
LEMMA EnqueueFacts ==
  ASSUME TypeOK, NEW bits \in Bitmaps, ~ Full(bits), Enqueue(bits)
  PROVE  /\ queue' \in Seq(Command) /\ Len(queue') <= QueueSize
         /\ latest' \in Command /\ latest'.generation >= latest.generation
         /\ \A i \in 1 .. Len(queue') :
              queue'[i].generation = latest'.generation - (Len(queue') - i)
         /\ queue' # <<>> => Last(queue') = latest'
         /\ queue # <<>> => queue' # <<>> /\ queue'[1] = queue[1]
         /\ queue' = <<>> => latest' = latest /\ queue = <<>>
         /\ \A i \in 1 .. Len(queue') :
              queue'[i] = latest' \/ (i \in 1 .. Len(queue) /\ queue'[i] = queue[i])
<1>1. CASE bits = latest.bits
  <2>1. queue' = queue /\ latest' = latest
    BY <1>1 DEF Enqueue, fifo
  <2> QED
    BY <2>1, QueueFacts DEF TypeOK
<1>2. CASE bits # latest.bits
  <2> DEFINE fresh == [generation |-> latest.generation + 1, bits |-> bits]
  <2>1. queue' = Append(queue, fresh) /\ latest' = fresh
    BY <1>2 DEF Enqueue
  <2>2. fresh \in Command /\ fresh.generation = latest.generation + 1
    BY QueueFacts DEF Command
  <2>3. Len(queue) # QueueSize
    BY <1>2 DEF Full
  <2> HIDE DEF fresh
  <2>4. /\ queue' \in Seq(Command) /\ Len(queue') = Len(queue) + 1
        /\ queue'[Len(queue) + 1] = fresh
        /\ \A i \in 1 .. Len(queue) : queue'[i] = queue[i]
        /\ queue' # <<>>
    BY <2>1, <2>2, QueueFacts
  <2>5. Len(queue') <= QueueSize
    BY <2>3, <2>4, QueueFacts, BoundsAssumption
  <2>6. ASSUME NEW i \in 1 .. Len(queue')
        PROVE  queue'[i].generation = latest'.generation - (Len(queue') - i)
    <3>1. CASE i = Len(queue) + 1
      BY <2>1, <2>2, <2>4, <3>1, QueueFacts
    <3>2. CASE i \in 1 .. Len(queue)
      BY <2>1, <2>2, <2>4, <3>2, QueueFacts
    <3> QED
      BY <2>4, <3>1, <3>2, QueueFacts
  <2>7. \A i \in 1 .. Len(queue') :
          queue'[i] = latest' \/ (i \in 1 .. Len(queue) /\ queue'[i] = queue[i])
    <3> TAKE i \in 1 .. Len(queue')
    <3>1. i = Len(queue) + 1 \/ i \in 1 .. Len(queue)
      BY <2>4, QueueFacts
    <3> QED
      BY <2>1, <2>4, <3>1
  <2>8. queue # <<>> => queue'[1] = queue[1]
    BY <2>4, QueueFacts
  <2>9. Last(queue') = latest'
    BY <2>1, <2>4 DEF Last
  <2>10. latest' \in Command /\ latest'.generation >= latest.generation
    BY <2>1, <2>2, QueueFacts
  <2> QED
    BY <2>4, <2>5, <2>6, <2>7, <2>8, <2>9, <2>10
<1> QED
  BY <1>1, <1>2

(* ... or confirmed.                                                       *)
LEMMA TailFacts ==
  ASSUME TypeOK, queue # <<>>
  PROVE  /\ Tail(queue) \in Seq(Command) /\ Len(Tail(queue)) = Len(queue) - 1
         /\ \A i \in 1 .. Len(Tail(queue)) :
              /\ Tail(queue)[i] = queue[i + 1]
              /\ Tail(queue)[i].generation = latest.generation - (Len(Tail(queue)) - i)
         /\ Tail(queue) # <<>> => Last(Tail(queue)) = latest
         /\ Tail(queue) = <<>> => queue[1] = latest
         /\ Head(queue) = queue[1]
<1>1. /\ Tail(queue) \in Seq(Command) /\ Len(Tail(queue)) = Len(queue) - 1
      /\ \A i \in 1 .. Len(Tail(queue)) : Tail(queue)[i] = queue[i + 1]
      /\ Head(queue) = queue[1]
  BY QueueFacts
<1>2. \A i \in 1 .. Len(Tail(queue)) :
        Tail(queue)[i].generation = latest.generation - (Len(Tail(queue)) - i)
  BY <1>1, QueueFacts
<1>3. Tail(queue) # <<>> => Last(Tail(queue)) = latest
  <2> SUFFICES ASSUME Tail(queue) # <<>> PROVE Last(Tail(queue)) = latest
    OBVIOUS
  <2>1. Len(Tail(queue)) \in 1 .. Len(Tail(queue)) /\ Len(Tail(queue)) + 1 = Len(queue)
    BY <1>1, QueueFacts
  <2> QED
    BY <1>1, <2>1, QueueFacts DEF Last
<1>4. Tail(queue) = <<>> => queue[1] = latest
  <2> SUFFICES ASSUME Tail(queue) = <<>> PROVE queue[1] = latest
    OBVIOUS
  <2>1. Len(<<>>) = 0
    OBVIOUS
  <2>2. Len(Tail(queue)) = 0
    BY <2>1, Zenon
  <2>3. Len(queue) - 1 = 0
    BY <1>1, <2>2, Zenon
  <2>4. Len(queue) = 1
    BY <2>3, QueueFacts
  <2> QED
    BY <2>4, QueueFacts
<1> QED
  BY <1>1, <1>2, <1>3, <1>4

-----------------------------------------------------------------------------
(* Types                                                                   *)

LEMMA InitIInv == Init => IInv
<1> SUFFICES ASSUME Init PROVE IInv
  OBVIOUS
<1>1. NoCommand \in Command /\ NoCommand.generation = 0 /\ NoCommand.bits = {}
  BY DEF NoCommand, Command, Bitmaps
<1>2. <<>> \in Seq(Command) /\ Len(<<>>) = 0
  OBVIOUS
<1>3. TypeOK
  <2>1. /\ latest \in Command /\ command \in Command
        /\ queue \in Seq(Command) /\ Len(queue) <= QueueSize
        /\ \A i \in 1 .. Len(queue) :
             queue[i].generation = latest.generation - (Len(queue) - i)
        /\ queue # <<>> => Last(queue) = latest
    BY <1>1, <1>2, BoundsAssumption DEF Init
  <2>2. {} \in Bitmaps /\ Banks \in Bitmaps
    BY DEF Bitmaps
  <2>3. readback \in [valid : BOOLEAN, bits : Bitmaps]
    BY <2>2 DEF Init
  <2>4. {dirty, backoff, failed, lost} \subseteq BOOLEAN
    <3>1. dirty \in BOOLEAN /\ backoff = FALSE /\ failed = FALSE /\ lost = FALSE
      BY DEF Init
    <3> QED
      BY <3>1
  <2>5. {barred, writes, faults} \subseteq Nat
    BY DEF Init
  <2> QED
    BY <2>1, <2>2, <2>3, <2>4, <2>5 DEF Init, TypeOK
<1>4. NothingMissed
  BY DEF Init, NothingMissed
<1> QED
  BY <1>1, <1>2, <1>3, <1>4
  DEF Init, IInv, NothingExpired, WorksOnFront, RecoversNewest, ConfirmsWritten,
      EmptyMeansWritten

(* What TypeOK says of the two ends of the queue, in the next state.         *)
QueueOK ==
  /\ queue \in Seq(Command) /\ Len(queue) <= QueueSize
  /\ \A i \in 1 .. Len(queue) : queue[i].generation = latest.generation - (Len(queue) - i)
  /\ queue # <<>> => Last(queue) = latest

LEMMA WrittenType == ASSUME TypeOK, NEW n PROVE Written(n) \in Bitmaps
BY DEF Written, Bitmaps

LEMMA TypeStep == TypeOK /\ [Next]_vars => TypeOK'
<1> SUFFICES ASSUME TypeOK, [Next]_vars PROVE TypeOK'
  OBVIOUS
<1> USE BoundsAssumption
<1>0. MayFault => faults' \in Nat
  BY DEF MayFault, TypeOK
<1>1. ASSUME NEW w \in Writers, NEW bits \in Bitmaps, WriteCoil(w, bits) PROVE TypeOK'
  BY <1>1 DEF TypeOK, WriteCoil, loop, fifo, task, chips
<1>2. ASSUME NEW w \in Writers, Notify(w) PROVE TypeOK'
  BY <1>2 DEF TypeOK, Notify, loop, fifo, task, chips
<1>3. CASE TakeDirty
  BY <1>3 DEF TypeOK, TakeDirty, fifo, task, chips
<1>4. CASE EndBackoff
  BY <1>4 DEF TypeOK, EndBackoff, mem, fifo, task, chips
<1>5. CASE Load
  BY <1>5 DEF TypeOK, Load, mem, fifo, task, chips
<1>6. CASE Submit
  <2>1. /\ QueueOK' /\ latest' \in Command
        /\ last' \in Bitmaps \union {NoBits}
        /\ {dirty, backoff}' \subseteq BOOLEAN
        /\ faults' \in Nat
    <3>1. CASE Accept
      <4>1. target \in Bitmaps /\ ~ Full(target) /\ Enqueue(target)
        BY <3>1 DEF Accept, TypeOK
      <4>2. QueueOK' /\ latest' \in Command
        BY <4>1, EnqueueFacts DEF QueueOK
      <4> QED
        BY <3>1, <4>2 DEF Accept, TypeOK
    <3>2. CASE Refuse
      BY <1>0, <3>2 DEF Refuse, TypeOK, QueueOK, fifo
    <3> QED
      BY <1>6, <3>1, <3>2 DEF Submit
  <2> QED
    BY <1>6, <2>1 DEF Submit, TypeOK, QueueOK, task, chips, Bitmaps
<1>7. CASE TooEarly
  <2>1. QueueOK'
    BY <1>7, RetainedFacts DEF TooEarly, QueueOK
  <2> QED
    BY <1>7, <2>1 DEF TooEarly, TypeOK, QueueOK, mem, loop, task, chips
<1>8. CASE Take
  <2>1. QueueOK'
    BY <1>8, RetainedFacts DEF Take, QueueOK
  <2>2. command' \in Command /\ worker' \in {"check", "write"}
    BY <1>8, RetainedFacts DEF Take, TypeOK
  <2> QED
    BY <1>8, <2>1, <2>2 DEF Take, TypeOK, QueueOK, mem, loop, chips
<1>9. CASE Check
  <2>1. /\ readback' \in [valid : BOOLEAN, bits : Bitmaps]
        /\ {lost, failed}' \subseteq BOOLEAN
        /\ worker' \in {"idle", "rewrite"} /\ command' \in Command
    <3>1. CASE registers = latest.bits
      <4>1. readback' = [valid |-> TRUE, bits |-> registers] /\ registers \in Bitmaps
        BY <1>9, <3>1 DEF TypeOK, Check
      <4>2. readback' \in [valid : BOOLEAN, bits : Bitmaps]
        BY <4>1
      <4> QED
        BY <1>9, <3>1, <4>2 DEF TypeOK, Check
    <3>2. CASE registers # latest.bits
      <4>1. UNCHANGED <<readback, lost, failed>> /\ worker' = "rewrite" /\ command' = latest
        BY <1>9, <3>2 DEF Check
      <4> QED
        BY <4>1 DEF TypeOK
    <3> QED
      BY <3>1, <3>2
  <2> QED
    BY <1>9, <2>1 DEF TypeOK, Check, mem, loop, fifo
<1>10. CASE WriteRegisters
  BY <1>10, WrittenType DEF TypeOK, WriteRegisters, mem, loop, fifo
<1>11. NoCommand \in Command
  BY DEF NoCommand, Command, Bitmaps
<1>12. CASE Verify
  BY <1>11, <1>12 DEF TypeOK, Verify, mem, loop, fifo
<1>13. CASE Confirm
  <2>1. QueueOK'
    <3>1. CASE queue # <<>> /\ Head(queue) = command
      <4>1. queue' = Tail(queue) /\ latest' = latest
        BY <1>13, <3>1 DEF Confirm
      <4>2. Len(Tail(queue)) <= QueueSize
        BY <3>1, TailFacts, QueueFacts
      <4> QED
        BY <3>1, <4>1, <4>2, TailFacts DEF QueueOK
    <3>2. CASE ~ (queue # <<>> /\ Head(queue) = command)
      BY <1>13, <3>2 DEF Confirm, TypeOK, QueueOK
    <3> QED
      BY <3>1, <3>2
  <2> QED
    BY <1>11, <1>13, <2>1 DEF TypeOK, QueueOK, Confirm, mem, loop, chips
<1>14. CASE Fail
  <2>1. registers' \in Bitmaps /\ faults' \in Nat
    BY <1>0, <1>14, WrittenType DEF Fail, TypeOK
  <2>2. barred' \in Nat
    BY <1>14, QueueFacts DEF Fail
  <2> QED
    BY <1>11, <1>14, <2>1, <2>2 DEF TypeOK, Fail, mem, loop, fifo
<1>15. ASSUME NEW b \in Banks, ResetChip(b) PROVE TypeOK'
  BY <1>0, <1>15 DEF TypeOK, ResetChip, mem, loop, fifo, task, Bitmaps
<1>16. CASE UNCHANGED vars
  BY <1>16 DEF TypeOK, vars, mem, loop, fifo, task, chips
<1> QED
  BY <1>1, <1>2, <1>3, <1>4, <1>5, <1>6, <1>7, <1>8, <1>9, <1>10, <1>12, <1>13, <1>14,
     <1>15, <1>16
  DEF Next, MainLoop, Worker

-----------------------------------------------------------------------------
(* The flag and the submission                                             *)

LEMMA MissedStep == TypeOK /\ NothingMissed /\ [Next]_vars => NothingMissed'
<1> SUFFICES ASSUME TypeOK, NothingMissed, [Next]_vars PROVE NothingMissed'
  OBVIOUS
<1>1. ASSUME NEW w \in Writers, NEW bits \in Bitmaps, WriteCoil(w, bits) PROVE NothingMissed'
  BY <1>1 DEF NothingMissed, WriteCoil
<1>2. ASSUME NEW w \in Writers, Notify(w) PROVE NothingMissed'
  BY <1>2 DEF NothingMissed, Notify
<1>3. CASE TakeDirty
  BY <1>3 DEF NothingMissed, TakeDirty
<1>4. CASE EndBackoff
  BY <1>4 DEF NothingMissed, EndBackoff, mem
<1>5. CASE Load
  BY <1>5 DEF NothingMissed, Load, mem
<1>6. CASE Submit
  BY <1>6 DEF NothingMissed, Submit, Accept, Refuse
<1>7. CASE Worker
  BY <1>7 DEF NothingMissed, Worker, TooEarly, Take, Check, WriteRegisters, Verify, Confirm,
              Fail, mem, loop
<1>8. ASSUME NEW b \in Banks, ResetChip(b) PROVE NothingMissed'
  BY <1>8 DEF NothingMissed, ResetChip, mem, loop
<1>9. CASE UNCHANGED vars
  BY <1>9 DEF NothingMissed, vars, mem, loop
<1> QED
  BY <1>1, <1>2, <1>3, <1>4, <1>5, <1>6, <1>7, <1>8, <1>9 DEF Next, MainLoop

-----------------------------------------------------------------------------
(* The queue and the worker                                                *)

WorkerInv ==
  NothingExpired /\ WorksOnFront /\ RecoversNewest /\ ConfirmsWritten /\ EmptyMeansWritten

(* A step that leaves alone what the invariant speaks of.                    *)
LEMMA WorkerStutter ==
  ASSUME WorkerInv, UNCHANGED <<fifo, task, registers, lost>>
  PROVE  WorkerInv'
BY DEF WorkerInv, NothingExpired, WorksOnFront, RecoversNewest, ConfirmsWritten,
       EmptyMeansWritten, fifo, task

LEMMA SubmitStep == ASSUME TypeOK, WorkerInv, Submit PROVE WorkerInv'
<1>1. UNCHANGED <<task, registers, lost>>
  BY DEF Submit, chips
<1>2. CASE Refuse
  BY <1>1, <1>2, WorkerStutter DEF Refuse
<1>3. CASE Accept
  <2> DEFINE Queued == /\ latest'.generation >= latest.generation
                       /\ queue # <<>> => queue' # <<>> /\ queue'[1] = queue[1]
                       /\ queue' = <<>> => latest' = latest /\ queue = <<>>
                       /\ \A i \in 1 .. Len(queue') :
                            queue'[i] = latest' \/ (i \in 1 .. Len(queue) /\ queue'[i] = queue[i])
  <2>1. Queued /\ latest' \in Command
    BY <1>3, EnqueueFacts DEF Accept, TypeOK
  <2>2. barred \in Nat /\ latest.generation \in Nat /\ latest'.generation \in Nat
    BY <2>1, QueueFacts DEF TypeOK, Command
  <2>3. NothingExpired'
    BY <1>1, <2>1, <2>2 DEF WorkerInv, NothingExpired, task
  <2>4. WorksOnFront' /\ RecoversNewest' /\ ConfirmsWritten' /\ EmptyMeansWritten'
    BY <1>1, <2>1
    DEF WorkerInv, WorksOnFront, RecoversNewest, ConfirmsWritten, EmptyMeansWritten, task
  <2> QED
    BY <2>3, <2>4 DEF WorkerInv
<1> QED
  BY <1>2, <1>3 DEF Submit

(* After a fault the round begins with what is retained: the newest target.  *)
LEMMA RoundStep == ASSUME TypeOK, WorkerInv, TooEarly \/ Take PROVE WorkerInv'
<1>1. queue' = Retained /\ UNCHANGED <<latest, failed, readback, barred, registers, lost>>
  BY DEF TooEarly, Take, task, chips
<1>2. worker = "idle"
  BY DEF TooEarly, Take
<1>3. \A i \in 1 .. Len(queue') : queue'[i].generation >= barred
  <2>1. CASE failed
    BY <1>1, <2>1, RetainedFacts DEF WorkerInv, NothingExpired
  <2>2. CASE ~ failed
    BY <1>1, <2>2, RetainedFacts DEF WorkerInv, NothingExpired
  <2> QED
    BY <2>1, <2>2
<1>4. queue' # <<>> <=> queue # <<>>
  BY <1>1, RetainedFacts
<1>5. CASE TooEarly
  <2>1. worker' = "idle" /\ command' = command
    BY <1>5, <1>2 DEF TooEarly, task
  <2> QED
    BY <1>1, <1>2, <1>3, <1>4, <2>1
    DEF WorkerInv, NothingExpired, WorksOnFront, RecoversNewest, ConfirmsWritten,
        EmptyMeansWritten
<1>6. CASE Take /\ queue = <<>>
  <2>1. worker' = "check"
    BY <1>6 DEF Take
  <2> QED
    BY <1>1, <1>3, <2>1
    DEF WorkerInv, NothingExpired, WorksOnFront, RecoversNewest, ConfirmsWritten,
        EmptyMeansWritten
<1>7. CASE Take /\ queue # <<>>
  <2>1. worker' = "write" /\ command' = queue'[1] /\ queue' # <<>> /\ 1 \in 1 .. Len(queue')
    BY <1>1, <1>7, RetainedFacts DEF Take
  <2> QED
    BY <1>1, <1>3, <2>1
    DEF WorkerInv, NothingExpired, WorksOnFront, RecoversNewest, ConfirmsWritten,
        EmptyMeansWritten
<1> QED
  BY <1>5, <1>6, <1>7

LEMMA CheckStep == ASSUME TypeOK, WorkerInv, Check PROVE WorkerInv'
<1>1. UNCHANGED <<queue, latest, barred, registers>> /\ worker = "check"
  BY DEF Check, fifo
<1>2. CASE registers = latest.bits
  BY <1>1, <1>2
  DEF Check, WorkerInv, NothingExpired, WorksOnFront, RecoversNewest, ConfirmsWritten,
      EmptyMeansWritten
<1>3. CASE registers # latest.bits
  BY <1>1, <1>3
  DEF Check, WorkerInv, NothingExpired, WorksOnFront, RecoversNewest, ConfirmsWritten,
      EmptyMeansWritten
<1> QED
  BY <1>2, <1>3

LEMMA WriteStep == ASSUME TypeOK, WorkerInv, WriteRegisters PROVE WorkerInv'
BY DEF WriteRegisters, WorkerInv, NothingExpired, WorksOnFront, RecoversNewest,
       ConfirmsWritten, EmptyMeansWritten, fifo

LEMMA VerifyStep == ASSUME TypeOK, WorkerInv, Verify PROVE WorkerInv'
<1>1. UNCHANGED <<queue, latest, barred, registers>> /\ registers = command.bits
  BY DEF Verify, fifo
<1>2. CASE worker = "verify"
  BY <1>1, <1>2
  DEF Verify, WorkerInv, NothingExpired, WorksOnFront, RecoversNewest, ConfirmsWritten,
      EmptyMeansWritten
<1>3. CASE worker = "reverify"
  BY <1>1, <1>3
  DEF Verify, WorkerInv, NothingExpired, WorksOnFront, RecoversNewest, ConfirmsWritten,
      EmptyMeansWritten
<1> QED
  BY <1>2, <1>3 DEF Verify

(* When the last command is confirmed it was the newest target, and written.  *)
LEMMA ConfirmStep == ASSUME TypeOK, WorkerInv, Confirm PROVE WorkerInv'
<1>1. /\ UNCHANGED <<latest, failed, readback, barred, registers, lost>>
      /\ worker = "confirm" /\ worker' = "idle"
  BY DEF Confirm, chips
<1>2. queue # <<>> /\ queue[1] = command
  BY <1>1 DEF WorkerInv, WorksOnFront
<1>3. queue' = Tail(queue)
  BY <1>2, TailFacts DEF Confirm
<1>4. NothingExpired'
  <2>1. \A i \in 1 .. Len(queue') : i + 1 \in 1 .. Len(queue) /\ queue'[i] = queue[i + 1]
    BY <1>2, <1>3, TailFacts, QueueFacts
  <2> QED
    BY <1>1, <2>1 DEF WorkerInv, NothingExpired
<1>5. EmptyMeansWritten'
  BY <1>1, <1>2, <1>3, TailFacts DEF WorkerInv, ConfirmsWritten, EmptyMeansWritten
<1> QED
  BY <1>1, <1>4, <1>5 DEF WorkerInv, WorksOnFront, RecoversNewest, ConfirmsWritten

LEMMA FailStep == ASSUME TypeOK, WorkerInv, Fail PROVE WorkerInv'
<1>1. /\ UNCHANGED <<queue, latest>> /\ worker' = "idle" /\ failed' = TRUE
      /\ barred' = latest.generation
  BY DEF Fail, fifo
<1>2. readback'.valid = FALSE
  BY DEF Fail, TypeOK
<1> QED
  BY <1>1, <1>2, QueueFacts
  DEF WorkerInv, NothingExpired, WorksOnFront, RecoversNewest, ConfirmsWritten,
      EmptyMeansWritten

LEMMA WorkerStep == TypeOK /\ WorkerInv /\ [Next]_vars => WorkerInv'
<1> SUFFICES ASSUME TypeOK, WorkerInv, [Next]_vars PROVE WorkerInv'
  OBVIOUS
<1>1. ASSUME NEW w \in Writers, NEW bits \in Bitmaps, WriteCoil(w, bits) PROVE WorkerInv'
  BY <1>1, WorkerStutter DEF WriteCoil, chips
<1>2. ASSUME NEW w \in Writers, Notify(w) PROVE WorkerInv'
  BY <1>2, WorkerStutter DEF Notify, chips
<1>3. CASE TakeDirty \/ EndBackoff \/ Load
  BY <1>3, WorkerStutter DEF TakeDirty, EndBackoff, Load, chips
<1>4. CASE Worker
  BY <1>4, RoundStep, CheckStep, WriteStep, VerifyStep, ConfirmStep, FailStep DEF Worker
<1>5. ASSUME NEW b \in Banks, ResetChip(b) PROVE WorkerInv'
  BY <1>5
  DEF ResetChip, WorkerInv, NothingExpired, WorksOnFront, RecoversNewest, ConfirmsWritten,
      EmptyMeansWritten, fifo, task
<1>6. CASE UNCHANGED vars
  BY <1>6, WorkerStutter DEF vars, chips
<1> QED
  BY <1>1, <1>2, <1>3, <1>4, <1>5, <1>6, SubmitStep DEF Next, MainLoop

-----------------------------------------------------------------------------
(* The results                                                             *)

(* The invariant of the output path holds in every reachable state.           *)
THEOREM Invariant == Spec => []IInv
<1>1. IInv /\ [Next]_vars => IInv'
  BY TypeStep, MissedStep, WorkerStep DEF IInv, WorkerInv
<1> QED
  BY <1>1, InitIInv, PTL DEF Spec

(* Types; the numbers in the queue are consecutive and end in the newest      *)
(* target, and the queue does not outgrow its capacity.                     *)
THEOREM TypeCorrect == Spec => []TypeOK
<1>1. IInv => TypeOK
  BY DEF IInv
<1> QED
  BY <1>1, Invariant, PTL

(* A change of the outputs that has been notified is never overlooked by     *)
(* tick_do_output, refused submissions included.                            *)
THEOREM NeverMissed == Spec => []NothingMissed
<1>1. IInv => NothingMissed
  BY DEF IInv
<1> QED
  BY <1>1, Invariant, PTL

(* After a fault the worker writes no edge that had been replaced by then.    *)
THEOREM NeverReplayed == Spec => []NoReplay
<1>1. IInv => NoReplay
  BY DEF IInv, NothingExpired, NoReplay
<1> QED
  BY <1>1, Invariant, PTL

(* With an empty queue, what is reported as read back is the newest target.   *)
THEOREM ReportedIsNewest == Spec => []EmptyMeansWritten
<1>1. IInv => EmptyMeansWritten
  BY DEF IInv
<1> QED
  BY <1>1, Invariant, PTL

-----------------------------------------------------------------------------
(* Lists of things to save                                                  *)

Elements(s) == {s[k] : k \in DOMAIN s}
Things      == Images \union {"outputs"}

(* What is left of a list is all of it but the head.                           *)
LEMMA TailElements ==
  ASSUME NEW S, NEW s \in Seq(S), s # <<>>
  PROVE  /\ Tail(s) \in Seq(S) /\ Head(s) \in S
         /\ Elements(s) \subseteq Elements(Tail(s)) \union {Head(s)}
         /\ Elements(Tail(s)) \subseteq Elements(s)
<1>1. /\ Tail(s) \in Seq(S) /\ Head(s) = s[1] /\ Len(s) \in Nat \ {0} /\ Len(Tail(s)) = Len(s) - 1
      /\ Head(s) \in S /\ DOMAIN s = 1 .. Len(s) /\ DOMAIN Tail(s) = 1 .. (Len(s) - 1)
      /\ \A k \in 1 .. (Len(s) - 1) : Tail(s)[k] = s[k + 1]
  OBVIOUS
<1>2. \A k \in DOMAIN s : s[k] \in Elements(Tail(s)) \union {Head(s)}
  <2> TAKE k \in DOMAIN s
  <2>1. CASE k = 1
    BY <2>1, <1>1
  <2>2. CASE k # 1
    <3>1. k - 1 \in DOMAIN Tail(s) /\ Tail(s)[k - 1] = s[k]
      BY <2>2, <1>1
    <3> QED  BY <3>1 DEF Elements
  <2> QED  BY <2>1, <2>2
<1>3. \A k \in DOMAIN Tail(s) : Tail(s)[k] \in Elements(s)
  <2> TAKE k \in DOMAIN Tail(s)
  <2>1. k + 1 \in DOMAIN s /\ Tail(s)[k] = s[k + 1]
    BY <1>1
  <2> QED  BY <2>1 DEF Elements
<1> QED  BY <1>1, <1>2, <1>3 DEF Elements

LEMMA EmptyElements == Elements(<<>>) = {}
  BY DEF Elements

(* The barrier saves every image.                                             *)
LEMMA BarrierIsAll == Barrier \in Seq(Things) /\ Images \subseteq Elements(Barrier)
<1>1. Order \in Seq(Images) /\ Len(Order) \in Nat /\ DOMAIN Order = 1 .. Len(Order)
  BY OrderAssumption
<1>2. /\ Barrier \in Seq(Things) /\ DOMAIN Barrier = 1 .. (Len(Order) + 1)
      /\ \A k \in DOMAIN Order : k \in DOMAIN Barrier /\ Barrier[k] = Order[k]
  BY <1>1 DEF Barrier, Things
<1>3. \A k \in DOMAIN Order : Order[k] \in Elements(Barrier)
  BY <1>2 DEF Elements
<1> QED  BY <1>2, <1>3 DEF Images

LEMMA OtherLists ==
  Order \in Seq(Things) /\ CoilOrder \in Seq(Things) /\ <<Applied>> \in Seq(Things) /\ <<>> \in Seq(Things)
  BY OrderAssumption DEF Things

-----------------------------------------------------------------------------
(* The invariant                                                           *)

Places == {"idle", "save", "failed", "restart", "complete", "send", "wait", "ok?", "confirmed"}
Causes == {"none", "idle round", "apply", "ticket", "reset", "coil"}

Lists ==
  /\ pc \in [Threads -> Places] /\ job \in [Threads -> Causes]
  /\ todo \in [Threads -> Seq(Things)]

(* What waits for a save is flagged, and what somebody is owed waits.           *)
Flagged == FlagsAreTrue /\ \A t \in Threads : owed[t] \subseteq unsaved

(* The main loop still has to save what it is owed.                            *)
MainSaves ==
  /\ job[Main] \in {"none", "reset"}
  /\ pc[Main] = "save" => owed[Main] \subseteq Elements(todo[Main])
  /\ pc[Main] = "restart" => owed[Main] = {}

NoTickets == \A k \in DOMAIN mail : mail[k] = Apply

(* A ticket that is not sent yet is unknown to the actor.                       *)
Unseen(c) == ticket[c] \notin Elements(mail) \union {serving, completed}

(* One that is in the mailbox is the last there: all others gave up before.       *)
LastInMail(c) ==
  \A k \in DOMAIN mail : mail[k] = ticket[c] =>
    /\ serving # ticket[c] /\ completed # ticket[c]
    /\ \A j \in DOMAIN mail : j > k => mail[j] = Apply

(* One that is being served: no other follows, and the actor still has to save   *)
(* what its client is owed.                                                 *)
Served(c) ==
  /\ ticket[c] \in {serving, completed} => NoTickets
  /\ serving = ticket[c] /\ job[Actor] = "ticket" =>
       /\ pc[Actor] = "save" => owed[c] \subseteq Elements(todo[Actor])
       /\ pc[Actor] = "complete" /\ ok => owed[c] = {}

(* One that is completed: the outcome is its own, and nothing will change it.     *)
Completed(c) ==
  completed = ticket[c] => serving = ticket[c] /\ job[Actor] # "ticket" /\ (ok => owed[c] = {})

AnsweredTo(c) ==
  /\ pc[c] = "send" => Unseen(c)
  /\ pc[c] \in {"wait", "ok?"} => LastInMail(c) /\ Served(c) /\ Completed(c)
  /\ pc[c] = "ok?" => completed = ticket[c]
  /\ pc[c] = "confirmed" => owed[c] = {}

Answered ==
  /\ pc[Actor] = "complete" => job[Actor] = "ticket"
  /\ \A c \in Clients : AnsweredTo(c)

ActorInv == ActorTypeOK /\ Lists /\ Flagged /\ MainSaves /\ Answered

LEMMA Names ==
  /\ Main \in Threads /\ Actor \in Threads /\ Main # Actor /\ Clients \subseteq Threads
  /\ \A c \in Clients : c \in Threads /\ c # Main /\ c # Actor
  BY ThreadsAssumption DEF Threads

LEMMA ActorStarts == ActorInit => ActorInv
<1> SUFFICES ASSUME ActorInit PROVE ActorInv
  OBVIOUS
<1> USE Names DEF ActorInit, Everywhere
<1>1. 0 \in Tickets /\ <<>> \in Seq(Tickets \union {Apply}) /\ Len(<<>>) = 0 /\ Batch \in Nat /\ MailCap \in Nat
  BY ActorBounds DEF Tickets
<1>2. ActorTypeOK
  <2>1. \A c \in Clients : pc[c] = "idle"
    OBVIOUS
  <2>2. (ticket \in [Clients -> Tickets] /\ owed \in [Threads -> SUBSET Images])
    BY <1>1
  <2>3. (mail \in Seq(Tickets \union {Apply}) /\ Len(mail) <= MailCap /\ batch \in 0 .. Batch)
    BY <1>1
  <2>4. (busy <=> \E c \in Clients : pc[c] \in Waiting)
    BY <2>1 DEF Waiting
  <2>5. (\A c, d \in Clients : pc[c] \in Waiting /\ pc[d] \in Waiting => c = d)
    BY <2>1 DEF Waiting
  <2> QED  BY <1>1, <2>2, <2>3, <2>4, <2>5 DEF ActorTypeOK
<1>3. Lists
  BY OtherLists DEF Lists, Places, Causes
<1>4. Flagged /\ MainSaves /\ Answered
  BY DEF Flagged, FlagsAreTrue, MainSaves, Answered, AnsweredTo
<1> QED  BY <1>2, <1>3, <1>4 DEF ActorInv

-----------------------------------------------------------------------------
(* Types                                                                   *)

LEMMA ActorBoots == Boot => ActorInv'
<1> SUFFICES ASSUME Boot PROVE ActorInv'
  OBVIOUS
<1> USE Names DEF Boot, Everywhere
<1>1. 0 \in Tickets /\ <<>> \in Seq(Tickets \union {Apply}) /\ Len(<<>>) = 0 /\ Batch \in Nat /\ MailCap \in Nat
  BY ActorBounds DEF Tickets
<1>2. ActorTypeOK'
  <2>1. \A c \in Clients : pc'[c] = "idle"
    OBVIOUS
  <2>2. (ticket \in [Clients -> Tickets] /\ owed \in [Threads -> SUBSET Images])'
    BY <1>1
  <2>3. (mail \in Seq(Tickets \union {Apply}) /\ Len(mail) <= MailCap /\ batch \in 0 .. Batch)'
    BY <1>1
  <2>4. (busy <=> \E c \in Clients : pc[c] \in Waiting)'
    BY <2>1 DEF Waiting
  <2>5. (\A c, d \in Clients : pc[c] \in Waiting /\ pc[d] \in Waiting => c = d)'
    BY <2>1 DEF Waiting
  <2> QED  BY <1>1, <2>2, <2>3, <2>4, <2>5 DEF ActorTypeOK
<1>3. Lists'
  BY OtherLists DEF Lists, Places, Causes
<1>4. (Flagged /\ MainSaves /\ Answered)'
  BY DEF Flagged, FlagsAreTrue, MainSaves, Answered, AnsweredTo
<1> QED  BY <1>2, <1>3, <1>4 DEF ActorInv

(* What a step of saving does, whoever does it and however it ends.             *)
LEMMA SaveDoes ==
  ASSUME ActorTypeOK, Lists, Flagged, NEW t \in Threads, Save(t)
  PROVE  /\ UNCHANGED <<mbox, wait, answer, reset, job>>
         /\ pc[t] = "save" /\ todo[t] # <<>> /\ Head(todo[t]) \in Things
         /\ pc' \in [Threads -> Places] /\ todo' \in [Threads -> Seq(Things)]
         /\ \A u \in Threads \ {t} : pc'[u] = pc[u] /\ todo'[u] = todo[u]
         /\ \/ pc'[t] = "failed"
            \/ /\ pc'[t] = "save" /\ todo'[t] = Tail(todo[t])
               /\ job[t] \notin {"idle round", "apply"} =>
                    \A u \in Threads : Head(todo[t]) \notin owed'[u]
         /\ flags' \subseteq Images /\ unsaved' \subseteq Images
         /\ owed' \in [Threads -> SUBSET Images] /\ Flagged'
         /\ \A u \in Threads : owed'[u] \subseteq owed[u]
<1>1. /\ UNCHANGED <<mbox, wait, answer, reset, job>>
      /\ pc[t] = "save" /\ todo[t] # <<>>
  BY DEF Save, SaveImage, SkipImage, FailImage, SaveOutputs, FailOutputs, At, Advance, SaveFails
<1>2. Head(todo[t]) \in Things /\ Tail(todo[t]) \in Seq(Things)
  BY <1>1, TailElements DEF Lists
<1>3. \/ Advance(t)
      \/ /\ pc' = [pc EXCEPT ![t] = "failed"] /\ todo' = [todo EXCEPT ![t] = <<>>]
  BY DEF Save, SaveImage, SkipImage, FailImage, SaveOutputs, FailOutputs, SaveFails, Goto
<1>4. /\ pc' \in [Threads -> Places] /\ todo' \in [Threads -> Seq(Things)]
      /\ \A u \in Threads \ {t} : pc'[u] = pc[u] /\ todo'[u] = todo[u]
      /\ pc'[t] = "failed" \/ (pc'[t] = "save" /\ todo'[t] = Tail(todo[t]))
  BY <1>1, <1>2, <1>3, OtherLists DEF Lists, Advance, Places
<1>5. ASSUME pc'[t] # "failed", job[t] \notin {"idle round", "apply"}, NEW u \in Threads
      PROVE  Head(todo[t]) \notin owed'[u]
  <2> DEFINE i == Head(todo[t])
  <2>1. ~ SaveFails(t)
    BY <1>5, <1>1 DEF SaveFails, Survives, Goto, Lists
  <2>2. CASE SaveImage(t)
    BY <2>2 DEF SaveImage, InFlash
  <2>3. CASE SkipImage(t)
    BY <2>3, <1>5 DEF SkipImage, Survives, ToSave, Flagged, FlagsAreTrue
  <2>4. CASE SaveOutputs(t)
    BY <2>4, OrderAssumption DEF SaveOutputs, At, ActorTypeOK
  <2> QED  BY <2>1, <2>2, <2>3, <2>4 DEF Save, FailImage, FailOutputs
<1>6. /\ flags' \subseteq Images /\ unsaved' \subseteq Images
      /\ owed' \in [Threads -> SUBSET Images] /\ Flagged'
      /\ \A u \in Threads : owed'[u] \subseteq owed[u]
  <2> USE DEF ActorTypeOK, Flagged, FlagsAreTrue
  <2>1. CASE SaveImage(t)
    BY <2>1 DEF SaveImage, InFlash
  <2>2. CASE SkipImage(t) \/ SaveOutputs(t) \/ FailOutputs(t)
    BY <2>2 DEF SkipImage, SaveOutputs, FailOutputs, images
  <2>3. CASE FailImage(t)
    <3>1. Head(todo[t]) \in Images /\ flags' = flags \union {Head(todo[t])}
      BY <2>3 DEF FailImage, At
    <3>2. CASE InFlash(Head(todo[t]))
      BY <3>1, <3>2 DEF InFlash
    <3>3. CASE UNCHANGED <<unsaved, owed>>
      BY <3>1, <3>3
    <3> QED  BY <2>3, <3>2, <3>3 DEF FailImage
  <2> QED  BY <2>1, <2>2, <2>3 DEF Save
<1> QED  BY <1>1, <1>2, <1>4, <1>5, <1>6

LEMMA SaveKeeps ==
  ASSUME ActorInv, NEW t \in Threads, Save(t)
  PROVE  ActorInv'
<1> USE DEF ActorInv
<1>1. /\ UNCHANGED <<mbox, wait, answer, reset, job>>
      /\ pc[t] = "save" /\ todo[t] # <<>> /\ Head(todo[t]) \in Things
      /\ pc' \in [Threads -> Places] /\ todo' \in [Threads -> Seq(Things)]
      /\ \A u \in Threads \ {t} : pc'[u] = pc[u] /\ todo'[u] = todo[u]
      /\ \/ pc'[t] = "failed"
         \/ /\ pc'[t] = "save" /\ todo'[t] = Tail(todo[t])
            /\ job[t] \notin {"idle round", "apply"} =>
                 \A u \in Threads : Head(todo[t]) \notin owed'[u]
      /\ flags' \subseteq Images /\ unsaved' \subseteq Images
      /\ owed' \in [Threads -> SUBSET Images] /\ Flagged'
      /\ \A u \in Threads : owed'[u] \subseteq owed[u]
  BY SaveDoes
<1>2. ActorTypeOK'
  <2>1. \A c \in Clients : pc'[c] \in Waiting <=> pc[c] \in Waiting
    BY <1>1, Names DEF Waiting
  <2> QED  BY <1>1, <2>1 DEF ActorTypeOK, mbox, wait, answer
<1>3. Lists'
  BY <1>1 DEF Lists
<1>4. Elements(todo[t]) \subseteq Elements(Tail(todo[t])) \union {Head(todo[t])}
  BY <1>1, TailElements DEF Lists
<1>5. MainSaves'
  BY <1>1, <1>4, Names DEF MainSaves
<1>6. Answered'
  <2>1. UNCHANGED <<mail, ticket, serving, completed, ok, job>>
    BY <1>1 DEF mbox, wait, answer
  <2>2. pc'[Actor] = "complete" => job'[Actor] = "ticket"
    BY <1>1, <2>1, Names DEF Answered, AnsweredTo
  <2>3. ASSUME NEW c \in Clients, pc[c] \in {"wait", "ok?"}
        PROVE  LastInMail(c)' /\ Served(c)' /\ Completed(c)'
    <3>1. LastInMail(c) /\ Served(c) /\ Completed(c) /\ owed'[c] \subseteq owed[c]
      BY <2>3, <1>1, Names DEF Answered, AnsweredTo
    <3>2. LastInMail(c)' /\ Completed(c)'
      BY <3>1, <2>1 DEF LastInMail, Completed
    <3>3. (ticket[c] \in {serving, completed} => NoTickets)'
      BY <3>1, <2>1 DEF Served, NoTickets
    <3>4. (serving = ticket[c] /\ job[Actor] = "ticket" => (pc[Actor] = "save" => owed[c] \subseteq Elements(todo[Actor])))'
      BY <3>1, <2>1, <1>1, <1>4, Names DEF Served
    <3>5. (serving = ticket[c] /\ job[Actor] = "ticket" => (pc[Actor] = "complete" /\ ok => owed[c] = {}))'
      BY <3>1, <2>1, <1>1, Names DEF Served
    <3> QED  BY <3>2, <3>3, <3>4, <3>5 DEF Served
  <2>4. ASSUME NEW c \in Clients
        PROVE  /\ (pc[c] = "send" => Unseen(c))'
               /\ (pc[c] \in {"wait", "ok?"} => LastInMail(c) /\ Served(c) /\ Completed(c))'
               /\ (pc[c] = "ok?" => completed = ticket[c])'
               /\ (pc[c] = "confirmed" => owed[c] = {})'
    <3>1. /\ c \in Threads /\ owed'[c] \subseteq owed[c]
          /\ pc'[c] = pc[c] \/ pc'[c] \in {"failed", "save"}
      BY <1>1, Names
    <3>2. pc'[c] = "send" => Unseen(c)'
      BY <3>1, <2>1 DEF Answered, AnsweredTo, Unseen
    <3> QED  BY <3>1, <3>2, <2>1, <2>3 DEF Answered, AnsweredTo
  <2> QED  BY <2>2, <2>4 DEF Answered, AnsweredTo
<1> QED  BY <1>1, <1>2, <1>3, <1>5, <1>6

(* The steps of the actor and of the main loop that are not about saving.       *)
Serving == RoundDone \/ ApplyDone \/ ApplyRefused \/ PublishOutcome \/ CompleteTicket \/ Handle \/ IdleRound
Resets  == TakeResetRequest \/ BarrierDone \/ CancelReset

LEMMA MailTail ==
  ASSUME ActorTypeOK, mail # <<>>
  PROVE  /\ Tail(mail) \in Seq(Tickets \union {Apply}) /\ Len(Tail(mail)) <= MailCap
         /\ Head(mail) \in Tickets \union {Apply} /\ Head(mail) = mail[1]
         /\ Len(Tail(mail)) = Len(mail) - 1 /\ Len(mail) \in Nat
         /\ \A k \in DOMAIN Tail(mail) : k + 1 \in DOMAIN mail /\ Tail(mail)[k] = mail[k + 1]
         /\ 1 \in DOMAIN mail
  BY ActorBounds DEF ActorTypeOK

LEMMA ServerTypes ==
  ASSUME ActorInv, Serving \/ Resets
  PROVE  ActorTypeOK' /\ Lists'
<1> USE Names DEF ActorInv, Serving, Resets
<1>1. UNCHANGED wait /\ \A c \in Clients : pc'[c] = pc[c]
  BY DEF Lists, Goto, StartSaving, Finish, RoundDone, ApplyDone, ApplyRefused, PublishOutcome,
         CompleteTicket, Handle, IdleRound, TakeResetRequest, BarrierDone, CancelReset
<1>2. /\ flags' \subseteq Images /\ UNCHANGED unsaved
      /\ owed' \in [Threads -> SUBSET Images]
  BY OrderAssumption DEF ActorTypeOK, images, RoundDone, ApplyDone, ApplyRefused, PublishOutcome,
         CompleteTicket, Handle, IdleRound, TakeResetRequest, BarrierDone, CancelReset
<1>3. mail' \in Seq(Tickets \union {Apply}) /\ Len(mail') <= MailCap /\ batch' \in 0 .. Batch
  <2>1. UNCHANGED mail \/ (mail # <<>> /\ mail' = Tail(mail))
    BY DEF mbox, RoundDone, ApplyDone, ApplyRefused, PublishOutcome,
         CompleteTicket, Handle, IdleRound, TakeResetRequest, BarrierDone, CancelReset
  <2>2. batch' \in {batch, 0} \/ (batch < Batch /\ batch' = batch + 1)
    BY DEF mbox, RoundDone, ApplyDone, ApplyRefused, PublishOutcome,
         CompleteTicket, Handle, IdleRound, TakeResetRequest, BarrierDone, CancelReset
  <2>3. batch \in 0 .. Batch /\ Batch \in Nat
    BY ActorBounds DEF ActorTypeOK
  <2>4. mail' \in Seq(Tickets \union {Apply}) /\ Len(mail') <= MailCap
    BY <2>1, MailTail DEF ActorTypeOK
  <2> QED  BY <2>2, <2>3, <2>4
<1>4. {completed', serving'} \subseteq Tickets /\ ok' \in BOOLEAN /\ reset' \in BOOLEAN
  BY DEF ActorTypeOK, answer, Saved, RoundDone, ApplyDone, ApplyRefused, PublishOutcome,
         CompleteTicket, Handle, IdleRound, TakeResetRequest, BarrierDone, CancelReset
<1>5. ActorTypeOK'
  BY <1>1, <1>2, <1>3, <1>4 DEF ActorTypeOK, wait, Waiting
<1>6. pc' \in [Threads -> Places] /\ job' \in [Threads -> Causes]
  BY DEF Lists, Places, Causes, Goto, StartSaving, Finish, lists, RoundDone, ApplyDone, ApplyRefused,
         PublishOutcome, CompleteTicket, Handle, IdleRound, TakeResetRequest, BarrierDone, CancelReset
<1>7. \/ UNCHANGED todo
      \/ \E t \in Threads, what \in {Order, Barrier, <<Applied>>} : todo' = [todo EXCEPT ![t] = what]
  BY DEF StartSaving, Finish, lists, RoundDone, ApplyDone, ApplyRefused,
         PublishOutcome, CompleteTicket, Handle, IdleRound, TakeResetRequest, BarrierDone, CancelReset
<1>8. Lists'
  BY <1>6, <1>7, BarrierIsAll, OtherLists, ZenonT(60) DEF Lists
<1> QED  BY <1>5, <1>8

(* The steps of a client that are not about saving.                            *)
Calls(c) ==
  \/ \E i \in Images : Change(c, i)
  \/ TakeTicket(c) \/ SendTicket(c) \/ LoseTicket(c) \/ Timeout(c)
  \/ SeeCompleted(c) \/ SeeOk(c) \/ SeeNotOk(c) \/ UseConfirmation(c)
  \/ AskReset(c) \/ WriteRestartCoil(c) \/ CoilSaved(c) \/ CoilRefused(c)

LEMMA ClientTypes ==
  ASSUME ActorInv, NEW c \in Clients, Calls(c)
  PROVE  ActorTypeOK' /\ Lists'
<1> USE Names DEF ActorInv, Calls
<1>1. UNCHANGED answer /\ (\A t \in Threads \ {c} : pc'[t] = pc[t]) /\ UNCHANGED batch
  BY DEF Lists, Goto, StartSaving, Finish, answer, mbox, Unconfirmed, Change, TakeTicket, SendTicket,
         LoseTicket, Timeout, SeeCompleted, SeeOk, SeeNotOk, UseConfirmation, AskReset, WriteRestartCoil,
         CoilSaved, CoilRefused
<1>2. /\ flags' \subseteq Images /\ unsaved' \subseteq Images
      /\ owed' \in [Threads -> SUBSET Images] /\ reset' \in BOOLEAN
  BY DEF ActorTypeOK, images, Unconfirmed, Change, TakeTicket, SendTicket,
         LoseTicket, Timeout, SeeCompleted, SeeOk, SeeNotOk, UseConfirmation, AskReset, WriteRestartCoil,
         CoilSaved, CoilRefused
<1>3. mail' \in Seq(Tickets \union {Apply}) /\ Len(mail') <= MailCap
  <2>1. UNCHANGED mail \/ (Len(mail) < MailCap /\ \E m \in Tickets \union {Apply} : mail' = Append(mail, m))
    BY DEF ActorTypeOK, mbox, Post, Unconfirmed, Change, TakeTicket, SendTicket,
         LoseTicket, Timeout, SeeCompleted, SeeOk, SeeNotOk, UseConfirmation, AskReset, WriteRestartCoil,
         CoilSaved, CoilRefused
  <2> QED  BY <2>1, ActorBounds, SMTT(30) DEF ActorTypeOK
<1>4. /\ next' \in Tickets /\ ticket' \in [Clients -> Tickets] /\ busy' \in BOOLEAN
      /\ (busy <=> \E d \in Clients : pc[d] \in Waiting)'
      /\ (\A d, e \in Clients : pc[d] \in Waiting /\ pc[e] \in Waiting => d = e)'
  <2>1. CASE UNCHANGED wait /\ (pc'[c] \in Waiting <=> pc[c] \in Waiting)
    BY <2>1, <1>1 DEF ActorTypeOK, wait
  <2>2. CASE TakeTicket(c)
    <3>1. NextTicket(next) \in Tickets
      BY ActorBounds DEF ActorTypeOK, NextTicket, Tickets
    <3>2. ~ busy /\ busy' = TRUE /\ pc'[c] \in Waiting /\ next' = NextTicket(next) /\ ticket' = [ticket EXCEPT ![c] = next']
      BY <2>2 DEF TakeTicket, Goto, Waiting, Lists
    <3>3. next' \in Tickets /\ ticket' \in [Clients -> Tickets] /\ busy' \in BOOLEAN
      BY <3>1, <3>2 DEF ActorTypeOK
    <3> QED  BY <3>2, <3>3, <1>1 DEF ActorTypeOK
  <2>3. CASE \/ LoseTicket(c) \/ Timeout(c) \/ SeeNotOk(c) \/ SeeOk(c)
    <3>1. /\ pc[c] \in Waiting /\ busy' = FALSE /\ pc'[c] \notin Waiting /\ next' = next
          /\ ticket' = [ticket EXCEPT ![c] = 0]
      BY <2>3 DEF LoseTicket, Timeout, SeeNotOk, SeeOk, Unconfirmed, Goto, Waiting, Lists
    <3>2. 0 \in Tickets
      BY ActorBounds DEF Tickets
    <3>4. next' \in Tickets /\ ticket' \in [Clients -> Tickets] /\ busy' \in BOOLEAN
      BY <3>1, <3>2 DEF ActorTypeOK
    <3>3. \A d \in Clients : pc'[d] \notin Waiting
      BY <3>1, <1>1 DEF ActorTypeOK
    <3> QED  BY <3>1, <3>3, <3>4
  <2>4. CASE \/ \E i \in Images : Change(c, i)
             \/ SendTicket(c) \/ SeeCompleted(c) \/ UseConfirmation(c)
             \/ AskReset(c) \/ WriteRestartCoil(c) \/ CoilSaved(c) \/ CoilRefused(c)
    <3>1. UNCHANGED wait /\ (pc'[c] \in Waiting <=> pc[c] \in Waiting)
      BY <2>4 DEF Lists, Waiting, wait, Goto, StartSaving, Finish, Saved, Failed, Change,
           SendTicket, SeeCompleted,
                  UseConfirmation, AskReset, WriteRestartCoil, CoilSaved, CoilRefused
    <3> QED  BY <3>1, <2>1
  <2> QED  BY <2>2, <2>3, <2>4
<1>5. ActorTypeOK'
  BY <1>1, <1>2, <1>3, <1>4 DEF ActorTypeOK, answer
<1>6. Lists'
  BY OtherLists, ZenonT(60) DEF Lists, Places, Causes, Goto, StartSaving, Finish, lists, Unconfirmed, Change,
       TakeTicket, SendTicket,
         LoseTicket, Timeout, SeeCompleted, SeeOk, SeeNotOk, UseConfirmation, AskReset, WriteRestartCoil,
         CoilSaved, CoilRefused
<1> QED  BY <1>5, <1>6

(* A step that is not about saving flags what it changes and owes no more than    *)
(* what waits.                                                               *)
LEMMA FlaggedStep ==
  ASSUME ActorInv, Serving \/ Resets \/ \E c \in Clients : Calls(c)
  PROVE  Flagged'
<1>1. /\ \/ UNCHANGED <<flags, unsaved>> \/ (UNCHANGED unsaved /\ flags' = flags \union {Applied})
         \/ \E i \in Images : flags' = flags \union {i} /\ unsaved' = unsaved \union {i}
      /\ \/ UNCHANGED owed \/ \E t \in Threads : \E what \in {{}, unsaved} : owed' = [owed EXCEPT ![t] = what]
  BY Names DEF Serving, Resets, Calls, images, RoundDone, ApplyDone, ApplyRefused, PublishOutcome,
         CompleteTicket, Handle, IdleRound, TakeResetRequest, BarrierDone, CancelReset,
         Unconfirmed, Change, TakeTicket, SendTicket,
         LoseTicket, Timeout, SeeCompleted, SeeOk, SeeNotOk, UseConfirmation, AskReset, WriteRestartCoil,
         CoilSaved, CoilRefused
<1>2. \A t \in Threads : owed'[t] \subseteq unsaved
  BY <1>1 DEF ActorInv, Flagged, ActorTypeOK
<1> QED  BY <1>1, <1>2 DEF ActorInv, Flagged, FlagsAreTrue

LEMMA MainKeeps ==
  ASSUME ActorInv, Serving \/ Resets \/ \E c \in Clients : Calls(c)
  PROVE  MainSaves'
<1> USE Names DEF ActorInv, ActorTypeOK, Lists, MainSaves
<1>1. CASE Serving
  <2>1. pc'[Main] = pc[Main] /\ job'[Main] = job[Main] /\ todo'[Main] = todo[Main] /\ UNCHANGED owed
    BY <1>1 DEF Serving, Goto, StartSaving, Finish, lists, RoundDone, ApplyDone, ApplyRefused,
         PublishOutcome, CompleteTicket, Handle, IdleRound
  <2> QED  BY <2>1
<1>2. CASE \E c \in Clients : Calls(c)
  <2> PICK c \in Clients : Calls(c)
    BY <1>2
  <2>1. pc'[Main] = pc[Main] /\ job'[Main] = job[Main] /\ todo'[Main] = todo[Main] /\ owed'[Main] = owed[Main]
    BY DEF Calls, Goto, StartSaving, Finish, lists, Unconfirmed, Change, TakeTicket, SendTicket,
         LoseTicket, Timeout, SeeCompleted, SeeOk, SeeNotOk, UseConfirmation, AskReset, WriteRestartCoil,
         CoilSaved, CoilRefused
  <2> QED  BY <2>1
<1>3. CASE TakeResetRequest
  <2>1. pc'[Main] = "save" /\ job'[Main] = "reset" /\ todo'[Main] = Barrier /\ owed'[Main] = unsaved
    BY <1>3 DEF TakeResetRequest, StartSaving, Goto
  <2> QED  BY <2>1, BarrierIsAll
<1>4. CASE BarrierDone
  <2>1. /\ pc[Main] = "save" /\ todo[Main] = <<>> /\ UNCHANGED <<owed, job>>
        /\ pc'[Main] = "restart"
    BY <1>4 DEF BarrierDone, Saved, lists
  <2> QED  BY <2>1, EmptyElements
<1>5. CASE CancelReset
  <2>1. pc'[Main] = "idle" /\ job'[Main] = "none"
    BY <1>5 DEF CancelReset, Finish
  <2> QED  BY <2>1
<1> QED  BY <1>1, <1>2, <1>3, <1>4, <1>5 DEF Resets

(* A step that moves neither the client nor the actor, and sends nothing.         *)
LEMMA NotConcerned ==
  ASSUME NEW c \in Clients, AnsweredTo(c), UNCHANGED <<mail, answer>>,
         pc'[c] = pc[c], ticket'[c] = ticket[c], owed'[c] = owed[c],
         pc'[Actor] = pc[Actor], job'[Actor] = job[Actor], todo'[Actor] = todo[Actor]
  PROVE  AnsweredTo(c)'
  BY DEF AnsweredTo, Unseen, LastInMail, Served, NoTickets, Completed, answer

LEMMA ServingAnswers ==
  ASSUME ActorInv, Serving
  PROVE  Answered'
<1> USE Names DEF ActorInv, Lists
<1>1. /\ UNCHANGED <<wait, owed>> /\ \A c \in Clients : pc'[c] = pc[c]
  BY DEF Serving, Goto, StartSaving, Finish, RoundDone, ApplyDone, ApplyRefused, PublishOutcome,
         CompleteTicket, Handle, IdleRound
<1>2. pc'[Actor] = "complete" => job'[Actor] = "ticket"
  BY DEF Serving, Goto, StartSaving, Finish, RoundDone, ApplyDone, ApplyRefused, PublishOutcome,
         CompleteTicket, Handle, IdleRound, Saved, Failed, lists
<1>3. ASSUME NEW c \in Clients
      PROVE  AnsweredTo(c)'
  <2> USE <1>1 DEF wait
  <2>1. AnsweredTo(c)
    BY DEF Answered
  <2>2. CASE RoundDone \/ ApplyDone \/ ApplyRefused \/ IdleRound
    <3>1. UNCHANGED <<mail, answer>> /\ pc'[Actor] \in {"idle", "save"} /\ job'[Actor] # "ticket"
      BY <2>2 DEF RoundDone, ApplyDone, ApplyRefused, IdleRound, mbox, StartSaving, Goto, Finish
    <3> QED  BY <2>1, <3>1 DEF AnsweredTo, Unseen, LastInMail, Served, NoTickets, Completed, answer
  <2>3. CASE PublishOutcome
    <3>1. /\ job[Actor] = "ticket" /\ ok' = Saved(Actor, "ticket") /\ pc'[Actor] = "complete"
          /\ UNCHANGED <<mail, completed, serving, job, todo>>
      BY <2>3 DEF PublishOutcome, Saved, Failed, mbox, lists
    <3>2. ok' => pc[Actor] = "save" /\ Elements(todo[Actor]) = {}
      BY <3>1, EmptyElements DEF Saved
    <3> QED  BY <2>1, <3>1, <3>2 DEF AnsweredTo, Unseen, LastInMail, Served, NoTickets, Completed
  <2>4. CASE CompleteTicket
    <3>1. /\ job[Actor] = "ticket" /\ completed' = serving /\ pc'[Actor] = "idle" /\ job'[Actor] = "none"
          /\ pc[Actor] = "complete" /\ UNCHANGED <<mail, ok, serving>>
      BY <2>4 DEF CompleteTicket, Finish, mbox, Answered
    <3> QED  BY <2>1, <3>1 DEF AnsweredTo, Unseen, LastInMail, Served, NoTickets, Completed
  <2>5. CASE Handle
    <3>1. /\ mail # <<>> /\ mail' = Tail(mail) /\ UNCHANGED <<completed, ok>> /\ pc'[Actor] = "save"
          /\ \/ Head(mail) = Apply /\ job'[Actor] = "apply" /\ serving' = serving
             \/ /\ Head(mail) \in Tickets /\ job'[Actor] = "ticket" /\ serving' = Head(mail)
                /\ todo'[Actor] = Barrier
      BY <2>5 DEF Handle, StartSaving, Goto
    <3>2. /\ Head(mail) = mail[1] /\ 1 \in DOMAIN mail /\ Apply \notin Tickets /\ ticket[c] \in Tickets
          /\ \A k \in DOMAIN mail' : k \in Nat \ {0} /\ k + 1 \in DOMAIN mail /\ mail'[k] = mail[k + 1]
      <4>1. Apply \notin Tickets
        BY ActorBounds DEF Apply, Tickets
      <4>2. ticket[c] \in Tickets /\ ActorTypeOK
        BY DEF ActorTypeOK
      <4>3. \A k \in DOMAIN Tail(mail) : k \in Nat \ {0}
        BY <3>1, <4>2, MailTail
      <4> QED  BY <3>1, <4>1, <4>2, <4>3, MailTail
    <3>3. Elements(mail') \subseteq Elements(mail) /\ Head(mail) \in Elements(mail)
      BY <3>2 DEF Elements
    <3>4. CASE pc[c] \notin {"wait", "ok?"}
      BY <3>4, <3>1, <3>3, <2>1 DEF AnsweredTo, Unseen
    <3>5. CASE pc[c] \in {"wait", "ok?"}
      <4>1. LastInMail(c) /\ Served(c) /\ Completed(c)
        BY <2>1, <3>5 DEF AnsweredTo
      <4>2. NoTickets => Head(mail) = Apply /\ NoTickets'
        BY <3>2 DEF NoTickets
      <4>3. serving' = ticket[c] => NoTickets'
        <5>1. CASE serving' = serving
          BY <5>1, <4>1, <4>2 DEF Served
        <5>2. CASE serving' = Head(mail) /\ Head(mail) = ticket[c]
          <6>1. \A j \in DOMAIN mail : j > 1 => mail[j] = Apply
            BY <5>2, <3>2, <4>1 DEF LastInMail
          <6> QED  BY <6>1, <3>2 DEF NoTickets
        <5> QED  BY <5>1, <5>2, <3>1
      <4>4. completed = ticket[c] => serving' = ticket[c] /\ job'[Actor] # "ticket" /\ NoTickets'
        BY <4>1, <4>2, <3>1, <3>2 DEF Served, Completed
      <4>5. Completed(c)'
        BY <4>4, <4>1, <3>1 DEF Completed
      <4>6. LastInMail(c)'
        <5> SUFFICES ASSUME NEW k \in DOMAIN mail', mail'[k] = ticket[c]
                     PROVE  /\ serving' # ticket[c] /\ completed # ticket[c]
                            /\ \A j \in DOMAIN mail' : j > k => mail'[j] = Apply
          BY <3>1 DEF LastInMail
        <5>1. \A j \in DOMAIN mail' : j > k => mail'[j] = Apply
          BY <3>2, <4>1 DEF LastInMail
        <5>2. ~ NoTickets'
          BY <3>2 DEF NoTickets
        <5> QED  BY <5>1, <5>2, <4>3, <4>4
      <4>7. owed'[c] \subseteq Images
        BY DEF ActorTypeOK
      <4>8. Served(c)'
        BY <4>3, <4>4, <4>7, <3>1, <4>1, BarrierIsAll DEF Served
      <4> QED  BY <4>5, <4>6, <4>8, <3>1, <3>5, <2>1 DEF AnsweredTo
    <3> QED  BY <3>4, <3>5
  <2> QED  BY <2>2, <2>3, <2>4, <2>5 DEF Serving
<1> QED  BY <1>2, <1>3 DEF Answered

LEMMA ResetsAnswer ==
  ASSUME ActorInv, Resets
  PROVE  Answered'
<1> USE Names DEF ActorInv, Lists, ActorTypeOK
<1>1. /\ UNCHANGED <<mail, ticket, answer>>
      /\ \A t \in Threads \ {Main} :
           pc'[t] = pc[t] /\ owed'[t] = owed[t] /\ job'[t] = job[t] /\ todo'[t] = todo[t]
  BY DEF Resets, TakeResetRequest, BarrierDone, CancelReset, StartSaving, Goto, Finish, lists, mbox, wait
<1>2. \A c \in Clients : AnsweredTo(c)'
  BY <1>1, NotConcerned DEF Answered
<1> QED  BY <1>1, <1>2 DEF Answered

(* A message more in the mailbox.                                             *)
LEMMA MailAppend ==
  ASSUME ActorTypeOK, NEW m \in Tickets \union {Apply}, mail' = Append(mail, m)
  PROVE  /\ Elements(mail') = Elements(mail) \union {m}
         /\ Len(mail) \in Nat /\ DOMAIN mail = 1 .. Len(mail) /\ DOMAIN mail' = 1 .. (Len(mail) + 1)
         /\ mail'[Len(mail) + 1] = m /\ \A k \in DOMAIN mail : mail'[k] = mail[k]
<1>1. /\ Len(mail) \in Nat /\ DOMAIN mail = 1 .. Len(mail) /\ DOMAIN mail' = 1 .. (Len(mail) + 1)
      /\ mail'[Len(mail) + 1] = m /\ \A k \in DOMAIN mail : mail'[k] = mail[k]
  BY DEF ActorTypeOK
<1>2. \A k \in DOMAIN mail' : k \in DOMAIN mail \/ k = Len(mail) + 1
  BY <1>1
<1>3. \A k \in DOMAIN mail : k \in DOMAIN mail'
  BY <1>1
<1>4. Len(mail) + 1 \in DOMAIN mail'
  BY <1>1
<1> QED  BY <1>1, <1>2, <1>3, <1>4 DEF Elements

LEMMA ApplyPosted ==
  ASSUME ActorTypeOK, NEW d \in Clients, AnsweredTo(d), mail' = Append(mail, Apply), UNCHANGED answer,
         pc'[d] = pc[d], ticket'[d] = ticket[d], owed'[d] = owed[d],
         pc'[Actor] = pc[Actor], job'[Actor] = job[Actor], todo'[Actor] = todo[Actor]
  PROVE  AnsweredTo(d)'
<1>1. ticket[d] # Apply
  BY ActorBounds DEF ActorTypeOK, Tickets, Apply
<1>2. /\ Elements(mail') = Elements(mail) \union {Apply}
      /\ Len(mail) \in Nat /\ DOMAIN mail = 1 .. Len(mail) /\ DOMAIN mail' = 1 .. (Len(mail) + 1)
      /\ mail'[Len(mail) + 1] = Apply /\ \A k \in DOMAIN mail : mail'[k] = mail[k]
  BY MailAppend
<1>3. NoTickets => NoTickets'
  BY <1>2 DEF NoTickets
<1>4. LastInMail(d) => LastInMail(d)'
  BY <1>1, <1>2 DEF LastInMail, answer
<1> QED  BY <1>1, <1>2, <1>3, <1>4 DEF AnsweredTo, Unseen, Served, Completed, answer

LEMMA ClientsAnswer ==
  ASSUME ActorInv, NEW c \in Clients, Calls(c)
  PROVE  Answered'
<1> USE Names DEF ActorInv, Lists
<1>1. /\ UNCHANGED answer
      /\ \A t \in Threads \ {c} :
           pc'[t] = pc[t] /\ owed'[t] = owed[t] /\ job'[t] = job[t] /\ todo'[t] = todo[t]
      /\ \A d \in Clients \ {c} : ticket'[d] = ticket[d]
  BY DEF ActorTypeOK, Calls, Goto, StartSaving, Finish, lists, wait, Unconfirmed, Change,
       TakeTicket, SendTicket,
         LoseTicket, Timeout, SeeCompleted, SeeOk, SeeNotOk, UseConfirmation, AskReset, WriteRestartCoil,
         CoilSaved, CoilRefused
<1>2. pc'[Actor] = pc[Actor] /\ job'[Actor] = job[Actor] /\ todo'[Actor] = todo[Actor]
  BY <1>1
<1>3. \/ UNCHANGED mail \/ mail' = Append(mail, Apply)
      \/ SendTicket(c) /\ mail' = Append(mail, ticket[c])
  BY DEF Calls, mbox, Post, Unconfirmed, Change, TakeTicket, SendTicket,
         LoseTicket, Timeout, SeeCompleted, SeeOk, SeeNotOk, UseConfirmation, AskReset, WriteRestartCoil,
         CoilSaved, CoilRefused
<1>4. ASSUME NEW d \in Clients, d # c
      PROVE  AnsweredTo(d)'
  <2>1. /\ AnsweredTo(d) /\ pc'[d] = pc[d] /\ owed'[d] = owed[d] /\ ticket'[d] = ticket[d]
    BY <1>1, <1>4 DEF Answered
  <2>2. CASE UNCHANGED mail
    BY <2>1, <2>2, <1>1, <1>2, NotConcerned
  <2>3. CASE mail' = Append(mail, Apply)
    BY <2>1, <2>3, <1>1, <1>2, ApplyPosted
  <2>4. CASE SendTicket(c)
    <3>1. pc[d] \notin Waiting
      BY <2>4, <1>4 DEF SendTicket, Goto, ActorTypeOK, Waiting
    <3> QED  BY <2>1, <3>1 DEF AnsweredTo, Waiting
  <2> QED  BY <2>2, <2>3, <2>4, <1>3
<1>5. AnsweredTo(c)'
  <2>1. AnsweredTo(c)
    BY DEF Answered
  <2>2. CASE \/ \E i \in Images : Change(c, i)
             \/ LoseTicket(c) \/ Timeout(c) \/ SeeNotOk(c) \/ UseConfirmation(c)
             \/ AskReset(c) \/ WriteRestartCoil(c) \/ CoilSaved(c) \/ CoilRefused(c)
    <3>1. pc'[c] \in {"idle", "save"}
      BY <2>2 DEF Change, LoseTicket, Timeout, SeeNotOk, Unconfirmed, UseConfirmation, AskReset,
           WriteRestartCoil,
                  CoilSaved, CoilRefused, Goto, StartSaving, Finish
    <3> QED  BY <3>1 DEF AnsweredTo
  <2>3. CASE TakeTicket(c)
    <3>1. pc'[c] = "send" /\ ticket'[c] = NextTicket(next) /\ UNCHANGED mail /\ NoLap
      BY <2>3 DEF TakeTicket, Goto, mbox, ActorTypeOK
    <3>2. Unseen(c)'
      BY <3>1, <1>1 DEF Unseen, NoLap, Elements, answer
    <3> QED  BY <3>1, <3>2 DEF AnsweredTo
  <2>4. CASE SendTicket(c)
    <3>1. /\ pc[c] = "send" /\ pc'[c] = "wait" /\ mail' = Append(mail, ticket[c])
          /\ UNCHANGED ticket /\ ticket[c] \in Tickets
      BY <2>4 DEF SendTicket, Goto, Post, wait, ActorTypeOK
    <3>2. Unseen(c) /\ ticket[c] \notin {serving', completed'}
      BY <2>1, <3>1, <1>1 DEF AnsweredTo, Unseen, answer
    <3>3. \A k \in DOMAIN mail : mail[k] # ticket[c]
      BY <3>2 DEF Unseen, Elements
    <3>4. LastInMail(c)'
      BY <3>1, <3>2, <3>3, MailAppend DEF LastInMail
    <3> QED  BY <3>1, <3>2, <3>4 DEF AnsweredTo, Served, Completed
  <2>5. CASE SeeCompleted(c)
    <3>1. /\ pc[c] = "wait" /\ pc'[c] = "ok?" /\ completed = ticket[c]
          /\ UNCHANGED <<mail, ticket, owed>>
      BY <2>5 DEF SeeCompleted, Goto, mbox, wait
    <3>2. LastInMail(c) /\ Served(c) /\ Completed(c)
      BY <3>1, <2>1 DEF AnsweredTo
    <3> QED  BY <3>1, <3>2, <1>1, <1>2 DEF AnsweredTo, LastInMail, Served, NoTickets, Completed, answer
  <2>6. CASE SeeOk(c)
    <3>1. pc[c] = "ok?" /\ pc'[c] = "confirmed" /\ ok /\ UNCHANGED owed
      BY <2>6 DEF SeeOk, Goto
    <3>2. Completed(c) /\ completed = ticket[c]
      BY <3>1, <2>1 DEF AnsweredTo
    <3> QED  BY <3>1, <3>2 DEF AnsweredTo, Completed
  <2> QED  BY <2>2, <2>3, <2>4, <2>5, <2>6 DEF Calls
<1>6. pc'[Actor] = "complete" => job'[Actor] = "ticket"
  BY <1>2 DEF Answered
<1> QED  BY <1>4, <1>5, <1>6 DEF Answered

-----------------------------------------------------------------------------
(* Every step keeps the invariant                                           *)

LEMMA ActorSteps == ActorInv /\ [ActorNext]_actorVars => ActorInv'
<1> SUFFICES ASSUME ActorInv, [ActorNext]_actorVars PROVE ActorInv'
  OBVIOUS
<1>1. CASE \E t \in Threads : Save(t)
  BY <1>1, SaveKeeps
<1>2. CASE Boot
  BY <1>2, ActorBoots
<1>3. CASE Serving \/ Resets
  BY <1>3, ServerTypes, FlaggedStep, MainKeeps, ServingAnswers, ResetsAnswer DEF ActorInv
<1>4. CASE \E c \in Clients : Calls(c)
  BY <1>4, ClientTypes, FlaggedStep, MainKeeps, ClientsAnswer DEF ActorInv
<1>5. CASE UNCHANGED actorVars
  BY <1>5 DEF actorVars, images, mbox, wait, answer, lists, ActorInv, ActorTypeOK, Lists, Flagged,
       FlagsAreTrue, MainSaves,
              Answered, AnsweredTo, Unseen, LastInMail, Served, NoTickets, Completed
<1>6. [ActorNext]_actorVars => \/ \E t \in Threads : Save(t)
                    \/ Boot \/ Serving \/ Resets \/ (\E c \in Clients : Calls(c)) \/ UNCHANGED actorVars
  BY Names DEF ActorNext, ActorStep, MainStep, ClientStep, Restart, PowerCut, Serving, Resets, Calls, Save
<1> QED  BY <1>1, <1>2, <1>3, <1>4, <1>5, <1>6

(* The results                                                             *)

(* The invariant holds in every reachable state, for any clients, images,     *)
(* mailbox, batch and any number of tickets that the mailbox cannot use up.    *)
THEOREM ActorInvariant == ActorSpec => []ActorInv
  BY ActorStarts, ActorSteps, PTL DEF ActorSpec

(* Types; and the wait slot is taken by just one waiting client              *)
(* (device/mod.rs:292-301).                                                *)
THEOREM ActorTypes == ActorSpec => []ActorTypeOK
<1>1. ActorInv => ActorTypeOK
  BY DEF ActorInv
<1> QED  BY <1>1, ActorInvariant, PTL

(* A client whose wait for a save is confirmed has everything in flash that   *)
(* was acknowledged before it asked, although others time out, leave their    *)
(* tickets in the mailbox and are answered late (device/mod.rs:292-330).      *)
THEOREM ConfirmationsAreTrue == ActorSpec => []ConfirmedIsSaved
<1>1. ActorInv => ConfirmedIsSaved
  BY DEF ActorInv, Answered, AnsweredTo, ConfirmedIsSaved
<1> QED  BY <1>1, ActorInvariant, PTL

(* A planned restart loses nothing that was acknowledged before the main loop *)
(* took the request (main.rs:470-482).                                       *)
THEOREM RestartsLoseNothing == ActorSpec => []RestartIsSaved
<1>1. ActorInv => RestartIsSaved
  BY DEF ActorInv, MainSaves, RestartIsSaved
<1> QED  BY <1>1, ActorInvariant, PTL

(* A flag that is down means saved: nothing that was acknowledged waits        *)
(* unflagged, also after a save that failed or was overtaken                   *)
(* (device/mod.rs:846-872).                                                 *)
THEOREM FlagsMeanSaved == ActorSpec => []FlagsAreTrue
<1>1. ActorInv => FlagsAreTrue
  BY DEF ActorInv, Flagged
<1> QED  BY <1>1, ActorInvariant, PTL

=============================================================================
