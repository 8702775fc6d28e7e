----------------------------- MODULE OutputPath -----------------------------
(***************************************************************************)
(* The way of a digital output from IO.do_ to the port expanders: writers    *)
(* and notify, the main loop's tick_do_output (src/src/io/do_.rs), the queue *)
(* (src/src/hal/io_worker_state.rs) and the output half of the worker's loop *)
(* (src/src/hal/pca9555.rs).                                               *)
(*                                                                         *)
(* A bank stands for one expander with one output; a bitmap is the set of    *)
(* the banks whose output is on.  An expander that loses power comes back     *)
(* with its output register on and its pins as inputs (pca9555.rs configures  *)
(* them in init, lines 617-627); one that is missing during init is left out. *)
(* Back-off times may end at any moment.                                    *)
(***************************************************************************)
EXTENDS Naturals, Sequences, SequencesExt

CONSTANTS
  Writers,    \* tasks that write coils or apply control words
  NBanks,     \* DO_IO_ADDRS.len()
  QueueSize,  \* OUTPUT_QUEUE_CAPACITY
  MaxWrites,  \* bound on coil writes
  MaxFaults   \* bound on refused I2C transactions, lock contention and resets

ASSUME BoundsAssumption ==
  /\ {NBanks, MaxWrites, MaxFaults} \subseteq Nat
  /\ QueueSize \in Nat \ {0}

Banks   == 1 .. NBanks
Bitmaps == SUBSET Banks
NoBits  == {0}   \* the initial DoState.last, u64::MAX

VARIABLES
  out,        \* IO.do_
  telling,    \* writers between changing IO.do_ and notify
  dirty,      \* DO_DIRTY
  last,       \* DoState.last: what the worker's queue has accepted last
  backoff,    \* DoState.retry_ticks is not 0
  main,       \* the main loop in tick_do_output
  target,     \* the bitmap it has loaded
  queue, latest,
  worker,     \* the worker's next step
  command,    \* the command it works on, NoCommand between two rounds
  failed,     \* do_failures is not 0
  readback,   \* do_hardware, and do_readback_valid
  registers,  \* the output registers of the expanders
  driven,     \* the banks whose pins are outputs
  lost,       \* history: an expander has been reset since the readback
  barred,     \* history: what was latest when a transaction failed last
  writes, faults

mem     == <<out, telling, dirty>>
loop    == <<last, backoff, main, target>>
fifo    == <<queue, latest>>
task    == <<worker, command, failed, readback, barred>>
chips   == <<registers, driven, lost>>
vars    == <<mem, loop, fifo, task, chips, writes, faults>>

Command   == [generation : Nat, bits : Bitmaps]
NoCommand == [generation |-> 0, bits |-> {}]

MayFault == faults < MaxFaults /\ faults' = faults + 1

(* device::init loads the outputs and notifies; without NVS it does neither. *)
Init ==
  /\ out \in Bitmaps /\ telling = {}
  /\ dirty \in BOOLEAN /\ (~ dirty => out = {})
  /\ last = NoBits /\ backoff = FALSE /\ main = "idle" /\ target = {}
  /\ queue = <<>> /\ latest = NoCommand
  /\ worker = "idle" /\ command = NoCommand /\ failed = FALSE
  /\ readback = [valid |-> FALSE, bits |-> {}]
  /\ registers = {} /\ driven = Banks /\ lost = FALSE /\ barred = 0
  /\ writes = 0 /\ faults = 0

-----------------------------------------------------------------------------
(* Writers                                                                 *)

WriteCoil(w, bits) ==
  /\ w \notin telling
  /\ writes < MaxWrites /\ writes' = writes + 1
  /\ out' = bits
  /\ telling' = telling \union {w}
  /\ UNCHANGED <<dirty, loop, fifo, task, chips, faults>>

Notify(w) ==
  /\ w \in telling
  /\ telling' = telling \ {w}
  /\ dirty' = TRUE
  /\ UNCHANGED <<out, loop, fifo, task, chips, writes, faults>>

-----------------------------------------------------------------------------
(* tick_do_output                                                          *)

(* The flag is taken down; without it, every ten seconds all the same.       *)
TakeDirty ==
  /\ main = "idle" /\ ~ backoff
  /\ dirty' = FALSE
  /\ main' = "load"
  /\ UNCHANGED <<out, telling, last, backoff, target, fifo, task, chips, writes, faults>>

EndBackoff ==
  /\ main = "idle" /\ backoff
  /\ backoff' = FALSE
  /\ UNCHANGED <<mem, last, main, target, fifo, task, chips, writes, faults>>

Load ==
  /\ main = "load"
  /\ IF out = last THEN main' = "idle" /\ UNCHANGED target
     ELSE main' = "submit" /\ target' = out
  /\ UNCHANGED <<mem, last, backoff, fifo, task, chips, writes, faults>>

(* OutputQueue::submit                                                     *)
Enqueue(bits) ==
  IF bits = latest.bits THEN UNCHANGED fifo
  ELSE LET next == [generation |-> latest.generation + 1, bits |-> bits]
       IN queue' = Append(queue, next) /\ latest' = next

Full(bits) == Len(queue) = QueueSize /\ bits # latest.bits

Accept ==
  /\ ~ Full(target)
  /\ Enqueue(target)
  /\ last' = target
  /\ UNCHANGED <<dirty, backoff, faults>>

(* Variant: what was refused is forgotten.                                  *)
RefuseQuietly ==
  /\ \/ Full(target) /\ UNCHANGED <<backoff, faults>>
     \/ MayFault /\ backoff' \in BOOLEAN
  /\ UNCHANGED <<dirty, last, fifo>>

(* The queue is full or somebody else has its lock: again in the next tick;  *)
(* the worker is stalled: again after a while.                              *)
Refuse ==
  /\ \/ Full(target) /\ UNCHANGED <<backoff, faults>>
     \/ MayFault /\ backoff' \in BOOLEAN
  /\ dirty' = TRUE
  /\ UNCHANGED <<last, fifo>>

Submit ==
  /\ main = "submit"
  /\ main' = "idle" /\ target' = {}
  /\ Accept \/ Refuse
  /\ UNCHANGED <<out, telling, task, chips, writes>>

-----------------------------------------------------------------------------
(* The worker                                                              *)

(* Variant: all edges are kept.                                             *)
RetainedAll == queue

(* Variant: the oldest edge is kept.                                        *)
RetainedOldest == IF failed /\ queue # <<>> THEN <<Head(queue)>> ELSE queue

(* retain_latest_after_fault                                                *)
Retained == IF failed /\ queue # <<>> THEN <<latest>> ELSE queue

(* A round in which it is too early for a retry: the edges go all the same.   *)
TooEarly ==
  /\ worker = "idle" /\ failed
  /\ queue' = Retained
  /\ UNCHANGED <<mem, loop, latest, task, chips, writes, faults>>

(* The front of the queue is looked at.                                     *)
Take ==
  /\ worker = "idle"
  /\ queue' = Retained
  /\ IF queue = <<>>
     THEN worker' = "check" /\ UNCHANGED command
     ELSE /\ command' = Head(Retained)
          /\ worker' = "write"
  /\ UNCHANGED <<mem, loop, latest, failed, readback, barred, chips, writes, faults>>

(* Variant: what is read back when idle is trusted.                          *)
CheckTrusting ==
  /\ worker = "check"
  /\ readback' = [valid |-> TRUE, bits |-> registers]
  /\ lost' = FALSE
  /\ failed' = FALSE
  /\ worker' = "idle"
  /\ UNCHANGED <<mem, loop, fifo, command, barred, registers, driven, writes, faults>>

(* Nothing to do: the registers are compared with the newest target.         *)
Check ==
  /\ worker = "check"
  /\ IF registers = latest.bits
     THEN /\ readback' = [valid |-> TRUE, bits |-> registers]
          /\ lost' = FALSE
          /\ failed' = FALSE
          /\ worker' = "idle"
          /\ UNCHANGED command
     ELSE /\ command' = latest
          /\ worker' = "rewrite"
          /\ UNCHANGED <<readback, lost, failed>>
  /\ UNCHANGED <<mem, loop, fifo, barred, registers, driven, writes, faults>>

(* Bank after bank.                                                        *)
Written(n) == {b \in Banks : b \in IF b <= n THEN command.bits ELSE registers}

WriteRegisters ==
  /\ \/ worker = "write" /\ worker' = "verify"
     \/ worker = "rewrite" /\ worker' = "reverify"
  /\ registers' = Written(NBanks)
  /\ UNCHANGED <<mem, loop, fifo, command, failed, readback, barred, driven, lost, writes, faults>>

(* Variant: the registers are read back and believed.                        *)
VerifyNothing ==
  /\ \/ worker = "verify" /\ worker' = "confirm" /\ UNCHANGED command
     \/ worker = "reverify" /\ worker' = "idle" /\ command' = NoCommand
  /\ readback' = [valid |-> TRUE, bits |-> registers]
  /\ lost' = FALSE
  /\ failed' = FALSE
  /\ UNCHANGED <<mem, loop, fifo, barred, registers, driven, writes, faults>>

Verify ==
  /\ registers = command.bits
  /\ \/ worker = "verify" /\ worker' = "confirm" /\ UNCHANGED command
     \/ worker = "reverify" /\ worker' = "idle" /\ command' = NoCommand
  /\ readback' = [valid |-> TRUE, bits |-> registers]
  /\ lost' = FALSE
  /\ failed' = FALSE
  /\ UNCHANGED <<mem, loop, fifo, barred, registers, driven, writes, faults>>

Confirm ==
  /\ worker = "confirm"
  /\ worker' = "idle"
  /\ queue' = IF queue # <<>> /\ Head(queue) = command THEN Tail(queue) ELSE queue
  /\ command' = NoCommand
  /\ UNCHANGED <<mem, loop, latest, failed, readback, barred, chips, writes, faults>>

(* A transaction is refused, perhaps after some banks have been written, or  *)
(* the registers do not read back as written.                               *)
Fail ==
  /\ \/ /\ worker \in {"write", "rewrite"}
        /\ MayFault
        /\ \E n \in 0 .. NBanks - 1 : registers' = Written(n)
     \/ worker \in {"check", "verify", "reverify"} /\ MayFault /\ UNCHANGED registers
     \/ /\ worker \in {"verify", "reverify"}
        /\ registers # command.bits
        /\ UNCHANGED <<registers, faults>>
  /\ worker' = "idle"
  /\ failed' = TRUE
  /\ readback' = [readback EXCEPT !.valid = FALSE]
  /\ barred' = latest.generation
  /\ command' = NoCommand
  /\ UNCHANGED <<mem, loop, fifo, driven, lost, writes>>

(* An expander loses power for a moment.                                    *)
ResetChip(b) ==
  /\ MayFault
  /\ registers' = registers \union {b}
  /\ driven' = driven \ {b}
  /\ lost' = TRUE
  /\ UNCHANGED <<mem, loop, fifo, task, writes>>

-----------------------------------------------------------------------------
MainLoop == TakeDirty \/ EndBackoff \/ Load \/ Submit
Worker   == TooEarly \/ Take \/ Check \/ WriteRegisters \/ Verify \/ Confirm \/ Fail

Next ==
  \/ \E w \in Writers :
       \/ \E bits \in Bitmaps : WriteCoil(w, bits)
       \/ Notify(w)
  \/ MainLoop
  \/ Worker
  \/ \E b \in Banks : ResetChip(b)

Spec == Init /\ [][Next]_vars

(* Every task goes on; coil writes and faults are finitely many.             *)
FairSpec ==
  Spec /\ WF_vars(MainLoop) /\ WF_vars(Worker) /\ \A w \in Writers : WF_vars(Notify(w))

-----------------------------------------------------------------------------
(* Types, and the numbers in the queue are consecutive and end in the newest *)
(* target.                                                                 *)
TypeOK ==
  /\ out \in Bitmaps /\ telling \subseteq Writers
  /\ {dirty, backoff, failed, lost} \subseteq BOOLEAN
  /\ last \in Bitmaps \union {NoBits} /\ target \in Bitmaps
  /\ main \in {"idle", "load", "submit"}
  /\ worker \in {"idle", "write", "verify", "confirm", "check", "rewrite", "reverify"}
  /\ latest \in Command /\ command \in Command
  /\ queue \in Seq(Command) /\ Len(queue) <= QueueSize
  /\ \A i \in 1 .. Len(queue) : queue[i].generation = latest.generation - (Len(queue) - i)
  /\ queue # <<>> => Last(queue) = latest
  /\ readback \in [valid : BOOLEAN, bits : Bitmaps]
  /\ registers \in Bitmaps /\ driven \in Bitmaps
  /\ {barred, writes, faults} \subseteq Nat

(* A change of IO.do_ that has been notified is never overlooked: the flag   *)
(* is up, or the main loop is about to load, or it was accepted or is being  *)
(* submitted (io/do_.rs:98-113); all outputs are off from the start.         *)
NothingMissed ==
  dirty \/ telling # {} \/ main = "load"
        \/ (main = "submit" /\ target = out)
        \/ (main # "submit" /\ last = out)
        \/ (main # "submit" /\ last = NoBits /\ out = {})

(* After a fault only the newest target of that moment or a later one is     *)
(* written, no edge that it had replaced (io_worker_state.rs:60-61).         *)
NoReplay == worker \in {"write", "rewrite"} => command.generation >= barred

(* When the queue is empty and the worker reports what it has read back,     *)
(* the registers hold the newest target, unless an expander has been reset   *)
(* since (pca9555.rs:414-487).                                              *)
EmptyMeansWritten ==
  queue = <<>> /\ worker = "idle" /\ readback.valid /\ ~ lost
    => registers = latest.bits

(* The registers end up holding the outputs, whatever was refused, dropped   *)
(* or reset on the way.                                                    *)
OutputsFollow == <>[](registers = out)

(* Registers that were reset are written again and verified                 *)
(* (pca9555.rs, "Expander brownout/reset: rewrite and verify"): what is       *)
(* reported as read back is what the pins drive.                            *)
ReadbackIsDriven == readback.valid /\ ~ lost => driven = Banks

=============================================================================
