----------------------------- MODULE OutputStore -----------------------------
(***************************************************************************)
(* The digital outputs in NVS (src/src/device/mod.rs:873-884, 1250-1326):   *)
(* the actor saves them at most once a second, the main loop saves them in  *)
(* the barrier before a planned restart, and a boot loads them.  Outputs    *)
(* that are on for a pulse (src/src/control_logic.rs:628-637) are left out. *)
(* A bitmap is the set of the outputs that are on.  The images the barrier  *)
(* saves first are in DeviceActor.                                         *)
(***************************************************************************)
EXTENDS Naturals

CONSTANTS Main, Actor, Outputs

Threads == {Main, Actor}

VARIABLES
  out,      \* IO.do_
  pulsed,   \* TRANSIENT_MASK
  nvs,      \* the bitmap in NVS
  last,     \* DO_PERSIST_LAST
  pc,       \* pc[t]: the next step of t
  bits,     \* bits[t]: the bitmap t saves
  reset,    \* a reset is requested
  settled   \* history: since the request was taken no output has changed
            \* and the actor has not been saving outputs

outputs == <<out, pulsed>>
vars    == <<outputs, nvs, last, pc, bits, reset, settled>>

Goto(t, from, to) ==
  /\ pc[t] = from
  /\ pc' = [pc EXCEPT ![t] = to]

(* load_do_bits_from_nvs; that NVS cannot be read, which turns everything    *)
(* off, is left out.                                                       *)
Boot ==
  /\ out' = nvs
  /\ pulsed' = {}
  /\ last' = {}
  /\ pc' = [t \in Threads |-> "idle"]
  /\ bits' = [t \in Threads |-> {}]
  /\ reset' = FALSE
  /\ settled' = FALSE
  /\ UNCHANGED nvs

(* A boot, with what has been saved before.                                 *)
Init ==
  /\ nvs \in SUBSET Outputs
  /\ out = nvs /\ pulsed = {} /\ last = {}
  /\ pc = [t \in Threads |-> "idle"] /\ bits = [t \in Threads |-> {}]
  /\ reset = FALSE /\ settled = FALSE

-----------------------------------------------------------------------------
(* A Modbus client switches an output.                                      *)
WriteCoil(o) ==
  /\ out' \in {out \union {o}, out \ {o}}
  /\ settled' = (settled /\ out' = out)
  /\ UNCHANGED <<pulsed, nvs, last, pc, bits, reset>>

(* apply_output, in the main loop: first the output, then the mask.          *)
Apply(o, on, pulse) ==
  /\ Goto(Main, "idle", IF pulse THEN "pulsed" ELSE "steady")
  /\ bits' = [bits EXCEPT ![Main] = {o}]
  /\ out' = IF on THEN out \union {o} ELSE out \ {o}
  /\ UNCHANGED <<pulsed, nvs, last, reset, settled>>

MaskApplied ==
  /\ \/ Goto(Main, "pulsed", "idle") /\ pulsed' = pulsed \union bits[Main]
     \/ Goto(Main, "steady", "idle") /\ pulsed' = pulsed \ bits[Main]
  /\ bits' = [bits EXCEPT ![Main] = {}]
  /\ UNCHANGED <<out, nvs, last, reset, settled>>

AskReset ==
  /\ reset' = TRUE
  /\ UNCHANGED <<outputs, nvs, last, pc, bits, settled>>

-----------------------------------------------------------------------------
(* Saving: read the outputs, then the mask; compare; write; remember.        *)

ReadOutputs(t, from) ==
  /\ Goto(t, from, "mask")
  /\ bits' = [bits EXCEPT ![t] = out]
  /\ UNCHANGED <<outputs, nvs, last>>

(* The idle round of the actor, at most once a second.                       *)
Throttled ==
  /\ ReadOutputs(Actor, "idle")
  /\ settled' = FALSE
  /\ UNCHANGED reset

(* The request is consumed, the other images are saved, and then these.      *)
TakeReset ==
  /\ reset
  /\ ReadOutputs(Main, "idle")
  /\ reset' = FALSE
  /\ settled' = (pc[Actor] = "idle")

ReadMask(t) ==
  /\ Goto(t, "mask", "compare")
  /\ bits' = [bits EXCEPT ![t] = @ \ pulsed]
  /\ UNCHANGED <<outputs, nvs, last, reset, settled>>

Skip(t) ==
  /\ bits[t] = last
  /\ Goto(t, "compare", "saved")
  /\ UNCHANGED <<outputs, nvs, last, bits, reset, settled>>

Write(t) ==
  /\ bits[t] # last
  /\ Goto(t, "compare", "remember")
  /\ nvs' = bits[t]
  /\ UNCHANGED <<outputs, last, bits, reset, settled>>

(* The bitmap was not written, or only the magic number after it was not.    *)
WriteFails(t) ==
  /\ bits[t] # last
  /\ Goto(t, "compare", "idle")
  /\ nvs' \in {nvs, bits[t]}
  /\ bits' = [bits EXCEPT ![t] = {}]
  /\ UNCHANGED <<outputs, last, reset, settled>>

Remember(t) ==
  /\ Goto(t, "remember", "saved")
  /\ last' = bits[t]
  /\ UNCHANGED <<outputs, nvs, bits, reset, settled>>

(* The actor has its next round, the main loop restarts after 100 ms.        *)
Saved(t) ==
  /\ Goto(t, "saved", IF t = Main THEN "restart" ELSE "idle")
  /\ bits' = [bits EXCEPT ![t] = {}]
  /\ UNCHANGED <<outputs, nvs, last, reset, settled>>

Restart  == pc[Main] = "restart" /\ Boot
PowerCut == Boot

-----------------------------------------------------------------------------
Save(t) ==
  \/ ReadMask(t)
  \/ Skip(t)
  \/ Write(t)
  \/ WriteFails(t)
  \/ Remember(t)
  \/ Saved(t)

Next ==
  \/ \E o \in Outputs :
       \/ WriteCoil(o)
       \/ \E on, pulse \in BOOLEAN : Apply(o, on, pulse)
  \/ MaskApplied
  \/ AskReset
  \/ Throttled
  \/ TakeReset
  \/ \E t \in Threads : Save(t)
  \/ Restart
  \/ PowerCut

Spec == Init /\ [][Next]_vars

-----------------------------------------------------------------------------
(* A planned restart does not lose an acknowledged image (main.rs:474-475):  *)
(* if no output has changed since the main loop took the request, and the    *)
(* actor is not saving them as well, NVS has the outputs as they are.        *)
RestartKeepsOutputs ==
  pc[Main] = "restart" /\ settled => nvs = out \ pulsed

=============================================================================
