---------------------------- MODULE RegisterReads ---------------------------
(***************************************************************************)
(* Reading the registers (src/src/bus/backends.rs, read side).  CONFIG and      *)
(* STORAGE are snapshot cells (module Rcu): a reader that keeps a snapshot sees   *)
(* the registers of that store as they were at one moment, one that asks anew     *)
(* for each word sees each word as it is by then.                             *)
(***************************************************************************)
EXTENDS Registers

VARIABLES
  seen,                 \* what each client has read: a function from registers to values
  since                 \* history: the registers at each moment since the read began

readVars == <<seen, since>>

ReadInit == seen = [c \in Clients |-> Nothing] /\ since = [c \in Clients |-> {}]

Blanks(asked) == [r \in asked |-> 0]

(* A snapshot is taken and the registers asked for are read from it; the answer    *)
(* holds what was read, the registers named being of one snapshot per store.      *)
Look(asked)    == IF asked = {} THEN Nothing ELSE Step("look", Blanks(asked), "none", Nothing)
Respond(whole) == Step("respond", Blanks(whole), "none", Nothing)

ReadConfig(asked)  == Look(asked) \o Respond(asked)             \* config_read_with
ReadStorage(asked) == Look(asked) \o Respond(asked)             \* storage_read_with
ReadWords(r, s)    == Look({r}) \o Look({s}) \o Respond({})     \* read_hold_reg, read_input_reg

(* FC03: CONFIG, then STORAGE, once for the request; what the address belongs to   *)
(* decides from which of them a word is taken.  Variant: as the firmware was      *)
(* before, with two snapshots for every word (comment at 547-551).              *)
ReadHoldingEach(asked) ==
  FoldFunction(LAMBDA r, steps : Look({r}) \o steps, Respond(asked), [r \in asked |-> r])
ReadHolding(asked) == Look(asked \cap Conf) \o Look(asked \ Conf) \o Respond(asked)

(* FC04: the analog and RS485 results are captured once, the words of the         *)
(* configuration are not.                                                   *)
ReadInput == ReadWords("ip", "sn")

See(c) ==
  LET known == DOMAIN seen[c] \union DOMAIN Arg(c) IN
  /\ Doing(c, "look") /\ Done(c)
  /\ seen' = [seen EXCEPT ![c] = [r \in known |-> IF r \in DOMAIN Arg(c) THEN reg[r] ELSE @[r]]]
  /\ UNCHANGED <<registers, lock, commit, counts>>

Answered(c) ==
  /\ Doing(c, "respond") /\ Done(c) /\ seen' = [seen EXCEPT ![c] = Nothing]
  /\ UNCHANGED <<registers, lock, commit, counts>>

ReadStep(c) == See(c) \/ Answered(c)

ReadRestart == seen' = [c \in Clients |-> Nothing]

Reading(c) == "respond" \in {s.do : s \in Range(todo[c])}
Moments == since' = [c \in Clients |-> IF Reading(c)' THEN since[c] \union {reg'} ELSE {}]

-----------------------------------------------------------------------------
(* An answer to FC03, and one a handler takes from one snapshot, holds for each     *)
(* store what its registers were at one moment since the request came, whatever    *)
(* batch another task publishes meanwhile (backends.rs:547-579).                *)
ReadsOneMoment ==
  \A c \in Clients : Doing(c, "respond") =>
    \A store \in {Conf, Regs \ Conf} : \E then \in since[c] :
      \A r \in DOMAIN Arg(c) \cap store : seen[c][r] = then[r]
=============================================================================
