------------------------------- MODULE NfcTag -------------------------------
(***************************************************************************)
(* The NFC tag (src/src/nfc/mod.rs): a task that copies the first 880 holding   *)
(* registers to the tag when they changed or Web asks for it, and back when     *)
(* Web asks for that.  The tag is written in chunks, and it may be taken away   *)
(* between any two of them.  NFC_COMMAND is one slot that both requests of Web  *)
(* share; HOLDING_NFC_DIRTY is "nfc" in dirty.                              *)
(***************************************************************************)
EXTENDS Registers

CONSTANT MaxRounds      \* bound: rounds of the task that do something

ASSUME NfcAssumption == MaxRounds \in Nat

InTag   == {"logic1", "mcast", "range", "rawname"}      \* 2176..3055
Blank   == [r \in InTag |-> 0]
NoCrc   == [r \in InTag |-> 3]          \* LAST_NFC_CRC = 0; else the content stands for its CRC

VARIABLES
  tag, crc,             \* what the tag holds; LAST_NFC_CRC
  nfc, copy, command,   \* stage of the task, its copy of the registers, NFC_COMMAND
  examined,             \* snapshot_examined
  follows, rounds       \* history: the tag was last written as a whole, from here; rounds

nfcVars == <<tag, crc, nfc, copy, command, examined, follows, rounds>>

NfcAtRest == rounds = 0 /\ command = "auto"

NfcInit ==
  /\ tag = Blank /\ crc = NoCrc /\ nfc = "idle" /\ copy = Blank /\ command = "auto"
  /\ examined = FALSE /\ follows = FALSE /\ rounds = 0

Ram == [r \in InTag |-> reg[r]]

(* POST /nfcbackup, /nfcrestore: the slot is overwritten, served or not.        *)
Post(what) ==
  /\ what \in {"backup", "restore"} /\ command' = what
  /\ UNCHANGED <<tag, crc, nfc, copy, examined, follows, rounds, regVars>>

(* The session is open.  The command is taken; a backup takes the flag down      *)
(* before it looks at the registers.                                          *)
Open ==
  LET backup == command = "backup" \/ (command = "auto" /\ "nfc" \in dirty) IN
  /\ nfc = "idle" /\ rounds < MaxRounds /\ rounds' = rounds + 1
  /\ command # "auto" \/ backup \/ ~examined
  /\ command' = "auto"
  /\ nfc' = IF backup THEN "copy" ELSE IF command = "restore" THEN "restore" ELSE "examine"
  /\ dirty' = IF backup THEN dirty \ {"nfc"} ELSE dirty
  /\ UNCHANGED <<tag, crc, copy, examined, follows, reg, armed, flash, promised, writers, counts>>

(* The rest of the round without the tag: what was asked for is forgotten.      *)
NfcEnds(seen) == nfc' = "idle" /\ examined' = seen

CopyRegisters ==
  /\ nfc = "copy" /\ nfc' = "write" /\ copy' = Ram
  /\ UNCHANGED <<tag, crc, command, examined, follows, rounds, regVars>>

(* A backup of what the tag was last known to hold writes nothing.             *)
SkipBackup ==
  /\ nfc = "write" /\ copy = crc /\ NfcEnds(TRUE)
  /\ UNCHANGED <<tag, crc, copy, command, follows, rounds, regVars>>

(* Variant: a tag that was written needs no other backup.                      *)
WriteTagClears ==
  /\ nfc = "write" /\ copy # crc /\ NfcEnds(TRUE)
  /\ tag' = copy /\ crc' = copy /\ follows' = TRUE /\ dirty' = dirty \ {"nfc"}
  /\ UNCHANGED <<copy, command, rounds, reg, armed, flash, promised, writers, counts>>

WriteTag ==
  /\ nfc = "write" /\ copy # crc /\ NfcEnds(TRUE)
  /\ tag' = copy /\ crc' = copy /\ follows' = TRUE
  /\ UNCHANGED <<copy, command, rounds, regVars>>

(* The tag is gone after some chunks; the next round probes for it again.       *)
WriteTagFails ==
  \E written \in SUBSET InTag :
    /\ nfc = "write" /\ copy # crc /\ NfcEnds(FALSE)
    /\ tag' = [r \in InTag |-> IF r \in written THEN copy[r] ELSE tag[r]]
    /\ follows' = (follows /\ written = {})
    /\ dirty' = dirty \union {"nfc"}
    /\ UNCHANGED <<crc, copy, command, rounds, reg, armed, flash, promised, writers, counts>>

(* Words of the tag over the holding registers, without the name; the flag of     *)
(* the tag goes down after the lock, whoever raised it meanwhile.              *)
RestoreRegisters ==
  /\ nfc = "restore" /\ tag # Blank /\ lock = NoClient
  /\ reg' = [r \in Regs |-> IF r \in InTag THEN tag[r] ELSE reg[r]]
  /\ dirty' = dirty \union {"holding", "nfc"} /\ promised' = promised \union InTag
  /\ nfc' = "restored" /\ follows' = FALSE
  /\ UNCHANGED <<tag, crc, copy, command, examined, rounds, armed, flash, writers, counts>>

Restored ==
  /\ nfc = "restored" /\ NfcEnds(TRUE) /\ dirty' = dirty \ {"nfc"} /\ crc' = tag
  /\ UNCHANGED <<tag, copy, command, follows, rounds, reg, armed, flash, promised, writers, counts>>

RestoreRejected ==
  /\ nfc = "restore" /\ NfcEnds(FALSE)
  /\ UNCHANGED <<tag, crc, copy, command, follows, rounds, regVars>>

(* After detection the tag is read once, for the CRC of what it holds.          *)
Examine ==
  /\ nfc = "examine" /\ NfcEnds(TRUE) /\ crc' = IF tag # Blank THEN tag ELSE crc
  /\ UNCHANGED <<tag, copy, command, follows, rounds, regVars>>

NfcRestart ==
  /\ crc' = NoCrc /\ nfc' = "idle" /\ command' = "auto" /\ copy' = Blank /\ examined' = FALSE
  /\ follows' = FALSE /\ UNCHANGED <<tag, rounds>>

NfcStep ==
  \/ Open \/ CopyRegisters \/ SkipBackup \/ WriteTag \/ WriteTagFails
  \/ RestoreRegisters \/ Restored \/ RestoreRejected \/ Examine

-----------------------------------------------------------------------------
(* The tag, once it was written as a whole, is behind the registers only while   *)
(* its flag is up, its writer is about to raise it or a backup has yet to copy    *)
(* them (nfc/mod.rs:716-740, 860-912).                                       *)
TagFollows ==
  follows => \A r \in promised \cap InTag : reg[r] # tag[r] =>
    \/ "nfc" \in dirty \/ nfc = "copy" \/ (nfc = "write" /\ copy[r] = reg[r] /\ copy # crc)
    \/ "holding" \in UNION {Owed(c) : c \in Clients}
=============================================================================
