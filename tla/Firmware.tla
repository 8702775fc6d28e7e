------------------------------ MODULE Firmware ------------------------------
(***************************************************************************)
(* Updates of the firmware (src/src/ota/mod.rs): the one session, whose       *)
(* mutex makes every operation a step, its clients, AT commands (src/src/     *)
(* ble_at/ota_handlers.rs) and the upload over HTTP (src/src/web/mod.rs,      *)
(* 1973-2082), and the confirmation of new firmware (src/src/main.rs).        *)
(*                                                                           *)
(* An image has Size chunks of one kind: firmware that works, or "bad" that   *)
(* starts but does not bring up all services.  Partitions, the boot data and  *)
(* the choice of the bootloader (rollback enabled, sdkconfig.defaults:258)    *)
(* are the platform's.                                                        *)
(***************************************************************************)
EXTENDS Naturals

CONSTANTS
  Size,         \* chunks of an image, and of a partition
  MaxBegins, MaxRefusals  \* bounds: sessions, refusals of flash

ASSUME FirmwareAssumption == {Size, MaxBegins, MaxRefusals} \subseteq Nat /\ Size > 0

VARIABLES
  image,        \* partition -> what it holds
  booted,       \* the partition that runs
  newest, entries,  \* boot data: the slot selected last, the state of each slot
  session,      \* SESSION
  last,         \* LAST_STATUS
  handles,      \* handles the platform has given and not released
  upload,       \* the HTTP upload: [pc, kind, sent]
  confirmed,    \* ota_validation_done
  begins, refusals  \* how often each happened

bootData == <<newest, entries>>
otaVars  == <<image, booted, bootData, session, last, handles, upload, confirmed, begins, refusals>>

Slots     == {"ota_0", "ota_1"}
Firmwares == {"good", "bad"}
NoSession == [target |-> "none"]
NoUpload  == [pc |-> "idle"]
Unknown   == 0

OtaInit ==
  /\ image = [p \in Slots \cup {"factory"} |-> IF p = "factory" THEN "good" ELSE "none"]
  /\ booted = "factory" /\ newest = "ota_0" /\ entries = [p \in Slots |-> "none"]
  /\ session = NoSession /\ last = "Idle" /\ handles = {} /\ upload = NoUpload
  /\ confirmed = FALSE

-----------------------------------------------------------------------------
(* The platform.                                                              *)
Other(p)   == IF p = "ota_0" THEN "ota_1" ELSE "ota_0"
NextUpdate == Other(booted)
StateOf(p) == IF p \in Slots THEN entries[p] ELSE "none"
Whole(p)   == image[p] \in Firmwares
SetBoot(p) == newest' = p /\ entries' = [entries EXCEPT ![p] = "new"]

(* A new image is tried once: at the next boot it is aborted unless confirmed. *)
Judged    == [p \in Slots |-> IF entries[p] = "pending" THEN "aborted" ELSE entries[p]]
Usable(p) == Judged[p] \in {"new", "valid"}
Selected  ==
  IF Usable(newest) THEN newest ELSE IF Usable(Other(newest)) THEN Other(newest) ELSE "factory"
Tried     == [p \in Slots |-> IF p = Selected /\ Judged[p] = "new" THEN "pending" ELSE Judged[p]]
FallBack  == IF Selected = "ota_1" /\ Whole("ota_0") THEN "ota_0" ELSE "factory"
Choice    == IF Whole(Selected) THEN Selected ELSE FallBack

Boot ==
  /\ entries' = Tried /\ booted' = Choice /\ UNCHANGED newest
  /\ session' = NoSession /\ last' = "Idle" /\ handles' = {} /\ upload' = NoUpload
  /\ confirmed' = FALSE
  /\ UNCHANGED <<image, begins, refusals>>

RefusedByFlash == refusals < MaxRefusals /\ refusals' = refusals + 1

-----------------------------------------------------------------------------
(* begin: one session, in the partition that does not run, which is erased at *)
(* once when the size is known.  The platform refuses it to firmware that is  *)
(* not confirmed.                                                            *)
Begins(total) ==
  /\ session = NoSession /\ total <= Size /\ StateOf(booted) # "pending"
  /\ begins < MaxBegins /\ begins' = begins + 1
  /\ session' = [target |-> NextUpdate, handle |-> begins, active |-> TRUE, total |-> total,
                 written |-> 0, kind |-> "none", status |-> "Receiving"]
  /\ handles' = handles \cup {begins} /\ last' = "Receiving"
  /\ image' = IF total = Unknown THEN image ELSE [image EXCEPT ![NextUpdate] = "part"]
  /\ UNCHANGED <<bootData, refusals>>

(* Erasing the partition is refused when some of it is gone.                  *)
HalfErased(total) ==
  total # Unknown /\ StateOf(booted) # "pending" /\ image' = [image EXCEPT ![NextUpdate] = "part"]

DoesNotBegin(total) ==
  /\ \/ session # NoSession /\ UNCHANGED <<last, refusals>>
     \/ session = NoSession /\ total > Size /\ last' = "NoSpace" /\ UNCHANGED refusals
     \/ session = NoSession /\ total <= Size /\ StateOf(booted) = "pending" /\ UNCHANGED <<last, refusals>>
     \/ session = NoSession /\ total <= Size /\ RefusedByFlash /\ UNCHANGED last
  /\ image' = image \/ (refusals' # refusals /\ HalfErased(total))
  /\ UNCHANGED <<bootData, session, handles, begins>>

(* write_chunk: a chunk more than fits is refused; a refusal of the flash     *)
(* ends the session.                                                          *)
Limit == IF session.total = Unknown THEN Size ELSE session.total
Receiving == session # NoSession /\ session.status = "Receiving"

Writes(kind) ==
  /\ Receiving /\ session.written < Limit
  /\ LET mixed == IF session.kind \in {"none", kind} THEN kind ELSE "part"
         n == session.written + 1
     IN /\ session' = [session EXCEPT !.written = n, !.kind = mixed]
        /\ image' = [image EXCEPT ![session.target] = IF n = Size THEN mixed ELSE "part"]
  /\ UNCHANGED <<bootData, last, handles, begins, refusals>>

DoesNotWrite ==
  /\ \/ /\ Receiving => session.written = Limit
        /\ UNCHANGED <<session, last, handles, refusals>>
     \/ /\ Receiving /\ session.written < Limit /\ RefusedByFlash
        /\ handles' = handles \ {session.handle}
        /\ session' = NoSession /\ last' = "VerifyFailed"
  /\ UNCHANGED <<image, bootData, begins>>

(* end: what clients have been acknowledged is saved first; the handle is     *)
(* released whatever comes of it.  An END after an END finds it released.     *)
Fails ==
  /\ session' = NoSession /\ last' = "VerifyFailed" /\ UNCHANGED bootData

Released == [session EXCEPT !.active = FALSE]
EndsKeepingHandle ==
  /\ session' = [session EXCEPT !.status = "DonePendingReboot"] /\ last' = "DonePendingReboot"
  /\ SetBoot(session.target)
EndsWell ==
  /\ session' = [Released EXCEPT !.status = "DonePendingReboot"] /\ last' = "DonePendingReboot"
  /\ SetBoot(session.target)

Complete == session # NoSession /\ session.written >= session.total

Ends ==
  /\ Complete /\ session.active /\ Whole(session.target) /\ EndsWell
  /\ handles' = handles \ {session.handle}
  /\ UNCHANGED <<image, begins, refusals>>

DoesNotEnd ==
  /\ \/ ~Complete /\ UNCHANGED <<bootData, session, last, handles, refusals>>
     \/ /\ Complete /\ RefusedByFlash   \* the save before it
        /\ UNCHANGED <<bootData, session, last, handles>>
     \/ /\ Complete /\ (session.active => ~Whole(session.target)) /\ Fails
        /\ handles' = handles \ {session.handle} /\ UNCHANGED refusals
     \/ /\ Complete /\ session.active /\ RefusedByFlash /\ Fails
        /\ handles' = handles \ {session.handle}
  /\ UNCHANGED <<image, begins>>

(* abort: the partition that was selected stays selected.  An error of the     *)
(* platform, for which a handle it refuses is no handle, leaves LAST_STATUS.    *)
Abort ==
  /\ IF session = NoSession THEN UNCHANGED <<session, last, handles>>
     ELSE /\ session' = NoSession /\ last' \in {"Aborted"} \cup (IF session.active THEN {last} ELSE {})
          /\ handles' = IF session.active THEN handles \ {session.handle} ELSE handles
  /\ UNCHANGED <<image, bootData, begins, refusals>>

Status == IF session = NoSession THEN last ELSE session.status

-----------------------------------------------------------------------------
(* AT commands.  The data of WRITE are of any image.                          *)
AtOta ==
  /\ \/ \E total \in {Unknown, Size, Size + 1} : Begins(total) \/ DoesNotBegin(total)
     \/ \E kind \in Firmwares : Writes(kind)
     \/ DoesNotWrite \/ Ends \/ DoesNotEnd \/ Abort
  /\ UNCHANGED <<booted, upload, confirmed>>

AtReboot == Status = "DonePendingReboot"

(* The upload: begin, one write after the other, end, restart; on any error,  *)
(* also when begin refuses, abort in a step of its own.  The peer may go, before  *)
(* the last answer too, which costs the restart.                              *)
UploadBegins ==
  /\ upload = NoUpload
  /\ \/ \E kind \in Firmwares : Begins(Size) /\ upload' = [pc |-> "write", kind |-> kind, sent |-> 0]
     \/ DoesNotBegin(Size) /\ upload' = [pc |-> "abort"]

UploadWrites ==
  /\ upload.pc = "write" /\ upload.sent < Size
  /\ \/ Writes(upload.kind) /\ upload' = [upload EXCEPT !.sent = @ + 1]
     \/ DoesNotWrite /\ upload' = [pc |-> "abort"]

UploadGone ==
  /\ upload.pc = "write" /\ upload' = [pc |-> "abort"]
  /\ UNCHANGED <<image, bootData, session, last, handles, begins, refusals>>

UploadEnds ==
  /\ upload.pc = "write" /\ upload.sent = Size
  /\ \/ Ends /\ upload' \in {[pc |-> "restart"], NoUpload}
     \/ DoesNotEnd /\ upload' = [pc |-> "abort"]

UploadAborts == upload.pc = "abort" /\ Abort /\ upload' = NoUpload

Upload ==
  /\ UploadBegins \/ UploadWrites \/ UploadGone \/ UploadEnds \/ UploadAborts
  /\ UNCHANGED <<booted, confirmed>>

(* confirm_new_firmware.                                                      *)
NeedsConfirmation == StateOf(booted) = "pending"

ConfirmNewFirmware ==
  /\ \/ ~NeedsConfirmation /\ confirmed' = TRUE /\ UNCHANGED <<bootData, refusals>>
     \/ /\ NeedsConfirmation /\ confirmed' = TRUE /\ UNCHANGED refusals
        /\ entries' = [entries EXCEPT ![booted] = "valid"] /\ UNCHANGED newest
     \/ NeedsConfirmation /\ RefusedByFlash /\ UNCHANGED <<bootData, confirmed>>
  /\ UNCHANGED <<image, booted, session, last, handles, upload, begins>>

-----------------------------------------------------------------------------
(* What clients are told is true: the platform holds exactly the session's     *)
(* handle, and "done" means that the session's partition is whole and is what  *)
(* boots next, whoever wrote, ended and aborted meanwhile (ota/mod.rs:258-338). *)
OtaIsTrue ==
  /\ handles = IF session = NoSession \/ ~session.active THEN {} ELSE {session.handle}
  /\ Status = "DonePendingReboot" =>
       /\ session # NoSession /\ Whole(session.target)
       /\ Choice = session.target

(* Firmware that does not bring up the services runs only for one boot: the    *)
(* next one brings back firmware that does (main.rs:545-561, 698-746).         *)
AlwaysAWayBack == image[booted] = "bad" => image[Choice] = "good"

(* After an abort the next boot still takes the firmware that runs, as abort says *)
(* (ota/mod.rs:318-320).  It is not so after END, see section 5 of the README.   *)
AbortKeepsFirmware == last = "Aborted" => Choice = booted
=============================================================================
