----------------------------- MODULE ProtoImage -----------------------------
(***************************************************************************)
(* The protocol image and its two committers (src/src/device/mod.rs,          *)
(* bus/backends.rs): the device actor serves the requests that were written    *)
(* to the registers PROTO_COMMIT and PROTO_RELOAD, AT+COMMIT and AT+RELOAD     *)
(* run in the main loop.  NVS holds two blobs and a key that says which one     *)
(* counts.                                                                 *)
(***************************************************************************)
EXTENDS Integers, Sequences

CONSTANTS
  MailboxSize,
  MaxProtoWrites        \* bound: changes of the image

ASSUME ProtoAssumption == {MailboxSize, MaxProtoWrites} \subseteq Nat

VARIABLES
  image, imageDirty,    \* ProtoStore: what it holds, as the number of the change; its flag
  blobs, active,        \* the two blobs in NVS, the one that counts
  mailbox, task, snap,  \* requests; stage of each committer, its copy of the image
  overlapped            \* history: both committers were at work at once

protoVars == <<image, imageDirty, blobs, active, mailbox, task, snap, overlapped>>

Committers == {"actor", "main"}
ProtoAtRest ==
  /\ image = 0 /\ imageDirty = FALSE /\ blobs = <<0, 0>> /\ active = 1 /\ mailbox = <<>>
  /\ task = [t \in Committers |-> "idle"] /\ snap = [t \in Committers |-> 0] /\ overlapped = FALSE

ProtoInit == ProtoAtRest

Goto(t, stage) == task' = [task EXCEPT ![t] = stage]

(* PROTO_BASE.., PROTO_VERSION and PROTO_LENGTH change the image and raise the   *)
(* flag under RCU_WRITE_LOCK.                                               *)
WriteImage ==
  /\ image < MaxProtoWrites /\ image' = image + 1 /\ imageDirty' = TRUE
  /\ UNCHANGED <<blobs, active, mailbox, task, snap, overlapped>>

(* Writing PROTO_COMMIT or PROTO_RELOAD; a full mailbox refuses.              *)
Request ==
  \E what \in {"commit", "reload"} :
    /\ Len(mailbox) < MailboxSize /\ mailbox' = Append(mailbox, what)
    /\ UNCHANGED <<image, imageDirty, blobs, active, task, snap, overlapped>>

Busy(t) == task[t] # "idle"

(* A commit takes its copy of the image, a reload of the blob that counts.       *)
Begin(t, what) ==
  /\ ~Busy(t) /\ Goto(t, what)
  /\ snap' = [snap EXCEPT ![t] = IF what = "commit" THEN image ELSE blobs[active]]
  /\ overlapped' = (overlapped \/ \E u \in Committers \ {t} : Busy(u))
  /\ UNCHANGED <<image, imageDirty, blobs, active>>

Serve   == mailbox # <<>> /\ mailbox' = Tail(mailbox) /\ Begin("actor", Head(mailbox))
Command == UNCHANGED mailbox /\ \E what \in {"commit", "reload"} : Begin("main", what)

(* The other blob is written under the NVS lock, then it becomes the active    *)
(* one; the second write may fail or not happen.                             *)
WriteBlob(t) ==
  /\ task[t] = "commit" /\ \A u \in Committers : task[u] # "switch"
  /\ blobs' = [blobs EXCEPT ![3 - active] = snap[t]] /\ Goto(t, "switch")
  /\ UNCHANGED <<image, imageDirty, active, mailbox, snap, overlapped>>

Switch(t) ==
  /\ task[t] = "switch" /\ active' = 3 - active /\ Goto(t, "clean")
  /\ UNCHANGED <<image, imageDirty, blobs, mailbox, snap, overlapped>>

CommitFails(t) ==
  /\ task[t] \in {"commit", "switch"} /\ Goto(t, "idle")
  /\ UNCHANGED <<image, imageDirty, blobs, active, mailbox, snap, overlapped>>

(* Variant: the flag goes down whatever was written meanwhile.               *)
CleanAnyway(t) ==
  /\ task[t] = "clean" /\ Goto(t, "idle") /\ imageDirty' = FALSE
  /\ UNCHANGED <<image, blobs, active, mailbox, snap, overlapped>>

(* Only an image that is still the one saved is clean.                       *)
Clean(t) ==
  /\ task[t] = "clean" /\ Goto(t, "idle")
  /\ imageDirty' = IF image = snap[t] THEN FALSE ELSE imageDirty
  /\ UNCHANGED <<image, blobs, active, mailbox, snap, overlapped>>

(* What was written since the load is gone.                                  *)
Reload(t) ==
  /\ task[t] = "reload" /\ Goto(t, "idle") /\ image' = snap[t] /\ imageDirty' = FALSE
  /\ UNCHANGED <<blobs, active, mailbox, snap, overlapped>>

ProtoRestart ==
  /\ image' = blobs[active] /\ imageDirty' = FALSE /\ mailbox' = <<>>
  /\ task' = [t \in Committers |-> "idle"] /\ snap' = [t \in Committers |-> 0] /\ overlapped' = FALSE
  /\ UNCHANGED <<blobs, active>>

ProtoStep ==
  \/ WriteImage \/ Request \/ Serve \/ Command
  \/ \E t \in Committers : WriteBlob(t) \/ Switch(t) \/ CommitFails(t) \/ Clean(t) \/ Reload(t)

-----------------------------------------------------------------------------
(* As long as no two commits or reloads overlapped, an image that is not        *)
(* dirty is the one in NVS (device/mod.rs:893-1000).                          *)
CleanMeansCommitted == ~overlapped /\ ~imageDirty => blobs[active] = image
=============================================================================
