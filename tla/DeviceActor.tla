---------------------------- MODULE DeviceActor ----------------------------
(***************************************************************************)
(* Who saves and who restarts: the device actor with its mailbox, the       *)
(* clients that wait for a confirmed save, and the main loop that serves    *)
(* reset requests behind a persistence barrier (src/src/device/mod.rs,      *)
(* src/src/actor/mod.rs, src/src/main.rs).                                 *)
(*                                                                         *)
(* The save of one image is one step here: it takes everything that was     *)
(* acknowledged before it and answers for it, or fails and leaves the flag  *)
(* up.  That is what PendingSave shows of the code behind it.  Of the       *)
(* digital outputs, which the barrier saves last, only success and failure  *)
(* matter here; OutputStore has the rest.                                  *)
(***************************************************************************)
EXTENDS Naturals, Sequences

CONSTANTS
  Main,        \* the main loop
  Actor,       \* the device actor
  Clients,     \* the tasks of Web, OTA, Modbus and BLE
  Order,       \* the images, in the order the barrier saves them
  Applied,     \* the image that PersistConfigAndReset saves
  CoilOrder,   \* the images the restart coil saves
  MailCap,     \* messages the mailbox holds
  Batch,       \* messages handled between two idle rounds
  TicketMod    \* the tickets wrap here (2^32 in the code)

Threads == {Main, Actor} \union Clients
Images  == {Order[k] : k \in DOMAIN Order}
Tickets == 0 .. TicketMod - 1

ASSUME ThreadsAssumption == Main # Actor /\ Clients \intersect {Main, Actor} = {}
ASSUME OrderAssumption ==
  /\ Order \in Seq(Images) /\ CoilOrder \in Seq(Images)
  /\ Applied \in Images /\ "outputs" \notin Images
ASSUME ActorBounds ==
  /\ {MailCap, Batch, TicketMod} \subseteq Nat
  /\ Batch > 0
  /\ TicketMod > MailCap + 1

VARIABLES
  flags,      \* the images whose flag is up
  mail,       \* the mailbox: tickets, or Apply for PersistConfigAndReset
  batch,      \* messages handled since the last idle round
  busy,       \* PERSIST_WAIT_BUSY
  next,       \* PERSIST_WAIT_NEXT
  completed,  \* PERSIST_WAIT_COMPLETED
  ok,         \* PERSIST_WAIT_OK
  reset,      \* a reset is requested
  pc,         \* pc[t]: the next step of t
  todo,       \* todo[t]: what t still saves
  job,        \* job[t]: why it saves
  serving,    \* the ticket the actor is saving for
  ticket,     \* ticket[c]: the ticket c waits for
  unsaved,    \* history: images with an acknowledged change not in flash
  owed        \* history: owed[t] were unsaved when t asked, and still are

images    == <<flags, unsaved>>
mbox      == <<mail, batch>>
wait      == <<busy, next, ticket>>
answer    == <<completed, ok, serving>>
lists     == <<todo, job>>
actorVars == <<images, owed, mbox, wait, answer, reset, pc, lists>>

Apply            == TicketMod
Barrier          == Append(Order, "outputs")
NextTicket(n)    == (n + 1) % TicketMod
Everywhere(S, v) == [t \in S |-> v]

Goto(t, from, to) ==
  /\ pc[t] = from
  /\ pc' = [pc EXCEPT ![t] = to]

ActorInit ==
  /\ flags = {} /\ unsaved = {} /\ owed = Everywhere(Threads, {})
  /\ mail = <<>> /\ batch = 0
  /\ busy = FALSE /\ next = 0 /\ ticket = Everywhere(Clients, 0)
  /\ completed = 0 /\ ok = FALSE /\ serving = 0
  /\ reset = FALSE
  /\ pc = Everywhere(Threads, "idle") /\ todo = Everywhere(Threads, <<>>)
  /\ job = Everywhere(Threads, "none")

(* Everything but the flash starts again.                                   *)
Boot ==
  /\ flags' = {} /\ unsaved' = {} /\ owed' = Everywhere(Threads, {})
  /\ mail' = <<>> /\ batch' = 0
  /\ busy' = FALSE /\ next' = 0 /\ ticket' = Everywhere(Clients, 0)
  /\ completed' = 0 /\ ok' = FALSE /\ serving' = 0
  /\ reset' = FALSE
  /\ pc' = Everywhere(Threads, "idle") /\ todo' = Everywhere(Threads, <<>>)
  /\ job' = Everywhere(Threads, "none")

-----------------------------------------------------------------------------
(* Saving a list of things, as the barrier, the idle round, a handler and    *)
(* the restart coil do                                                     *)

StartSaving(t, why, what) ==
  /\ Goto(t, "idle", "save")
  /\ todo' = [todo EXCEPT ![t] = what]
  /\ job'  = [job EXCEPT ![t] = why]

At(t, things) == pc[t] = "save" /\ todo[t] # <<>> /\ Head(todo[t]) \in things

(* An idle round goes on after a failure; every other list stops.            *)
Survives(t) == job[t] = "idle round"

(* AT+CFGAPPLY and PersistConfigAndReset save what is clean as well.         *)
ToSave(t) == Head(todo[t]) \in flags \/ job[t] = "apply"

Advance(t) ==
  /\ todo' = [todo EXCEPT ![t] = Tail(@)]
  /\ UNCHANGED <<pc, job>>

SaveFails(t) ==
  /\ IF Survives(t)
       THEN Advance(t)
       ELSE /\ Goto(t, "save", "failed")
            /\ todo' = [todo EXCEPT ![t] = <<>>]
            /\ UNCHANGED job

InFlash(i) ==
  /\ unsaved' = unsaved \ {i}
  /\ owed' = [t \in Threads |-> owed[t] \ {i}]

SaveImage(t) ==
  /\ At(t, Images)
  /\ ToSave(t)
  /\ flags' = flags \ {Head(todo[t])}
  /\ InFlash(Head(todo[t]))
  /\ Advance(t)
  /\ UNCHANGED <<mbox, wait, answer, reset>>

(* Nothing to save; or, in an idle round, too early to try again.            *)
SkipImage(t) ==
  /\ At(t, Images)
  /\ Survives(t) \/ ~ ToSave(t)
  /\ Advance(t)
  /\ UNCHANGED <<images, owed, mbox, wait, answer, reset>>

(* Variant: a failure takes the flag down.                                  *)
ForgetImage(t) ==
  /\ At(t, Images)
  /\ ToSave(t)
  /\ flags' = flags \ {Head(todo[t])}
  /\ SaveFails(t)
  /\ UNCHANGED <<unsaved, owed, mbox, wait, answer, reset>>

(* The save failed, or the image changed under it; it may be in flash.       *)
FailImage(t) ==
  /\ At(t, Images)
  /\ ToSave(t)
  /\ flags' = flags \union {Head(todo[t])}
  /\ InFlash(Head(todo[t])) \/ UNCHANGED <<unsaved, owed>>
  /\ SaveFails(t)
  /\ UNCHANGED <<mbox, wait, answer, reset>>

SaveOutputs(t) ==
  /\ At(t, {"outputs"})
  /\ Advance(t)
  /\ UNCHANGED <<images, owed, mbox, wait, answer, reset>>

FailOutputs(t) ==
  /\ At(t, {"outputs"})
  /\ SaveFails(t)
  /\ UNCHANGED <<images, owed, mbox, wait, answer, reset>>

(* The list that t started for this reason is done, or has failed.           *)
Saved(t, why)  == pc[t] = "save" /\ todo[t] = <<>> /\ job[t] = why
Failed(t, why) == pc[t] = "failed" /\ job[t] = why

Finish(t) ==
  /\ pc'  = [pc EXCEPT ![t] = "idle"]
  /\ job' = [job EXCEPT ![t] = "none"]
  /\ UNCHANGED todo

-----------------------------------------------------------------------------
(* Clients                                                                 *)

Change(c, i) ==
  /\ pc[c] = "idle"
  /\ flags' = flags \union {i} /\ unsaved' = unsaved \union {i}
  /\ UNCHANGED <<owed, mbox, wait, answer, reset, pc, lists>>

(* Bound: fewer than TicketMod tickets are taken while one is outstanding.   *)
(* 2^32 calls do not fit into the time of one save, and if they did the      *)
(* counter would come back to a number that still means something.           *)
NoLap ==
  NextTicket(next) \notin
    {completed, serving} \union {mail[k] : k \in DOMAIN mail}

(* Variant: the slot is not tested and set in one step.                      *)
TakeTicketAnyway(c) ==
  /\ NoLap
  /\ Goto(c, "idle", "send")
  /\ busy'   = TRUE
  /\ next'   = NextTicket(next)
  /\ ticket' = [ticket EXCEPT ![c] = NextTicket(next)]
  /\ owed'   = [owed EXCEPT ![c] = unsaved]
  /\ UNCHANGED <<images, mbox, answer, reset, lists>>

(* await_pending_persistence: one caller at a time takes a ticket; another   *)
(* is refused at once, which changes nothing.                               *)
TakeTicket(c) ==
  /\ ~ busy
  /\ NoLap
  /\ Goto(c, "idle", "send")
  /\ busy'   = TRUE
  /\ next'   = NextTicket(next)
  /\ ticket' = [ticket EXCEPT ![c] = NextTicket(next)]
  /\ owed'   = [owed EXCEPT ![c] = unsaved]
  /\ UNCHANGED <<images, mbox, answer, reset, lists>>

Post(m) ==
  /\ Len(mail) < MailCap
  /\ mail' = Append(mail, m)

SendTicket(c) ==
  /\ Goto(c, "send", "wait")
  /\ Post(ticket[c])
  /\ UNCHANGED <<images, owed, batch, wait, answer, reset, lists>>

(* The guard is dropped and the caller has no confirmation.                  *)
Unconfirmed(c, from) ==
  /\ Goto(c, from, "idle")
  /\ busy'   = FALSE
  /\ ticket' = [ticket EXCEPT ![c] = 0]
  /\ owed'   = [owed EXCEPT ![c] = {}]
  /\ UNCHANGED <<images, mbox, next, answer, reset, lists>>

(* The mailbox is full, or its spin lock is taken at this moment.            *)
LoseTicket(c) == Unconfirmed(c, "send")

Timeout(c) == completed # ticket[c] /\ Unconfirmed(c, "wait")

SeeCompleted(c) ==
  /\ completed = ticket[c]
  /\ Goto(c, "wait", "ok?")
  /\ UNCHANGED <<images, owed, mbox, wait, answer, reset, lists>>

SeeOk(c) ==
  /\ ok
  /\ Goto(c, "ok?", "confirmed")
  /\ busy'   = FALSE
  /\ ticket' = [ticket EXCEPT ![c] = 0]
  /\ UNCHANGED <<images, owed, mbox, next, answer, reset, lists>>

SeeNotOk(c) == ~ ok /\ Unconfirmed(c, "ok?")

(* What a confirmed caller does: nothing more, or ask for a reset itself, or *)
(* let the actor save the configuration once more and ask.                  *)
UseConfirmation(c) ==
  /\ Goto(c, "confirmed", "idle")
  /\ owed' = [owed EXCEPT ![c] = {}]
  /\ \/ UNCHANGED <<reset, mail>>
     \/ reset' = TRUE /\ UNCHANGED mail
     \/ Post(Apply) /\ UNCHANGED reset
  /\ UNCHANGED <<images, batch, wait, answer, lists>>

(* AT+RESET asks without saving anything first.                             *)
AskReset(c) ==
  /\ pc[c] = "idle"
  /\ reset' = TRUE
  /\ UNCHANGED <<images, owed, mbox, wait, answer, pc, lists>>

(* The restart coil saves in the task of the Modbus client.                  *)
WriteRestartCoil(c) ==
  /\ StartSaving(c, "coil", CoilOrder)
  /\ UNCHANGED <<images, owed, mbox, wait, answer, reset>>

CoilSaved(c) ==
  /\ Saved(c, "coil")
  /\ Finish(c)
  /\ reset' = TRUE
  /\ UNCHANGED <<images, owed, mbox, wait, answer>>

CoilRefused(c) ==
  /\ Failed(c, "coil")
  /\ Finish(c)
  /\ UNCHANGED <<images, owed, mbox, wait, answer, reset>>

-----------------------------------------------------------------------------
(* The actor                                                               *)

(* At most Batch messages are handled before the next idle round.            *)
Handle ==
  /\ mail # <<>> /\ batch < Batch
  /\ \/ /\ Head(mail) = Apply
        /\ StartSaving(Actor, "apply", <<Applied>>)
        /\ UNCHANGED serving
     \/ /\ Head(mail) \in Tickets
        /\ StartSaving(Actor, "ticket", Barrier)
        /\ serving' = Head(mail)
  /\ mail'  = Tail(mail)
  /\ batch' = batch + 1
  /\ UNCHANGED <<images, owed, wait, completed, ok, reset>>

(* The mailbox was empty or its spin lock was taken, or the batch is over.   *)
IdleRound ==
  /\ StartSaving(Actor, "idle round", Order)
  /\ batch' = 0
  /\ UNCHANGED <<images, owed, mail, wait, answer, reset>>

RoundDone ==
  /\ Saved(Actor, "idle round")
  /\ Finish(Actor)
  /\ UNCHANGED <<images, owed, mbox, wait, answer, reset>>

ApplyDone ==
  /\ Saved(Actor, "apply")
  /\ Finish(Actor)
  /\ reset' = TRUE
  /\ UNCHANGED <<images, owed, mbox, wait, answer>>

ApplyRefused ==
  /\ Failed(Actor, "apply")
  /\ Finish(Actor)
  /\ flags' = flags \union {Applied}
  /\ UNCHANGED <<unsaved, owed, mbox, wait, answer, reset>>

(* The outcome of the barrier is published before its ticket.                *)
PublishOutcome ==
  /\ Saved(Actor, "ticket") \/ Failed(Actor, "ticket")
  /\ ok' = Saved(Actor, "ticket")
  /\ pc' = [pc EXCEPT ![Actor] = "complete"]
  /\ UNCHANGED <<images, owed, mbox, wait, completed, serving, reset, lists>>

(* Variant: the actor completes the latest ticket, not the one it served.    *)
CompleteLatest ==
  /\ pc[Actor] = "complete"
  /\ completed' = next
  /\ Finish(Actor)
  /\ UNCHANGED <<images, owed, mbox, wait, ok, serving, reset>>

CompleteTicket ==
  /\ pc[Actor] = "complete"
  /\ completed' = serving
  /\ Finish(Actor)
  /\ UNCHANGED <<images, owed, mbox, wait, ok, serving, reset>>

-----------------------------------------------------------------------------
(* The main loop, once a second                                            *)

(* Variant: the barrier saves no more than the restart coil does.            *)
TakeResetAsCoil ==
  /\ reset
  /\ reset' = FALSE
  /\ StartSaving(Main, "reset", CoilOrder)
  /\ owed' = [owed EXCEPT ![Main] = unsaved]
  /\ UNCHANGED <<images, mbox, wait, answer>>

(* The request is consumed before the barrier; a later one is a new one.     *)
TakeResetRequest ==
  /\ reset
  /\ reset' = FALSE
  /\ StartSaving(Main, "reset", Barrier)
  /\ owed' = [owed EXCEPT ![Main] = unsaved]
  /\ UNCHANGED <<images, mbox, wait, answer>>

(* 100 ms are left for the log and for answers under way.                    *)
BarrierDone ==
  /\ Saved(Main, "reset")
  /\ pc' = [pc EXCEPT ![Main] = "restart"]
  /\ UNCHANGED <<images, owed, mbox, wait, answer, reset, lists>>

CancelReset ==
  /\ Failed(Main, "reset")
  /\ Finish(Main)
  /\ owed' = [owed EXCEPT ![Main] = {}]
  /\ UNCHANGED <<images, mbox, wait, answer, reset>>

Restart  == pc[Main] = "restart" /\ Boot
PowerCut == Boot

-----------------------------------------------------------------------------
Save(t) ==
  \/ SaveImage(t)
  \/ SkipImage(t)
  \/ FailImage(t)
  \/ SaveOutputs(t)
  \/ FailOutputs(t)

ActorStep ==
  \/ Save(Actor)
  \/ RoundDone
  \/ ApplyDone
  \/ ApplyRefused
  \/ PublishOutcome
  \/ CompleteTicket

MainStep ==
  \/ Save(Main)
  \/ TakeResetRequest
  \/ BarrierDone
  \/ CancelReset
  \/ Restart

ClientStep(c) ==
  \/ \E i \in Images : Change(c, i)
  \/ TakeTicket(c)
  \/ SendTicket(c)
  \/ LoseTicket(c)
  \/ Timeout(c)
  \/ SeeCompleted(c)
  \/ SeeOk(c)
  \/ SeeNotOk(c)
  \/ UseConfirmation(c)
  \/ AskReset(c)
  \/ WriteRestartCoil(c)
  \/ SaveImage(c)
  \/ SkipImage(c)
  \/ FailImage(c)
  \/ CoilSaved(c)
  \/ CoilRefused(c)

ActorNext ==
  \/ ActorStep
  \/ Handle
  \/ IdleRound
  \/ MainStep
  \/ \E c \in Clients : ClientStep(c)
  \/ PowerCut

ActorSpec == ActorInit /\ [][ActorNext]_actorVars

-----------------------------------------------------------------------------
Waiting == {"send", "wait", "ok?"}

(* The types; and the wait slot is taken by just one waiting client.         *)
ActorTypeOK ==
  /\ flags \subseteq Images /\ unsaved \subseteq Images
  /\ owed \in [Threads -> SUBSET Images]
  /\ mail \in Seq(Tickets \union {Apply}) /\ Len(mail) <= MailCap
  /\ batch \in 0 .. Batch
  /\ busy \in BOOLEAN /\ ok \in BOOLEAN /\ reset \in BOOLEAN
  /\ {next, completed, serving} \subseteq Tickets
  /\ ticket \in [Clients -> Tickets]
  /\ busy <=> \E c \in Clients : pc[c] \in Waiting
  /\ \A c, d \in Clients : pc[c] \in Waiting /\ pc[d] \in Waiting => c = d

(* A confirmation is about the caller's own request: everything that was     *)
(* acknowledged before it asked is in flash, although callers time out,      *)
(* their messages stay in the mailbox and are answered late, and the answer  *)
(* is in two words that are read one after the other (mod.rs:292-330).       *)
ConfirmedIsSaved ==
  \A c \in Clients : pc[c] = "confirmed" => owed[c] = {}

(* No planned restart loses what was acknowledged before the main loop took  *)
(* the request, whoever asked and whatever the others save meanwhile         *)
(* (main.rs:470-482).                                                       *)
RestartIsSaved == pc[Main] = "restart" => owed[Main] = {}

(* A flag that is down means saved: nothing acknowledged waits unseen.       *)
FlagsAreTrue == unsaved \subseteq flags

=============================================================================
