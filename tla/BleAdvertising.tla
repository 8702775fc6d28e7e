--------------------------- MODULE BleAdvertising ---------------------------
(***************************************************************************)
(* How the device stays discoverable (src/src/ble_at/advertising_health.rs,   *)
(* ble_at/mod.rs).  GAP operations are asynchronous: one is pending at a time, *)
(* its completion arrives as an event without a request number, may be lost,  *)
(* and times out after five seconds.  Advertising that is active is leased     *)
(* for a minute: the controller may have stopped silently.                    *)
(*                                                                           *)
(* The clock is two flags, each raised by an action of its own: five seconds  *)
(* since the last attempt, a minute since the last confirmation.  A handler   *)
(* of the main loop is one step: where a connection comes inside it, the next *)
(* begin_advertising_operation refuses, as if it had come before.             *)
(***************************************************************************)
EXTENDS Integers, Sequences

CONSTANTS
  MaxConnects,   \* bound: connections
  MaxRenames,    \* bound: changes of the configured name
  MaxFaults      \* bound: failing operations, lost and late events, stops of the controller

ASSUME AdvertisingAssumption == {MaxConnects, MaxRenames, MaxFaults} \subseteq Nat

Nothing == "none"

VARIABLES
  epoch,           \* CONNECTION_EPOCH; odd while CONN_ID names a client
  health,          \* ADV_HEALTH: pending, active, retry_backoff, and the five seconds
  leaseOver,       \* a minute since last_confirmed_ms
  rename,          \* PENDING_GAP_NAME_UPDATE
  reconfigure,     \* ADV_RECONFIGURE_PENDING
  events,          \* completions on their way to gap_event_cb
  name, bdName, advName, onAir,   \* configured, in the stack, in the ADV data; on the air
  faults, renames  \* used of the bounds

air     == <<bdName, advName, onAir>>
gapVars == <<epoch, health, leaseOver, rename, reconfigure, events, name, air, faults, renames>>

Connected == epoch % 2 = 1

GapInit ==
  /\ epoch = 0 /\ rename = FALSE /\ reconfigure = FALSE /\ leaseOver = FALSE
  /\ health = [pending |-> "Configure", active |-> FALSE, backoff |-> FALSE, due |-> FALSE]
  /\ events = <<[op |-> "Configure", ok |-> TRUE]>>
  /\ name = 0 /\ bdName = 0 /\ advName = 0 /\ onAir = FALSE
  /\ faults \in {0, MaxFaults} /\ renames \in {0, MaxRenames}

-----------------------------------------------------------------------------
(* AdvertisingHealth                                                        *)

Reserved(h, op)     == [h EXCEPT !.pending = op, !.backoff = FALSE, !.due = FALSE]
Completed(h, op, ok) ==
  [pending |-> Nothing, active |-> op = "Start" /\ ok, backoff |-> ~ok, due |-> FALSE]
Cancelled           == [pending |-> Nothing, active |-> FALSE, backoff |-> FALSE, due |-> FALSE]
CanUpdateName(h)    == h.pending = Nothing /\ (~h.backoff \/ h.due)

Recovery(h) ==
  IF Connected \/ (h.pending = Nothing /\ rename) THEN "None"
  ELSE IF h.pending = Nothing /\ h.active THEN (IF leaseOver THEN "Renew" ELSE "None")
  ELSE IF h.due THEN "Retry" ELSE "None"

(* What becomes of a call into the stack that finds the health h.             *)
Outcomes(h) ==
  IF Connected \/ h.pending # Nothing THEN {"busy"}
  ELSE {"accepted"} \union (IF faults < MaxFaults THEN {"fails", "refused"} ELSE {})

(* begin_advertising_operation, the call, and its event; a refused call is     *)
(* completed on the spot.                                                   *)
Issue(op, h, pendingEvents, o) ==
  /\ health' = CASE o = "busy" -> h [] o = "refused" -> Completed(h, op, FALSE) [] OTHER -> Reserved(h, op)
  /\ events' = IF o \in {"accepted", "fails"} THEN Append(pendingEvents, [op |-> op, ok |-> o = "accepted"])
               ELSE pendingEvents
  /\ advName' = IF op = "Configure" /\ o = "accepted" THEN bdName' ELSE advName
  /\ onAir' \in CASE op = "Start" /\ o = "accepted" -> {TRUE} [] op = "Start" /\ o = "fails" -> {onAir, FALSE}
               [] op = "Stop" /\ o = "accepted" -> {FALSE} [] OTHER -> {onAir}
  /\ faults' = faults + (IF o \in {"fails", "refused"} THEN 1 ELSE 0)

NoIssue(h, pendingEvents) == health' = h /\ events' = pendingEvents /\ UNCHANGED <<advName, onAir, faults>>

-----------------------------------------------------------------------------
(* gap_event_cb                                                             *)

Event   == events # <<>> /\ UNCHANGED <<epoch, name, bdName, renames>>
Matches == health.pending = Head(events).op
Done    == Completed(health, Head(events).op, Head(events).ok)

(* ADV_DATA_SET_COMPLETE: start with the new data.                           *)
ConfigureDone ==
  /\ Event /\ Head(events).op = "Configure" /\ UNCHANGED <<rename, reconfigure, leaseOver>>
  /\ IF Matches /\ Head(events).ok THEN \E o \in Outcomes(Done) : Issue("Start", Done, Tail(events), o)
     ELSE NoIssue(IF Matches THEN Done ELSE health, Tail(events))

StartDone ==
  /\ Event /\ Head(events).op = "Start" /\ UNCHANGED <<rename, reconfigure>>
  /\ NoIssue(IF Matches THEN Done ELSE health, Tail(events))
  /\ leaseOver' = IF Matches /\ Head(events).ok THEN FALSE ELSE leaseOver

(* ADV_STOP_COMPLETE: asked for by a change of the name, or the controller's.  *)
StopDone ==
  LET ok == Head(events).ok
      h  == IF Matches THEN Done
            ELSE IF ~Connected /\ health.pending = Nothing THEN Cancelled ELSE health IN
  /\ Event /\ Head(events).op = "Stop" /\ UNCHANGED leaseOver
  /\ IF ~Matches /\ ~Connected /\ health.pending = Nothing
     THEN /\ UNCHANGED <<rename, reconfigure>>
          /\ IF ok THEN \E o \in Outcomes(h) : Issue("Start", h, Tail(events), o) ELSE NoIssue(h, Tail(events))
     ELSE IF Connected \/ ~reconfigure THEN NoIssue(h, Tail(events)) /\ UNCHANGED <<rename, reconfigure>>
     ELSE /\ reconfigure' = FALSE /\ rename' = (rename \/ ~ok)
          /\ IF ok THEN \E o \in Outcomes(h) : Issue("Configure", h, Tail(events), o)
             ELSE NoIssue(h, Tail(events))

GapEvent == ConfigureDone \/ StartDone \/ StopDone

(* advertising_connected.  Variant: a change of the name under way is          *)
(* forgotten.                                                               *)
GapConnectForgets ==
  /\ ~Connected /\ epoch < 2 * MaxConnects /\ onAir
  /\ epoch' = epoch + 1 /\ onAir' = FALSE /\ health' = Cancelled
  /\ reconfigure' = FALSE /\ leaseOver' = FALSE
  /\ UNCHANGED <<rename, events, name, bdName, advName, faults, renames>>

GapConnect ==
  /\ ~Connected /\ epoch < 2 * MaxConnects /\ onAir
  /\ epoch' = epoch + 1 /\ onAir' = FALSE /\ health' = Cancelled
  /\ reconfigure' = FALSE /\ rename' = (rename \/ reconfigure)
  /\ leaseOver' = FALSE /\ UNCHANGED <<events, name, bdName, advName, faults, renames>>

(* advertising_disconnected; CONN_ID is cleared before.                      *)
GapDisconnect ==
  /\ Connected /\ epoch' = epoch + 1
  /\ IF rename THEN NoIssue(Cancelled, events)
     ELSE \E o \in {"accepted"} \union (IF faults < MaxFaults THEN {"fails", "refused"} ELSE {}) :
            Issue("Start", Cancelled, events, o)
  /\ UNCHANGED <<leaseOver, rename, reconfigure, name, bdName, renames>>

-----------------------------------------------------------------------------
(* maintain_advertising and update_gap_device_name, in the main loop          *)

(* The name given to the stack, advertising stopped if it was active, and the  *)
(* data rebuilt by its completion or here.                                   *)
UpdateName(h, again) ==
  LET named == Completed(Reserved(h, "Name"), "Name", TRUE)
      next  == IF h.active THEN "Stop" ELSE "Configure" IN
  \/ /\ bdName' = name
     /\ \E o \in Outcomes(named) :
          /\ Issue(next, named, events, o)
          /\ rename' = (o = "refused") /\ reconfigure' = IF h.active THEN o # "refused" ELSE again
  \/ /\ faults < MaxFaults /\ faults' = faults + 1
     /\ health' = Completed(h, "Name", FALSE) /\ rename' = TRUE
     /\ reconfigure' = again /\ UNCHANGED <<events, bdName, advName, onAir>>

Maintain ==
  LET r == Recovery(health)
      h == IF r = "Retry" THEN [health EXCEPT !.pending = Nothing, !.active = FALSE] ELSE health
      again == reconfigure /\ r # "Retry" IN
  /\ UNCHANGED <<epoch, name, renames, leaseOver>>
  /\ IF ~Connected /\ rename /\ CanUpdateName(h) THEN UpdateName(h, again)
     ELSE /\ UNCHANGED <<rename, bdName>>
          /\ reconfigure' = again
          /\ IF r = "Renew" \/ (r = "Retry" /\ ~rename)
             THEN \E o \in Outcomes(h) : Issue(IF r = "Renew" THEN "Start" ELSE "Configure", h, events, o)
             ELSE NoIssue(h, events)

-----------------------------------------------------------------------------
(* The name is changed (any writer), time passes, the controller misbehaves.   *)

Rename ==
  /\ renames < MaxRenames /\ renames' = renames + 1 /\ name' = name + 1 /\ rename' = TRUE
  /\ UNCHANGED <<epoch, health, leaseOver, reconfigure, events, air, faults>>

FiveSeconds ==
  /\ ~Connected /\ ~health.due /\ health' = [health EXCEPT !.due = TRUE]
  /\ \/ events = <<>> /\ UNCHANGED faults
     \/ events # <<>> /\ faults < MaxFaults /\ faults' = faults + 1
  /\ UNCHANGED <<epoch, leaseOver, rename, reconfigure, events, name, air, renames>>

Minute ==
  /\ health.active /\ ~leaseOver /\ leaseOver' = TRUE
  /\ UNCHANGED <<epoch, health, rename, reconfigure, events, name, air, faults, renames>>

Misbehave ==
  /\ faults < MaxFaults /\ faults' = faults + 1
  /\ \/ events # <<>> /\ events' = Tail(events) /\ UNCHANGED onAir
     \/ onAir /\ onAir' = FALSE /\ events' \in {events, Append(events, [op |-> "Stop", ok |-> TRUE])}
  /\ UNCHANGED <<epoch, health, leaseOver, rename, reconfigure, name, bdName, advName, renames>>

GapEnvironment == Rename \/ FiveSeconds \/ Minute \/ Misbehave

GapNext == GapEvent \/ GapConnect \/ GapDisconnect \/ Maintain \/ GapEnvironment
GapSpec ==
  /\ GapInit /\ [][GapNext]_gapVars
  /\ WF_gapVars(GapEvent) /\ WF_gapVars(Maintain) /\ WF_gapVars(FiveSeconds) /\ WF_gapVars(Minute)

-----------------------------------------------------------------------------
(* Once nobody is connected, the device ends up on the air whatever            *)
(* operation failed, whichever completion was lost or late, however often the  *)
(* controller stopped by itself - and under the name it was given last, if no   *)
(* more than one of these happened (advertising_health.rs:93-133,              *)
(* mod.rs:436-456, 516-606, 1112-1190).  Two can cost the name: STOP_COMPLETE   *)
(* ignores what config_adv_data returns, and a stop that nobody asked for is    *)
(* answered by a start with the data as they are.                             *)
Discoverable == <>[](~Connected) => <>[](onAir /\ (advName = name \/ faults > 1))
=============================================================================
