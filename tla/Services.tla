------------------------------ MODULE Services ------------------------------
(***************************************************************************)
(* The firmware's life from boot to boot (src/src/main.rs): main starts the  *)
(* services and then runs the main loop, whose rounds apply network           *)
(* configurations, serve AT commands, handle events, restart on request,      *)
(* start again what is not running, and confirm new firmware.  Composes       *)
(* Network and Firmware.  A round has every duty once; what a duty with a      *)
(* longer period does not see in a round has not happened yet.                *)
(***************************************************************************)
EXTENDS Network, Firmware

CONSTANTS
  Others,       \* services besides Ethernet: the actor, protocols, UDP, NFC, page
  Broken,       \* the one a bad image does not bring up
  MaxRestarts   \* bound: power cuts and requested restarts

ASSUME ServicesAssumption == Broken \in Others /\ "web" \in Others

VARIABLES
  running,      \* services that are marked started
  stalled,      \* tasks whose heartbeat check_all finds unchanged too often
  uptime,       \* in main, in the loop, in the loop for 30 seconds
  reset,        \* reset request
  restarts      \* how often one was requested or the power was cut

lifeVars     == <<running, stalled, uptime, reset, restarts>>
servicesVars == <<netVars, otaVars, lifeVars>>

ServicesInit ==
  /\ NetInit /\ OtaInit /\ at = "boot"
  /\ edits \in {0, MaxEdits} /\ drops \in {0, MaxDrops} /\ faults \in {0, MaxFaults}
  /\ begins \in {0, MaxBegins} /\ refusals \in {0, MaxRefusals}
  /\ running = {} /\ stalled = {} /\ uptime = "main" /\ reset = FALSE
  /\ restarts \in {0, MaxRestarts}

Restart ==
  /\ NetRestart /\ Boot /\ at' = "boot"
  /\ running' = {} /\ stalled' = {} /\ uptime' = "main" /\ reset' = FALSE

-----------------------------------------------------------------------------
(* Ethernet is started first, then the rest; later the other way round.       *)
Able    == IF image[booted] = "bad" THEN Others \ {Broken} ELSE Others
Missing == Others \ running

BootBegins ==
  /\ at = "boot" /\ at' = "ethernet" /\ step' = 1
  /\ UNCHANGED <<config, stamp, held, started, handlers, netif, applied, wire, slot, got, beats,
                 mode, counters, otaVars, lifeVars>>

(* start_all, ensure_actor_started and the starts of UDP, NFC and the page:   *)
(* what runs is left alone, what fails is tried again in a later round.       *)
Launch ==
  \E up \in SUBSET (Missing \cap Able) :
    /\ running' = running \cup up
    /\ IF up = Missing \cap Able THEN UNCHANGED faults ELSE Refused

Launches ==
  /\ at = "launch" /\ at' = "tick" /\ Launch /\ uptime' = "loop"
  /\ UNCHANGED <<config, stamp, driver, netif, applied, wire, slot, got, beats, mode, edits, drops,
                 otaVars, stalled, reset, restarts>>

Supervise ==
  /\ at = "supervise" /\ Launch
  /\ IF started THEN at' = "check" /\ UNCHANGED step ELSE at' = "ethernet" /\ step' = 1
  /\ UNCHANGED <<config, stamp, held, started, handlers, netif, applied, wire, slot, got, beats,
                 mode, edits, drops, otaVars, stalled, uptime, reset, restarts>>

StartEthernet ==
  /\ at = "ethernet" /\ Start
  /\ at' = IF step' > 0 THEN at ELSE IF uptime = "main" THEN "launch" ELSE "check"
  /\ UNCHANGED <<otaVars, lifeVars>>

-----------------------------------------------------------------------------
(* AT commands, at most one in a round; AT+OTA=REBOOT requests a restart.     *)
AtCommand ==
  /\ at = "commands" /\ at' = "events"
  /\ \/ UNCHANGED <<otaVars, reset, restarts>>
     \/ AtOta /\ UNCHANGED <<reset, restarts>>
     \/ AtReboot /\ reset' = TRUE /\ UNCHANGED <<otaVars, restarts>>
  /\ UNCHANGED <<config, stamp, driver, netif, applied, wire, slot, got, beats, mode, counters,
                 running, stalled, uptime>>

(* A request is taken; what is not saved first cancels it.                    *)
NoRestart ==
  /\ at = "reset" /\ at' = "supervise" /\ reset' = FALSE
  /\ IF reset THEN Refused ELSE UNCHANGED faults
  /\ UNCHANGED <<config, stamp, driver, netif, applied, wire, slot, got, beats, mode, edits, drops,
                 otaVars, running, stalled, uptime, restarts>>

RequestedRestart == at = "reset" /\ reset /\ Restart /\ UNCHANGED restarts

UploadRestart == upload.pc = "restart" /\ Restart /\ UNCHANGED restarts

PowerFails == restarts < MaxRestarts /\ restarts' = restarts + 1 /\ Restart

(* Somebody else asks for a restart: the page, a register, AT+RESET.          *)
RequestRestart ==
  /\ ~reset /\ restarts < MaxRestarts /\ restarts' = restarts + 1 /\ reset' = TRUE
  /\ uptime # "main"
  /\ UNCHANGED <<netVars, otaVars, running, stalled, uptime>>

-----------------------------------------------------------------------------
(* The firmware is confirmed when everything runs and nothing stalls, 30      *)
(* seconds after the start of the loop.                                       *)
HealthyWithoutServices == uptime = "long" /\ stalled = {} /\ started
Healthy == uptime = "long" /\ stalled = {} /\ started /\ running = Others

Confirm ==
  /\ at = "check" /\ at' = "tick"
  /\ IF Healthy /\ ~confirmed THEN ConfirmNewFirmware ELSE UNCHANGED otaVars
  /\ UNCHANGED <<config, stamp, driver, netif, applied, wire, slot, got, beats, mode, counters,
                 lifeVars>>

HalfMinute ==
  /\ uptime = "loop" /\ uptime' = "long"
  /\ UNCHANGED <<netVars, otaVars, running, stalled, reset, restarts>>

Stall ==
  /\ \E s \in running \ stalled : stalled' = stalled \cup {s}
  /\ Refused
  /\ UNCHANGED <<config, stamp, at, driver, netif, applied, wire, slot, got, beats, mode, edits,
                 drops, otaVars, running, uptime, reset, restarts>>

Recover ==
  /\ stalled # {} /\ stalled' = {}
  /\ UNCHANGED <<netVars, otaVars, running, uptime, reset, restarts>>

Uploading == "web" \in running /\ Upload /\ UNCHANGED <<netVars, lifeVars>>

Main ==
  \/ BootBegins \/ Launches \/ StartEthernet \/ Supervise \/ AtCommand \/ NoRestart
  \/ RequestedRestart \/ Confirm
  \/ NetMain /\ UNCHANGED <<otaVars, lifeVars>>

NetworkEvents == EventLoop /\ UNCHANGED <<otaVars, lifeVars>>
World == (Outside \/ NetClient) /\ UNCHANGED <<otaVars, lifeVars>>

ServicesNext ==
  \/ Main \/ NetworkEvents \/ World \/ Uploading \/ UploadRestart \/ PowerFails \/ RequestRestart
  \/ HalfMinute \/ Stall \/ Recover

(* The main loop and the event loop go on; cables are put back, tasks recover,  *)
(* time passes and clients make the requests they were about to make.         *)
Passing ==
  \/ (Plugged \/ HalfSecond \/ RequestReconfigure) /\ UNCHANGED <<otaVars, lifeVars>>
  \/ HalfMinute \/ Recover

Fairness == WF_servicesVars(Main) /\ WF_servicesVars(NetworkEvents) /\ WF_servicesVars(Passing)

ServicesSpec == ServicesInit /\ [][ServicesNext]_servicesVars /\ Fairness

-----------------------------------------------------------------------------
(* Once clients rest and faults end, everything that can run does, the network *)
(* is as was last asked, and working firmware is confirmed, whatever failed at *)
(* boot or was lost meanwhile (main.rs:508-561, w5500.rs:34-94, 692-775,      *)
(* event_bus.rs:41-73).                                                      *)
Settled ==
  /\ Able \subseteq running /\ NetworkIsSettled
  /\ image[booted] = "good" => confirmed /\ ~NeedsConfirmation

ServicesSettle == <>[]Settled
=============================================================================
