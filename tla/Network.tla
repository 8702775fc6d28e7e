------------------------------ MODULE Network ------------------------------
(***************************************************************************)
(* The Ethernet port: its driver's start and clean-up, the configuration of   *)
(* the network interface, requested by clients and applied by the main loop,  *)
(* the heartbeat with its modes of degraded operation                          *)
(* (src/src/ethernet/w5500.rs), and the slot of the event bus that carries    *)
(* links and addresses to the main loop (src/src/bus/event_bus.rs).  The      *)
(* bits of the other events are set and taken by the main loop itself and     *)
(* are left out, as is the event of a reset, which nobody sends.              *)
(*                                                                           *)
(* An address stands for address, mask and gateway.  The main loop's turn     *)
(* is "at"; the task of the event loop, the DHCP client and the cable are the *)
(* environment.                                                               *)
(***************************************************************************)
EXTENDS Naturals, Sequences

CONSTANTS
  Addresses,    \* addresses a client may configure
  Lease,        \* the address the DHCP server gives
  NoAddress,    \* 0.0.0.0
  Thresholds,   \* failed heartbeats before BleOnly, LocalOnly and Minimal
  MaxEdits, MaxDrops, MaxFaults  \* bounds: changes, cables pulled, refusals

NotYet   == 99

ASSUME NetworkAssumption ==
  /\ Lease \notin Addresses /\ NoAddress \notin Addresses \cup {Lease}
  /\ Thresholds \in Seq(1 .. NotYet - 1) /\ Len(Thresholds) = 3

VARIABLES
  cfg,          \* CONFIG: DHCP wanted, address shown
  chosen,       \* the configuration after a client's last change
  since,        \* what the configuration has been since the last request
  asks,         \* a client has changed the address and is about to request
  over,         \* a client has changed it after the last lease or assignment
  stamp,        \* NET_RECONFIG_REQUEST_MS: none, younger than 500 ms, older
  at,           \* what the main loop is doing
  step,         \* how far start has come
  held,         \* parts of the driver that are allocated
  started,      \* ETH_STARTED, with ETH_NETIF and ETH_HANDLE
  handlers,     \* EVENT_HANDLERS_REGISTERED
  netif,        \* the interface: DHCP client on, address
  applied,      \* the configuration that was last tried to apply
  phy,          \* the cable is plugged
  carrier,      \* the driver has reported the link
  announce,     \* the interface has an address it has not announced yet
  linkUp,       \* ETH_LINK_UP
  slot,         \* CRITICAL_EVENT
  got,          \* the address of the event being handled
  beats,        \* ETH_HB_STATE: failed heartbeats, or NotYet
  mode,         \* DEGRADED_MODE
  edits, drops, faults  \* how often each happened

config   == <<cfg, chosen, since, asks, over>>
driver   == <<step, held, started, handlers>>
wire     == <<phy, carrier, announce, linkUp>>
counters == <<edits, drops, faults>>
netVars  == <<config, stamp, at, driver, netif, applied, wire, slot, got, beats, mode, counters>>

Parts    == <<"bus", "mac", "phy", "driver", "netif", "glue">>
StartSteps    == Parts \o <<"config", "handlers", "start", "heartbeat">>
NoNetif  == [dhcp |-> TRUE, ip |-> NoAddress]
NoEvent  == [kind |-> "none"]
Link(up) == [kind |-> "link", up |-> up]
GotIp(a) == [kind |-> "ip", ip |-> a]
Modes    == <<"Normal", "BleOnly", "LocalOnly", "Minimal">>

(* The counters begin as the instance says.                                   *)
NetInit ==
  /\ cfg \in [dhcp : BOOLEAN, ip : Addresses] /\ chosen = cfg /\ phy \in BOOLEAN
  /\ since = {cfg} /\ asks = FALSE /\ over = FALSE /\ stamp = "none"
  /\ step = 0 /\ held = {} /\ started = FALSE /\ handlers = FALSE
  /\ netif = NoNetif /\ applied = cfg /\ carrier = FALSE /\ announce = FALSE /\ linkUp = TRUE
  /\ slot = NoEvent /\ got = NoAddress /\ beats = NotYet /\ mode = "Normal"

(* Only the configuration is in flash.                                        *)
NetRestart ==
  /\ since' = {cfg} /\ asks' = FALSE /\ over' = FALSE /\ stamp' = "none"
  /\ step' = 0 /\ held' = {} /\ started' = FALSE /\ handlers' = FALSE
  /\ netif' = NoNetif /\ applied' = cfg /\ carrier' = FALSE /\ announce' = FALSE
  /\ linkUp' = TRUE /\ slot' = NoEvent /\ got' = NoAddress /\ beats' = NotYet
  /\ mode' = "Normal"
  /\ UNCHANGED <<cfg, chosen, phy, counters>>

(* A refusal by the platform, of which there are finitely many.               *)
Refused == faults < MaxFaults /\ faults' = faults + 1

-----------------------------------------------------------------------------
(* The event bus: the latest link or address; what nobody has read is         *)
(* overwritten.                                                               *)
Send(e) == slot' = e

(* The task of the event loop: the interface reports link and address in this *)
(* order; the callbacks keep the link and put the event into the slot.        *)
Running == "start" \in held

Connected ==
  /\ Running /\ phy /\ ~carrier
  /\ carrier' = TRUE /\ announce' = (~netif.dhcp /\ netif.ip # NoAddress)
  /\ IF handlers THEN linkUp' = TRUE /\ Send(Link(TRUE)) ELSE UNCHANGED <<linkUp, slot>>
  /\ UNCHANGED <<config, stamp, at, driver, netif, applied, phy, got, beats, mode, counters>>

Disconnected ==
  /\ Running /\ ~phy /\ carrier
  /\ carrier' = FALSE /\ announce' = FALSE
  /\ netif' = IF netif.dhcp THEN NoNetif ELSE netif
  /\ IF handlers THEN linkUp' = FALSE /\ Send(Link(FALSE)) ELSE UNCHANGED <<linkUp, slot>>
  /\ UNCHANGED <<config, stamp, at, driver, applied, phy, got, beats, mode, counters>>

Leased ==
  /\ carrier /\ netif.dhcp /\ netif.ip = NoAddress
  /\ netif' = [netif EXCEPT !.ip = Lease] /\ announce' = TRUE /\ over' = FALSE
  /\ UNCHANGED <<cfg, chosen, since, asks, stamp, at, driver, applied, phy, carrier, linkUp, slot, got, beats, mode,
                 counters>>

Announced ==
  /\ announce /\ announce' = FALSE
  /\ IF handlers THEN Send(GotIp(netif.ip)) ELSE UNCHANGED slot
  /\ UNCHANGED <<config, stamp, at, driver, netif, applied, phy, carrier, linkUp, got, beats, mode,
                 counters>>

Plugged ==
  /\ ~phy /\ phy' = TRUE
  /\ UNCHANGED <<config, stamp, at, driver, netif, applied, carrier, announce, linkUp, slot, got,
                 beats, mode, counters>>

Pulled ==
  /\ phy /\ drops < MaxDrops /\ phy' = FALSE /\ drops' = drops + 1
  /\ UNCHANGED <<config, stamp, at, driver, netif, applied, carrier, announce, linkUp, slot, got,
                 beats, mode, edits, faults>>

HalfSecond ==
  /\ stamp = "fresh" /\ stamp' = "due"
  /\ UNCHANGED <<config, at, driver, netif, applied, wire, slot, got, beats, mode, counters>>

-----------------------------------------------------------------------------
(* Clients.  Registers and AT commands change the address or DHCP and, in a   *)
(* step of their own, request that it be applied; the page switches DHCP off  *)
(* with the address and requests nothing.                                     *)
Edited(c) ==
  /\ cfg' = c /\ chosen' = c /\ since' = since \cup {c} /\ over' = TRUE
  /\ edits' = edits + 1

EditAddress ==
  /\ edits < MaxEdits
  /\ \E a \in Addresses : Edited([cfg EXCEPT !.ip = a])
  /\ asks' = TRUE
  /\ UNCHANGED <<stamp, at, driver, netif, applied, wire, slot, got, beats, mode, drops, faults>>

EditDhcp ==
  /\ edits < MaxEdits
  /\ Edited([cfg EXCEPT !.dhcp = ~@]) /\ asks' \in {asks, TRUE}
  /\ UNCHANGED <<stamp, at, driver, netif, applied, wire, slot, got, beats, mode, drops, faults>>

EditOnPage ==
  /\ edits < MaxEdits
  /\ \E a \in Addresses : Edited([dhcp |-> FALSE, ip |-> a])
  /\ UNCHANGED <<asks, stamp, at, driver, netif, applied, wire, slot, got, beats, mode, drops,
                 faults>>

RequestReconfigure ==
  /\ asks /\ asks' = FALSE /\ stamp' = "fresh" /\ since' = {cfg}
  /\ UNCHANGED <<cfg, chosen, over, at, driver, netif, applied, wire, slot, got, beats, mode,
                 counters>>

-----------------------------------------------------------------------------
(* apply_netif_config: DHCP is started, or stopped and the address set, which *)
(* is announced when the link is up.  A refusal may come half way.            *)
Configure ==
  IF cfg.dhcp
  THEN /\ netif' = IF netif.dhcp THEN netif ELSE NoNetif
       /\ announce' = (announce /\ netif.dhcp)
  ELSE /\ netif' = [dhcp |-> FALSE, ip |-> cfg.ip]
       /\ announce' = carrier

Misconfigure ==
  /\ netif' \in {netif, [netif EXCEPT !.dhcp = netif.dhcp /\ cfg.dhcp]}
  /\ UNCHANGED announce

(* tick_pending_reconfigure, which also asks again while the driver is not    *)
(* there; the caller reports a refusal and does not try again.                *)
TickLoads ==
  /\ at = "tick" /\ at' = IF stamp = "due" THEN "swap" ELSE "beat"
  /\ UNCHANGED <<config, stamp, driver, netif, applied, wire, slot, got, beats, mode, counters>>

TickSwaps ==
  /\ at = "swap"
  /\ IF stamp # "due" THEN at' = "beat" /\ UNCHANGED stamp
     ELSE IF started THEN at' = "apply" /\ stamp' = "none"
     ELSE at' = "beat" /\ stamp' = "fresh"
  /\ UNCHANGED <<config, driver, netif, applied, wire, slot, got, beats, mode, counters>>

TickApplies ==
  /\ at = "apply" /\ at' = "beat" /\ applied' = cfg
  /\ \/ Configure /\ UNCHANGED faults
     \/ Misconfigure /\ Refused
  /\ UNCHANGED <<config, stamp, driver, phy, carrier, linkUp, slot, got, beats, mode, edits, drops>>

(* tick_eth_heartbeat, decide_action and apply_action.                        *)
Reachable == linkUp /\ "netif" \in held /\ netif.ip # NoAddress

ModeAfter(n) ==
  IF n < Thresholds[1] THEN mode
  ELSE IF n < Thresholds[2] THEN "BleOnly"
  ELSE IF n < Thresholds[3] THEN "LocalOnly" ELSE "Minimal"

Heartbeat ==
  /\ at = "beat" /\ at' = "commands"
  /\ IF beats = NotYet THEN UNCHANGED <<beats, mode>>
     ELSE IF Reachable
     THEN beats' = 0 /\ mode' = IF beats > 0 THEN "Normal" ELSE mode
     ELSE /\ beats' = IF beats = Thresholds[3] THEN beats ELSE beats + 1
          /\ mode' = ModeAfter(beats')
  /\ UNCHANGED <<config, stamp, driver, netif, applied, wire, slot, got, counters>>

(* recv_event and the events' handling: the address of an event is written    *)
(* into the configuration if that wants DHCP, which is asked twice.           *)
Receive ==
  /\ at = "events" /\ slot' = NoEvent
  /\ IF slot.kind = "ip" /\ cfg.dhcp THEN at' = "assign" /\ got' = slot.ip
     ELSE at' = (IF slot = NoEvent THEN "reset" ELSE "events") /\ UNCHANGED got
  /\ UNCHANGED <<config, stamp, driver, netif, applied, wire, beats, mode, counters>>

Assign ==
  /\ at = "assign" /\ at' = "events" /\ got' = NoAddress
  /\ cfg' = IF cfg.dhcp THEN [cfg EXCEPT !.ip = got] ELSE cfg
  /\ since' = since \cup {cfg'} /\ over' = (over /\ ~cfg.dhcp)
  /\ UNCHANGED <<chosen, asks, stamp, driver, netif, applied, wire, slot, beats, mode, counters>>

-----------------------------------------------------------------------------
(* start: every step may be refused; a part that is still allocated is        *)
(* refused again.  The guard then gives back what was allocated.              *)
ReleaseForgets == held' = held \cap {"bus"}
Release == held' = {}

StartFails ==
  /\ Release
  /\ step' = 0 /\ netif' = NoNetif /\ carrier' = FALSE /\ announce' = FALSE
  /\ UNCHANGED <<started, handlers, beats, applied>>

Allocate ==
  /\ step \in 1 .. Len(Parts) /\ Parts[step] \notin held
  /\ held' = held \cup {Parts[step]} /\ step' = step + 1
  /\ UNCHANGED <<started, handlers, netif, applied, beats, carrier, announce>>

StartConfigures ==
  /\ StartSteps[step] = "config" /\ step' = step + 1 /\ applied' = cfg /\ Configure
  /\ UNCHANGED <<held, started, handlers, beats, carrier>>

RegisterHandlers ==
  /\ StartSteps[step] = "handlers" /\ step' = step + 1 /\ handlers' = TRUE
  /\ UNCHANGED <<held, started, netif, applied, beats, carrier, announce>>

StartDriver ==
  /\ StartSteps[step] = "start" /\ step' = step + 1 /\ held' = held \cup {"start"}
  /\ UNCHANGED <<started, handlers, netif, applied, beats, carrier, announce>>

Commit ==
  /\ StartSteps[step] = "heartbeat" /\ step' = 0 /\ started' = TRUE
  /\ beats' = IF beats = NotYet THEN 0 ELSE beats
  /\ UNCHANGED <<held, handlers, netif, applied, carrier, announce>>

Registered == StartSteps[step] = "handlers" /\ handlers

Start ==
  /\ step > 0
  /\ \/ (Allocate \/ StartConfigures \/ RegisterHandlers \/ StartDriver \/ Commit) /\ UNCHANGED faults
     \/ ~Registered /\ StartSteps[step] # "heartbeat" /\ Refused /\ StartFails
     \/ step <= Len(Parts) /\ Parts[step] \in held /\ StartFails /\ UNCHANGED faults
  /\ UNCHANGED <<config, stamp, phy, linkUp, slot, got, mode, edits, drops>>

EventLoop == Connected \/ Disconnected \/ Leased \/ Announced
Outside == Plugged \/ Pulled \/ HalfSecond
NetClient == EditAddress \/ EditDhcp \/ EditOnPage \/ RequestReconfigure
NetMain == TickLoads \/ TickSwaps \/ TickApplies \/ Heartbeat \/ Receive \/ Assign

-----------------------------------------------------------------------------
(* What the network comes to once nobody disturbs it and the cable is in.  The *)
(* configuration last tried is no older than the last request; a static       *)
(* address is a client's; a lease is shown unless a client wrote over it; the  *)
(* mode is normal if there is an address.                                     *)
NetworkIsSettled ==
  /\ started /\ stamp = "none" /\ linkUp
  /\ applied \in since
  /\ ~cfg.dhcp => cfg = chosen
  /\ netif = [dhcp |-> TRUE, ip |-> Lease] /\ cfg.dhcp /\ ~over => cfg.ip = Lease
  /\ Reachable => mode = "Normal"
=============================================================================
