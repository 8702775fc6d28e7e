------------------------------ MODULE TcpServer -----------------------------
(***************************************************************************)
(* The Modbus TCP server (src/src/modbus/tcp_server.rs).  The main loop calls *)
(* tick_tcp_server; a tick repairs the listeners, follows the configured      *)
(* ports, accepts connections, sends what is pending, answers at most one     *)
(* request and closes the dead connections.  What peers do during a tick is    *)
(* seen as if done before it: a tick takes from a socket once.                 *)
(*                                                                         *)
(* A request is two fragments; only the number of fragments in a buffer is    *)
(* kept.  The clock counts the age of what was received up to PartialLimit;   *)
(* other timeouts and deadlines are choices.                                 *)
(***************************************************************************)
EXTENDS Integers, Sequences, FiniteSets, SequencesExt

CONSTANTS
  PortSets,         \* sets of ports that a user may configure
  NumSlots,         \* number of listeners
  MaxConnections, MaxAccepts,
  PartialLimit,     \* PARTIAL_FRAME_TIMEOUT_MS, in steps of the clock
  None,
  Watched,          \* a connection whose requests are watched
  MaxIds,           \* bound: connections accepted in all
  MaxUpsets         \* bound: disturbances counted while a request waits

Slots == 1..NumSlots
TcpPorts == UNION {Range(s) : s \in PortSets}

ASSUME SlotsAssumption == NumSlots \in Nat \ {0} /\ \A s \in PortSets : s \in [Slots -> TcpPorts] /\ IsInjective(s)
ASSUME TcpBounds ==
  {MaxConnections, MaxAccepts, PartialLimit, MaxIds, MaxUpsets} \subseteq Nat /\ MaxConnections > 0
ASSUME NoneAssumption == None \notin Nat /\ Watched \in 1..MaxIds

Frame    == 2       \* fragments of a request
MaxAhead == Frame   \* bound: fragments not answered when a peer sends another
Ages  == 0..PartialLimit
Ids   == 1..MaxIds

(* sock: fragments in the socket; rx: fragments in the receive buffer; timer:  *)
(* age of partial_frame_started; tx: a response is not sent.                  *)
Client == [id : Ids, port : TcpPorts, slot : Slots, sock : 0..Frame, rx : 0..(Frame + 1),
           timer : Ages \union {None}, tx : BOOLEAN]

VARIABLES
  configured,                   \* the stored tcp_ports
  listeners, activePorts, due,  \* bound ports, active_ports, recovery is scheduled
  stage,                        \* stage of the tick
  clients, conns, nextId,       \* clients, CONN_COUNT, NEXT_CONN_ID
  portCursor, last,             \* port_cursor, last_served_client
  order, dead, anyServed,       \* of poll_clients
  skipped, upsets               \* history: the watched connection passed over, disturbances

listening == <<configured, listeners, activePorts, due>>
schedule  == <<portCursor, last>>
polling   == <<order, dead, anyServed>>
watch     == <<skipped, upsets>>
tcpVars   == <<listening, stage, clients, conns, nextId, schedule, polling, watch>>

TcpInit ==
  /\ configured \in PortSets /\ activePorts = configured /\ listeners = configured /\ due = FALSE
  /\ stage = "recover" /\ clients = <<>> /\ conns = 0 /\ nextId = 1
  /\ portCursor = 0 /\ last = [s \in Slots |-> None]
  /\ order = <<>> /\ dead = {} /\ anyServed = FALSE
  /\ skipped = 0 /\ upsets = 0

-----------------------------------------------------------------------------
(* Peers, clock and configuration                                          *)

(* A peer sends a fragment.  That a peer hung up is seen when it is read.      *)
Send ==
  \E i \in DOMAIN clients :
    /\ stage = "recover" /\ clients[i].sock < Frame /\ clients[i].sock + clients[i].rx <= MaxAhead
    /\ clients' = [clients EXCEPT ![i].sock = @ + 1]
    /\ UNCHANGED <<listening, stage, conns, nextId, schedule, polling, watch>>

Older(age) == IF age = None \/ age = PartialLimit THEN age ELSE age + 1

TimePasses ==
  /\ stage = "recover"
  /\ clients' = [i \in DOMAIN clients |-> [clients[i] EXCEPT !.timer = Older(@)]]
  /\ UNCHANGED <<listening, stage, conns, nextId, schedule, polling, watch>>

Configure ==
  /\ stage = "recover"
  /\ configured' \in PortSets
  /\ UNCHANGED <<listeners, activePorts, due, stage, clients, conns, nextId, schedule, polling, watch>>

-----------------------------------------------------------------------------
(* Connections                                                             *)

IndexOf(id)   == CHOOSE i \in DOMAIN clients : clients[i].id = id
Connected(id) == \E i \in DOMAIN clients : clients[i].id = id

(* A whole request is in the socket and the receive buffer.                  *)
HasRequest(c) == ~c.tx /\ c.rx + c.sock >= Frame

Waits(id) == Connected(id) /\ IndexOf(id) \notin dead /\ HasRequest(clients[IndexOf(id)])

Forgotten == skipped' = 0 /\ upsets' = 0

Upset ==
  IF Waits(Watched) THEN upsets' = Min({upsets + 1, MaxUpsets}) /\ UNCHANGED skipped ELSE Forgotten

-----------------------------------------------------------------------------
(* Listeners                                                               *)

GoTo(s) == stage' = s

(* recover_listeners_if_due: all listeners are closed first; a port that      *)
(* cannot be bound leaves those before it.                                   *)
NotDue ==
  /\ stage = "recover" /\ GoTo("ports")
  /\ UNCHANGED <<listening, clients, conns, nextId, schedule, polling, watch>>

RecoverListeners ==
  /\ stage = "recover" /\ due /\ GoTo("ports")
  /\ listeners' = activePorts /\ due' = FALSE
  /\ UNCHANGED <<configured, activePorts, clients, conns, nextId, schedule, polling, watch>>

RecoverInPart ==
  /\ stage = "recover" /\ due /\ GoTo("ports")
  /\ \E n \in 0..(NumSlots - 1) : listeners' = SubSeq(activePorts, 1, n)
  /\ UNCHANGED <<configured, activePorts, due, clients, conns, nextId, schedule, polling, watch>>

Complete(l) == Len(l) = NumSlots

(* The check of the ports, at most once a second: new ports are bound before  *)
(* the old listeners go, and all fails when one fails.                        *)
SamePorts ==
  /\ stage = "ports" /\ GoTo("accept")
  /\ due' = (due \/ ~Complete(listeners))
  /\ UNCHANGED <<configured, listeners, activePorts, clients, conns, nextId, schedule, polling, watch>>

(* Variant: the listeners that exist are replaced, complete or not.          *)
RebindAnyway ==
  /\ stage = "ports" /\ configured # activePorts /\ GoTo("accept")
  /\ activePorts' = configured
  /\ listeners' = [i \in DOMAIN listeners |-> configured[i]] /\ due' = FALSE
  /\ portCursor' = 0
  /\ Upset
  /\ UNCHANGED <<configured, clients, conns, nextId, last, polling>>

Rebind ==
  /\ stage = "ports" /\ configured # activePorts /\ Complete(listeners) /\ GoTo("accept")
  /\ activePorts' = configured /\ listeners' = configured /\ due' = FALSE
  /\ portCursor' = 0
  /\ Upset
  /\ UNCHANGED <<configured, clients, conns, nextId, last, polling>>

(* take_error or accept reports that a listener failed.                      *)
ListenerFails ==
  /\ stage \in {"ports", "accept"}
  /\ due' = TRUE
  /\ UNCHANGED <<configured, listeners, activePorts, stage, clients, conns, nextId, schedule, polling, watch>>

-----------------------------------------------------------------------------
(* accept_pending                                                          *)

NewClient(id, i) ==
  [id |-> id, port |-> activePorts[i], slot |-> i, sock |-> 0, rx |-> 0, timer |-> None, tx |-> FALSE]

Room(taken) == SubSeq(taken, 1, Min({Len(taken), MaxConnections - Len(clients)}))

(* At most one connection per listener, in any order (listener_cursor); those  *)
(* that find every place taken are dropped.  That the rate of the second may   *)
(* leave some for later is part of the choice.                               *)
Accept ==
  /\ stage = "accept" /\ listeners # <<>> /\ GoTo("flush")
  /\ \E from \in SUBSET DOMAIN listeners : \E taken \in SetToSeqs(from) :
       LET room == Room(taken) IN
          /\ Len(taken) <= MaxAccepts /\ nextId + Len(room) - 1 <= MaxIds
          /\ nextId' = nextId + Len(room)
          /\ clients' = clients \o [k \in DOMAIN room |-> NewClient(nextId + k - 1, room[k])]
          /\ conns' = IF room = <<>> THEN conns ELSE Len(clients')
  /\ UNCHANGED <<listening, schedule, polling, watch>>

NobodyListens ==
  /\ stage = "accept" /\ listeners = <<>> /\ GoTo("flush") /\ due' = TRUE
  /\ UNCHANGED <<configured, listeners, activePorts, clients, conns, nextId, schedule, polling, watch>>

-----------------------------------------------------------------------------
(* poll_clients                                                            *)

SlotOf(c) ==
  IF \E s \in Slots : activePorts[s] = c.port THEN CHOOSE s \in Slots : activePorts[s] = c.port ELSE c.slot

(* (a - b) modulo n, for a and b up to n.                                     *)
Behind(a, b, n) == IF a >= b THEN a - b ELSE a - b + n

(* How far the slot of a client is from the cursor, and the client from the    *)
(* one after the one its slot served last.                                   *)
Turns(i) == Behind(SlotOf(clients[i]) - 1, portCursor, NumSlots)
Start(s) == IF last[s] # None THEN IndexOf(last[s]) ELSE 0
Queue(i) == Behind(i - 1, Start(SlotOf(clients[i])), Len(clients))

(* Variant: every slot begins with its first client.                         *)
BeforeByPlace(i, j) == Turns(i) < Turns(j) \/ (Turns(i) = Turns(j) /\ i < j)

(* fair_client_schedule: by slot from the cursor, and in a slot from the       *)
(* client after the one it served last.                                      *)
Before(i, j) == Turns(i) < Turns(j) \/ (Turns(i) = Turns(j) /\ Queue(i) < Queue(j))

Place(i) == Cardinality({j \in DOMAIN clients : j = i \/ Before(j, i)})
FairSchedule == [n \in DOMAIN clients |-> CHOOSE i \in DOMAIN clients : Place(i) = n]

TimedOut(c) == c.timer = PartialLimit

(* Every connection sends what is pending or fails to; the timeouts of a      *)
(* response and of an idle connection are a choice.                          *)
FlushAll ==
  /\ stage = "flush" /\ GoTo("serve")
  /\ \E sent \in SUBSET {i \in DOMAIN clients : clients[i].tx},
        gone \in SUBSET {i \in DOMAIN clients : clients[i].tx \/ clients[i].sock = 0} :
       /\ clients' = [i \in DOMAIN clients |-> IF i \in sent THEN [clients[i] EXCEPT !.tx = FALSE] ELSE clients[i]]
       /\ dead' = gone \union {i \in DOMAIN clients : TimedOut(clients[i])}
  /\ order' = FairSchedule /\ anyServed' = FALSE
  /\ UNCHANGED <<listening, conns, nextId, schedule, watch>>

(* Variant: a request that was answered ends the limit of the next one too.   *)
AnswerAndForget(c) == [c EXCEPT !.rx = @ - Frame, !.tx = TRUE, !.timer = None]

(* One request is taken from the buffer; the rest stays.                     *)
Answer(c) ==
  [c EXCEPT !.rx = @ - Frame, !.tx = TRUE, !.timer = IF c.rx = Frame THEN None ELSE @]

Read(c) ==
  [c EXCEPT !.rx = @ + c.sock, !.sock = 0, !.timer = IF c.rx = 0 THEN 0 ELSE @]

First == Head(order)
Turn  == stage = "serve" /\ order # <<>> /\ ~anyServed

(* The request of the next client is answered; the tick admits no other.  The  *)
(* response may not reach the client any more.                              *)
ServeRequest ==
  LET c == clients[First]
      full == IF c.rx >= Frame THEN c ELSE Read(c)
  IN
  /\ Turn /\ First \notin dead /\ HasRequest(c)
  /\ \E pending \in BOOLEAN : clients' = [clients EXCEPT ![First] = [Answer(full) EXCEPT !.tx = pending]]
  /\ anyServed' = TRUE /\ order' = <<>>
  /\ last' = [last EXCEPT ![SlotOf(c)] = c.id] /\ portCursor' = SlotOf(c) % NumSlots
  /\ dead' \in {dead, dead \union {First}}
  /\ IF Watched # c.id /\ Waits(Watched)
     THEN skipped' = (IF upsets < MaxUpsets THEN skipped + 1 ELSE 0) /\ UNCHANGED upsets
     ELSE Forgotten
  /\ UNCHANGED <<listening, stage, conns, nextId>>

(* The next client is read and has no request yet, or has hung up, cannot be   *)
(* sent to or sent what is no request; one that is dead or still sending is     *)
(* passed.                                                                 *)
PassOver ==
  LET c == clients[First] IN
  /\ Turn /\ order' = Tail(order)
  /\ \/ (First \in dead \/ c.tx) /\ UNCHANGED <<clients, dead>>
     \/ /\ First \notin dead /\ ~c.tx /\ ~HasRequest(c)
        /\ clients' = IF c.sock = 0 THEN clients ELSE [clients EXCEPT ![First] = Read(c)]
        /\ UNCHANGED dead
     \/ First \notin dead /\ dead' = dead \union {First} /\ UNCHANGED clients
  /\ UNCHANGED <<listening, stage, conns, nextId, schedule, anyServed, watch>>

(* The deadline has passed before the next client.  One that passes while it   *)
(* is read leaves the request in another buffer, where it waits as well.       *)
Late ==
  /\ Turn /\ order' = <<>> /\ Upset
  /\ UNCHANGED <<listening, stage, clients, conns, nextId, schedule, dead, anyServed>>

(* The tick goes on with the dead connections, and ends after the last.        *)
CloseRest(rest) == GoTo(IF rest = {} THEN "recover" ELSE "close")

(* The loop is over; the cursor has moved with the client that was served, or  *)
(* moves now.                                                              *)
EndServing ==
  /\ stage = "serve" /\ (order = <<>> \/ anyServed) /\ CloseRest(dead)
  /\ portCursor' = IF anyServed THEN portCursor ELSE (portCursor + 1) % NumSlots
  /\ anyServed' = FALSE /\ order' = <<>>
  /\ UNCHANGED <<listening, clients, conns, nextId, last, dead, watch>>

SwapRemove(s, i) == SubSeq([s EXCEPT ![i] = s[Len(s)]], 1, Len(s) - 1)

(* Dead connections are closed from the last to the first; the last           *)
(* connection takes the place of a closed one.  An id in last_served_client    *)
(* that is found no more counts as none.                                     *)
Close ==
  /\ stage = "close"
  /\ \E i \in dead :
       /\ \A j \in dead : j <= i
       /\ dead' = dead \ {i} /\ CloseRest(dead \ {i})
       /\ clients' = SwapRemove(clients, i) /\ conns' = conns - 1
       /\ last' = [t \in Slots |-> IF last[t] = clients[i].id THEN None ELSE last[t]]
       /\ IF clients[i].id = Watched THEN Forgotten ELSE Upset
  /\ UNCHANGED <<listening, nextId, portCursor, order, anyServed>>

-----------------------------------------------------------------------------
Peers     == Send \/ TimePasses \/ Configure
Listening == NotDue \/ RecoverListeners \/ RecoverInPart \/ SamePorts \/ Rebind \/ ListenerFails
Accepting == Accept \/ NobodyListens
Polling   == FlushAll \/ ServeRequest \/ PassOver \/ Late \/ EndServing \/ Close
Tick      == Listening \/ Accepting \/ Polling
TcpNext   == Peers \/ Tick

TcpSpec == TcpInit /\ [][TcpNext]_tcpVars

-----------------------------------------------------------------------------
(* Types; the counter of connections is right and never above the limit, and   *)
(* what poll_clients holds about its clients is about clients that exist.      *)
TcpTypeOK ==
  /\ configured \in PortSets /\ activePorts \in PortSets /\ listeners \in Seq(TcpPorts) /\ due \in BOOLEAN
  /\ stage \in {"recover", "ports", "accept", "flush", "serve", "close"}
  /\ clients \in Seq(Client) /\ conns = Len(clients) /\ conns <= MaxConnections
  /\ nextId \in 1..(MaxIds + 1)
  /\ portCursor \in 0..(NumSlots - 1) /\ last \in [Slots -> Ids \union {None}]
  /\ order \in Seq(DOMAIN clients) /\ dead \subseteq DOMAIN clients /\ anyServed \in BOOLEAN
  /\ skipped \in Nat /\ upsets \in 0..MaxUpsets

(* A request that waits is passed over only so often: once per place of the    *)
(* rotation, and as often again whenever a connection is closed, which moves    *)
(* another one to its place, a tick runs into its deadline or the ports change   *)
(* (tcp_server.rs:471-505, 514-541).                                                       *)
WaitsItsTurn == upsets < MaxUpsets => skipped < NumSlots * MaxConnections * (1 + upsets)

(* A connection is accepted as one of the port it came in on: listeners are    *)
(* those of active_ports in order, and repair is scheduled as long as one is    *)
(* missing and the check of the ports was done (tcp_server.rs:386-437, 692).    *)
ListenersMatch ==
  /\ IsPrefix(listeners, activePorts)
  /\ stage \in {"flush", "serve", "close"} => due \/ Complete(listeners)

(* Whoever holds a place with a part of a request is timed, also when that part *)
(* came with the request before it, so no connection keeps its place by sending  *)
(* little (tcp_server.rs:130-140, 240-245, config.rs:282).                     *)
SlowSenderIsTimed == \A i \in DOMAIN clients : clients[i].rx > 0 => clients[i].timer # None
=============================================================================
