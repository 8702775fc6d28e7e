------------------------------ MODULE RtuPorts ------------------------------
(***************************************************************************)
(* The RS485 ports (src/src/modbus/rtu_runtime.rs, rtu_master.rs, the frame   *)
(* handling of rtu_slave.rs and rs485/port.rs).  Every port has a task that   *)
(* reopens it when its settings change and, as a master, polls the entries of *)
(* the configured table that name the port.  All tasks share one array of     *)
(* results, RESULT_VALUES and RESULT_VALID, but each keeps its own copy of    *)
(* the table.                                                              *)
(*                                                                         *)
(* A stored configuration is the list of its read functions and whether its   *)
(* offsets and headers are well formed; a value is the entry it was read for. *)
(* Time is a choice: a transaction may use up the budget of the round.        *)
(***************************************************************************)
EXTENDS Integers, Sequences, FiniteSets, Functions

CONSTANTS
  Ports, DipPort,   \* the port that the DIP switch can force, or none
  Regs,             \* registers of the two result areas
  Zero, NoValue,    \* a cleared result; a register that is not configured
  Wires,            \* line parameters
  Configs,          \* what clients write at 2300+
  Error,            \* outcome of parsing an incomplete configuration
  Closed,           \* no port is open
  NoGen,            \* u32::MAX, no table was looked at
  MaxItems,         \* MAX_POLL_ITEMS
  MaxRetry,         \* retries of a transaction
  MaxChanges, MaxSettings, MaxFaults  \* bounds: tables, settings, failures

Entry    == [port : Ports, dest : SUBSET Regs, words : SUBSET Regs]
Config   == [complete : BOOLEAN, entries : Seq(Entry)]
Settings == [mode : {"master", "slave"}, wire : Wires]
Saved    == [mode : 0..2, wire : Wires]

ASSUME ConfigsAssumption == Configs \subseteq Config /\ Configs # {} /\ Wires # {}
ASSUME ValuesAssumption == Zero \notin Entry /\ NoValue \notin Entry \union {Zero}
ASSUME NamesAssumption == Error \notin Seq(Entry) /\ Closed \notin Settings /\ NoGen \notin Nat
ASSUME BoundsAssumption == {MaxItems, MaxRetry, MaxChanges, MaxSettings, MaxFaults} \subseteq Nat

VARIABLES
  cfg, unmarked, generation,  \* stored table, change not yet marked, CONFIG_GENERATION
  saved,                      \* saved settings of each port
  pc, active, table, cursor, gen,     \* of each port's task
  requested, refreshed,       \* its refresh of the table
  visited, spent, item, attempt,      \* its round: budget used up, entry, retries
  values, valid,              \* RESULT_VALUES, RESULT_VALID
  link,                       \* RS485_STATS: errors of each port
  changes, faults

client  == <<cfg, unmarked, generation, changes>>
copy    == <<table, gen, requested, refreshed>>
round   == <<visited, spent, item, attempt>>
results == <<values, valid>>
vars    == <<client, saved, pc, active, copy, cursor, round, results, link, faults>>

-----------------------------------------------------------------------------
(* Configuration                                                           *)

(* parse_poll_table and filter_disabled_port3: all or nothing.               *)
Acceptable(c) ==
  /\ c.complete /\ Len(c.entries) <= MaxItems
  /\ \A i \in DOMAIN c.entries : c.entries[i].dest # {}
  /\ \A i, j \in DOMAIN c.entries : i # j => c.entries[i].dest \cap c.entries[j].dest = {}

ParsePollTable(c) == IF Acceptable(c) THEN c.entries ELSE Error

RangesOf(t) == UNION {t[i].dest : i \in DOMAIN t}

(* The DIP switch wins over the saved mode; a gateway is a slave.            *)
RuntimePolicy(p, s) ==
  [mode |-> IF p # DipPort /\ s.mode = 0 THEN "master" ELSE "slave", wire |-> s.wire]

Init ==
  /\ cfg \in Configs /\ unmarked = FALSE /\ generation = 0
  /\ saved \in [Ports -> {s \in Saved : s.mode # 2}]
  /\ pc = [p \in Ports |-> "off"] /\ active = [p \in Ports |-> Closed]
  /\ table = [p \in Ports |-> <<>>] /\ cursor = [p \in Ports |-> 0]
  /\ gen = [p \in Ports |-> NoGen]
  /\ requested = [p \in Ports |-> NoGen] /\ refreshed = [p \in Ports |-> Error]
  /\ visited = [p \in Ports |-> 0] /\ spent = [p \in Ports |-> FALSE]
  /\ item = [p \in Ports |-> Zero] /\ attempt = [p \in Ports |-> 0]
  /\ values = [r \in Regs |-> Zero] /\ valid = {}
  /\ link = [p \in Ports |-> {}]
  /\ changes = 0 /\ faults = 0

(* Writing 2300+ publishes the table and marks the change under one lock.    *)
ChangeTable ==
  /\ ~unmarked /\ changes < MaxChanges
  /\ cfg' \in Configs /\ unmarked' = TRUE /\ changes' = changes + 1
  /\ UNCHANGED <<generation, saved, pc, active, copy, cursor, round, results, link, faults>>

MarkChanged ==
  /\ unmarked /\ unmarked' = FALSE /\ generation' = generation + 1
  /\ UNCHANGED <<cfg, changes, saved, pc, active, copy, cursor, round, results, link, faults>>

ChangeSettings(p) ==
  /\ changes < MaxSettings /\ changes' = changes + 1
  /\ \E s \in Saved : saved' = [saved EXCEPT ![p] = s]
  /\ UNCHANGED <<cfg, unmarked, generation, pc, active, copy, cursor, round, results, link, faults>>

-----------------------------------------------------------------------------
(* The task of a port                                                      *)

Goto(p, step) == pc' = [pc EXCEPT ![p] = step]

(* start: a port whose thread could not be created is tried again.          *)
Spawn(p) ==
  /\ pc[p] = "off" /\ Goto(p, "top")
  /\ UNCHANGED <<client, saved, active, copy, cursor, round, results, link, faults>>

(* Top of the loop: the port follows its settings.  The old driver is gone   *)
(* before the new one is installed.                                        *)
Reopen(p) ==
  LET desired == RuntimePolicy(p, saved[p])
      next    == IF desired.mode = "master" THEN "look" ELSE "listen"
  IN /\ pc[p] = "top"
     /\ \/ active[p] = desired /\ Goto(p, next) /\ UNCHANGED <<active, faults>>
        \/ /\ active[p] # desired /\ Goto(p, next)
           /\ active' = [active EXCEPT ![p] = desired] /\ UNCHANGED faults
        \/ /\ active[p] # desired /\ faults < MaxFaults /\ faults' = faults + 1
           /\ active' = [active EXCEPT ![p] = Closed] /\ UNCHANGED pc
     /\ UNCHANGED <<client, saved, copy, cursor, round, results, link>>

(* A master looks whether the table has changed ...                         *)
BeginRound(p) ==
  /\ visited' = [visited EXCEPT ![p] = 0] /\ spent' = [spent EXCEPT ![p] = FALSE]
  /\ item' = [item EXCEPT ![p] = Zero] /\ UNCHANGED attempt

Forget(p) ==
  /\ requested' = [requested EXCEPT ![p] = NoGen] /\ refreshed' = [refreshed EXCEPT ![p] = Error]

Look(p) ==
  /\ pc[p] = "look"
  /\ IF generation = gen[p]
     THEN Goto(p, "visit") /\ BeginRound(p) /\ UNCHANGED requested
     ELSE Goto(p, "parse") /\ requested' = [requested EXCEPT ![p] = generation] /\ UNCHANGED round
  /\ UNCHANGED <<client, saved, active, table, gen, refreshed, cursor, results, link, faults>>

Parse(p) ==
  /\ pc[p] = "parse" /\ Goto(p, "recheck")
  /\ refreshed' = [refreshed EXCEPT ![p] = ParsePollTable(cfg)]
  /\ UNCHANGED <<client, saved, active, table, gen, requested, cursor, round, results, link, faults>>

(* ... and gives up what it parsed if it changed again meanwhile.            *)
Recheck(p) ==
  /\ pc[p] = "recheck"
  /\ IF generation = requested[p] THEN Goto(p, "publish") /\ UNCHANGED <<round, requested, refreshed>>
     ELSE Goto(p, "visit") /\ BeginRound(p) /\ Forget(p)
  /\ UNCHANGED <<client, saved, active, table, gen, cursor, results, link, faults>>

(* Variant: the ranges are published and the old values stay.                *)
PublishValidOnly(t) == UNCHANGED values /\ valid' = RangesOf(t)

PublishRanges(t) == values' = [r \in Regs |-> Zero] /\ valid' = RangesOf(t)

(* Variant: the newest generation is remembered, not the one that was parsed. *)
PublishAsNewest(p) ==
  /\ pc[p] = "publish" /\ Goto(p, "visit") /\ BeginRound(p) /\ Forget(p)
  /\ gen' = [gen EXCEPT ![p] = generation]
  /\ IF refreshed[p] \notin {Error, table[p]}
     THEN /\ PublishRanges(refreshed[p])
          /\ table' = [table EXCEPT ![p] = refreshed[p]] /\ cursor' = [cursor EXCEPT ![p] = 0]
     ELSE UNCHANGED <<results, table, cursor>>
  /\ UNCHANGED <<client, saved, active, link, faults>>

(* A table that is the same is not published, an incomplete one is ignored.  *)
Publish(p) ==
  /\ pc[p] = "publish" /\ Goto(p, "visit") /\ BeginRound(p) /\ Forget(p)
  /\ gen' = [gen EXCEPT ![p] = requested[p]]
  /\ IF refreshed[p] \notin {Error, table[p]}
     THEN /\ PublishRanges(refreshed[p])
          /\ table' = [table EXCEPT ![p] = refreshed[p]] /\ cursor' = [cursor EXCEPT ![p] = 0]
     ELSE UNCHANGED <<results, table, cursor>>
  /\ UNCHANGED <<client, saved, active, link, faults>>

(* The next entry of the round, whichever port it is for.                    *)
Current(p) == table[p][((cursor[p] + visited[p]) % Len(table[p])) + 1]

VisitOther(p) ==
  /\ pc[p] = "visit" /\ visited[p] < Len(table[p]) /\ Current(p).port # p
  /\ visited' = [visited EXCEPT ![p] = @ + 1]
  /\ UNCHANGED <<client, saved, pc, active, copy, cursor, spent, item, attempt, results, link, faults>>

VisitOwn(p) ==
  /\ pc[p] = "visit" /\ visited[p] < Len(table[p]) /\ Current(p).port = p
  /\ visited' = [visited EXCEPT ![p] = @ + 1]
  /\ item' = [item EXCEPT ![p] = Current(p)] /\ attempt' = [attempt EXCEPT ![p] = 0]
  /\ Goto(p, "send")
  /\ UNCHANGED <<client, saved, active, copy, cursor, spent, results, link, faults>>

(* The budget of the round is spent: the entry at which that is noticed      *)
(* counts as visited.                                                      *)
DeferRest(p) ==
  /\ pc[p] = "visit" /\ visited[p] < Len(table[p]) /\ Current(p).port = p /\ spent[p]
  /\ visited' = [visited EXCEPT ![p] = @ + 1] /\ Goto(p, "rest")
  /\ UNCHANGED <<client, saved, active, copy, cursor, spent, item, attempt, results, link, faults>>

EndOfTable(p) ==
  /\ pc[p] = "visit" /\ visited[p] >= Len(table[p]) /\ Goto(p, "rest")
  /\ UNCHANGED <<client, saved, active, copy, cursor, round, results, link, faults>>

Rest(p) ==
  /\ pc[p] = "rest" /\ Goto(p, "top")
  /\ cursor' = IF table[p] = <<>> THEN cursor
               ELSE [cursor EXCEPT ![p] = (@ + visited[p]) % Len(table[p])]
  /\ UNCHANGED <<client, saved, active, copy, round, results, link, faults>>

-----------------------------------------------------------------------------
(* A transaction                                                           *)

(* The payload fits the entry: the link works again.                        *)
GoodAnswer(p) ==
  /\ pc[p] = "send" /\ Goto(p, "write")
  /\ link' = [link EXCEPT ![p] = {}]
  /\ spent' \in {spent, [spent EXCEPT ![p] = TRUE]}
  /\ UNCHANGED <<client, saved, active, copy, cursor, visited, item, attempt, results, faults>>

(* Silence, a truncated or foreign frame, a bad CRC: the error is added.  An  *)
(* exception or an unfit payload: the link works, the slave refused.          *)
BadAnswer(p) ==
  /\ pc[p] = "send"
  /\ \/ link' = [link EXCEPT ![p] = @ \union {"com"}]
     \/ link' = [link EXCEPT ![p] = {"app"}]
  /\ IF attempt[p] < MaxRetry
     THEN attempt' = [attempt EXCEPT ![p] = @ + 1] /\ UNCHANGED pc
     ELSE Goto(p, "clear") /\ UNCHANGED attempt
  /\ spent' \in {spent, [spent EXCEPT ![p] = TRUE]}
  /\ UNCHANGED <<client, saved, active, copy, cursor, visited, item, results, faults>>

(* Bits fill fewer words than the entry has; the others stay.               *)
WriteResult(p) ==
  /\ pc[p] = "write" /\ Goto(p, "visit")
  /\ values' = [r \in Regs |-> IF r \in item[p].dest \cap item[p].words THEN item[p] ELSE values[r]]
  /\ UNCHANGED <<client, saved, active, copy, cursor, round, valid, link, faults>>

(* Variant: what was read before the failure stays.                         *)
ClearNothing(p) ==
  /\ pc[p] = "clear" /\ Goto(p, "visit")
  /\ UNCHANGED <<client, saved, active, copy, cursor, round, results, link, faults>>

ClearResult(p) ==
  /\ pc[p] = "clear" /\ Goto(p, "visit")
  /\ values' = [r \in Regs |-> IF r \in item[p].dest THEN Zero ELSE values[r]]
  /\ UNCHANGED <<client, saved, active, copy, cursor, round, valid, link, faults>>

(* A slave waits for a frame: none, one for another slave, a broken one, a    *)
(* request that is served, or one answered by an exception.  What requests    *)
(* write to the registers is ChangeTable.                                  *)
Listen(p) ==
  /\ pc[p] = "listen" /\ Goto(p, "top")
  /\ \/ UNCHANGED link
     \/ link' = [link EXCEPT ![p] = @ \union {"com"}]
     \/ link' = [link EXCEPT ![p] = {}]
     \/ link' = [link EXCEPT ![p] = {"app"}]
  /\ UNCHANGED <<client, saved, active, copy, cursor, round, results, faults>>

-----------------------------------------------------------------------------
Refresh(p)  == Look(p) \/ Parse(p) \/ Recheck(p) \/ Publish(p)
Visit(p)    == VisitOther(p) \/ VisitOwn(p) \/ DeferRest(p) \/ EndOfTable(p) \/ Rest(p)
Transact(p) == GoodAnswer(p) \/ BadAnswer(p) \/ WriteResult(p) \/ ClearResult(p)
PortStep(p) == Spawn(p) \/ Reopen(p) \/ Refresh(p) \/ Visit(p) \/ Transact(p) \/ Listen(p)

Next == ChangeTable \/ MarkChanged \/ \E p \in Ports : ChangeSettings(p) \/ PortStep(p)

Spec     == Init /\ [][Next]_vars
FairSpec == Spec /\ WF_vars(MarkChanged) /\ \A p \in Ports : WF_vars(PortStep(p))

-----------------------------------------------------------------------------
Steps == {"off", "top", "look", "parse", "recheck", "publish", "visit", "send", "write",
          "clear", "rest", "listen"}

ClientTypes ==
  /\ cfg \in Configs /\ unmarked \in BOOLEAN /\ generation \in Nat
  /\ saved \in [Ports -> Saved] /\ changes \in Nat /\ faults \in Nat

CopyTypes ==
  /\ table \in [Ports -> Seq(Entry)] /\ gen \in [Ports -> Nat \union {NoGen}]
  /\ requested \in [Ports -> Nat \union {NoGen}]
  /\ refreshed \in [Ports -> Seq(Entry) \union {Error}]

RoundTypes ==
  /\ pc \in [Ports -> Steps] /\ active \in [Ports -> Settings \union {Closed}]
  /\ cursor \in [Ports -> Nat] /\ visited \in [Ports -> Nat] /\ spent \in [Ports -> BOOLEAN]
  /\ item \in [Ports -> Entry \union {Zero}] /\ attempt \in [Ports -> 0..MaxRetry]

ResultTypes ==
  /\ values \in [Regs -> Entry \union {Zero}] /\ valid \subseteq Regs
  /\ link \in [Ports -> SUBSET {"com", "app"}]

(* The last entry is for the task's own port, and of its table while in use.     *)
EntryIsOwn ==
  \A p \in Ports :
    /\ item[p] # Zero => item[p].port = p
    /\ pc[p] \in {"send", "write", "clear"} => item[p] \in Range(table[p]) /\ item[p] # Zero

(* Types, and a transaction is about an entry of the task's own table and port.  *)
TypeOK == ClientTypes /\ CopyTypes /\ RoundTypes /\ ResultTypes /\ EntryIsOwn

(* What a client reads in a result register (read_result_reg).              *)
ReadResult(r) == IF r \in valid THEN values[r] ELSE NoValue

(* Every task that ever polled has seen the newest table, a valid one.        *)
Settled ==
  /\ ~unmarked /\ ParsePollTable(cfg) # Error
  /\ \A p \in Ports : gen[p] \in {NoGen, generation}
  /\ \E p \in Ports : gen[p] = generation

(* Once all masters have seen the newest table, the registers that answer are  *)
(* those of that table, and none shows a value read for another entry, although *)
(* tasks publish and write with tables of different age (rtu_master.rs:143).   *)
ResultsAreOfTheTable ==
  Settled => \A r \in Regs :
    IF r \in RangesOf(ParsePollTable(cfg))
    THEN \E e \in Range(ParsePollTable(cfg)) : r \in e.dest /\ ReadResult(r) \in {Zero, e}
    ELSE ReadResult(r) = NoValue

(* Between two transactions, a link that is reported broken means that the    *)
(* entry polled last shows no value: what was read before the failure is gone  *)
(* (rtu_runtime.rs:292-298).  A master that lags behind may still write there. *)
BrokenShowsNothing ==
  Settled => \A p \in Ports :
    pc[p] = "visit" /\ visited[p] > 0 /\ gen[p] = generation /\ link[p] # {} =>
      \A r \in Regs : item[p] \in Range(table[p]) /\ item[p] # Zero /\ r \in item[p].dest =>
                        ReadResult(r) = Zero

(* What a client reads as the result of a polled register was read from the    *)
(* device the newest table names for it, and not before that device stopped    *)
(* answering: both of the above, over the publication, the polls and the      *)
(* failures of two masters with tables of different age.                     *)
ResultsAreTrue == ResultsAreOfTheTable /\ BrokenShowsNothing

(* What "deferring remaining items" (rtu_runtime.rs:283-287) says: an entry of  *)
(* a master's table that stays in it is polled again and again.               *)
DeferredIsPolled ==
  \A p \in Ports : \A c \in Configs : \A i \in DOMAIN c.entries :
    c.entries[i].port = p /\ <>[](table[p] = c.entries /\ pc[p] # "listen") =>
      []<>(pc[p] = "send" /\ item[p] = c.entries[i])
=============================================================================
