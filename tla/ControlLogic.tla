---------------------------- MODULE ControlLogic ----------------------------
(***************************************************************************)
(* The executor of control words (src/src/control_logic.rs): the parsed      *)
(* table and how it follows the configuration, the ring of commands, and the *)
(* schedule of delayed and pulsed outputs, walked in every tick of the main   *)
(* loop.  The callers are the tasks that write registers.                    *)
(*                                                                         *)
(* A version of the configuration is its number and Tables what parse_table   *)
(* makes of it; version 0 is the empty table at boot.  A control word         *)
(* addresses one logic.  Times are what is left of them: nothing reads the    *)
(* clock during the walk, so time that passes then is counted after it.       *)
(* Analog results and feedback words are left out.                           *)
(***************************************************************************)
EXTENDS Naturals, Sequences, FiniteSets, SequencesExt

CONSTANTS
  Clients, Main,
  NoTask,        \* nobody holds TABLE_REFRESH_LOCK
  Logics, Outputs,
  Tables,        \* the tables of the versions 1, 2, ...
  QueueSize,     \* capacity of COMMANDS
  PerPass,       \* commands taken in one tick
  MaxScheduled,  \* MAX_SCHEDULED
  MaxCommands    \* bound on control words

Plan  == [scope : SUBSET Outputs, delay : Nat, pulse : Nat]
Tasks == Clients \union {Main}

ASSUME TasksAssumption == IsFiniteSet(Clients) /\ Main \notin Clients /\ NoTask \notin Tasks
ASSUME TablesAssumption == Tables \in Seq([Logics -> Plan]) /\ Tables # <<>>
ASSUME BoundsAssumption == {QueueSize, PerPass, MaxScheduled, MaxCommands} \subseteq Nat \ {0}

VARIABLES
  storage,      \* the version in STORAGE
  config_gen,   \* CONFIG_GENERATION
  table,        \* the version in TABLE
  table_gen,    \* TABLE_GENERATION
  refresher,    \* holder of TABLE_REFRESH_LOCK
  pc, seen, parsed,  \* of each task: next step, generation, version parsed
  target,       \* the logic whose control word a client writes
  mine,         \* history: the last version a client has written and marked
  commands,     \* COMMANDS
  scheduled,    \* SCHEDULED
  index, quota, \* of the walk and of the loop over commands
  since,        \* time since the tick read the clock for its commands
  out, transient,  \* IO.do_ and TRANSIENT_MASK
  late,         \* history: both edges of a pulse have been due in one walk
  orphaned,     \* history: a command has replaced edges of other outputs
  count

config   == <<storage, config_gen, mine>>
refresh  == <<table, table_gen, refresher, parsed>>
schedule == <<scheduled, index, quota, since, out, transient, late, orphaned>>
vars     == <<config, refresh, pc, seen, target, commands, schedule, count>>

Command == [logic : Logics, scope : SUBSET Outputs, on : SUBSET Outputs,
            delay : Nat, pulse : Nat]
Edge    == [logic : Logics, left : Nat, mask : SUBSET Outputs,
            value : SUBSET Outputs, transient : BOOLEAN]

Init ==
  /\ storage = 1 /\ config_gen = 1 /\ mine = [c \in Clients |-> 0]
  /\ table = 0 /\ table_gen = 0 /\ refresher = NoTask
  /\ parsed = [t \in Tasks |-> 0] /\ seen = [t \in Tasks |-> 0]
  /\ pc = [t \in Tasks |-> IF t = Main THEN "look" ELSE "idle"]
  /\ target = [c \in Clients |-> CHOOSE l \in Logics : TRUE]
  /\ commands = <<>> /\ scheduled = <<>>
  /\ index = 1 /\ quota = 0 /\ since = 0
  /\ out = {} /\ transient = {}
  /\ late = FALSE /\ orphaned = FALSE /\ count = 0

Goto(t, step) == pc' = [pc EXCEPT ![t] = step]

-----------------------------------------------------------------------------
(* refresh_table, by any task                                              *)

Look(t) ==
  /\ pc[t] = "look" /\ Goto(t, "compare")
  /\ seen' = [seen EXCEPT ![t] = config_gen]
  /\ UNCHANGED <<config, refresh, target, commands, schedule, count>>

Compare(t) ==
  /\ pc[t] = "compare"
  /\ Goto(t, IF table_gen = seen[t] THEN "use" ELSE "lock")
  /\ UNCHANGED <<config, refresh, seen, target, commands, schedule, count>>

(* Variant: nobody waits for a refresh that is under way.                    *)
LockOrGoOn(t) ==
  /\ pc[t] = "lock"
  /\ IF refresher = NoTask THEN refresher' = t /\ Goto(t, "recheck")
     ELSE UNCHANGED refresher /\ Goto(t, "use")
  /\ UNCHANGED <<config, table, table_gen, parsed, seen, target, commands, schedule, count>>

(* Variant: no lock.                                                       *)
LockNothing(t) ==
  /\ pc[t] = "lock" /\ Goto(t, "recheck")
  /\ UNCHANGED <<config, refresh, seen, target, commands, schedule, count>>

Lock(t) ==
  /\ pc[t] = "lock" /\ Goto(t, "recheck")
  /\ refresher = NoTask /\ refresher' = t
  /\ UNCHANGED <<config, table, table_gen, parsed, seen, target, commands, schedule, count>>

Recheck(t) ==
  /\ pc[t] = "recheck"
  /\ seen' = [seen EXCEPT ![t] = config_gen]
  /\ IF table_gen = config_gen THEN Goto(t, "use") /\ refresher' = NoTask
     ELSE Goto(t, "parse") /\ UNCHANGED refresher
  /\ UNCHANGED <<config, table, table_gen, parsed, target, commands, schedule, count>>

Parse(t) ==
  /\ pc[t] = "parse" /\ Goto(t, "publish")
  /\ parsed' = [parsed EXCEPT ![t] = storage]
  /\ UNCHANGED <<config, table, table_gen, refresher, seen, target, commands, schedule, count>>

Publish(t) ==
  /\ pc[t] = "publish" /\ Goto(t, "stamp")
  /\ table' = parsed[t]
  /\ UNCHANGED <<config, table_gen, refresher, parsed, seen, target, commands, schedule, count>>

Stamp(t) ==
  /\ pc[t] = "stamp" /\ Goto(t, "use")
  /\ table_gen' = seen[t]
  /\ refresher' = NoTask
  /\ UNCHANGED <<config, table, parsed, seen, target, commands, schedule, count>>

Refresh(t) ==
  \/ Look(t) \/ Compare(t) \/ Lock(t) \/ Recheck(t)
  \/ Parse(t) \/ Publish(t) \/ Stamp(t)

-----------------------------------------------------------------------------
(* Clients                                                                 *)

(* Variant: marked first, changed then.                                     *)
MarkThenChange(c) ==
  /\ \/ /\ pc[c] = "idle" /\ storage < Len(Tables) /\ Goto(c, "mark")
        /\ config_gen' = config_gen + 1 /\ UNCHANGED <<storage, mine>>
     \/ /\ pc[c] = "mark" /\ Goto(c, "idle")
        /\ storage' = storage + 1 /\ mine' = [mine EXCEPT ![c] = storage + 1]
        /\ UNCHANGED config_gen
  /\ UNCHANGED <<refresh, seen, target, commands, schedule, count>>

(* The configuration is changed, then marked as changed.                     *)
ChangeConfig(c) ==
  /\ \/ /\ pc[c] = "idle" /\ storage < Len(Tables) /\ Goto(c, "mark")
        /\ storage' = storage + 1 /\ mine' = [mine EXCEPT ![c] = storage + 1]
        /\ UNCHANGED config_gen
     \/ /\ pc[c] = "mark" /\ Goto(c, "idle")
        /\ config_gen' = config_gen + 1 /\ UNCHANGED <<storage, mine>>
  /\ UNCHANGED <<refresh, seen, target, commands, schedule, count>>

(* on_control_word_written                                                 *)
WriteWord(c, l) ==
  /\ pc[c] = "idle" /\ Goto(c, "look")
  /\ count < MaxCommands /\ count' = count + 1
  /\ target' = [target EXCEPT ![c] = l]
  /\ UNCHANGED <<config, refresh, seen, commands, schedule>>

(* command_for_logic                                                       *)
CommandFor(l, on) ==
  LET plan == Tables[table][l]
  IN [logic |-> l, scope |-> plan.scope, on |-> on, delay |-> plan.delay, pulse |-> plan.pulse]

(* The command is lost when the ring is full or locked; there is none when    *)
(* the logic has no control for the value.                                  *)
Enqueue(c) ==
  /\ pc[c] = "use" /\ Goto(c, "idle")
  /\ \/ /\ table > 0 /\ Len(commands) < QueueSize
        /\ \E on \in SUBSET Tables[table][target[c]].scope :
             commands' = Append(commands, CommandFor(target[c], on))
     \/ UNCHANGED commands
  /\ UNCHANGED <<config, refresh, seen, target, schedule, count>>

-----------------------------------------------------------------------------
(* tick                                                                    *)

BeginCommands ==
  /\ pc[Main] = "use" /\ Goto(Main, "commands")
  /\ quota' = PerPass /\ since' = 0
  /\ UNCHANGED <<config, refresh, seen, target, commands, scheduled, index, out, transient,
                 late, orphaned, count>>

Left(time) == IF since >= time THEN 0 ELSE time - since

(* One edge, or both of a pulse.                                            *)
Edges(c) ==
  LET edge(time, value, brief) ==
        [logic |-> c.logic, left |-> Left(time), mask |-> c.scope,
         value |-> value, transient |-> brief]
  IN IF c.pulse = 0 THEN <<edge(c.delay, c.on, FALSE)>>
     ELSE <<edge(c.delay, c.on, TRUE), edge(c.delay + c.pulse, {}, FALSE)>>

(* Vec::retain: what is at the places that are kept, in its order.            *)
Retain(s, kept) ==
  [n \in 1 .. Cardinality(kept) |-> s[CHOOSE i \in kept : Cardinality({j \in kept : j <= i}) = n]]
OfOthers(l) == Retain(scheduled, {i \in DOMAIN scheduled : scheduled[i].logic # l})

(* Variant: the same, with room for the first edge only.                     *)
PlanFirstEdge(c) ==
  LET others == OfOthers(c.logic)
      room   == MaxScheduled - Len(others)
      edges  == Edges(c)
  IN IF room = 0 THEN scheduled
     ELSE others \o SubSeq(edges, 1, IF room < Len(edges) THEN room ELSE Len(edges))

(* What the schedule becomes: the logic's edges are replaced if there is      *)
(* room for the new ones, else nothing happens.                             *)
Planned(c) ==
  LET others == OfOthers(c.logic)
  IN IF Len(others) + Len(Edges(c)) <= MaxScheduled THEN others \o Edges(c) ELSE scheduled

TakeCommand ==
  /\ pc[Main] = "commands" /\ quota > 0 /\ commands # <<>>
  /\ LET c == Head(commands)
     IN /\ scheduled' = Planned(c)
        /\ orphaned' = (orphaned \/ \E i \in DOMAIN scheduled :
             scheduled[i].logic = c.logic /\ ~ scheduled[i].mask \subseteq c.scope)
  /\ commands' = Tail(commands)
  /\ quota' = quota - 1
  /\ UNCHANGED <<config, refresh, seen, pc, target, index, since, out, transient, late, count>>

BothEdgesDue ==
  \E i, j \in DOMAIN scheduled :
    /\ scheduled[i].logic = scheduled[j].logic
    /\ scheduled[i].transient /\ ~ scheduled[j].transient
    /\ scheduled[i].left = 0 /\ scheduled[j].left = 0

(* Enough commands, none left, or a producer has the lock of the ring.       *)
BeginWalk ==
  /\ pc[Main] = "commands" /\ Goto(Main, "walk")
  /\ quota = 0 \/ commands = <<>> \/ \E c \in Clients : pc[c] = "use"
  /\ index' = 1 /\ quota' = 0 /\ since' = 0
  /\ late' = (late \/ BothEdgesDue)
  /\ UNCHANGED <<config, refresh, seen, target, commands, scheduled, out, transient,
                 orphaned, count>>

(* Vec::swap_remove: the last one fills the gap.                             *)
SwapRemove(s, i) == IF i = Len(s) THEN Front(s) ELSE [Front(s) EXCEPT ![i] = Last(s)]

(* Variant: transient outputs stay transient.                               *)
ApplyForever ==
  /\ pc[Main] = "walk" /\ index <= Len(scheduled)
  /\ LET e == scheduled[index]
     IN /\ e.left = 0
        /\ out' = (out \ e.mask) \union e.value
        /\ transient' = IF e.transient THEN transient \union e.mask ELSE transient
  /\ scheduled' = SwapRemove(scheduled, index)
  /\ UNCHANGED <<config, refresh, seen, pc, target, commands, index, quota, since,
                 late, orphaned, count>>

(* apply_output                                                            *)
Apply ==
  /\ pc[Main] = "walk" /\ index <= Len(scheduled)
  /\ LET e == scheduled[index]
     IN /\ e.left = 0
        /\ out' = (out \ e.mask) \union e.value
        /\ transient' = IF e.transient THEN transient \union e.mask ELSE transient \ e.mask
  /\ scheduled' = SwapRemove(scheduled, index)
  /\ UNCHANGED <<config, refresh, seen, pc, target, commands, index, quota, since,
                 late, orphaned, count>>

NotYet ==
  /\ pc[Main] = "walk" /\ index <= Len(scheduled) /\ scheduled[index].left > 0
  /\ index' = index + 1
  /\ UNCHANGED <<config, refresh, seen, pc, target, commands, scheduled, quota, since,
                 out, transient, late, orphaned, count>>

EndWalk ==
  /\ pc[Main] = "walk" /\ index > Len(scheduled) /\ Goto(Main, "look")
  /\ index' = 1
  /\ UNCHANGED <<config, refresh, seen, target, commands, scheduled, quota, since,
                 out, transient, late, orphaned, count>>

MainStep ==
  Refresh(Main) \/ BeginCommands \/ TakeCommand \/ BeginWalk \/ Apply \/ NotYet \/ EndWalk

Sooner(e) == [e EXCEPT !.left = IF @ = 0 THEN 0 ELSE @ - 1]

(* The longest time a command can have in front of it.                      *)
Horizon == FoldSet(LAMBDA v, m : IF v > m THEN v ELSE m, 0,
             {Tables[v][l].delay + Tables[v][l].pulse : v \in DOMAIN Tables, l \in Logics})

Time ==
  /\ pc[Main] # "walk"
  /\ scheduled' = [i \in DOMAIN scheduled |-> Sooner(scheduled[i])]
  /\ since' = IF pc[Main] = "commands" /\ since < Horizon THEN since + 1 ELSE since
  /\ UNCHANGED <<config, refresh, pc, seen, target, commands, index, quota, out, transient,
                 late, orphaned, count>>

-----------------------------------------------------------------------------
ClientStep(c) == Refresh(c) \/ Enqueue(c) \/ (pc[c] = "mark" /\ ChangeConfig(c))

Next ==
  \/ \E c \in Clients :
       \/ ChangeConfig(c)
       \/ \E l \in Logics : WriteWord(c, l)
       \/ Refresh(c)
       \/ Enqueue(c)
  \/ MainStep
  \/ Time

Spec == Init /\ [][Next]_vars

(* Tasks go on and so does time, which stops only in the model's walk.       *)
FairSpec ==
  /\ Spec
  /\ WF_vars(MainStep) /\ SF_vars(Time)
  /\ \A c \in Clients : WF_vars(ClientStep(c))

-----------------------------------------------------------------------------
(* Types; a task between Recheck and Stamp holds the lock; and a control     *)
(* word never meets the empty table of the boot.                            *)
TypeOK ==
  /\ {storage, config_gen} \subseteq Nat \ {0} /\ storage <= Len(Tables)
  /\ table \in 0 .. storage /\ table_gen \in 0 .. config_gen
  /\ refresher \in Tasks \union {NoTask}
  /\ pc \in [Tasks -> {"idle", "mark", "look", "compare", "lock", "recheck", "parse",
                       "publish", "stamp", "use", "commands", "walk"}]
  /\ \A t \in Tasks : pc[t] \in {"recheck", "parse", "publish", "stamp"} <=> refresher = t
  /\ \A t \in Tasks : pc[t] = "use" => table > 0
  /\ parsed \in [Tasks -> 0 .. storage] /\ seen \in [Tasks -> 0 .. config_gen]
  /\ target \in [Clients -> Logics] /\ mine \in [Clients -> 0 .. storage]
  /\ commands \in Seq(Command) /\ Len(commands) <= QueueSize
  /\ scheduled \in Seq(Edge) /\ Len(scheduled) <= MaxScheduled
  /\ index \in 1 .. MaxScheduled + 1 /\ quota \in 0 .. PerPass /\ since \in Nat
  /\ out \subseteq Outputs /\ transient \subseteq Outputs
  /\ {late, orphaned} \subseteq BOOLEAN /\ count \in 0 .. MaxCommands

(* A table that counts as up to date is: when the generations agree and no   *)
(* change waits to be marked, TABLE is the parse of what STORAGE holds, and   *)
(* no slow parser has put an older one back (control_logic.rs:438-439).      *)
TableCurrent ==
  table_gen = config_gen /\ (\A c \in Clients : pc[c] # "mark") => table = storage

(* A client that changes the configuration and then writes a control word    *)
(* has the command taken from a table at least as new as its change          *)
(* (control_logic.rs:554-556).                                             *)
OwnConfig == \A c \in Clients : pc[c] = "use" => table >= mine[c]

(* An output that is on for a pulse has the end of the pulse ahead of it      *)
(* (control_logic.rs:657-681) ...                                          *)
PulseHasItsEnd ==
  \A q \in out \intersect transient :
    \E i \in DOMAIN scheduled : q \in scheduled[i].mask /\ ~ scheduled[i].transient

(* ... as long as no walk finds both edges due and no new configuration       *)
(* takes the outputs from their logic.                                     *)
PulseEndsInTime == ~ late /\ ~ orphaned => PulseHasItsEnd

(* All that was scheduled is done some time, and then no pulse is left on.    *)
Settles ==
  <>[](/\ commands = <<>> /\ scheduled = <<>>
       /\ (~ late /\ ~ orphaned => out \intersect transient = {}))

=============================================================================
