------------------------------ MODULE Registers -----------------------------
(***************************************************************************)
(* The register map and its writers (src/src/bus/backends.rs), with the      *)
(* flags that make the device actor save what was written                    *)
(* (bus/storage_state.rs).                                                   *)
(*                                                                         *)
(* Every client is a task that runs one handler at a time; todo holds the     *)
(* steps its handler has left, and RegisterClients says which handlers there   *)
(* are.  A write goes on under RCU_WRITE_LOCK from the clone of the snapshots  *)
(* to their publication; the permission to commit logic, LOGIC_WRITE_ARMED,    *)
(* is one flag for all clients and the handheld raises it without the lock.    *)
(* Registers stand for their areas.  A save is one step here: HoldingStore     *)
(* and PendingSave have its steps.                                            *)
(***************************************************************************)
EXTENDS Integers, Sequences, FiniteSets, Functions

CONSTANTS Clients, NoClient,
  MaxArms       \* bound: permissions given since the boot

Magic == 2              \* 0x55AA as a word, a reserved port, a malformed address
Vals  == 0..2

Conf    == {"name", "ip", "port1", "port2", "sn"}   \* SystemConfig; sn: what has no rule at the save
Logic   == {"logic1", "logic2"}                     \* 2300..4221
Holding == Logic \union {"mcast", "range", "user", "rawname", "protect"}
Text    == {"text"}
Legacy  == {"control"}
Regs    == Conf \union Holding \union Text \union Legacy
Area    == (Conf \union Holding) \ {"rawname", "user"}      \* 2176..4223

Images  == {"config", "holding", "text", "legacy"}
ImageOf(r) == CASE r \in Conf -> "config" [] r \in Holding -> "holding"
                [] r \in Text -> "text"   [] r \in Legacy  -> "legacy"

ASSUME ClientsAssumption == NoClient \notin Clients /\ MaxArms \in Nat

VARIABLES
  reg, armed, dirty,    \* CONFIG and STORAGE, LOGIC_WRITE_ARMED, the dirty flags
  flash,                \* what a restart finds
  todo, lock, commit,   \* steps left of each client; who holds RCU_WRITE_LOCK; logic_commit
  promised,             \* history: registers whose last writer was told they last
  arms, commits         \* history: permissions given, writes committed with one

registers == <<reg, armed, dirty, flash, promised>>
writers   == <<todo, lock, commit>>
counts    == <<arms, commits>>
regVars   == <<registers, writers, counts>>

Nothing  == <<>>                                \* no register, no step
Defaults == [r \in Regs |-> IF r = "port2" THEN 1 ELSE 0]

RegInit ==
  /\ reg = Defaults /\ flash = Defaults /\ armed = FALSE /\ dirty = {}
  /\ todo = [c \in Clients |-> Nothing] /\ lock = NoClient /\ commit = FALSE
  /\ promised = Regs \ {"protect"} /\ arms = 0 /\ commits = 0

(* What a handler does, one call after the other: what to do, with which         *)
(* registers or image, and how it goes on when that is refused.                *)
Step(what, b, image, otherwise) == <<[do |-> what, regs |-> b, image |-> image, or |-> otherwise]>>
WriteOr(b, otherwise) == Step("write", b, "none", otherwise)    \* write_hold_reg, write_hold_regs
Write(b)     == WriteOr(b, Nothing)
Change(b)    == Step("change", b, "config", Nothing)            \* config_modify
Modify(b)    == Step("modify", b, "holding", Nothing)           \* storage_modify_holding
CopyName     == Step("mirror", Nothing, "holding", Nothing)     \* sync_ble_name_holding
Flag(image)  == Step("mark", Nothing, image, Nothing)
Arm          == Step("arm", Nothing, "none", Nothing)
Disarm       == Step("disarm", Nothing, "none", Nothing)
Save(image)  == Step("save", Nothing, image, Nothing)           \* when its flag is up
SaveAnyway(image) == Step("force", Nothing, image, Nothing)          \* flag or no flag
Success(b)   == Step("success", b, "none", Nothing)

Doing(c, what) == todo[c] # Nothing /\ Head(todo[c]).do = what
Arg(c)         == Head(todo[c]).regs
Done(c)        == todo' = [todo EXCEPT ![c] = Tail(@)]
Refused(c)     == todo' = [todo EXCEPT ![c] = Head(@).or]

(* The flags a client is just about to raise, having changed what they are for.  *)
Owed(c) ==
  {todo[c][i].image : i \in {i \in DOMAIN todo[c] :
     /\ todo[c][i].do \in {"mark", "mirror", "force"}
     /\ \A j \in 1..i : todo[c][j].do \notin {"write", "change", "modify"}}}

(* mark_holding_dirty raises the flag of the NFC tag as well.                  *)
WithTag(marks) == marks \union (IF "holding" \in marks THEN {"nfc"} ELSE {})

-----------------------------------------------------------------------------
(* Writes by register address                                              *)

(* The permission is looked at when the write begins.  A batch that ends at    *)
(* the protect word brings its own.                                          *)
Lock(c) ==
  /\ Doing(c, "write") /\ lock = NoClient /\ lock' = c
  /\ commit' = IF "protect" \in DOMAIN Arg(c) THEN Arg(c)["protect"] = Magic ELSE armed
  /\ UNCHANGED <<registers, todo, counts>>

Single(b) == Cardinality(DOMAIN b) = 1

(* valid_tcp_ports.  One register written in 2176..4223 is checked whatever it  *)
(* is, a batch when it changes the configuration.                             *)
ValidPorts(r) == r["port1"] # r["port2"] /\ r["port1"] # Magic /\ r["port2"] # Magic
Checked(b) ==
  IF Single(b) THEN DOMAIN b \cap (Area \ {"protect"}) # {} ELSE DOMAIN b \cap Conf # {}

Written(b) == [r \in Regs |-> IF r \in DOMAIN b THEN b[r] ELSE reg[r]]

(* Refused before anything is published.                                     *)
Refuse(c) ==
  /\ lock = c /\ Checked(Arg(c)) /\ ~ValidPorts(Written(Arg(c)))
  /\ lock' = NoClient /\ Refused(c)
  /\ UNCHANGED <<registers, commit, counts>>

(* What is durable marks its image: text after the lock, and so does a batch    *)
(* the configuration and the mirrored name.  A logic register marks nothing    *)
(* unless its write was permitted, a sensor range never.  Variant: the          *)
(* multicast registers are changed in RAM only.                              *)
ConfigMarks(b) ==
  (IF DOMAIN b \cap Conf # {} THEN Flag("config") ELSE Nothing)
    \o (IF "name" \in DOMAIN b THEN Flag("holding") ELSE Nothing)
MarksAfter(b) ==
  IF DOMAIN b \subseteq Text THEN Flag("text") ELSE IF Single(b) THEN Nothing ELSE ConfigMarks(b)
LogicMarks(b) == IF commit /\ DOMAIN b \cap Logic # {} THEN {"holding"} ELSE {}
MarksButMulticast(b) ==
  {ImageOf(r) : r \in DOMAIN b \cap (Legacy \union {"user"})}
    \union LogicMarks(b) \union (IF Single(b) THEN {s.image : s \in Range(ConfigMarks(b))} ELSE {})
MarksInside(b) ==
  {ImageOf(r) : r \in DOMAIN b \cap (Legacy \union {"user", "mcast"})}
    \union LogicMarks(b) \union (IF Single(b) THEN {s.image : s \in Range(ConfigMarks(b))} ELSE {})

(* Variant: a permission that was used stays.                                *)
SpendsNothing(b) == FALSE

(* Writing permitted logic, or any text, uses the permission up and clears the  *)
(* protect word.                                                           *)
Spends(b) == (commit /\ DOMAIN b \cap Logic # {}) \/ (armed /\ DOMAIN b \subseteq Text)

Lasting(b) == {r \in DOMAIN b : r \notin {"range", "protect"} /\ (r \in Logic => commit)}

(* The name has a copy among the holding registers.  Variant: only a register     *)
(* written alone updates it.                                                *)
MirroredAlone(b) == IF DOMAIN b = {"name"} THEN {"rawname"} ELSE {}
Mirrored(b)      == IF "name" \in DOMAIN b THEN {"rawname"} ELSE {}

(* The snapshots are replaced, the permission settled, the lock released.       *)
Publish(c) ==
  LET b == Arg(c) IN
  /\ lock = c /\ (Checked(b) => ValidPorts(Written(b)))
  /\ "protect" \in DOMAIN b /\ commit => arms < MaxArms
  /\ reg' = [r \in Regs |-> CASE r = "protect" /\ Spends(b) -> 0
                              [] r \in Mirrored(b) -> b["name"]
                              [] OTHER -> Written(b)[r]]
  /\ armed' = IF Spends(b) THEN FALSE ELSE IF "protect" \in DOMAIN b THEN commit ELSE armed
  /\ dirty' = dirty \union WithTag(MarksInside(b))
  /\ promised' = (promised \ DOMAIN b) \union Lasting(b) \union Mirrored(b)
  /\ commits' = IF commit /\ DOMAIN b \cap Logic # {} THEN commits + 1 ELSE commits
  /\ arms' = IF "protect" \in DOMAIN b /\ commit THEN arms + 1 ELSE arms
  /\ lock' = NoClient /\ todo' = [todo EXCEPT ![c] = MarksAfter(b) \o Tail(@)]
  /\ UNCHANGED <<flash, commit>>

-----------------------------------------------------------------------------
(* The other calls of the handlers                                         *)

ArmLogicWrite(c) ==
  /\ Doing(c, "arm") /\ Done(c) /\ arms < MaxArms
  /\ armed' = TRUE /\ arms' = arms + 1
  /\ UNCHANGED <<reg, dirty, flash, promised, lock, commit, commits>>

DisarmLogicWrite(c) ==
  /\ Doing(c, "disarm") /\ Done(c) /\ armed' = FALSE
  /\ UNCHANGED <<reg, dirty, flash, promised, lock, commit, counts>>

(* One closure over SystemConfig, without a look at the ports and without a      *)
(* flag: a handler that raises none later leaves that to AT+CFGAPPLY.           *)
ChangeConfig(c) ==
  LET later == {s.image : s \in {s \in Range(todo[c]) : s.do \in {"mark", "force"}}} IN
  /\ Doing(c, "change") /\ lock = NoClient /\ Done(c)
  /\ reg' = Written(Arg(c))
  /\ promised' = IF "config" \in later THEN promised \union DOMAIN Arg(c) ELSE promised \ DOMAIN Arg(c)
  /\ UNCHANGED <<armed, dirty, flash, lock, commit, counts>>

(* storage_modify_holding raises the flags before it lets go of the lock.        *)
ModifyHolding(c) ==
  /\ Doing(c, "modify") /\ lock = NoClient /\ Done(c)
  /\ reg' = Written(Arg(c)) /\ dirty' = dirty \union {"holding", "nfc"}
  /\ promised' = promised \union DOMAIN Arg(c)
  /\ UNCHANGED <<armed, flash, lock, commit, counts>>

(* sync_ble_name_holding takes the name there is by now.                      *)
Mirror(c) ==
  /\ Doing(c, "mirror") /\ lock = NoClient /\ Done(c)
  /\ reg' = [reg EXCEPT !["rawname"] = reg["name"]] /\ dirty' = dirty \union {"holding", "nfc"}
  /\ UNCHANGED <<armed, flash, promised, lock, commit, counts>>

Keeps(image) == promised \union (IF image = "config" THEN Conf ELSE {})

Mark(c) ==
  /\ Doing(c, "mark") /\ Done(c)
  /\ dirty' = dirty \union WithTag({Head(todo[c]).image}) /\ promised' = Keeps(Head(todo[c]).image)
  /\ UNCHANGED <<reg, armed, flash, lock, commit, counts>>

(* validate_for_persistence                                                 *)
Saveable(image) == image = "config" => ValidPorts(reg) /\ reg["ip"] # Magic
Saved(image)    == [r \in Regs |-> IF ImageOf(r) = image THEN reg[r] ELSE flash[r]]
Due(c)          == Doing(c, "force") \/ (Doing(c, "save") /\ Head(todo[c]).image \in dirty)

(* A save asked for by a handler; without its flag there is nothing to save and  *)
(* that is a success.                                                      *)
SaveNow(c) ==
  LET image == Head(todo[c]).image IN
  /\ Due(c) /\ Saveable(image) /\ Done(c)
  /\ flash' = Saved(image) /\ dirty' = dirty \ {image} /\ promised' = Keeps(image)
  /\ UNCHANGED <<reg, armed, lock, commit, counts>>

NothingToSave(c) ==
  /\ Doing(c, "save") /\ ~Due(c) /\ Done(c)
  /\ UNCHANGED <<registers, lock, commit, counts>>

SaveFails(c) ==
  LET image == Head(todo[c]).image IN
  /\ Due(c) /\ Refused(c) /\ dirty' = dirty \union {image} /\ promised' = Keeps(image)
  /\ UNCHANGED <<reg, armed, flash, lock, commit, counts>>

Answer(c) == Doing(c, "success") /\ Done(c) /\ UNCHANGED <<registers, lock, commit, counts>>

(* The device actor saves in its idle rounds.                                *)
IdleSave ==
  \E image \in dirty \cap Images :
    /\ Saveable(image) /\ flash' = Saved(image) /\ dirty' = dirty \ {image}
    /\ UNCHANGED <<reg, armed, promised, writers, counts>>

(* The power goes, or a reset; the boot mirrors the name again.               *)
RegRestart ==
  /\ reg' = [flash EXCEPT !["rawname"] = flash["name"]]
  /\ dirty' = IF flash["rawname"] # flash["name"] THEN {"holding", "nfc"} ELSE {}
  /\ armed' = FALSE /\ promised' = Regs \ {"protect"}
  /\ todo' = [c \in Clients |-> Nothing] /\ lock' = NoClient /\ commit' = FALSE
  /\ arms' = 0 /\ commits' = 0 /\ UNCHANGED flash

CallStep(c) ==
  \/ Lock(c) \/ Refuse(c) \/ Publish(c) \/ ArmLogicWrite(c) \/ DisarmLogicWrite(c)
  \/ ChangeConfig(c) \/ ModifyHolding(c) \/ Mirror(c) \/ Mark(c)
  \/ SaveNow(c) \/ NothingToSave(c) \/ SaveFails(c) \/ Answer(c)

-----------------------------------------------------------------------------
(* Whatever way a register that must last is written (alone, in a batch, as the  *)
(* mirror of the name, by AT or Web), its image has a flag up until it is saved,  *)
(* or its writer is just about to raise it; so no answered write is forgotten    *)
(* (backends.rs:1131-1497, cfg_handlers.rs:340-388).                          *)
FlashFollows ==
  \A r \in promised : reg[r] # flash[r] =>
    ImageOf(r) \in dirty \union UNION {Owed(c) : c \in Clients}

(* One permission commits the logic of one write, whoever uses it and          *)
(* whenever others raise it (backends.rs:49-54, 1181, 1237-1250, 1395-1412).    *)
OneCommitPerPermission == commits + (IF armed THEN 1 ELSE 0) <= arms

(* What the handheld's success means (logic_handlers.rs:227-230): the table     *)
(* it wrote is in flash.                                                    *)
AckMeansSaved ==
  \A c \in Clients : Doing(c, "success") =>
    \A r \in DOMAIN Arg(c) : reg[r] = Arg(c)[r] => flash[r] = reg[r]
=============================================================================
